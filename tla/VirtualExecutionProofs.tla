----------------------- MODULE VirtualExecutionProofs -----------------------
(***************************************************************************)
(* At most one ordered call of an object takes effects at a time, on all   *)
(* executors together: EffectExclusion, for any calls, tasks and pulses,   *)
(* for nodes that change the pulse at different moments and for messages   *)
(* that are late or miss their pulse.                                      *)
(*                                                                         *)
(* The right to act is handed from executor to executor.  Claims(c) are    *)
(* the ordered calls that have acted in pulse c, or in a pulse after it,   *)
(* and may act again: they act now, they have a token, or their request    *)
(* for one is on its way.  The core of the invariant is that Claims(c) has *)
(* at most one element (ClaimsInv).  It grows in two ways only: a call     *)
(* starts at executor c, or executor c grants a token.  A call starts      *)
(* behind the open gate, and the gate opens only when the claims from      *)
(* before are spent (GateInv): no call holds one but by a request that     *)
(* will be refused.                                                        *)
(*                                                                         *)
(* An executor opens its gate because of a report without ordered calls or *)
(* of the end of the call it waited for.  The first is right because a     *)
(* token is noted in the pending list of the executor that gives it, and   *)
(* the report counts that list (PendingInv, ReportInv, MessageInv); the    *)
(* second because the call that ended was the only claim.                  *)
(*                                                                         *)
(* The second part proves that a method that is called again runs once:    *)
(* MethodsRunOnce and, for calls that are repeated soon, AtMostOnce.  The  *)
(* third proves that the executors use their tables as CallRegistry says   *)
(* (RegistryUse).                                                          *)
(***************************************************************************)
EXTENDS VirtualExecution, RequestListsProofs

-----------------------------------------------------------------------------
(* The steps of SMExecute before and after the start of the contract code *)
EarlySteps == {"waitObjectReady", "waitConstructor", "deduplicate", "waitFindCall",
               "takeLock", "lifeline", "start"}
ActingSteps == {"execute", "saveNewObject", "sendCallResult", "finishRequest",
                "callSummary", "sendFinished"}

(* The pulse that the node of task t is in *)
NodeOf(t) == clock[SlotOf[t]]

(* The call may act: it does not wait for a token, or the token has come.  *)
CanAct(tk) == tk.active /\ (tk.pc = "getToken" => tk.granted # UnknownPulse)
Hot(t) == CanAct(task[t])

(* A request for the token of this pulse is on its way. *)
Requested(t) == DelegatedCallRequest(NodeOf(t), t) \in msgs

Claims(c) ==
    {t \in Tasks : /\ IsOrdered(t) /\ task[t].active
                   /\ SlotOf[t] <= c /\ c <= NodeOf(t)
                   /\ NodeOf(t) = c => Hot(t)
                   /\ NodeOf(t) = c + 1 => Hot(t) \/ Requested(t)}

(* The slot of pulse p is future or present. *)
Live(p) == clock[p] <= p

(* The executor of the pulse before p has left its pulse. *)
Sealed(p) == p <= ObjectPulse \/ clock[p - 1] >= p

(* The claims from before pulse p are requests only, and executor p will   *)
(* refuse them.                                                            *)
Heard(p) == \A t \in Claims(p - 1) : NodeOf(t) = p /\ ~ Hot(t)
Quiet(p) == Heard(p) /\ (Claims(p - 1) # {} =>
                             object[p].oldestPending[Tolerable] = UnknownPulse)

(* Clocks of two nodes differ by one at most; the model starts at the end  *)
(* of a pulse.                                                             *)
ClockInv == /\ \A n \in Pulses : clock[n] - 1 \in Pulses
            /\ \A m, n \in Pulses : clock[m] <= clock[n] + 1

(* A machine in the slot of pulse slot, on a node in pulse node *)
TaskOK(tk, node, slot) ==
    /\ tk.active => /\ tk.pc \in ActingSteps \cup {"getToken"}
                    /\ tk.lock /\ tk.negotiated
                    /\ IF tk.migrated THEN node > slot ELSE node = slot
    /\ tk.pc = "getToken" => tk.active /\ tk.migrated /\ tk.resume \in ActingSteps
    /\ tk.pc \in {"execute", "saveNewObject", "callSummary", "sendFinished"} => tk.active
    /\ "saveNewObject" \in {tk.pc, tk.resume} => tk.outcome # "error"
    /\ {"callSummary", "sendFinished"} \cap {tk.pc, tk.resume} # {} => tk.migrated
    /\ tk.granted # UnknownPulse => tk.pc = "getToken"
    /\ tk.pc \notin Ended \cup {"idle"} /\ ~ tk.active => node = slot /\ ~ tk.migrated
    /\ tk.pc \in EarlySteps \ {"waitObjectReady", "waitConstructor"} => tk.negotiated
    /\ tk.pc \in {"lifeline", "start"} => tk.lock
    /\ tk.pc \in Ended \cup {"idle"} => ~ tk.lock /\ ~ tk.migrated
    /\ tk.pc # "getToken" => tk.resume = "idle"
    /\ tk.pc \in {"idle", "waitObjectReady", "waitConstructor"} => ~ tk.negotiated

TaskInv == \A t \in Tasks : TaskOK(task[t], NodeOf(t), SlotOf[t])

(* OrderedExecute admits one at a time, and only when it is open. *)
LockInv ==
    /\ \A t, u \in Tasks :
          IsOrdered(t) /\ task[t].lock /\ IsOrdered(u) /\ task[u].lock /\ SlotOf[t] = SlotOf[u]
              => t = u
    /\ \A t \in Tasks :
          IsOrdered(t) /\ task[t].lock /\ NodeOf(t) = SlotOf[t]
              => object[SlotOf[t]].execute[Tolerable]

(* The object o of pulse p, on a node in pulse node *)
ObjectOK(o, p, node) ==
    /\ o.phase = "none" => o = NewObject("none")
    /\ o.phase \in {"none", "getState", "waitState", "asleep"} => ~ o.ReadyToWork
    /\ o.phase \in {"publish", "finalize"} => node = p + 1
    /\ o.asked => p - 1 \in Pulses
    /\ o.execute[Tolerable] => o.ReadyToWork
    /\ o.ReadyToWork => o.state # "Unknown"
    /\ \A f \in Flags, r \in Requests : o.pending[f].requests[r] # "Unknown" => FlagOf[r] = f
    /\ node <= p /\ o.state = "Unknown" => o.pending[Tolerable] = NewList

ObjectInv == \A p \in Pulses : ObjectOK(object[p], p, clock[p])

(* A call that runs has its object, and one that has passed                *)
(* stepStartRequestProcessing is in the working list.                      *)
Started(tk) == /\ tk.pc \in {"execute", "saveNewObject", "sendCallResult", "finishRequest"}
               /\ tk.negotiated /\ ~ tk.migrated
Listed(o, r) == o.known[FlagOf[r]].requests[r] \in {"Processing", "Finished"}
KnownInv ==
    \A t \in Tasks :
        /\ task[t].pc \notin Ended \cup {"idle"} => object[SlotOf[t]].phase # "none"
        /\ Started(task[t]) => Listed(object[SlotOf[t]], Call[t])

ClaimsInv == \A c \in Pulses : \A t, u \in Claims(c) : t = u

(* A call that ends with an error before the negotiation of its queue: it  *)
(* may finish a request that another machine has only started, and leave   *)
(* the working list with a wrong count.                                    *)
EarlyError(tk, r) == /\ tk.pc \in {"sendCallResult", "finishRequest"}
                     /\ ~ tk.negotiated /\ CallFlag[r] = Tolerable
Unresolved(t) == EarlyError(task[t], Call[t])

(* What is true only of an executor with no claim to wait for *)
ObjectFree(o) == \/ o.state # "Unknown" /\ o.prevPending[Tolerable] = 0
                 \/ o.execute[Tolerable]
                 \/ o.state = "Missing"
                 \/ ~ ListConsistent(o.known[Tolerable])
Free(p) == \/ ObjectFree(object[p])
           \/ \E t \in Tasks : SlotOf[t] = p /\ Unresolved(t)

GateInv ==
    \A p \in Pulses : Live(p) =>
        /\ object[p].state # "Unknown" => Sealed(p)
        /\ Free(p) => object[p].state # "Unknown" /\ Quiet(p)

(* The list of pending calls of an executor that still has a claim to wait *)
(* for *)
OnlyAdded(list) == /\ \A r \in Requests : list.requests[r] \in {"Unknown", "Processing"}
                   /\ list.countActive \in Nat
                   /\ Active(list) # {} => list.countActive > 0

PendingInv ==
    /\ \A t \in Tasks : IsOrdered(t) /\ Hot(t) /\ NodeOf(t) > SlotOf[t] /\ Live(NodeOf(t))
          => object[NodeOf(t)].pending[Tolerable].requests[Call[t]] = "Processing"
    /\ \A p \in Pulses : Live(p) /\ Claims(p - 1) # {} => OnlyAdded(object[p].pending[Tolerable])

(* A report tells of a pulse that has ended, and one without ordered calls *)
(* of an executor that has left no claim; when a delegated call reports    *)
(* its end its claim is gone.                                              *)
ReportOK(m) == /\ Sealed(m.to)
               /\ (/\ Live(m.to) /\ object[m.to].state = "Unknown"
                   /\ m.report.OrderedPendingCount = 0) => Heard(m.to)
FinishedOK(m) == IsOrdered(m.task) /\ Live(m.to) => Claims(m.to - 1) = {} /\ Sealed(m.to)

MessageInv == \A m \in msgs : /\ m.type = "VStateReport" => ReportOK(m)
                              /\ m.type = "VDelegatedRequestFinished" => FinishedOK(m)

(* The same for the report that the executor before p would answer with.   *)
NothingLeft(p) == ~ HasLeft(p) \/ object[p].report.OrderedPendingCount = 0
ReportInv ==
    \A p \in Pulses :
        (/\ p - 1 \in Pulses /\ clock[p - 1] = p /\ Live(p)
         /\ object[p].state = "Unknown" /\ NothingLeft(p - 1)) => Heard(p)

CoreInv == ClaimsInv /\ GateInv /\ PendingInv /\ MessageInv /\ ReportInv
LocalInv == ClockInv /\ TaskInv /\ LockInv /\ ObjectInv /\ KnownInv

ExecutorInv == TypeOK /\ LocalInv /\ CoreInv

-----------------------------------------------------------------------------
(***************************************************************************)
(* Types                                                                   *)
(***************************************************************************)

(* Pulses are positive numbers up to the last one, without gaps. *)
LEMMA PulseFacts ==
    /\ Pulses \subseteq Nat \ {0}
    /\ LastPulse \in Pulses /\ LastPulse \in Nat
    /\ \A p \in Pulses : p \in Nat /\ p # 0 /\ p <= LastPulse
    /\ \A p \in Pulses : p < LastPulse => p + 1 \in Pulses
    /\ \A p, q \in Pulses, i \in Int : p <= i /\ i <= q => i \in Pulses
    /\ ObjectPulse \in Pulses
    /\ \A t \in Tasks : SlotOf[t] \in Pulses /\ ObjectPulse <= SlotOf[t]
<1>1. /\ Pulses \subseteq Nat \ {0}
      /\ LastPulse \in Pulses
      /\ \A p \in Pulses : p <= LastPulse /\ p .. LastPulse \subseteq Pulses
  BY PulsesAssumption, PulsesInSequence
<1>2. \A p \in Pulses : p \in Nat /\ p # 0
  BY <1>1
<1>3. \A p, q \in Pulses, i \in Int : p <= i /\ i <= q => i \in Pulses
  <2> SUFFICES ASSUME NEW p \in Pulses, NEW q \in Pulses, NEW i \in Int, p <= i, i <= q
               PROVE  i \in Pulses
    OBVIOUS
  <2>1. q <= LastPulse /\ q \in Nat /\ p \in Nat /\ LastPulse \in Nat
    BY <1>1, <1>2
  <2>2. i \in p .. LastPulse
    BY <2>1
  <2> QED
    BY <1>1, <2>2
<1>4. ASSUME NEW t \in Tasks PROVE SlotOf[t] \in Pulses /\ ObjectPulse <= SlotOf[t]
  <2>1. /\ SlotOf[t] \in Pulses /\ Call[t] \in Requests
        /\ PulseOf[Call[t]] <= SlotOf[t] /\ ObjectPulse <= PulseOf[Call[t]]
        /\ PulseOf[Call[t]] \in Pulses
    BY TasksAssumption, ObjectAgeAssumption, PulsesAssumption
  <2> QED
    BY <2>1, <1>2, ObjectPulseAssumption
<1>5. \A p \in Pulses : p < LastPulse => p + 1 \in Pulses
  BY <1>1, <1>2, <1>3
<1> QED
  BY <1>1, <1>2, <1>3, <1>4, <1>5, ObjectPulseAssumption

(* What a call is, for each task. *)
LEMMA CallFacts ==
    /\ \A t \in Tasks : Call[t] \in Requests
    /\ \A r \in Requests : FlagOf[r] \in Flags /\ CallFlag[r] \in Flags
    /\ Tolerable \in Flags /\ Intolerable \in Flags
BY TasksAssumption, RequestKindsAssumption DEF FlagOf, Flags

(* A machine that has ended keeps nothing but its result. *)
LEMMA EndTaskFacts ==
    ASSUME NEW tk \in TaskType, NEW pc \in TaskStep
    PROVE  /\ EndTask(tk, pc) \in TaskType
           /\ EndTask(tk, pc).pc = pc
           /\ EndTask(tk, pc).resume = "idle"
           /\ ~ EndTask(tk, pc).active /\ ~ EndTask(tk, pc).lock
           /\ ~ EndTask(tk, pc).migrated /\ ~ EndTask(tk, pc).negotiated
           /\ EndTask(tk, pc).granted = UnknownPulse
<1>1. IdleTask \in TaskType
  BY DEF IdleTask, TaskType, TaskStep, Ended, Outcome, Descriptor, NoDescriptor
<1> DEFINE new == [IdleTask EXCEPT !.pc = pc, !.ran = tk.ran, !.answer = tk.answer,
                                   !.outcome = tk.outcome]
<1>2. EndTask(tk, pc) = new
  BY DEF EndTask
<1>3. /\ tk.ran \in BOOLEAN /\ tk.outcome \in Outcome
      /\ tk.answer \in {"none", "resent", "error", "ok"}
  BY DEF TaskType
<1>4. new \in TaskType
  BY <1>1, <1>3 DEF TaskType
<1>5. /\ new.pc = pc /\ new.resume = "idle" /\ ~ new.active /\ ~ new.lock
      /\ ~ new.migrated /\ ~ new.negotiated /\ new.granted = UnknownPulse
  BY DEF IdleTask
<1> QED
  BY <1>2, <1>4, <1>5

(* A new SMObject *)
LEMMA NewObjectFacts ==
    ASSUME NEW phase \in ObjectPhase
    PROVE  /\ NewObject(phase) \in ObjectType
           /\ MissingReport \in VStateReport /\ NoDescriptor \in Descriptor
<1>1. NewList \in ListType
  BY NewListConsistent
<1>2. NoDescriptor \in Descriptor
  BY DEF NoDescriptor, Descriptor
<1>3. MissingReport \in VStateReport
  BY <1>2 DEF MissingReport, VStateReport, StateStatus
<1>4. /\ [f \in Flags |-> NewList] \in [Flags -> ListType]
      /\ [r \in Requests |-> "none"] \in [Requests -> CallSummary]
      /\ [f \in Flags |-> 0] \in [Flags -> Nat]
      /\ [f \in Flags |-> UnknownPulse] \in [Flags -> Pulses \cup {UnknownPulse}]
      /\ [f \in Flags |-> FALSE] \in [Flags -> BOOLEAN]
  BY <1>1 DEF CallSummary
<1>5. "Unknown" \in ObjectState
  BY DEF ObjectState
<1> QED
  BY <1>2, <1>3, <1>4, <1>5 DEF NewObject, ObjectType

-----------------------------------------------------------------------------
(***************************************************************************)
(* Claims                                                                  *)
(***************************************************************************)

(* The parts of the types that claims depend on *)
LEMMA TypeFacts ==
    ASSUME TypeOK
    PROVE  /\ \A p \in Pulses : clock[p] \in Pulses /\ clock[p] \in Nat /\ p \in Nat
           /\ \A p \in Pulses : object[p] \in ObjectType
           /\ \A t \in Tasks : /\ task[t] \in TaskType
                               /\ NodeOf(t) \in Pulses /\ NodeOf(t) \in Nat
                               /\ SlotOf[t] \in Nat
BY PulseFacts DEF TypeOK, NodeOf

(* A call that acts on another node than in its own pulse has a claim on   *)
(* the executor of the pulse that it is in.                                *)
LEMMA HotClaims ==
    ASSUME TypeOK, NEW t \in Tasks, IsOrdered(t), Hot(t), NodeOf(t) > SlotOf[t]
    PROVE  t \in Claims(NodeOf(t) - 1)
BY TypeFacts DEF Claims, Hot, CanAct

(* A step in which no call gains the right to act and no token is asked    *)
(* for leaves no new claim.                                                *)
LEMMA ClaimsShrink ==
    ASSUME clock' = clock,
           \A t \in Tasks : IsOrdered(t) => (task'[t].active => task[t].active) /\ (Hot(t)' => Hot(t)),
           \A t \in Tasks : Requested(t)' => Requested(t)
    PROVE  /\ \A c : Claims(c)' \subseteq Claims(c)
           /\ \A p : Heard(p) => Heard(p)'
<1>1. \A t \in Tasks : NodeOf(t)' = NodeOf(t) /\ (IsOrdered(t)' <=> IsOrdered(t))
  BY DEF NodeOf, IsOrdered
<1>2. ASSUME NEW c, NEW t \in Claims(c)' PROVE t \in Claims(c)
  BY <1>1, <1>2 DEF Claims, IsOrdered
<1>3. ASSUME NEW p, Heard(p) PROVE Heard(p)'
  <2> SUFFICES ASSUME NEW t \in Claims(p - 1)' PROVE (NodeOf(t) = p /\ ~ Hot(t))'
    BY DEF Heard
  <2>1. t \in Claims(p - 1)
    BY <1>2
  <2>2. t \in Tasks /\ NodeOf(t) = p /\ ~ Hot(t) /\ IsOrdered(t)
    BY <2>1, <1>3 DEF Heard, Claims
  <2> QED
    BY <2>2, <1>1
<1> QED
  BY <1>2, <1>3

(* A step that makes no new claim and does not change a list of pending    *)
(* calls that somebody still has a claim on *)
LEMMA SoftStep ==
    ASSUME TypeOK, TypeOK', CoreInv, clock' = clock,
           \A t \in Tasks : IsOrdered(t) => (task'[t].active => task[t].active) /\ (Hot(t)' => Hot(t)),
           \A m \in msgs' : \/ m \in msgs
                            \/ m.type = "VStateReport" /\ ReportOK(m)
                            \/ m.type = "VDelegatedRequestFinished" /\ FinishedOK(m)',
           \A p \in Pulses :
              /\ object'[p].state = "Unknown" => object[p].state = "Unknown"
              /\ NothingLeft(p)' => NothingLeft(p)
              /\ \/ object'[p].pending[Tolerable] = object[p].pending[Tolerable]
                 \/ Claims(p - 1) = {}
    PROVE  /\ \A c : Claims(c)' \subseteq Claims(c)
           /\ \A p : Heard(p) => Heard(p)'
           /\ ClaimsInv' /\ PendingInv' /\ MessageInv' /\ ReportInv'
<1>1. \A t \in Tasks : Requested(t)' => Requested(t)
  <2> SUFFICES ASSUME NEW t \in Tasks, Requested(t)' PROVE Requested(t)
    OBVIOUS
  <2>1. DelegatedCallRequest(NodeOf(t), t) \in msgs'
    BY DEF Requested, NodeOf
  <2>2. DelegatedCallRequest(NodeOf(t), t).type = "VDelegatedCallRequest"
    BY DEF DelegatedCallRequest
  <2> QED
    BY <2>1, <2>2 DEF Requested
<1>2. /\ \A c : Claims(c)' \subseteq Claims(c)
      /\ \A p : Heard(p) => Heard(p)'
  BY <1>1, ClaimsShrink
<1>3. /\ \A p : Live(p)' = Live(p) /\ Sealed(p)' = Sealed(p)
      /\ \A t : NodeOf(t)' = NodeOf(t) /\ (IsOrdered(t)' <=> IsOrdered(t))
  BY DEF Live, Sealed, NodeOf, IsOrdered
<1>4. ClaimsInv'
  BY <1>2 DEF ClaimsInv, CoreInv
<1>5. PendingInv'
  <2>1. ASSUME NEW t \in Tasks,
               (IsOrdered(t) /\ Hot(t) /\ NodeOf(t) > SlotOf[t] /\ Live(NodeOf(t)))'
        PROVE  (object[NodeOf(t)].pending[Tolerable].requests[Call[t]] = "Processing")'
    <3>1. IsOrdered(t) /\ Hot(t) /\ NodeOf(t) > SlotOf[t] /\ Live(NodeOf(t))
      BY <2>1, <1>3
    <3>2. Claims(NodeOf(t) - 1) # {}
      BY <3>1, HotClaims
    <3>3. NodeOf(t) \in Pulses
      BY TypeFacts
    <3> QED
      BY <3>1, <3>2, <3>3, <1>3 DEF CoreInv, PendingInv
  <2>2. ASSUME NEW p \in Pulses, (Live(p) /\ Claims(p - 1) # {})'
        PROVE  OnlyAdded(object[p].pending[Tolerable])'
    <3>1. Live(p) /\ Claims(p - 1) # {}
      BY <2>2, <1>2, <1>3
    <3>2. object'[p].pending[Tolerable] = object[p].pending[Tolerable]
      BY <3>1
    <3> QED
      BY <3>1, <3>2 DEF CoreInv, PendingInv
  <2> QED
    BY <2>1, <2>2 DEF PendingInv
<1>6. MessageInv'
  <2> SUFFICES ASSUME NEW m \in msgs'
               PROVE  /\ m.type = "VStateReport" => ReportOK(m)'
                      /\ m.type = "VDelegatedRequestFinished" => FinishedOK(m)'
    BY DEF MessageInv
  <2>1. m.to \in Pulses
    BY DEF TypeOK, MessageType
  <2>2. ReportOK(m) => ReportOK(m)'
    BY <2>1, <1>2, <1>3 DEF ReportOK
  <2>3. FinishedOK(m) => FinishedOK(m)'
    BY <1>2, <1>3 DEF FinishedOK
  <2> QED
    BY <2>2, <2>3 DEF CoreInv, MessageInv
<1>7. ReportInv'
  <2> SUFFICES ASSUME NEW p \in Pulses,
                      p - 1 \in Pulses, clock'[p - 1] = p, Live(p)',
                      object'[p].state = "Unknown", NothingLeft(p - 1)'
               PROVE  Heard(p)'
    BY DEF ReportInv
  <2>1. Heard(p)
    BY <1>3 DEF CoreInv, ReportInv
  <2> QED
    BY <2>1, <1>2
<1> QED
  BY <1>2, <1>4, <1>5, <1>6, <1>7

(* Two calls that may act are one: of two calls with clocks that differ by *)
(* one at most, both have a claim on the earlier pulse, or the later one   *)
(* has started behind an open gate.                                        *)
LEMMA HotExclusion ==
    ASSUME ExecutorInv, NEW t \in Tasks, NEW u \in Tasks,
           IsOrdered(t), IsOrdered(u), Hot(t), Hot(u)
    PROVE  t = u
<1> USE DEF ExecutorInv, LocalInv, CoreInv
<1>1. \A v \in Tasks : Hot(v) => task[v].active /\ NodeOf(v) >= SlotOf[v]
  BY TypeFacts DEF TaskInv, TaskOK, Hot, CanAct
<1>2. ASSUME NEW v \in Tasks, NEW w \in Tasks, NodeOf(v) <= NodeOf(w),
             IsOrdered(v), IsOrdered(w), Hot(v), Hot(w)
      PROVE  v = w
  <2> DEFINE k == NodeOf(v)
  <2>1. /\ k \in Pulses /\ k \in Nat /\ NodeOf(w) \in Nat /\ SlotOf[v] \in Nat
        /\ SlotOf[w] \in Nat /\ NodeOf(w) <= k + 1
    BY TypeFacts, PulseFacts DEF ClockInv, NodeOf
  <2>2. SlotOf[v] <= k /\ SlotOf[w] <= NodeOf(w) /\ task[v].active /\ task[w].active
    BY <1>1, <1>2, TypeFacts
  <2>3. v \in Claims(k)
    BY <1>2, <2>1, <2>2 DEF Claims
  <2>4. CASE SlotOf[w] <= k
    <3>1. w \in Claims(k)
      BY <1>2, <2>1, <2>2, <2>4 DEF Claims
    <3> QED
      BY <2>1, <2>3, <3>1 DEF ClaimsInv
  <2>5. CASE SlotOf[w] > k
    <3> DEFINE p == SlotOf[w]
    <3>1. p = k + 1 /\ NodeOf(w) = p /\ p \in Pulses /\ k = p - 1
      BY <2>1, <2>2, <2>5, PulseFacts
    <3>2. Live(p)
      BY <3>1, <2>1 DEF Live, NodeOf
    <3>3. task[w].lock
      BY <2>2 DEF TaskInv, TaskOK
    <3>4. object[p].execute[Tolerable]
      BY <3>1, <3>3, <1>2 DEF LockInv
    <3>5. Heard(p)
      BY <3>1, <3>2, <3>4 DEF GateInv, Free, ObjectFree, Quiet
    <3>6. ~ Hot(v)
      BY <3>1, <3>5, <2>3 DEF Heard
    <3> QED
      BY <3>6, <1>2
  <2> QED
    BY <2>1, <2>4, <2>5
<1>3. NodeOf(t) \in Nat /\ NodeOf(u) \in Nat
  BY TypeFacts
<1>4. CASE NodeOf(t) <= NodeOf(u)
  BY <1>2, <1>4
<1>5. CASE NodeOf(u) <= NodeOf(t)
  BY <1>2, <1>5
<1> QED
  BY <1>3, <1>4, <1>5

LEMMA InvExclusion == ExecutorInv => EffectExclusion
<1> SUFFICES ASSUME ExecutorInv, NEW t \in Tasks, NEW u \in Tasks,
                    Acting(t), Acting(u), IsOrdered(t), IsOrdered(u)
             PROVE  t = u
  BY DEF EffectExclusion
<1>1. Hot(t) /\ Hot(u)
  BY DEF Acting, Running, At, Hot, CanAct
<1> QED
  BY <1>1, HotExclusion

(* The executor after a present one knows nothing yet: nobody has reported *)
(* to it.                                                                  *)
LEMMA NextExecutor ==
    ASSUME TypeOK, ClockInv, ObjectInv, CoreInv,
           NEW p \in Pulses, clock[p] = p, ObjectPulse <= p, p + 1 \in Pulses
    PROVE  /\ Live(p + 1) /\ ~ Sealed(p + 1) /\ ~ Free(p + 1)
           /\ object[p + 1].state = "Unknown"
           /\ OnlyAdded(object[p + 1].pending[Tolerable])
<1>1. p \in Nat /\ ObjectPulse \in Nat /\ clock[p + 1] \in Nat
  BY PulseFacts, TypeFacts
<1>2. Live(p + 1) /\ ~ Sealed(p + 1)
  BY <1>1 DEF Live, Sealed, ClockInv
<1>3. object[p + 1].state = "Unknown" /\ ~ Free(p + 1)
  BY <1>2 DEF CoreInv, GateInv
<1>4. object[p + 1].pending[Tolerable] = NewList
  BY <1>2, <1>3 DEF ObjectInv, ObjectOK, Live
<1>5. OnlyAdded(NewList)
  BY DEF OnlyAdded, NewList, Active
<1> QED
  BY <1>2, <1>3, <1>4, <1>5

(* A step in which a call starts or gets its token, at the present         *)
(* executor of pulse p: the claims on p grow, and only those.              *)
LEMMA GrowStep ==
    ASSUME TypeOK, TypeOK', ClockInv, ObjectInv, CoreInv, clock' = clock,
           NEW p \in Pulses, clock[p] = p, ObjectPulse <= p,
           \A c \in Int : c # p => Claims(c)' \subseteq Claims(c),
           \A u, v \in Claims(p)' : u = v,
           \A q \in Int : q # p /\ q # p + 1 => (Heard(q) => Heard(q)'),
           msgs' \subseteq msgs,
           \A q \in Pulses : q # p => object'[q] = object[q],
           object[p].state # "Unknown", object'[p].state # "Unknown",
           \A u \in Tasks : SlotOf[u] # p /\ Unresolved(u)' => Unresolved(u),
           \A u \in Tasks : NodeOf(u) # p /\ Hot(u)' => Hot(u),
           Free(p)' => Quiet(p)',
           \A u \in Tasks : IsOrdered(u) /\ Hot(u)' /\ NodeOf(u) = p /\ SlotOf[u] < p
              => object'[p].pending[Tolerable].requests[Call[u]] = "Processing",
           (Claims(p - 1) # {})' => OnlyAdded(object'[p].pending[Tolerable])
    PROVE  CoreInv'
<1>1. /\ \A q : Live(q)' = Live(q) /\ Sealed(q)' = Sealed(q)
      /\ \A t : NodeOf(t)' = NodeOf(t) /\ IsOrdered(t)' = IsOrdered(t)
  BY DEF Live, Sealed, NodeOf, IsOrdered
<1>2. /\ p \in Nat /\ ObjectPulse \in Nat /\ \A q \in Pulses : q \in Nat /\ q \in Int /\ q - 1 \in Int
      /\ \A t \in Tasks : NodeOf(t) \in Pulses /\ NodeOf(t) \in Nat /\ SlotOf[t] \in Nat
  BY PulseFacts, TypeFacts
<1>3. \A q \in Pulses : q = p + 1 =>
         /\ Live(q) /\ ~ Sealed(q) /\ ~ Free(q) /\ object[q].state = "Unknown"
         /\ OnlyAdded(object[q].pending[Tolerable])
  BY NextExecutor
<1>4. \A q \in Pulses : q # p => (Free(q)' => Free(q))
  BY DEF Free
<1>5. ClaimsInv'
  BY <1>2 DEF ClaimsInv, CoreInv
<1>6. GateInv'
  <2> SUFFICES ASSUME NEW q \in Pulses, Live(q)'
               PROVE  /\ object'[q].state # "Unknown" => Sealed(q)'
                      /\ Free(q)' => object'[q].state # "Unknown" /\ Quiet(q)'
    BY DEF GateInv
  <2>1. CASE q = p
    BY <2>1, <1>1 DEF CoreInv, GateInv
  <2>2. CASE q = p + 1
    <3>1. q # p
      BY <2>2, <1>2
    <3>2. object'[q].state = "Unknown" /\ ~ Free(q)'
      BY <2>2, <3>1, <1>3, <1>4
    <3> QED
      BY <3>2
  <2>3. CASE q # p /\ q # p + 1
    <3>0. q \in Int /\ p \in Int
      BY <1>2
    <3>1. q - 1 # p
      BY <2>3, <3>0
    <3>2. Quiet(q) => Quiet(q)'
      BY <1>2, <2>3, <3>1 DEF Quiet
    <3> QED
      BY <2>3, <3>2, <1>1, <1>4 DEF CoreInv, GateInv
  <2> QED
    BY <2>1, <2>2, <2>3
<1>7. PendingInv'
  <2>1. ASSUME NEW u \in Tasks,
               (IsOrdered(u) /\ Hot(u) /\ NodeOf(u) > SlotOf[u] /\ Live(NodeOf(u)))'
        PROVE  (object[NodeOf(u)].pending[Tolerable].requests[Call[u]] = "Processing")'
    <3>1. CASE NodeOf(u) = p
      BY <3>1, <2>1, <1>1, <1>2
    <3>2. CASE NodeOf(u) # p
      BY <3>2, <2>1, <1>1, <1>2 DEF CoreInv, PendingInv
    <3> QED
      BY <3>1, <3>2
  <2>2. ASSUME NEW q \in Pulses, (Live(q) /\ Claims(q - 1) # {})'
        PROVE  OnlyAdded(object[q].pending[Tolerable])'
    <3>1. CASE q = p
      BY <3>1, <2>2
    <3>2. CASE q = p + 1
      <4>1. q # p
        BY <3>2, <1>2
      <4> QED
        BY <4>1, <3>2, <1>3
    <3>3. CASE q # p /\ q # p + 1
      <4>1. q - 1 # p
        BY <3>3, <1>2
      <4>2. Live(q) /\ Claims(q - 1) # {}
        BY <4>1, <2>2, <1>1, <1>2
      <4> QED
        BY <4>2, <3>3 DEF CoreInv, PendingInv
    <3> QED
      BY <3>1, <3>2, <3>3
  <2> QED
    BY <2>1, <2>2 DEF PendingInv
<1>8. MessageInv'
  <2> SUFFICES ASSUME NEW m \in msgs'
               PROVE  /\ m.type = "VStateReport" => ReportOK(m)'
                      /\ m.type = "VDelegatedRequestFinished" => FinishedOK(m)'
    BY DEF MessageInv
  <2>1. m.to \in Pulses
    BY DEF TypeOK, MessageType
  <2>2. /\ m.type = "VStateReport" => ReportOK(m)
        /\ m.type = "VDelegatedRequestFinished" => FinishedOK(m)
    BY DEF CoreInv, MessageInv
  <2>3. CASE m.to = p
    <3>1. p - 1 # p
      BY <1>2
    <3> QED
      BY <3>1, <2>2, <2>3, <1>1, <1>2 DEF ReportOK, FinishedOK
  <2>4. CASE m.to = p + 1
    BY <2>1, <2>2, <2>4, <1>1, <1>3 DEF ReportOK, FinishedOK
  <2>5. CASE m.to # p /\ m.to # p + 1
    <3>0. m.to \in Nat
      BY <2>1, <1>2
    <3>1. m.to - 1 # p /\ m.to - 1 \in Int /\ m.to \in Int
      BY <3>0, <2>5, <1>2
    <3> QED
      BY <3>1, <2>1, <2>2, <2>5, <1>1 DEF ReportOK, FinishedOK
  <2> QED
    BY <2>3, <2>4, <2>5
<1>9. ReportInv'
  <2> SUFFICES ASSUME NEW q \in Pulses,
                      q - 1 \in Pulses, clock'[q - 1] = q, Live(q)',
                      object'[q].state = "Unknown", NothingLeft(q - 1)'
               PROVE  Heard(q)'
    BY DEF ReportInv
  <2>1. q # p
    OBVIOUS
  <2>2. q # p + 1 /\ q - 1 # p
    BY <1>2
  <2>3. NothingLeft(q - 1)
    BY <2>2 DEF NothingLeft, HasLeft
  <2>4. Heard(q)
    BY <2>1, <2>3, <1>1 DEF CoreInv, ReportInv
  <2> QED
    BY <1>2, <2>1, <2>2, <2>4
<1> QED
  BY <1>5, <1>6, <1>7, <1>8, <1>9 DEF CoreInv

-----------------------------------------------------------------------------
(***************************************************************************)
(* The pulse change                                                        *)
(***************************************************************************)

(* migrationDefault and migrateDuringExecution *)
LEMMA MigrateTaskFacts ==
    ASSUME NEW tk \in TaskType, NEW node \in Nat, NEW slot \in Nat, TaskOK(tk, node, slot)
    PROVE  /\ MigrateTask(tk) \in TaskType
           /\ TaskOK(MigrateTask(tk), node + 1, slot)
           /\ MigrateTask(tk).active =>
                /\ tk.active /\ tk.pc # "getToken" /\ tk.lock
                /\ MigrateTask(tk).pc = "getToken"
                /\ MigrateTask(tk).granted = UnknownPulse
           /\ MigrateTask(tk).lock => MigrateTask(tk).active
           /\ MigrateTask(tk).pc \notin Ended \cup {"idle"} => tk.pc \notin Ended \cup {"idle"}
           /\ ~ Started(MigrateTask(tk))
           /\ MigrateTask(tk).pc \notin {"sendCallResult", "finishRequest"}
<1> DEFINE new == MigrateTask(tk)
<1>1. CASE tk.pc \in Ended \cup {"idle"}
  <2>1. ~ Asks(tk) /\ tk.pc # "getToken"
    BY <1>1 DEF Asks, Ended
  <2>2. new = tk
    BY <1>1, <2>1 DEF MigrateTask
  <2> QED
    BY <1>1, <2>2 DEF TaskOK, Started, Ended, ActingSteps, EarlySteps
<1>2. CASE Asks(tk)
  <2>1. new = [tk EXCEPT !.pc = "getToken", !.resume = tk.pc, !.migrated = TRUE]
    BY <1>2 DEF MigrateTask, Asks
  <2>2. "getToken" \in TaskStep /\ tk.pc \in TaskStep
    BY DEF TaskStep, TaskType
  <2>3. new \in TaskType
    BY <2>1, <2>2 DEF TaskType
  <2>4. /\ new.pc = "getToken" /\ new.resume = tk.pc /\ new.migrated
        /\ new.active = tk.active /\ new.lock = tk.lock /\ new.granted = tk.granted
        /\ new.negotiated = tk.negotiated /\ new.outcome = tk.outcome
    BY <2>1 DEF TaskType
  <2>5. /\ tk.active /\ tk.pc # "getToken" /\ tk.pc \in ActingSteps /\ tk.lock /\ tk.negotiated
        /\ tk.granted = UnknownPulse /\ node >= slot
        /\ tk.pc = "saveNewObject" => tk.outcome # "error"
        /\ tk.pc \notin Ended \cup {"idle"}
    BY <1>2 DEF Asks, TaskOK
  <2> HIDE DEF new
  <2>6. TaskOK(new, node + 1, slot)
    BY <2>4, <2>5 DEF TaskOK, Ended, EarlySteps, ActingSteps
  <2>7. ~ Started(new)
    BY <2>4 DEF Started
  <2> QED
    BY <2>3, <2>4, <2>5, <2>6, <2>7 DEF new
<1>3. CASE tk.pc \notin Ended \cup {"idle"} /\ ~ Asks(tk)
  <2>1. PICK pc \in {"dead", "stopped"} : new = EndTask(tk, pc)
    BY <1>3 DEF MigrateTask
  <2>2. pc \in TaskStep /\ pc \in Ended
    BY DEF TaskStep, Ended
  <2>3. /\ new \in TaskType /\ new.pc = pc /\ new.resume = "idle"
        /\ ~ new.active /\ ~ new.lock /\ ~ new.migrated /\ ~ new.negotiated
        /\ new.granted = UnknownPulse
    BY <2>1, <2>2, EndTaskFacts
  <2> HIDE DEF new
  <2>4. TaskOK(new, node + 1, slot)
    BY <2>2, <2>3 DEF TaskOK, Ended, EarlySteps, ActingSteps
  <2>5. ~ Started(new) /\ new.pc \notin {"sendCallResult", "finishRequest"}
    BY <2>2, <2>3 DEF Started
  <2> QED
    BY <1>3, <2>3, <2>4, <2>5 DEF new
<1> QED
  BY <1>1, <1>2, <1>3

(* The object of a slot that nobody can ask any more *)
LEMMA DroppedFacts ==
    ASSUME NEW o \in ObjectType, NEW p \in Pulses, NEW node \in Nat,
           ObjectOK(o, p, node), node >= p
    PROVE  /\ Dropped(o) \in ObjectType /\ ObjectOK(Dropped(o), p, node + 1)
           /\ Dropped(o).phase # "none"
<1> DEFINE new == Dropped(o)
           gone == NewObject("gone")
<1>1. new = [gone EXCEPT !.known = o.known, !.results = o.results, !.pending = o.pending]
  BY DEF Dropped
<1>2. gone \in ObjectType
  BY NewObjectFacts DEF ObjectPhase
<1>3. new \in ObjectType
  BY <1>1, <1>2 DEF ObjectType
<1>4. /\ new.phase = "gone" /\ ~ new.asked /\ ~ new.ReadyToWork
      /\ new.execute = [f \in Flags |-> FALSE] /\ new.pending = o.pending
  BY <1>1 DEF NewObject
<1> HIDE DEF new, gone
<1>5. ObjectOK(new, p, node + 1)
  BY <1>4, PulseFacts, CallFacts DEF ObjectOK
<1> QED
  BY <1>3, <1>4, <1>5 DEF new

(* SMObject.migrate *)
LEMMA MigrateObjectFacts ==
    ASSUME NEW o \in ObjectType, NEW p \in Pulses, ObjectOK(o, p, p)
    PROVE  LET new == MigrateObject(o) IN
           /\ new \in ObjectType
           /\ ObjectOK(new, p, p + 1) /\ new.phase # "none"
           /\ o.state # "Unknown" =>
                /\ new.phase = "publish"
                /\ new.report.OrderedPendingCount =
                      o.pending[Tolerable].countActive + o.known[Tolerable].countActive
<1> DEFINE new == MigrateObject(o)
<1>0. p \in Nat /\ \A f \in Flags : o.pending[f] \in ListType /\ o.known[f] \in ListType
  BY PulseFacts DEF ObjectType
<1>1. CASE o.state = "Unknown"
  <2>1. new = Dropped(o)
    BY <1>1 DEF MigrateObject
  <2> HIDE DEF new
  <2>2. new \in ObjectType /\ ObjectOK(new, p, p + 1) /\ new.phase # "none"
    BY <1>0, <2>1, DroppedFacts
  <2> QED
    BY <1>1, <2>2 DEF new
<1>2. CASE o.state # "Unknown"
  <2> DEFINE settled == [o EXCEPT !.state = IF o.dirty.deactivated THEN "Inactive" ELSE @]
             report == BuildStateReport(settled)
  <2>1. new = [settled EXCEPT !.phase = "publish", !.report = report, !.asked = FALSE]
    BY <1>2 DEF MigrateObject
  <2>2. settled \in ObjectType /\ settled.state # "Unknown"
    BY <1>2 DEF ObjectType, ObjectState
  <2>3. /\ settled.pending = o.pending /\ settled.known = o.known
        /\ settled.ReadyToWork = o.ReadyToWork /\ settled.execute = o.execute
    BY DEF ObjectType
  <2> HIDE DEF settled
  <2>4. report \in VStateReport
    <3>1. ReportStatus(settled) \in StateStatus
      BY <2>2 DEF ReportStatus, ObjectType, ObjectState, StateStatus
    <3>2. /\ settled.dirty \in Descriptor /\ NoDescriptor \in Descriptor
          /\ \A f \in Flags : PendingCount(settled, f) \in Int
          /\ \A f \in Flags : GetEarliestPulse(settled, f) \in Pulses \cup {UnknownPulse}
      BY <1>0, <2>2, <2>3, NewObjectFacts
         DEF ObjectType, PendingCount, GetEarliestPulse, ListType, ObjectPhase
    <3> DEFINE content == IF ReportStatus(settled) # "Inactive" THEN settled.dirty
                          ELSE NoDescriptor
               latest == settled.dirty.has /\ ~ settled.dirty.deactivated
                         /\ settled.dirty.memory # {}
    <3>3. content \in Descriptor /\ latest \in BOOLEAN
      BY <3>2
    <3>4. report = [ Status                        |-> ReportStatus(settled),
                     OrderedPendingCount           |-> PendingCount(settled, Tolerable),
                     OrderedPendingEarliestPulse   |-> GetEarliestPulse(settled, Tolerable),
                     UnorderedPendingCount         |-> PendingCount(settled, Intolerable),
                     UnorderedPendingEarliestPulse |-> GetEarliestPulse(settled, Intolerable),
                     LatestDirtyState              |-> latest,
                     ProvidedContent               |-> content ]
      BY DEF BuildStateReport
    <3> HIDE DEF content, latest
    <3> QED
      BY <3>1, <3>2, <3>3, <3>4, CallFacts DEF VStateReport
  <2>5. report.OrderedPendingCount
           = o.pending[Tolerable].countActive + o.known[Tolerable].countActive
    BY <2>3 DEF BuildStateReport, PendingCount
  <2> HIDE DEF report
  <2>6. new \in ObjectType
    BY <2>1, <2>2, <2>4 DEF ObjectType, ObjectPhase
  <2>7. /\ new.phase = "publish" /\ ~ new.asked /\ new.report = report
        /\ new.ReadyToWork = o.ReadyToWork /\ new.execute = o.execute
        /\ new.pending = o.pending /\ new.state # "Unknown"
    BY <2>1, <2>2, <2>3 DEF ObjectType
  <2> HIDE DEF new
  <2>8. ObjectOK(new, p, p + 1)
    BY <1>0, <1>2, <2>7, CallFacts DEF ObjectOK
  <2> QED
    BY <2>5, <2>6, <2>7, <2>8 DEF new
<1> QED
  BY <1>1, <1>2

(* What a pulse change does to clocks, machines and messages *)
LEMMA AdvanceFacts ==
    ASSUME ExecutorInv, NEW N \in ChangeTogether, NEW old \in Pulses, AdvancePulse(N, old)
    PROVE  /\ N \subseteq Pulses /\ old \in Nat /\ old + 1 \in Pulses
           /\ \A n \in Pulses : /\ clock[n] \in Nat /\ clock[n] >= old /\ clock[n] \in Pulses
                                /\ n \in N => clock[n] = old /\ clock'[n] = old + 1
                                /\ n \notin N => clock'[n] = clock[n]
           /\ \A n \in Pulses : n \notin N \/ n > old => object'[n] = object[n]
           /\ \A n \in N : n < old => object'[n] = Dropped(object[n])
           /\ old \in N => object'[old] = MigrateObject(object[old])
           /\ \A t \in Tasks : SlotOf[t] \in N =>
                /\ NodeOf(t) = old /\ NodeOf(t)' = old + 1
                /\ task'[t] = MigrateTask(task[t])
                /\ task'[t] \in TaskType /\ TaskOK(task'[t], old + 1, SlotOf[t])
                /\ task'[t].active => /\ task[t].active /\ task[t].lock /\ Hot(t) /\ ~ Hot(t)'
                                      /\ task'[t].pc = "getToken"
                /\ task'[t].lock => task'[t].active
                /\ task'[t].pc \notin Ended \cup {"idle"} => task[t].pc \notin Ended \cup {"idle"}
                /\ ~ Hot(t)' /\ ~ Started(task'[t]) /\ ~ Unresolved(t)'
           /\ \A t \in Tasks : SlotOf[t] \notin N =>
                /\ NodeOf(t)' = NodeOf(t) /\ task'[t] = task[t]
                /\ Hot(t)' = Hot(t) /\ (Unresolved(t)' => Unresolved(t))
           /\ \A m \in msgs' : \/ m \in msgs
                               \/ \E t \in Tasks : SlotOf[t] \in N /\ m = DelegatedCallRequest(old + 1, t)
<1>0. TypeOK /\ TaskInv
  BY DEF ExecutorInv, LocalInv
<1>1. N \subseteq Pulses /\ old \in Nat /\ old + 1 \in Pulses
  BY PulseFacts DEF ChangeTogether, AdvancePulse
<1>2. \A n \in Pulses : /\ clock[n] \in Nat /\ clock[n] >= old /\ clock[n] \in Pulses
                        /\ n \in N => clock[n] = old /\ clock'[n] = old + 1
                        /\ n \notin N => clock'[n] = clock[n]
  BY <1>0, TypeFacts DEF AdvancePulse
<1>3. /\ \A n \in Pulses : n \notin N \/ n > old => object'[n] = object[n]
      /\ \A n \in N : n < old => object'[n] = Dropped(object[n])
      /\ old \in N => object'[old] = MigrateObject(object[old])
  <2>1. object' = [n \in Pulses |-> IF n \notin N \/ n > old THEN object[n]
                                    ELSE IF n = old THEN MigrateObject(object[n])
                                    ELSE Dropped(object[n])]
    BY DEF AdvancePulse
  <2>2. \A n \in Pulses : n \in Nat
    BY PulseFacts
  <2> QED
    BY <1>1, <2>1, <2>2
<1>4. ASSUME NEW t \in Tasks, SlotOf[t] \in N
      PROVE  /\ NodeOf(t) = old /\ NodeOf(t)' = old + 1
             /\ task'[t] = MigrateTask(task[t])
             /\ task'[t] \in TaskType /\ TaskOK(task'[t], old + 1, SlotOf[t])
             /\ task'[t].active => /\ task[t].active /\ task[t].lock /\ Hot(t) /\ ~ Hot(t)'
                                   /\ task'[t].pc = "getToken"
             /\ task'[t].lock => task'[t].active
             /\ task'[t].pc \notin Ended \cup {"idle"} => task[t].pc \notin Ended \cup {"idle"}
             /\ ~ Hot(t)' /\ ~ Started(task'[t]) /\ ~ Unresolved(t)'
  <2>1. NodeOf(t) = old /\ NodeOf(t)' = old + 1
    BY <1>2, <1>4, PulseFacts DEF NodeOf
  <2>2. task'[t] = MigrateTask(task[t])
    BY <1>4 DEF AdvancePulse
  <2>3. task[t] \in TaskType /\ TaskOK(task[t], old, SlotOf[t]) /\ SlotOf[t] \in Nat
    BY <1>0, <2>1, TypeFacts DEF TaskInv
  <2>4. /\ task'[t] \in TaskType /\ TaskOK(task'[t], old + 1, SlotOf[t])
        /\ task'[t].active => /\ task[t].active /\ task[t].pc # "getToken" /\ task[t].lock
                              /\ task'[t].pc = "getToken" /\ task'[t].granted = UnknownPulse
        /\ task'[t].lock => task'[t].active
        /\ task'[t].pc \notin Ended \cup {"idle"} => task[t].pc \notin Ended \cup {"idle"}
        /\ ~ Started(task'[t])
        /\ task'[t].pc \notin {"sendCallResult", "finishRequest"}
    BY <1>1, <2>2, <2>3, MigrateTaskFacts
  <2>5. ~ Hot(t)' /\ ~ Unresolved(t)' /\ (task'[t].active => Hot(t))
    BY <2>4 DEF Hot, CanAct, Unresolved, EarlyError
  <2> QED
    BY <2>1, <2>2, <2>4, <2>5
<1>5. ASSUME NEW t \in Tasks, SlotOf[t] \notin N
      PROVE  /\ NodeOf(t)' = NodeOf(t) /\ task'[t] = task[t]
             /\ Hot(t)' = Hot(t) /\ (Unresolved(t)' => Unresolved(t))
  <2>1. task'[t] = task[t]
    BY <1>5 DEF AdvancePulse
  <2> QED
    BY <2>1, <1>2, <1>5, PulseFacts DEF NodeOf, Hot, Unresolved
<1>6. ASSUME NEW m \in msgs', m \notin msgs
      PROVE  \E t \in Tasks : SlotOf[t] \in N /\ m = DelegatedCallRequest(old + 1, t)
  BY <1>6 DEF AdvancePulse, Posted
<1> QED
  BY <1>1, <1>2, <1>3, <1>4, <1>5, <1>6

LEMMA AdvanceLocal ==
    ASSUME ExecutorInv, NEW N \in ChangeTogether, NEW old \in Pulses, AdvancePulse(N, old)
    PROVE  TypeOK' /\ LocalInv'
<1> USE DEF ExecutorInv, LocalInv
<1>1. ClockInv'
  <2>1. \A n \in Pulses : clock'[n] \in Nat /\ clock'[n] - 1 \in Pulses
    BY AdvanceFacts DEF ClockInv
  <2>2. \A m, n \in Pulses : clock'[m] <= clock'[n] + 1
    BY AdvanceFacts DEF ClockInv
  <2> QED
    BY <2>1, <2>2 DEF ClockInv
<1>2. TaskInv'
  BY AdvanceFacts DEF TaskInv
<1>3. LockInv'
  <2>1. \A t \in Tasks : task'[t].lock => task[t].lock
    BY AdvanceFacts
  <2>2. \A t \in Tasks : SlotOf[t] \in N /\ task'[t].lock => NodeOf(t)' # SlotOf[t]
    <3> SUFFICES ASSUME NEW t \in Tasks, SlotOf[t] \in N, task'[t].lock
                 PROVE  NodeOf(t)' # SlotOf[t]
      OBVIOUS
    <3>1. /\ task'[t].pc = "getToken" /\ TaskOK(task'[t], old + 1, SlotOf[t])
          /\ NodeOf(t)' = old + 1 /\ old \in Nat
      BY AdvanceFacts
    <3> QED
      BY <3>1, PulseFacts DEF TaskOK
  <2>3. \A t \in Tasks : SlotOf[t] \in Pulses
    BY PulseFacts
  <2> QED
    BY <2>1, <2>2, <2>3, AdvanceFacts DEF LockInv, IsOrdered
<1>4. /\ \A p \in Pulses : /\ object'[p] \in ObjectType
                           /\ object'[p].phase = "none" => object[p].phase = "none"
      /\ ObjectInv'
  <2> SUFFICES ASSUME NEW p \in Pulses
               PROVE  /\ object'[p] \in ObjectType /\ ObjectOK(object'[p], p, clock'[p])
                      /\ object'[p].phase = "none" => object[p].phase = "none"
    BY DEF ObjectInv
  <2>1. object[p] \in ObjectType /\ ObjectOK(object[p], p, clock[p])
        /\ p \in Nat /\ old \in Nat
    BY TypeFacts, AdvanceFacts DEF ObjectInv
  <2>2. CASE p \notin N
    BY <2>1, <2>2, AdvanceFacts
  <2>3. CASE p \in N /\ p > old
    <3>1. object'[p] = object[p] /\ clock[p] = old /\ clock'[p] = old + 1
      BY <2>3, AdvanceFacts
    <3>2. object[p].phase \notin {"publish", "finalize"}
      BY <2>3 DEF AdvancePulse
    <3> QED
      BY <3>1, <3>2, <2>1, <2>3 DEF ObjectOK
  <2>4. CASE p \in N /\ p <= old
    <3>1. clock[p] = old /\ clock'[p] = old + 1
      BY <2>4, AdvanceFacts
    <3>2. CASE p = old
      <4>1. object'[p] = MigrateObject(object[p])
        BY <2>4, <3>2, AdvanceFacts
      <4> QED
        BY <3>1, <3>2, <4>1, <2>1, MigrateObjectFacts
    <3>3. CASE p < old
      <4>1. object'[p] = Dropped(object[p])
        BY <2>4, <3>3, AdvanceFacts
      <4> QED
        BY <3>1, <3>3, <4>1, <2>1, DroppedFacts
    <3> QED
      BY <2>1, <2>4, <3>2, <3>3
  <2> QED
    BY <2>1, <2>2, <2>3, <2>4
<1>5. KnownInv'
  <2> SUFFICES ASSUME NEW t \in Tasks
               PROVE  /\ task'[t].pc \notin Ended \cup {"idle"} => object'[SlotOf[t]].phase # "none"
                      /\ Started(task'[t]) => Listed(object'[SlotOf[t]], Call[t])
    BY DEF KnownInv, Listed
  <2>1. SlotOf[t] \in Pulses
    BY PulseFacts
  <2>2. task'[t].pc \notin Ended \cup {"idle"} => task[t].pc \notin Ended \cup {"idle"}
    BY AdvanceFacts
  <2>3. Started(task'[t]) => task'[t] = task[t] /\ object'[SlotOf[t]] = object[SlotOf[t]]
    BY <2>1, AdvanceFacts
  <2> QED
    BY <1>4, <2>1, <2>2, <2>3 DEF KnownInv
<1>6. TypeOK'
  <2>1. clock' \in [Pulses -> Pulses]
    <3>1. clock' = [n \in Pulses |-> IF n \in N THEN old + 1 ELSE clock[n]]
      BY DEF AdvancePulse
    <3> QED
      BY <3>1, AdvanceFacts
  <2>2. object' \in [Pulses -> ObjectType]
    <3>1. object' = [n \in Pulses |-> IF n \notin N \/ n > old THEN object[n]
                                      ELSE IF n = old THEN MigrateObject(object[n])
                                      ELSE Dropped(object[n])]
      BY DEF AdvancePulse
    <3> QED
      BY <3>1, <1>4
  <2>3. task' \in [Tasks -> TaskType]
    <3>1. task' = [t \in Tasks |-> IF t \in {u \in Tasks : SlotOf[u] \in N}
                                   THEN MigrateTask(task[t]) ELSE task[t]]
      BY DEF AdvancePulse
    <3>2. \A t \in Tasks : task'[t] \in TaskType
      BY AdvanceFacts, TypeFacts
    <3> QED
      BY <3>1, <3>2
  <2>4. msgs' \subseteq MessageType
    <3> SUFFICES ASSUME NEW m \in msgs' PROVE m \in MessageType
      OBVIOUS
    <3>1. CASE m \in msgs
      BY <3>1 DEF TypeOK
    <3>2. CASE \E t \in Tasks : m = DelegatedCallRequest(old + 1, t)
      BY <3>2, AdvanceFacts DEF MessageType, DelegatedCallRequest
    <3> QED
      BY <3>1, <3>2, AdvanceFacts
  <2>5. panics' \subseteq Panic
    BY DEF AdvancePulse, TypeOK, Panic
  <2> QED
    BY <2>1, <2>2, <2>3, <2>4, <2>5 DEF TypeOK
<1> QED
  BY <1>1, <1>2, <1>3, <1>4, <1>5, <1>6

(* A pulse change makes no claim: a call that has to ask had one before.   *)
LEMMA AdvanceClaims ==
    ASSUME ExecutorInv, NEW N \in ChangeTogether, NEW old \in Pulses, AdvancePulse(N, old)
    PROVE  /\ \A c \in Int : Claims(c)' \subseteq Claims(c)
           /\ \A p \in Int : Heard(p) => Heard(p)'
           /\ \A p \in Pulses : Live(p)' => Live(p) /\ object'[p] = object[p]
           /\ \A p \in Pulses : Sealed(p) => Sealed(p)'
<1>0. /\ \A t \in Tasks : /\ NodeOf(t) \in Nat /\ SlotOf[t] \in Nat /\ SlotOf[t] \in Pulses
                          /\ IsOrdered(t)' = IsOrdered(t)
      /\ old \in Nat
  BY PulseFacts, TypeFacts DEF ExecutorInv, IsOrdered
<1>1. ASSUME NEW t \in Tasks, SlotOf[t] \notin N, Requested(t)' PROVE Requested(t)
  <2>1. DelegatedCallRequest(NodeOf(t), t) \in msgs'
    BY <1>1, AdvanceFacts DEF Requested
  <2>2. ASSUME NEW u \in Tasks, DelegatedCallRequest(NodeOf(t), t) = DelegatedCallRequest(old + 1, u)
        PROVE  t = u
    BY <2>2 DEF DelegatedCallRequest
  <2> QED
    BY <2>1, <2>2, <1>1, AdvanceFacts DEF Requested
<1>2. ASSUME NEW c \in Int, NEW t \in Claims(c)' PROVE t \in Claims(c)
  <2>1. /\ t \in Tasks /\ IsOrdered(t) /\ task'[t].active
        /\ SlotOf[t] <= c /\ c <= NodeOf(t)'
        /\ NodeOf(t)' = c => Hot(t)'
        /\ NodeOf(t)' = c + 1 => Hot(t)' \/ Requested(t)'
    BY <1>0 DEF Claims
  <2>2. CASE SlotOf[t] \in N
    <3>1. NodeOf(t) = old /\ NodeOf(t)' = old + 1 /\ task[t].active /\ Hot(t) /\ ~ Hot(t)'
      BY <2>1, <2>2, AdvanceFacts
    <3>2. c <= old
      BY <2>1, <3>1, <1>0
    <3> QED
      BY <2>1, <3>1, <3>2 DEF Claims
  <2>3. CASE SlotOf[t] \notin N
    <3>1. NodeOf(t)' = NodeOf(t) /\ task'[t] = task[t] /\ Hot(t)' = Hot(t)
      BY <2>1, <2>3, AdvanceFacts
    <3> QED
      BY <2>1, <2>3, <3>1, <1>1 DEF Claims
  <2> QED
    BY <2>2, <2>3
<1>3. ASSUME NEW p \in Int, Heard(p) PROVE Heard(p)'
  <2> SUFFICES ASSUME NEW t \in Claims(p - 1)' PROVE NodeOf(t)' = p /\ ~ Hot(t)'
    BY DEF Heard
  <2>1. t \in Claims(p - 1) /\ t \in Tasks /\ task'[t].active
    BY <1>2 DEF Claims
  <2>2. NodeOf(t) = p /\ ~ Hot(t)
    BY <2>1, <1>3 DEF Heard
  <2> QED
    BY <2>1, <2>2, AdvanceFacts
<1>4. ASSUME NEW p \in Pulses, Live(p)' PROVE Live(p) /\ object'[p] = object[p]
  BY <1>4, PulseFacts, AdvanceFacts DEF Live
<1>5. ASSUME NEW p \in Pulses, Sealed(p) PROVE Sealed(p)'
  <2>1. CASE p <= ObjectPulse
    BY <2>1 DEF Sealed
  <2>2. CASE ~ (p <= ObjectPulse)
    <3>1. p \in Nat /\ p - 1 \in Pulses
      BY <2>2, PulseFacts
    <3>2. clock'[p - 1] >= clock[p - 1] /\ clock'[p - 1] \in Nat /\ clock[p - 1] \in Nat
      BY <3>1, AdvanceFacts
    <3> QED
      BY <1>5, <2>2, <3>1, <3>2 DEF Sealed
  <2> QED
    BY <2>1, <2>2
<1> QED
  BY <1>2, <1>3, <1>4, <1>5

(* The report of an executor without ordered calls: every call that had a  *)
(* claim in its pulse has to ask the next executor.  A call of an earlier  *)
(* pulse acts with the token of this executor and is counted.              *)
LEMMA AdvanceReports ==
    ASSUME ExecutorInv, NEW N \in ChangeTogether, NEW old \in Pulses, AdvancePulse(N, old)
    PROVE  ReportInv'
<1> USE DEF ExecutorInv, LocalInv, CoreInv
<1> SUFFICES ASSUME NEW p \in Pulses,
                    p - 1 \in Pulses, clock'[p - 1] = p, Live(p)',
                    object'[p].state = "Unknown", NothingLeft(p - 1)'
             PROVE  Heard(p)'
  BY DEF ReportInv
<1>0. /\ p \in Nat /\ p - 1 \in Nat /\ old \in Nat
      /\ \A t \in Tasks : /\ NodeOf(t) \in Nat /\ NodeOf(t) \in Pulses
                          /\ SlotOf[t] \in Nat /\ SlotOf[t] \in Pulses
                          /\ Call[t] \in Requests
  BY PulseFacts, TypeFacts, CallFacts
<1>1. Live(p) /\ object'[p] = object[p]
  BY AdvanceClaims
<1>2. ASSUME NEW q \in Pulses, Live(q), NEW t \in Tasks, IsOrdered(t), Hot(t),
             NodeOf(t) = q, SlotOf[t] < q
      PROVE  /\ object[q].pending[Tolerable].requests[Call[t]] = "Processing"
             /\ object[q].state # "Unknown" /\ Claims(q - 1) # {}
  <2>1. object[q].pending[Tolerable].requests[Call[t]] = "Processing"
    BY <1>0, <1>2 DEF PendingInv
  <2>2. object[q].state = "Unknown" => object[q].pending[Tolerable] = NewList
    BY <1>2 DEF ObjectInv, ObjectOK, Live
  <2>3. NewList.requests[Call[t]] = "Unknown"
    BY <1>0, <1>2 DEF NewList
  <2>4. t \in Claims(q - 1)
    BY <1>0, <1>2, HotClaims
  <2> QED
    BY <2>1, <2>2, <2>3, <2>4
<1>3. CASE p - 1 \notin N
  <2>1. clock[p - 1] = p /\ object'[p - 1] = object[p - 1]
    BY <1>3, AdvanceFacts
  <2>2. Heard(p)
    BY <1>1, <2>1 DEF ReportInv, NothingLeft, HasLeft
  <2> QED
    BY <1>0, <2>2, AdvanceClaims
<1>4. CASE p - 1 \in N
  <2>1. old = p - 1 /\ clock[old] = old /\ Live(old)
        /\ object'[old] = MigrateObject(object[old])
    <3>1. old = p - 1 /\ clock[old] = old
      BY <1>0, <1>4, AdvanceFacts
    <3>2. object'[old] = MigrateObject(object[old])
      BY <1>4, <3>1, AdvanceFacts
    <3> QED
      BY <3>1, <3>2, <1>0 DEF Live
  <2> SUFFICES ASSUME NEW t \in Claims(p - 1)' PROVE NodeOf(t)' = p /\ ~ Hot(t)'
    BY DEF Heard
  <2>2. t \in Claims(p - 1)
    BY <1>0, AdvanceClaims
  <2>3. /\ t \in Tasks /\ IsOrdered(t) /\ SlotOf[t] <= old
        /\ old <= NodeOf(t) /\ (NodeOf(t) = old => Hot(t))
    BY <2>1, <2>2 DEF Claims
  <2>4. CASE SlotOf[t] \in N
    BY <1>0, <2>1, <2>3, <2>4, AdvanceFacts
  <2>5. CASE SlotOf[t] \notin N
    <3>1. NodeOf(t)' = NodeOf(t) /\ Hot(t)' = Hot(t)
      BY <2>3, <2>5, AdvanceFacts
    <3>2. NodeOf(t) # old
      <4> SUFFICES ASSUME NodeOf(t) = old PROVE FALSE
        OBVIOUS
      <4>1. Hot(t) /\ SlotOf[t] < old
        BY <1>0, <1>4, <2>1, <2>3, <2>5
      <4>2. /\ object[old].pending[Tolerable].requests[Call[t]] = "Processing"
            /\ object[old].state # "Unknown" /\ Claims(old - 1) # {}
        BY <1>2, <2>1, <2>3, <4>1
      <4> DEFINE pending == object[old].pending[Tolerable]
                 known == object[old].known[Tolerable]
      <4>3. pending \in ListType /\ known \in ListType
        BY TypeFacts, CallFacts DEF ObjectType
      <4>4. pending.countActive \in Nat /\ pending.countActive > 0
        <5>1. OnlyAdded(pending)
          BY <2>1, <4>2 DEF PendingInv
        <5>2. Call[t] \in Active(pending)
          BY <1>0, <2>3, <4>2 DEF Active
        <5> QED
          BY <5>1, <5>2 DEF OnlyAdded
      <4>5. known.countActive \in Nat
        <5>1. ListConsistent(known)
          <6>1. SUFFICES ASSUME ~ ListConsistent(known) PROVE FALSE
            OBVIOUS
          <6>2. Heard(old)
            BY <6>1, <2>1 DEF GateInv, Free, ObjectFree, Quiet
          <6>3. t \in Claims(old - 1)
            BY <1>0, <2>3, <4>1, HotClaims
          <6> QED
            BY <4>1, <6>2, <6>3 DEF Heard
        <5> QED
          BY <5>1, <4>3, ConsistentCount
      <4>6. /\ object'[old].phase = "publish"
            /\ object'[old].report.OrderedPendingCount
                  = pending.countActive + known.countActive
        <5>1. object[old] \in ObjectType /\ ObjectOK(object[old], old, old)
          BY <2>1, TypeFacts DEF ObjectInv
        <5> QED
          BY <1>0, <2>1, <4>2, <5>1, MigrateObjectFacts
      <4>7. object'[old].report.OrderedPendingCount = 0
        BY <2>1, <4>6 DEF NothingLeft, HasLeft
      <4> QED
        BY <4>4, <4>5, <4>6, <4>7
    <3>3. NodeOf(t) = p
      <4>1. clock[SlotOf[t]] <= clock[old] + 1
        BY <1>0, <2>3 DEF ClockInv
      <4> QED
        BY <4>1, <3>2, <2>1, <2>3, <1>0 DEF NodeOf
    <3>4. ~ Hot(t)
      BY <3>3, <1>0, <1>1, <1>2, <2>1, <2>3
    <3> QED
      BY <3>1, <3>3, <3>4
  <2> QED
    BY <2>4, <2>5
<1> QED
  BY <1>3, <1>4

LEMMA AdvanceInv ==
    ASSUME ExecutorInv, NEW N \in ChangeTogether, NEW old \in Pulses, AdvancePulse(N, old)
    PROVE  ExecutorInv'
<1>1. /\ \A p \in Pulses : p \in Int /\ p - 1 \in Int
      /\ \A m \in msgs : m.to \in Pulses
      /\ \A t \in Tasks : /\ NodeOf(t) \in Pulses /\ NodeOf(t) \in Nat /\ SlotOf[t] \in Nat
                          /\ IsOrdered(t)' = IsOrdered(t)
  BY PulseFacts, TypeFacts DEF ExecutorInv, TypeOK, MessageType, IsOrdered
<1>2. ClaimsInv'
  BY <1>1, AdvanceClaims DEF ClaimsInv, ExecutorInv, CoreInv
<1>3. GateInv'
  <2> SUFFICES ASSUME NEW p \in Pulses, Live(p)'
               PROVE  /\ object'[p].state # "Unknown" => Sealed(p)'
                      /\ Free(p)' => object'[p].state # "Unknown" /\ Quiet(p)'
    BY DEF GateInv
  <2>1. Live(p) /\ object'[p] = object[p] /\ (Sealed(p) => Sealed(p)')
    BY AdvanceClaims
  <2>2. Free(p)' => Free(p)
    BY <2>1, AdvanceFacts DEF Free
  <2>3. Quiet(p) => Quiet(p)'
    BY <1>1, <2>1, AdvanceClaims DEF Quiet
  <2> QED
    BY <2>1, <2>2, <2>3 DEF ExecutorInv, CoreInv, GateInv
<1>4. PendingInv'
  <2>1. ASSUME NEW t \in Tasks,
               (IsOrdered(t) /\ Hot(t) /\ NodeOf(t) > SlotOf[t] /\ Live(NodeOf(t)))'
        PROVE  (object[NodeOf(t)].pending[Tolerable].requests[Call[t]] = "Processing")'
    <3>1. SlotOf[t] \notin N
      BY <2>1, AdvanceFacts
    <3>2. NodeOf(t)' = NodeOf(t) /\ Hot(t)
      BY <2>1, <3>1, AdvanceFacts
    <3>3. Live(NodeOf(t)) /\ object'[NodeOf(t)] = object[NodeOf(t)]
      BY <1>1, <2>1, <3>2, AdvanceClaims
    <3> QED
      BY <1>1, <2>1, <3>2, <3>3 DEF ExecutorInv, CoreInv, PendingInv
  <2>2. ASSUME NEW p \in Pulses, (Live(p) /\ Claims(p - 1) # {})'
        PROVE  OnlyAdded(object[p].pending[Tolerable])'
    <3>1. Live(p) /\ object'[p] = object[p] /\ Claims(p - 1) # {}
      BY <1>1, <2>2, AdvanceClaims
    <3> QED
      BY <3>1 DEF ExecutorInv, CoreInv, PendingInv
  <2> QED
    BY <2>1, <2>2 DEF PendingInv
<1>5. MessageInv'
  <2> SUFFICES ASSUME NEW m \in msgs'
               PROVE  /\ m.type = "VStateReport" => ReportOK(m)'
                      /\ m.type = "VDelegatedRequestFinished" => FinishedOK(m)'
    BY DEF MessageInv
  <2>1. CASE m \in msgs
    <3>1. m.to \in Pulses /\ m.to \in Int /\ m.to - 1 \in Int
      BY <2>1, <1>1
    <3>2. /\ m.type = "VStateReport" => ReportOK(m)
          /\ m.type = "VDelegatedRequestFinished" => FinishedOK(m)
      BY <2>1 DEF ExecutorInv, CoreInv, MessageInv
    <3>3. ReportOK(m) => ReportOK(m)'
      BY <3>1, AdvanceClaims DEF ReportOK
    <3>4. FinishedOK(m) => FinishedOK(m)'
      <4>1. IsOrdered(m.task)' = IsOrdered(m.task)
        BY DEF IsOrdered
      <4> QED
        BY <4>1, <3>1, AdvanceClaims DEF FinishedOK
    <3> QED
      BY <3>2, <3>3, <3>4
  <2>2. CASE \E t \in Tasks : m = DelegatedCallRequest(old + 1, t)
    BY <2>2 DEF DelegatedCallRequest
  <2> QED
    BY <2>1, <2>2, AdvanceFacts
<1> QED
  BY <1>2, <1>3, <1>4, <1>5, AdvanceReports, AdvanceLocal DEF ExecutorInv, CoreInv

-----------------------------------------------------------------------------
(***************************************************************************)
(* Steps within a pulse                                                    *)
(***************************************************************************)

(* What every step does to the machine of task t, which becomes tk while   *)
(* its object becomes o, and to the object of pulse p, which becomes o     *)
LocalTask(t, tk, o) ==
    /\ TaskOK(tk, NodeOf(t), SlotOf[t])
    /\ IsOrdered(t) /\ tk.lock =>
          \/ task[t].lock
          \/ ~ OrderedHeld(SlotOf[t]) /\ object[SlotOf[t]].execute[Tolerable]
    /\ tk.pc \notin Ended \cup {"idle"} => o.phase # "none"
    /\ Started(tk) => Started(task[t]) \/ Listed(o, Call[t])

LocalObject(p, o) ==
    /\ o \in ObjectType /\ ObjectOK(o, p, clock[p])
    /\ o.phase = "none" => object[p].phase = "none"
    /\ object[p].execute[Tolerable] => o.execute[Tolerable]
    /\ \A r \in Requests : Listed(object[p], r) => Listed(o, r)

(* What a step does that makes no claim *)
SoftTask(t, tk) ==
    /\ IsOrdered(t) => (tk.active => task[t].active) /\ (CanAct(tk) => Hot(t))
    /\ EarlyError(tk, Call[t]) => Unresolved(t) \/ ObjectOf(t).state = "Missing"

SoftObject(p, o) ==
    /\ HasLeft(p) => /\ o.phase \in {"publish", "finalize", "sent"}
                     /\ o.report = object[p].report
    /\ o.pending[Tolerable] = object[p].pending[Tolerable] \/ Claims(p - 1) = {}
    /\ object[p].state # "Unknown" => /\ o.state # "Unknown"
                                      /\ o.oldestPending = object[p].oldestPending
    /\ Live(p) =>
          /\ o.state # "Unknown" => Sealed(p)
          /\ ObjectFree(o) =>
                /\ o.state # "Unknown" /\ Heard(p)
                /\ Claims(p - 1) # {} => o.oldestPending[Tolerable] = UnknownPulse

LEMMA LocalStep ==
    ASSUME ExecutorInv, TypeOK', clock' = clock,
           \A t, u \in Tasks : task'[t] # task[t] /\ task'[u] # task[u] => t = u,
           \A t \in Tasks : task'[t] = task[t] \/ LocalTask(t, task'[t], object'[SlotOf[t]]),
           \A p \in Pulses : object'[p] = object[p] \/ LocalObject(p, object'[p])
    PROVE  LocalInv'
<1> USE DEF ExecutorInv, LocalInv
<1>1. \A t : NodeOf(t)' = NodeOf(t) /\ IsOrdered(t)' = IsOrdered(t)
  BY DEF NodeOf, IsOrdered
<1>2. ClockInv'
  BY DEF ClockInv
<1>3. TaskInv'
  BY <1>1 DEF TaskInv, LocalTask
<1>4. ObjectInv'
  BY DEF ObjectInv, LocalObject
<1>5. \A p \in Pulses :
         /\ object'[p].phase = "none" => object[p].phase = "none"
         /\ object[p].execute[Tolerable] => object'[p].execute[Tolerable]
         /\ \A r \in Requests : Listed(object[p], r) => Listed(object'[p], r)
  BY DEF LocalObject
<1>6. \A t \in Tasks : SlotOf[t] \in Pulses /\ Call[t] \in Requests
  BY PulseFacts, CallFacts
<1>7. LockInv'
  <2>1. ASSUME NEW t \in Tasks, NEW u \in Tasks,
               IsOrdered(t), task'[t].lock, IsOrdered(u), task'[u].lock, SlotOf[t] = SlotOf[u]
        PROVE  t = u
    <3>1. \A v \in Tasks : \/ task'[v] = task[v]
                           \/ IsOrdered(v) /\ task'[v].lock =>
                                task[v].lock \/ ~ OrderedHeld(SlotOf[v])
      BY DEF LocalTask
    <3>2. CASE task[t].lock /\ task[u].lock
      BY <2>1, <3>2 DEF LockInv
    <3>3. CASE ~ task[t].lock
      <4>1. task'[t] # task[t] /\ ~ OrderedHeld(SlotOf[t])
        BY <2>1, <3>1, <3>3
      <4>2. ~ task[u].lock
        BY <2>1, <4>1 DEF OrderedHeld, IsOrdered
      <4> QED
        BY <2>1, <4>1, <4>2
    <3>4. CASE ~ task[u].lock
      <4>1. task'[u] # task[u] /\ ~ OrderedHeld(SlotOf[u])
        BY <2>1, <3>1, <3>4
      <4>2. ~ task[t].lock
        BY <2>1, <4>1 DEF OrderedHeld, IsOrdered
      <4> QED
        BY <2>1, <4>1, <4>2
    <3> QED
      BY <3>2, <3>3, <3>4
  <2>2. ASSUME NEW t \in Tasks, IsOrdered(t), task'[t].lock, NodeOf(t) = SlotOf[t]
        PROVE  object'[SlotOf[t]].execute[Tolerable]
    <3>1. object[SlotOf[t]].execute[Tolerable]
      BY <2>2 DEF LockInv, LocalTask
    <3> QED
      BY <3>1, <1>5, <1>6
  <2> QED
    BY <1>1, <2>1, <2>2 DEF LockInv
<1>8. KnownInv'
  <2> SUFFICES ASSUME NEW t \in Tasks
               PROVE  /\ task'[t].pc \notin Ended \cup {"idle"} => object'[SlotOf[t]].phase # "none"
                      /\ Started(task'[t]) => Listed(object'[SlotOf[t]], Call[t])
    BY DEF KnownInv, Listed
  <2>1. CASE task'[t] = task[t]
    BY <1>5, <1>6, <2>1 DEF KnownInv
  <2>2. CASE LocalTask(t, task'[t], object'[SlotOf[t]])
    BY <1>5, <1>6, <2>2 DEF KnownInv, LocalTask
  <2> QED
    BY <2>1, <2>2
<1> QED
  BY <1>2, <1>3, <1>4, <1>7, <1>8

LEMMA SoftInv ==
    ASSUME ExecutorInv, TypeOK', clock' = clock,
           \A t, u \in Tasks : task'[t] # task[t] /\ task'[u] # task[u] => t = u,
           \A t \in Tasks :
              task'[t] = task[t] \/ (/\ LocalTask(t, task'[t], object'[SlotOf[t]])
                                     /\ SoftTask(t, task'[t])),
           \A p \in Pulses :
              object'[p] = object[p] \/ (LocalObject(p, object'[p]) /\ SoftObject(p, object'[p])),
           \A m \in msgs' : \/ m \in msgs
                            \/ m.type = "VStateReport" /\ ReportOK(m)
                            \/ m.type = "VDelegatedRequestFinished" /\ FinishedOK(m)'
    PROVE  ExecutorInv'
<1>1. LocalInv'
  BY LocalStep
<1>2. \A t \in Tasks : IsOrdered(t) => (task'[t].active => task[t].active) /\ (Hot(t)' => Hot(t))
  BY DEF SoftTask, Hot
<1>3. \A p \in Pulses :
         /\ object'[p].state = "Unknown" => object[p].state = "Unknown"
         /\ NothingLeft(p)' => NothingLeft(p)
         /\ \/ object'[p].pending[Tolerable] = object[p].pending[Tolerable]
            \/ Claims(p - 1) = {}
  BY DEF SoftObject, NothingLeft, HasLeft
<1>4. TypeOK /\ CoreInv
  BY DEF ExecutorInv
<1>5. /\ \A c : Claims(c)' \subseteq Claims(c)
      /\ \A p : Heard(p) => Heard(p)'
      /\ ClaimsInv' /\ PendingInv' /\ MessageInv' /\ ReportInv'
  BY <1>2, <1>3, <1>4, SoftStep
<1>6. GateInv'
  <2> SUFFICES ASSUME NEW p \in Pulses, Live(p)'
               PROVE  /\ object'[p].state # "Unknown" => Sealed(p)'
                      /\ Free(p)' => object'[p].state # "Unknown" /\ Quiet(p)'
    BY DEF GateInv
  <2>1. Live(p) /\ Sealed(p)' = Sealed(p)
    BY DEF Live, Sealed
  <2>2. /\ object[p].state # "Unknown" => Sealed(p)
        /\ Free(p) => object[p].state # "Unknown" /\ Quiet(p)
    BY <1>4, <2>1 DEF CoreInv, GateInv
  <2>3. /\ object'[p].state # "Unknown" => Sealed(p)
        /\ ObjectFree(object'[p]) =>
              /\ object'[p].state # "Unknown" /\ Heard(p)
              /\ Claims(p - 1) # {} => object'[p].oldestPending[Tolerable] = UnknownPulse
        /\ object[p].state # "Unknown" =>
              /\ object'[p].state # "Unknown"
              /\ object'[p].oldestPending = object[p].oldestPending
    BY <2>1, <2>2 DEF SoftObject, Free, Quiet
  <2>4. ASSUME NEW t \in Tasks, SlotOf[t] = p, Unresolved(t)'
        PROVE  object[p].state # "Unknown" /\ Quiet(p)
    <3>1. Unresolved(t) \/ object[p].state = "Missing"
      BY <2>4 DEF SoftTask, Unresolved, ObjectOf
    <3> QED
      BY <2>2, <2>4, <3>1 DEF Free, ObjectFree
  <2>5. Free(p)' => /\ object'[p].state # "Unknown" /\ Heard(p)
                    /\ Claims(p - 1) # {} => object'[p].oldestPending[Tolerable] = UnknownPulse
    <3>1. Free(p)' => ObjectFree(object'[p]) \/ \E t \in Tasks : SlotOf[t] = p /\ Unresolved(t)'
      BY DEF Free, ObjectFree
    <3> QED
      BY <2>3, <2>4, <3>1 DEF Quiet
  <2> QED
    BY <1>5, <2>1, <2>3, <2>5 DEF Quiet
<1> QED
  BY <1>1, <1>5, <1>6 DEF ExecutorInv, CoreInv

(* A step of one machine, of its object, or of both *)
LEMMA TaskMoves ==
    ASSUME ExecutorInv, clock' = clock, NEW t \in Tasks, NEW tk \in TaskType, NEW o,
           task' = [task EXCEPT ![t] = tk], object' = [object EXCEPT ![SlotOf[t]] = o],
           LocalTask(t, tk, o), SoftTask(t, tk),
           LocalObject(SlotOf[t], o), SoftObject(SlotOf[t], o),
           msgs' = msgs, panics' \subseteq Panic
    PROVE  ExecutorInv'
<1>1. TypeOK /\ SlotOf[t] \in Pulses /\ o \in ObjectType
  BY PulseFacts DEF ExecutorInv, LocalObject
<1>2. TypeOK'
  BY <1>1 DEF TypeOK
<1>3. /\ task'[t] = tk /\ \A u \in Tasks : u # t => task'[u] = task[u]
      /\ object'[SlotOf[t]] = o
      /\ \A p \in Pulses : p # SlotOf[t] => object'[p] = object[p]
  BY <1>1 DEF TypeOK
<1> QED
  BY <1>2, <1>3, SoftInv

LEMMA TaskMovesAlone ==
    ASSUME ExecutorInv, clock' = clock, NEW t \in Tasks, NEW tk \in TaskType,
           task' = [task EXCEPT ![t] = tk], object' = object,
           LocalTask(t, tk, object[SlotOf[t]]), SoftTask(t, tk),
           msgs' \subseteq MessageType, panics' \subseteq Panic,
           \A m \in msgs' : \/ m \in msgs
                            \/ m.type = "VDelegatedRequestFinished" /\ FinishedOK(m)'
    PROVE  ExecutorInv'
<1>1. TypeOK
  BY DEF ExecutorInv
<1>2. TypeOK'
  BY <1>1 DEF TypeOK
<1>3. task'[t] = tk /\ \A u \in Tasks : u # t => task'[u] = task[u]
  BY <1>1 DEF TypeOK
<1> QED
  BY <1>2, <1>3, SoftInv

LEMMA ObjectMoves ==
    ASSUME ExecutorInv, clock' = clock, task' = task, NEW p \in Pulses, NEW o,
           object' = [object EXCEPT ![p] = o], LocalObject(p, o), SoftObject(p, o),
           msgs' \subseteq MessageType, panics' \subseteq Panic,
           \A m \in msgs' : m \in msgs \/ (m.type = "VStateReport" /\ ReportOK(m))
    PROVE  ExecutorInv'
<1>1. TypeOK /\ o \in ObjectType
  BY DEF ExecutorInv, LocalObject
<1>2. TypeOK'
  BY <1>1 DEF TypeOK
<1>3. object'[p] = o /\ \A q \in Pulses : q # p => object'[q] = object[q]
  BY <1>1 DEF TypeOK
<1> QED
  BY <1>2, <1>3, SoftInv

(* A machine may stop at any time. *)
LEMMA TaskEnds ==
    ASSUME ExecutorInv, NEW t \in Tasks, NEW x \in TaskType, NEW pc \in Ended, NEW o
    PROVE  /\ EndTask(x, pc) \in TaskType
           /\ LocalTask(t, EndTask(x, pc), o) /\ SoftTask(t, EndTask(x, pc))
<1> DEFINE tk == EndTask(x, pc)
<1>1. pc \in TaskStep
  BY DEF TaskStep
<1>2. /\ tk \in TaskType /\ tk.pc = pc /\ tk.resume = "idle" /\ ~ tk.active /\ ~ tk.lock
      /\ ~ tk.migrated /\ ~ tk.negotiated /\ tk.granted = UnknownPulse
  BY <1>1, EndTaskFacts
<1> HIDE DEF tk
<1>3. TaskOK(tk, NodeOf(t), SlotOf[t])
  BY <1>2 DEF TaskOK, Ended, ActingSteps, EarlySteps
<1>4. LocalTask(t, tk, o)
  BY <1>2, <1>3 DEF LocalTask, Started
<1>5. SoftTask(t, tk)
  BY <1>2 DEF SoftTask, CanAct, EarlyError, Ended
<1> QED
  BY <1>2, <1>4, <1>5 DEF tk

(* A machine that goes on, as it is but for its step and its result, keeps *)
(* what it has.                                                            *)
LEMMA TaskGoesOn ==
    ASSUME ExecutorInv, NEW t \in Tasks, NEW tk \in TaskType, NEW o,
           task[t].pc \notin Ended \cup {"idle", "getToken"},
           tk.pc \notin Ended \cup {"idle", "getToken"},
           tk.active = task[t].active, tk.migrated = task[t].migrated,
           tk.granted = task[t].granted, tk.resume = task[t].resume,
           task[t].lock => tk.lock, task[t].negotiated => tk.negotiated,
           IsOrdered(t) /\ tk.lock =>
              task[t].lock \/ (~ OrderedHeld(SlotOf[t]) /\ ObjectOf(t).execute[Tolerable]),
           tk.pc \in {"waitObjectReady", "waitConstructor"} => ~ tk.negotiated,
           task[t].active => tk.pc \in ActingSteps,
           ~ task[t].active => tk.pc \in {"sendCallResult", "finishRequest"} \/ tk.pc \in EarlySteps,
           tk.pc \in EarlySteps \ {"waitObjectReady", "waitConstructor"} => tk.negotiated,
           tk.pc \in {"lifeline", "start"} => tk.lock,
           tk.pc = "saveNewObject" => tk.outcome # "error",
           tk.pc \in {"callSummary", "sendFinished"} => tk.migrated,
           o.phase = "none" => ObjectOf(t).phase = "none",
           Started(tk) => Started(task[t]) \/ Listed(o, Call[t]),
           EarlyError(tk, Call[t]) => Unresolved(t) \/ ObjectOf(t).state = "Missing"
    PROVE  LocalTask(t, tk, o) /\ SoftTask(t, tk)
<1>1. /\ TaskOK(task[t], NodeOf(t), SlotOf[t]) /\ task[t] \in TaskType
      /\ object[SlotOf[t]].phase # "none"
  BY TypeFacts DEF ExecutorInv, LocalInv, TaskInv, KnownInv
<1>2. tk.pc \in TaskStep /\ tk.active \in BOOLEAN /\ tk.lock \in BOOLEAN
      /\ tk.migrated \in BOOLEAN /\ tk.negotiated \in BOOLEAN
  BY DEF TaskType
<1>3. TaskOK(tk, NodeOf(t), SlotOf[t])
  BY <1>1, <1>2 DEF TaskOK, EarlySteps, ActingSteps, Ended
<1>4. LocalTask(t, tk, o)
  BY <1>1, <1>3 DEF LocalTask, ObjectOf
<1>5. SoftTask(t, tk)
  BY <1>2 DEF SoftTask, CanAct, Hot
<1> QED
  BY <1>4, <1>5

(* An object changes but for what the gate and the report depend on. *)
LEMMA ObjectKept ==
    ASSUME ExecutorInv, NEW p \in Pulses, NEW o \in ObjectType, object[p].phase # "none",
           o.phase = object[p].phase, o.asked = object[p].asked,
           o.ReadyToWork = object[p].ReadyToWork, o.execute = object[p].execute,
           o.pending = object[p].pending, o.report = object[p].report,
           o.oldestPending = object[p].oldestPending,
           o.state = "Unknown" <=> object[p].state = "Unknown",
           \A r \in Requests : Listed(object[p], r) => Listed(o, r),
           Live(p) /\ ObjectFree(o) => Free(p)
    PROVE  LocalObject(p, o) /\ SoftObject(p, o)
<1>1. ObjectOK(object[p], p, clock[p]) /\ GateInv
  BY DEF ExecutorInv, LocalInv, CoreInv, ObjectInv
<1>2. ObjectOK(o, p, clock[p])
  BY <1>1 DEF ObjectOK
<1>3. LocalObject(p, o)
  BY <1>2 DEF LocalObject
<1>4. SoftObject(p, o)
  BY <1>1 DEF SoftObject, GateInv, Quiet, HasLeft
<1> QED
  BY <1>3, <1>4

-----------------------------------------------------------------------------
(* stepIsolationNegotiation *)
LEMMA NegotiationFacts ==
    ASSUME ExecutorInv, NEW t \in Tasks, task[t].pc \in {"waitObjectReady", "waitConstructor"}
    PROVE  LET tk == StepIsolationNegotiation(t)
           IN  /\ tk \in TaskType
               /\ LocalTask(t, tk, object[SlotOf[t]]) /\ SoftTask(t, tk)
<1> DEFINE tk == StepIsolationNegotiation(t)
<1>1. task[t] \in TaskType /\ TaskOK(task[t], NodeOf(t), SlotOf[t])
  BY TypeFacts DEF ExecutorInv, LocalInv, TaskInv
<1>2. ~ task[t].active /\ ~ task[t].negotiated
  BY <1>1 DEF TaskOK, ActingSteps
<1>3. CASE ClassifyPanics(t)
  <2>1. tk = EndTask(task[t], "dead")
    BY <1>3 DEF StepIsolationNegotiation
  <2> QED
    BY <1>1, <2>1, TaskEnds DEF Ended
<1>4. CASE ~ ClassifyPanics(t) /\ NegotiationFails(Call[t])
  <2>1. tk = [task[t] EXCEPT !.pc = "sendCallResult", !.outcome = "error"]
    BY <1>1, <1>4 DEF StepIsolationNegotiation, Goto
  <2>2. /\ tk \in TaskType /\ tk.pc = "sendCallResult"
        /\ tk.active = task[t].active /\ tk.lock = task[t].lock /\ tk.migrated = task[t].migrated
        /\ tk.negotiated = task[t].negotiated /\ tk.granted = task[t].granted
        /\ tk.resume = task[t].resume
    BY ZenonT(40), <1>1, <2>1 DEF TaskType, TaskStep, Outcome
  <2> HIDE DEF tk
  <2>3. ~ EarlyError(tk, Call[t]) /\ ~ Started(tk)
    BY <1>2, <1>4, <2>2 DEF EarlyError, Started, NegotiationFails, Tolerable, Intolerable
  <2>4. LocalTask(t, tk, object[SlotOf[t]]) /\ SoftTask(t, tk)
    BY <1>2, <2>2, <2>3, TaskGoesOn DEF Ended, EarlySteps, ObjectOf
  <2> QED
    BY <2>2, <2>4 DEF tk
<1>5. CASE ~ ClassifyPanics(t) /\ ~ NegotiationFails(Call[t])
  <2>1. tk = [task[t] EXCEPT !.pc = "deduplicate", !.negotiated = TRUE]
    BY <1>1, <1>5 DEF StepIsolationNegotiation, Goto
  <2>2. /\ tk \in TaskType /\ tk.pc = "deduplicate" /\ tk.negotiated
        /\ tk.active = task[t].active /\ tk.lock = task[t].lock /\ tk.migrated = task[t].migrated
        /\ tk.granted = task[t].granted /\ tk.resume = task[t].resume
    BY <1>1, <2>1 DEF TaskType, TaskStep, Outcome
  <2> HIDE DEF tk
  <2>3. ~ EarlyError(tk, Call[t]) /\ ~ Started(tk)
    BY <2>2 DEF EarlyError, Started
  <2>4. LocalTask(t, tk, object[SlotOf[t]]) /\ SoftTask(t, tk)
    BY <1>2, <2>2, <2>3, TaskGoesOn DEF Ended, EarlySteps, ObjectOf
  <2> QED
    BY <2>2, <2>4 DEF tk
<1> QED
  BY <1>3, <1>4, <1>5

LEMMA WaitObjectReadyInv ==
    ASSUME ExecutorInv, NEW t \in Tasks,
           StepWaitObjectReady(t) \/ StepWaitPendingConstructorFinished(t)
    PROVE  ExecutorInv'
<1>1. task[t] \in TaskType /\ TaskOK(task[t], NodeOf(t), SlotOf[t]) /\ TypeOK
  BY TypeFacts DEF ExecutorInv, LocalInv, TaskInv
<1>2. /\ clock' = clock /\ object' = object /\ msgs' = msgs
      /\ msgs' \subseteq MessageType /\ panics' \subseteq Panic
      /\ task[t].pc \in {"waitObjectReady", "waitConstructor"}
  BY <1>1 DEF StepWaitObjectReady, StepWaitPendingConstructorFinished, Step, At, TypeOK, Panic
<1>3. ~ task[t].active /\ ~ task[t].negotiated
  BY <1>1, <1>2 DEF TaskOK, ActingSteps
<1>4. CASE task' = [task EXCEPT ![t] = StepIsolationNegotiation(t)]
  BY <1>2, <1>4, NegotiationFacts, TaskMovesAlone
<1>5. CASE /\ ObjectOf(t).state = "Missing"
           /\ task' = [task EXCEPT ![t] = [Goto(t, "sendCallResult") EXCEPT !.outcome = "error"]]
  <2> DEFINE tk == [task[t] EXCEPT !.pc = "sendCallResult", !.outcome = "error"]
  <2>1. task' = [task EXCEPT ![t] = tk]
    BY <1>1, <1>5 DEF Goto
  <2>2. /\ tk \in TaskType /\ tk.pc = "sendCallResult"
        /\ tk.active = task[t].active /\ tk.lock = task[t].lock /\ tk.migrated = task[t].migrated
        /\ tk.negotiated = task[t].negotiated /\ tk.granted = task[t].granted
        /\ tk.resume = task[t].resume
    BY <1>1 DEF TaskType, TaskStep, Outcome
  <2> HIDE DEF tk
  <2>3. ~ Started(tk)
    BY <1>3, <2>2 DEF Started
  <2>4. LocalTask(t, tk, object[SlotOf[t]]) /\ SoftTask(t, tk)
    BY <1>2, <1>3, <1>5, <2>2, <2>3, TaskGoesOn DEF Ended, EarlySteps, ObjectOf
  <2> QED
    BY <1>2, <2>1, <2>2, <2>4, TaskMovesAlone
<1>6. CASE task' = [task EXCEPT ![t] = Goto(t, "waitConstructor")]
  <2> DEFINE tk == [task[t] EXCEPT !.pc = "waitConstructor"]
  <2>1. task' = [task EXCEPT ![t] = tk]
    BY <1>6 DEF Goto
  <2>2. /\ tk \in TaskType /\ tk.pc = "waitConstructor"
        /\ tk.active = task[t].active /\ tk.lock = task[t].lock /\ tk.migrated = task[t].migrated
        /\ tk.negotiated = task[t].negotiated /\ tk.granted = task[t].granted
        /\ tk.resume = task[t].resume
    BY <1>1 DEF TaskType, TaskStep
  <2> HIDE DEF tk
  <2>3. ~ Started(tk) /\ ~ EarlyError(tk, Call[t])
    BY <2>2 DEF Started, EarlyError
  <2>4. LocalTask(t, tk, object[SlotOf[t]]) /\ SoftTask(t, tk)
    BY <1>2, <1>3, <2>2, <2>3, TaskGoesOn DEF Ended, EarlySteps, ObjectOf
  <2> QED
    BY <1>2, <2>1, <2>2, <2>4, TaskMovesAlone
<1> QED
  BY <1>4, <1>5, <1>6 DEF StepWaitObjectReady, StepWaitPendingConstructorFinished, Step

(* The frame of a machine: what only a pulse change, the start and the end *)
(* of the call touch *)
SameFrame(tk, x) == /\ tk.active = x.active /\ tk.lock = x.lock /\ tk.migrated = x.migrated
                    /\ tk.negotiated = x.negotiated /\ tk.granted = x.granted
                    /\ tk.resume = x.resume

(* SMVFindCallRequest, stepProcessFindCallResponse, stepTakeLock *)
LEMMA FindCallInv ==
    ASSUME ExecutorInv, NEW t \in Tasks,
           AnswerFindCall(t) \/ StepProcessFindCallResponse(t)
    PROVE  ExecutorInv'
<1>1. task[t] \in TaskType /\ TaskOK(task[t], NodeOf(t), SlotOf[t]) /\ TypeOK
  BY TypeFacts DEF ExecutorInv, LocalInv, TaskInv
<1>2. /\ clock' = clock /\ object' = object /\ msgs' = msgs
      /\ msgs' \subseteq MessageType /\ panics' \subseteq Panic
      /\ task[t].pc = "waitFindCall"
  BY <1>1 DEF AnswerFindCall, StepProcessFindCallResponse, Step, At, TypeOK, Panic
<1>3. ~ task[t].active /\ task[t].negotiated
  BY <1>1, <1>2 DEF TaskOK, ActingSteps, EarlySteps
<1>4. ASSUME NEW tk \in TaskType, task' = [task EXCEPT ![t] = tk], SameFrame(tk, task[t]),
             tk.pc \in {"waitFindCall", "takeLock"}
      PROVE  ExecutorInv'
  <2>1. ~ Started(tk) /\ ~ EarlyError(tk, Call[t])
    BY <1>4 DEF Started, EarlyError
  <2>2. LocalTask(t, tk, object[SlotOf[t]]) /\ SoftTask(t, tk)
    BY <1>2, <1>3, <1>4, <2>1, TaskGoesOn DEF SameFrame, Ended, EarlySteps, ObjectOf
  <2> QED
    BY <1>2, <1>4, <2>2, TaskMovesAlone
<1>5. CASE AnswerFindCall(t)
  <2>1. PICK find \in {"result", "running", "notFound"} :
           task' = [task EXCEPT ![t] = [task[t] EXCEPT !.find = find]]
    BY <1>5 DEF AnswerFindCall, Step
  <2> DEFINE tk == [task[t] EXCEPT !.find = find]
  <2>2. tk \in TaskType /\ tk.pc = "waitFindCall" /\ SameFrame(tk, task[t])
    BY <1>1, <1>2 DEF TaskType, SameFrame
  <2> QED
    BY <1>4, <2>1, <2>2
<1>6. ASSUME NEW x \in TaskType, NEW pc \in Ended, task' = [task EXCEPT ![t] = EndTask(x, pc)]
      PROVE  ExecutorInv'
  BY <1>2, <1>6, TaskEnds, TaskMovesAlone
<1>7. CASE StepProcessFindCallResponse(t)
  <2>1. \/ \E pc \in {"dead", "deduplicated"} : task' = [task EXCEPT ![t] = EndTask(task[t], pc)]
        \/ task' = [task EXCEPT ![t] = EndTask([task[t] EXCEPT !.answer = "resent"],
                                               "deduplicated")]
        \/ task' = [task EXCEPT ![t] = Goto(t, "takeLock")]
    <3>1. task[t].find \in {"result", "running", "notFound"}
      BY <1>1, <1>7 DEF StepProcessFindCallResponse, TaskType
    <3> QED
      BY <3>1, <1>7 DEF StepProcessFindCallResponse, Step
  <2>2. "dead" \in Ended /\ "deduplicated" \in Ended
    BY DEF Ended
  <2>3. [task[t] EXCEPT !.answer = "resent"] \in TaskType
    BY <1>1 DEF TaskType
  <2>4. CASE task' = [task EXCEPT ![t] = Goto(t, "takeLock")]
    <3> DEFINE tk == [task[t] EXCEPT !.pc = "takeLock"]
    <3>1. tk \in TaskType /\ tk.pc = "takeLock" /\ SameFrame(tk, task[t])
      BY <1>1 DEF TaskType, SameFrame, TaskStep
    <3> QED
      BY <1>4, <2>4, <3>1 DEF Goto
  <2> QED
    BY <1>1, <1>6, <2>1, <2>2, <2>3, <2>4
<1> QED
  BY <1>5, <1>7

LEMMA TakeLockInv ==
    ASSUME ExecutorInv, NEW t \in Tasks, StepTakeLock(t)
    PROVE  ExecutorInv'
<1>1. task[t] \in TaskType /\ TaskOK(task[t], NodeOf(t), SlotOf[t]) /\ TypeOK
  BY TypeFacts DEF ExecutorInv, LocalInv, TaskInv
<1>2. /\ clock' = clock /\ object' = object /\ msgs' = msgs
      /\ msgs' \subseteq MessageType /\ panics' \subseteq Panic
      /\ task[t].pc = "takeLock"
      /\ IsOrdered(t) => ~ OrderedHeld(SlotOf[t]) /\ ObjectOf(t).execute[Tolerable]
  BY <1>1 DEF StepTakeLock, Step, At, TypeOK, IsOrdered
<1>3. ~ task[t].active /\ task[t].negotiated
  BY <1>1, <1>2 DEF TaskOK, ActingSteps, EarlySteps
<1>4. PICK pc \in {"lifeline", "start"} :
         task' = [task EXCEPT ![t] = [Goto(t, pc) EXCEPT !.lock = TRUE]]
  BY DEF StepTakeLock, Step
<1> DEFINE tk == [task[t] EXCEPT !.pc = pc, !.lock = TRUE]
<1>5. task' = [task EXCEPT ![t] = tk]
  BY <1>1, <1>4 DEF Goto
<1>6. /\ tk \in TaskType /\ tk.pc = pc /\ tk.lock
      /\ tk.active = task[t].active /\ tk.migrated = task[t].migrated
      /\ tk.negotiated = task[t].negotiated /\ tk.granted = task[t].granted
      /\ tk.resume = task[t].resume
  BY <1>1 DEF TaskType, TaskStep
<1> HIDE DEF tk
<1>7. ~ Started(tk) /\ ~ EarlyError(tk, Call[t])
  BY <1>6 DEF Started, EarlyError
<1>8. LocalTask(t, tk, object[SlotOf[t]]) /\ SoftTask(t, tk)
  BY <1>2, <1>3, <1>6, <1>7, TaskGoesOn DEF Ended, EarlySteps, ObjectOf
<1> QED
  BY <1>2, <1>5, <1>6, <1>8, TaskMovesAlone

(* The contract code runs, and the result is sent. *)
LEMMA ExecuteInv ==
    ASSUME ExecutorInv, NEW t \in Tasks,
           \/ StepSendOutgoing(t) \/ StepExecuteContinue(t)
           \/ StepExecuteDecideNextStep(t) \/ StepSendCallResult(t)
    PROVE  ExecutorInv'
<1>1. task[t] \in TaskType /\ TaskOK(task[t], NodeOf(t), SlotOf[t]) /\ TypeOK
  BY TypeFacts DEF ExecutorInv, LocalInv, TaskInv
<1>2. /\ clock' = clock /\ object' = object /\ msgs' = msgs
      /\ msgs' \subseteq MessageType /\ panics' \subseteq Panic
      /\ task[t].pc \in {"execute", "sendCallResult"}
  BY <1>1 DEF StepSendOutgoing, StepExecuteContinue, StepExecuteDecideNextStep,
              StepSendCallResult, Step, At, TypeOK
<1>3. task[t].pc = "execute" => task[t].active
  BY <1>1 DEF TaskOK
<1>4. ASSUME NEW tk \in TaskType, task' = [task EXCEPT ![t] = tk], SameFrame(tk, task[t]),
             tk.pc \in {"execute", "sendCallResult", "saveNewObject", "finishRequest"},
             task[t].pc = "sendCallResult" => tk.pc = "finishRequest",
             tk.pc = "saveNewObject" => tk.outcome # "error"
      PROVE  ExecutorInv'
  <2>1. Started(tk) => Started(task[t])
    BY <1>2, <1>4 DEF Started, SameFrame
  <2>2. EarlyError(tk, Call[t]) => Unresolved(t)
    <3>1. task[t].active => task[t].negotiated
      BY <1>1 DEF TaskOK
    <3> QED
      BY <1>2, <1>3, <1>4, <3>1 DEF EarlyError, Unresolved, SameFrame
  <2>3. LocalTask(t, tk, object[SlotOf[t]]) /\ SoftTask(t, tk)
    BY <1>2, <1>3, <1>4, <2>1, <2>2, TaskGoesOn
       DEF SameFrame, Ended, EarlySteps, ActingSteps, ObjectOf
  <2> QED
    BY <1>2, <1>4, <2>3, TaskMovesAlone
<1>5. CASE StepSendOutgoing(t)
  <2> DEFINE tk == [task[t] EXCEPT !.sent = 1]
  <2>1. task' = [task EXCEPT ![t] = tk] /\ task[t].pc = "execute"
    BY <1>5 DEF StepSendOutgoing, Step, At
  <2>2. tk \in TaskType /\ tk.pc = "execute" /\ SameFrame(tk, task[t])
    BY <1>1, <2>1 DEF TaskType, SameFrame
  <2> QED
    BY <1>4, <2>1, <2>2
<1>6. CASE StepExecuteContinue(t)
  <2> DEFINE tk == [task[t] EXCEPT !.sent = 0, !.called = TRUE]
  <2>1. task' = [task EXCEPT ![t] = tk] /\ task[t].pc = "execute"
    BY <1>6 DEF StepExecuteContinue, Step, At
  <2>2. tk \in TaskType /\ tk.pc = "execute" /\ SameFrame(tk, task[t])
    BY <1>1, <2>1 DEF TaskType, SameFrame
  <2> QED
    BY <1>4, <2>1, <2>2
<1>7. CASE StepExecuteDecideNextStep(t)
  <2>1. PICK outcome \in OutcomesOf[Call[t]] :
           \/ task' = [task EXCEPT ![t] = [Goto(t, "sendCallResult") EXCEPT !.outcome = "error"]]
           \/ /\ outcome # "error"
              /\ task' = [task EXCEPT ![t] = [Goto(t, "saveNewObject") EXCEPT !.outcome = outcome]]
    BY <1>7 DEF StepExecuteDecideNextStep, Step
  <2>2. outcome \in Outcome /\ task[t].pc = "execute"
    BY <1>7, CallFacts, RequestKindsAssumption DEF StepExecuteDecideNextStep, Step, At
  <2>3. ASSUME NEW pc \in {"sendCallResult", "saveNewObject"}, NEW oc \in Outcome,
               pc = "saveNewObject" => oc # "error",
               task' = [task EXCEPT ![t] = [Goto(t, pc) EXCEPT !.outcome = oc]]
        PROVE  ExecutorInv'
    <3> DEFINE tk == [task[t] EXCEPT !.pc = pc, !.outcome = oc]
    <3>1. task' = [task EXCEPT ![t] = tk]
      BY <1>1, <2>3 DEF Goto
    <3>2. tk \in TaskType /\ tk.pc = pc /\ tk.outcome = oc /\ SameFrame(tk, task[t])
      BY <1>1 DEF TaskType, SameFrame, TaskStep
    <3> HIDE DEF tk
    <3> QED
      BY <1>4, <2>2, <2>3, <3>1, <3>2
  <2>4. "error" \in Outcome
    BY DEF Outcome
  <2> QED
    BY <2>1, <2>2, <2>3, <2>4
<1>8. CASE StepSendCallResult(t)
  <2>1. PICK answer \in {"error", "ok"} :
           task' = [task EXCEPT ![t] = [Goto(t, "finishRequest") EXCEPT !.answer = answer]]
    BY <1>8 DEF StepSendCallResult, Step
  <2> DEFINE tk == [task[t] EXCEPT !.pc = "finishRequest", !.answer = answer]
  <2>2. task' = [task EXCEPT ![t] = tk] /\ task[t].pc = "sendCallResult"
    BY <1>1, <1>8, <2>1 DEF Goto, StepSendCallResult, Step, At
  <2>3. tk \in TaskType /\ tk.pc = "finishRequest" /\ SameFrame(tk, task[t])
    BY <1>1 DEF TaskType, SameFrame, TaskStep
  <2> HIDE DEF tk
  <2> QED
    BY <1>4, <2>2, <2>3
<1> QED
  BY <1>5, <1>6, <1>7, <1>8

(* A step on a working list, which goes wrong only where nobody waits *)
KnownUpdate(o, x, f, list) ==
    /\ o.phase = x.phase /\ o.asked = x.asked /\ o.ReadyToWork = x.ReadyToWork
    /\ o.execute = x.execute /\ o.pending = x.pending /\ o.report = x.report
    /\ o.oldestPending = x.oldestPending /\ o.state = x.state /\ o.prevPending = x.prevPending
    /\ o.known[f] = list /\ \A g \in Flags : g # f => o.known[g] = x.known[g]

LEMMA KnownUpdateFacts ==
    ASSUME NEW x \in ObjectType, NEW f \in Flags, NEW list \in ListType,
           NEW res \in [Requests -> CallSummary]
    PROVE  LET o == [x EXCEPT !.known[f] = list, !.results = res]
           IN  o \in ObjectType /\ KnownUpdate(o, x, f, list)
BY DEF ObjectType, KnownUpdate

LEMMA KnownChanges ==
    ASSUME ExecutorInv, NEW p \in Pulses, NEW f \in Flags, NEW list \in ListType,
           NEW o \in ObjectType, KnownUpdate(o, object[p], f, list), object[p].phase # "none",
           \A r \in Requests : object[p].known[f].requests[r] \in {"Processing", "Finished"}
              => list.requests[r] \in {"Processing", "Finished"},
           f = Tolerable /\ Live(p) /\ ListConsistent(object[p].known[f])
              => ListConsistent(list) \/ Free(p)
    PROVE  LocalObject(p, o) /\ SoftObject(p, o)
<1>1. \A r \in Requests : Listed(object[p], r) => Listed(o, r)
  BY CallFacts DEF KnownUpdate, Listed
<1>2. Live(p) /\ ObjectFree(o) => Free(p)
  BY CallFacts DEF KnownUpdate, ObjectFree, Free
<1> QED
  BY <1>1, <1>2, ObjectKept DEF KnownUpdate

(* stepDeduplicate *)
LEMMA DeduplicateInv ==
    ASSUME ExecutorInv, NEW t \in Tasks, StepDeduplicate(t)
    PROVE  ExecutorInv'
<1> DEFINE p == SlotOf[t]
           r == Call[t]
           f == FlagOf[r]
           list == WorkingAdd(object[p].known[f], r)
           o == [object[p] EXCEPT !.known[f] = list, !.results = object[p].results]
<1>1. task[t] \in TaskType /\ TaskOK(task[t], NodeOf(t), SlotOf[t]) /\ TypeOK
  BY TypeFacts DEF ExecutorInv, LocalInv, TaskInv
<1>2. /\ p \in Pulses /\ r \in Requests /\ f \in Flags /\ object[p] \in ObjectType
  BY <1>1, PulseFacts, CallFacts, TypeFacts
<1>3. /\ clock' = clock /\ msgs' = msgs /\ panics' \subseteq Panic
      /\ task[t].pc = "deduplicate"
  BY <1>1 DEF StepDeduplicate, Step, At, TypeOK, Panic
<1>4. ~ task[t].active /\ task[t].negotiated /\ object[p].phase # "none"
  BY <1>1, <1>3 DEF TaskOK, ActingSteps, EarlySteps, ExecutorInv, LocalInv, KnownInv, Ended
<1>5. object' = [object EXCEPT ![p] = o]
  <2>1. object' = [object EXCEPT ![p].known[f] = list]
    BY DEF StepDeduplicate, ObjectOf
  <2>2. o = [object[p] EXCEPT !.known[f] = list]
    BY <1>2 DEF ObjectType
  <2> HIDE DEF list, o
  <2> QED
    BY <1>1, <1>2, <2>1, <2>2
<1>6. o.phase = object[p].phase /\ LocalObject(p, o) /\ SoftObject(p, o)
  <2>1. object[p].known[f] \in ListType /\ object[p].results \in [Requests -> CallSummary]
    BY <1>2 DEF ObjectType
  <2>2. /\ list \in ListType
        /\ ListConsistent(object[p].known[f]) => ListConsistent(list)
        /\ list.requests = IF CanAdd(object[p].known[f], r)
                           THEN [object[p].known[f].requests EXCEPT ![r] = "Started"]
                           ELSE object[p].known[f].requests
    BY <1>2, <2>1, MethodsKeepType, MethodsKeepConsistency, MethodsSetState
  <2>3. object[p].known[f].requests \in [Requests -> RequestState]
    BY <2>1 DEF ListType
  <2> HIDE DEF list
  <2>4. \A x \in Requests : object[p].known[f].requests[x] \in {"Processing", "Finished"}
                                => list.requests[x] \in {"Processing", "Finished"}
    BY <2>2, <2>3 DEF CanAdd
  <2>5. o \in ObjectType /\ KnownUpdate(o, object[p], f, list)
    BY <1>2, <2>1, <2>2, KnownUpdateFacts
  <2> HIDE DEF o
  <2>6. LocalObject(p, o) /\ SoftObject(p, o)
    BY <1>2, <1>4, <2>2, <2>4, <2>5, KnownChanges
  <2> QED
    BY <2>5, <2>6 DEF KnownUpdate
<1> HIDE DEF o
<1>7. ASSUME NEW x \in TaskType, NEW pc \in Ended, task' = [task EXCEPT ![t] = EndTask(x, pc)]
      PROVE  ExecutorInv'
  BY <1>3, <1>5, <1>6, <1>7, TaskEnds, TaskMoves
<1>8. ASSUME NEW tk \in TaskType, task' = [task EXCEPT ![t] = tk], SameFrame(tk, task[t]),
             tk.pc \in {"takeLock", "waitFindCall"}
      PROVE  ExecutorInv'
  <2>1. ~ Started(tk) /\ ~ EarlyError(tk, Call[t])
    BY <1>8 DEF Started, EarlyError
  <2>2. LocalTask(t, tk, o) /\ SoftTask(t, tk)
    BY <1>3, <1>4, <1>6, <1>8, <2>1, TaskGoesOn DEF SameFrame, Ended, EarlySteps, ObjectOf
  <2> QED
    BY <1>3, <1>5, <1>6, <1>8, <2>2, TaskMoves
<1>9. \/ \E pc \in {"dead", "deduplicated"} : task' = [task EXCEPT ![t] = EndTask(task[t], pc)]
      \/ task' = [task EXCEPT ![t] = EndTask([task[t] EXCEPT !.answer = "resent"],
                                             "deduplicated")]
      \/ task' = [task EXCEPT ![t] = Goto(t, "takeLock")]
      \/ task' = [task EXCEPT ![t] = [Goto(t, "waitFindCall") EXCEPT
                                         !.settled = Settled(ObjectOf(t), r)]]
  <2>1. DeduplicationAction(t) \in {"ContinueExecute", "Stop", "NotImplemented",
                                    "DeduplicateThroughPreviousExecutor"}
    BY DEF DeduplicationAction
  <2> QED
    BY <2>1 DEF StepDeduplicate, Step
<1>10. CASE task' = [task EXCEPT ![t] = Goto(t, "takeLock")]
  <2> DEFINE tk == [task[t] EXCEPT !.pc = "takeLock"]
  <2>1. tk \in TaskType /\ tk.pc = "takeLock" /\ SameFrame(tk, task[t])
    BY <1>1 DEF TaskType, SameFrame, TaskStep
  <2> QED
    BY <1>8, <1>10, <2>1 DEF Goto
<1>11. CASE task' = [task EXCEPT ![t] = [Goto(t, "waitFindCall") EXCEPT
                                            !.settled = Settled(ObjectOf(t), r)]]
  <2> DEFINE tk == [task[t] EXCEPT !.pc = "waitFindCall", !.settled = Settled(ObjectOf(t), r)]
  <2>1. Settled(ObjectOf(t), r) \in BOOLEAN
    BY DEF Settled
  <2>2. task' = [task EXCEPT ![t] = tk]
    BY <1>1, <1>11 DEF Goto
  <2>3. tk \in TaskType /\ tk.pc = "waitFindCall" /\ SameFrame(tk, task[t])
    BY <1>1, <2>1 DEF TaskType, SameFrame, TaskStep
  <2> QED
    BY <1>8, <2>2, <2>3
<1>12. "dead" \in Ended /\ "deduplicated" \in Ended
       /\ [task[t] EXCEPT !.answer = "resent"] \in TaskType
  BY <1>1 DEF Ended, TaskType
<1> QED
  BY <1>1, <1>7, <1>9, <1>10, <1>11, <1>12

(* stepRegisterObjectLifelineAfter *)
LEMMA LifelineInv ==
    ASSUME ExecutorInv, NEW t \in Tasks, StepRegisterObjectLifelineAfter(t)
    PROVE  ExecutorInv'
<1> DEFINE p == SlotOf[t]
           o == [object[p] EXCEPT !.dirty = NewDescriptor({}, FALSE)]
           tk == [task[t] EXCEPT !.pc = "start"]
<1>1. task[t] \in TaskType /\ TaskOK(task[t], NodeOf(t), SlotOf[t]) /\ TypeOK
  BY TypeFacts DEF ExecutorInv, LocalInv, TaskInv
<1>2. /\ p \in Pulses /\ object[p] \in ObjectType
  BY <1>1, PulseFacts, TypeFacts
<1>3. /\ clock' = clock /\ msgs' = msgs /\ panics' \subseteq Panic
      /\ task[t].pc = "lifeline" /\ task' = [task EXCEPT ![t] = tk]
      /\ object' = [object EXCEPT ![p] = o]
  BY <1>1, <1>2 DEF StepRegisterObjectLifelineAfter, Step, At, TypeOK, Goto
<1>4. ~ task[t].active /\ task[t].negotiated /\ task[t].lock /\ object[p].phase # "none"
  BY <1>1, <1>3 DEF TaskOK, ActingSteps, EarlySteps, ExecutorInv, LocalInv, KnownInv, Ended
<1>5. /\ o \in ObjectType
      /\ o.phase = object[p].phase /\ o.asked = object[p].asked
      /\ o.ReadyToWork = object[p].ReadyToWork /\ o.execute = object[p].execute
      /\ o.pending = object[p].pending /\ o.report = object[p].report
      /\ o.oldestPending = object[p].oldestPending /\ o.state = object[p].state
      /\ o.prevPending = object[p].prevPending /\ o.known = object[p].known
  BY <1>2 DEF ObjectType, Descriptor, NewDescriptor
<1>6. tk \in TaskType /\ tk.pc = "start" /\ SameFrame(tk, task[t])
  BY <1>1 DEF TaskType, SameFrame, TaskStep
<1> HIDE DEF o, tk
<1>7. LocalObject(p, o) /\ SoftObject(p, o)
  <2>1. /\ \A r \in Requests : Listed(object[p], r) => Listed(o, r)
        /\ ObjectFree(o) => Free(p)
    BY <1>5 DEF Listed, ObjectFree, Free
  <2> QED
    BY <1>2, <1>4, <1>5, <2>1, ObjectKept
<1>8. LocalTask(t, tk, o) /\ SoftTask(t, tk)
  <2>1. ~ Started(tk) /\ ~ EarlyError(tk, Call[t])
    BY <1>6 DEF Started, EarlyError
  <2> QED
    BY <1>3, <1>4, <1>5, <1>6, <2>1, TaskGoesOn DEF SameFrame, Ended, EarlySteps, ObjectOf
<1> QED
  BY <1>3, <1>6, <1>7, <1>8, TaskMoves

(* stepSaveNewObject *)
LEMMA SaveNewObjectInv ==
    ASSUME ExecutorInv, NEW t \in Tasks, StepSaveNewObject(t)
    PROVE  ExecutorInv'
<1> DEFINE p == SlotOf[t]
           new == CASE task[t].outcome = "none" -> NoDescriptor
                    [] task[t].outcome = "change" ->
                           NewDescriptor(task[t].base \cup {Call[t]}, FALSE)
                    [] task[t].outcome = "deactivate" -> NewDescriptor(task[t].base, TRUE)
           saves == ~ task[t].migrated /\ new.has
           panic == saves /\ object[p].state \notin {"HasState", "Empty", "Missing"}
           tk == [task[t] EXCEPT !.pc = "sendCallResult", !.new = new]
<1>1. task[t] \in TaskType /\ TaskOK(task[t], NodeOf(t), SlotOf[t]) /\ TypeOK
  BY TypeFacts DEF ExecutorInv, LocalInv, TaskInv
<1>2. /\ p \in Pulses /\ object[p] \in ObjectType /\ Call[t] \in Requests
  BY <1>1, PulseFacts, CallFacts, TypeFacts
<1>3. /\ clock' = clock /\ msgs' = msgs /\ msgs' \subseteq MessageType /\ panics' \subseteq Panic
      /\ task[t].pc = "saveNewObject"
      /\ task' = [task EXCEPT ![t] = IF panic THEN EndTask(task[t], "dead") ELSE tk]
      /\ object' = IF ~ saves THEN object
                   ELSE IF panic THEN [object EXCEPT ![p].dirty = new]
                   ELSE [object EXCEPT ![p] = SaveDescriptor(@, new)]
  <2>1. /\ clock' = clock /\ msgs' = msgs /\ msgs' \subseteq MessageType
        /\ panics' \subseteq Panic /\ task[t].pc = "saveNewObject"
    BY <1>1 DEF StepSaveNewObject, Step, At, TypeOK, Panic
  <2>2. tk = [Goto(t, "sendCallResult") EXCEPT !.new = new]
    BY <1>1 DEF Goto
  <2>3. task' = [task EXCEPT ![t] = IF panic THEN EndTask(task[t], "dead") ELSE tk]
    BY <2>2 DEF StepSaveNewObject, Step, ObjectOf
  <2> QED
    BY <2>1, <2>3 DEF StepSaveNewObject, ObjectOf
<1>4. task[t].active /\ task[t].negotiated /\ task[t].outcome # "error" /\ object[p].phase # "none"
  BY <1>1, <1>3 DEF TaskOK, ExecutorInv, LocalInv, KnownInv, Ended
<1>5. new \in Descriptor
  <2>1. /\ task[t].outcome \in {"none", "change", "deactivate"}
        /\ task[t].base \in SUBSET (Requests \cup {Genesis})
    BY <1>1, <1>4 DEF TaskType, Outcome
  <2>2. /\ NoDescriptor \in Descriptor
        /\ NewDescriptor(task[t].base \cup {Call[t]}, FALSE) \in Descriptor
        /\ NewDescriptor(task[t].base, TRUE) \in Descriptor
    BY <1>2, <2>1 DEF Descriptor, NoDescriptor, NewDescriptor
  <2> QED
    BY <2>1, <2>2
<1> HIDE DEF new
<1>6. tk \in TaskType /\ tk.pc = "sendCallResult" /\ SameFrame(tk, task[t])
  BY <1>1, <1>5 DEF TaskType, SameFrame, TaskStep
<1> HIDE DEF tk
<1>7. ASSUME NEW o, o.phase = object[p].phase
      PROVE  LocalTask(t, tk, o) /\ SoftTask(t, tk)
  <2>1. (Started(tk) => Started(task[t])) /\ ~ EarlyError(tk, Call[t])
    BY <1>3, <1>4, <1>6 DEF Started, EarlyError, SameFrame
  <2> QED
    BY <1>3, <1>4, <1>6, <1>7, <2>1, TaskGoesOn
       DEF SameFrame, Ended, EarlySteps, ActingSteps, ObjectOf
<1>8. ASSUME NEW state \in ObjectState,
             state = "Unknown" <=> object[p].state = "Unknown",
             state # "Missing" \/ state = object[p].state
      PROVE  LET o == [object[p] EXCEPT !.dirty = new, !.state = state]
             IN  o.phase = object[p].phase /\ LocalObject(p, o) /\ SoftObject(p, o)
  <2> DEFINE o == [object[p] EXCEPT !.dirty = new, !.state = state]
  <2>1. /\ o \in ObjectType
        /\ o.phase = object[p].phase /\ o.asked = object[p].asked
        /\ o.ReadyToWork = object[p].ReadyToWork /\ o.execute = object[p].execute
        /\ o.pending = object[p].pending /\ o.report = object[p].report
        /\ o.oldestPending = object[p].oldestPending /\ o.state = state
        /\ o.prevPending = object[p].prevPending /\ o.known = object[p].known
    BY <1>2, <1>5 DEF ObjectType
  <2> HIDE DEF o
  <2>2. /\ \A r \in Requests : Listed(object[p], r) => Listed(o, r)
        /\ ObjectFree(o) => Free(p)
    BY <1>8, <2>1 DEF Listed, ObjectFree, Free
  <2>3. LocalObject(p, o) /\ SoftObject(p, o)
    BY <1>2, <1>4, <1>8, <2>1, <2>2, ObjectKept
  <2> QED
    BY <2>1, <2>3 DEF o
<1>9. CASE ~ saves
  <2>1. task' = [task EXCEPT ![t] = tk] /\ object' = object
    BY <1>3, <1>9
  <2>2. LocalTask(t, tk, object[SlotOf[t]]) /\ SoftTask(t, tk)
    BY <1>7
  <2> QED
    BY <1>3, <1>6, <2>1, <2>2, TaskMovesAlone
<1>10. CASE saves /\ panic
  <2> DEFINE o == [object[p] EXCEPT !.dirty = new, !.state = object[p].state]
  <2>1. object[p].state \in ObjectState /\ "dead" \in Ended
    BY <1>2 DEF ObjectType, Ended
  <2>2. LocalObject(p, o) /\ SoftObject(p, o)
    BY <1>8, <2>1
  <2>3. o = [object[p] EXCEPT !.dirty = new]
    BY <1>2 DEF ObjectType
  <2>4. object' = [object EXCEPT ![p] = o]
    BY <1>1, <1>2, <1>3, <1>10, <2>3 DEF TypeOK
  <2>5. task' = [task EXCEPT ![t] = EndTask(task[t], "dead")]
    BY <1>3, <1>10
  <2> HIDE DEF o, saves, panic
  <2> QED
    BY <1>1, <1>3, <2>1, <2>2, <2>4, <2>5, TaskEnds, TaskMoves
<1>11. CASE saves /\ ~ panic
  <2> DEFINE o == [object[p] EXCEPT !.dirty = new, !.state = "HasState"]
  <2>1. "HasState" \in ObjectState /\ object[p].state # "Unknown"
    BY <1>11 DEF ObjectState
  <2>2. o.phase = object[p].phase /\ LocalObject(p, o) /\ SoftObject(p, o)
    BY <1>8, <2>1
  <2>3. object' = [object EXCEPT ![p] = o]
    BY <1>1, <1>2, <1>3, <1>11 DEF TypeOK, SaveDescriptor
  <2>4. task' = [task EXCEPT ![t] = tk]
    BY <1>3, <1>11
  <2> HIDE DEF o, saves, panic
  <2>5. LocalTask(t, tk, o) /\ SoftTask(t, tk)
    BY <1>7, <2>2
  <2> QED
    BY <1>3, <1>6, <2>2, <2>3, <2>4, <2>5, TaskMoves
<1> QED
  BY <1>9, <1>10, <1>11

(* stepFinishRequest: only a call that ends before the negotiation of its  *)
(* queue may finish a request that is no more than started.                *)
LEMMA FinishRequestInv ==
    ASSUME ExecutorInv, NEW t \in Tasks, StepFinishRequest(t)
    PROVE  ExecutorInv'
<1> DEFINE p == SlotOf[t]
           r == Call[t]
           f == IF task[t].negotiated THEN FlagOf[r] ELSE CallFlag[r]
           finishes == ~ task[t].migrated /\ CanFinish(object[p].known[f], r)
           panic == finishes /\ object[p].results[r] = "none"
<1>1. task[t] \in TaskType /\ TaskOK(task[t], NodeOf(t), SlotOf[t]) /\ TypeOK
  BY TypeFacts DEF ExecutorInv, LocalInv, TaskInv
<1>2. /\ p \in Pulses /\ object[p] \in ObjectType /\ r \in Requests /\ f \in Flags
  BY <1>1, PulseFacts, CallFacts, TypeFacts
<1>3. /\ clock' = clock /\ msgs' = msgs /\ msgs' \subseteq MessageType /\ panics' \subseteq Panic
      /\ task[t].pc = "finishRequest" /\ object[p].phase # "none"
  BY <1>1 DEF StepFinishRequest, Step, At, TypeOK, Panic, ExecutorInv, LocalInv, KnownInv, Ended
<1>4. CASE task[t].migrated
  <2> DEFINE tk == [task[t] EXCEPT !.pc = "callSummary"]
  <2>1. task' = [task EXCEPT ![t] = tk] /\ object' = object
    BY <1>4 DEF StepFinishRequest, Step, Goto
  <2>2. tk \in TaskType /\ tk.pc = "callSummary" /\ SameFrame(tk, task[t])
    BY <1>1 DEF TaskType, SameFrame, TaskStep
  <2> HIDE DEF tk
  <2>3. ~ Started(tk) /\ ~ EarlyError(tk, Call[t]) /\ task[t].active
    BY <1>1, <1>3, <1>4, <2>2 DEF Started, EarlyError, TaskOK, Ended
  <2>4. LocalTask(t, tk, object[SlotOf[t]]) /\ SoftTask(t, tk)
    BY <1>3, <1>4, <2>2, <2>3, TaskGoesOn
       DEF SameFrame, Ended, EarlySteps, ActingSteps, ObjectOf
  <2> QED
    BY <1>3, <2>1, <2>2, <2>4, TaskMovesAlone
<1>5. CASE ~ task[t].migrated
  <2>1. PICK pc \in {"dead", "done"} : task' = [task EXCEPT ![t] = EndTask(task[t], pc)]
    BY <1>5 DEF StepFinishRequest, Step
  <2>2. pc \in Ended
    BY DEF Ended
  <2>3. CASE ~ finishes
    <3>1. object' = object
      BY <2>3 DEF StepFinishRequest, ObjectOf
    <3> QED
      BY <1>1, <1>3, <2>1, <2>2, <3>1, TaskEnds, TaskMovesAlone
  <2>4. CASE finishes
    <3> DEFINE list == WorkingFinish(object[p].known[f], r)
               res == [object[p].results EXCEPT ![r] = IF panic THEN @ ELSE "result"]
               o == [object[p] EXCEPT !.known[f] = list, !.results = res]
    <3>1. /\ object[p].known[f] \in ListType
          /\ object[p].results \in [Requests -> CallSummary]
      BY <1>2 DEF ObjectType
    <3>2. object' = [object EXCEPT ![p] = o]
      <4>1. object' = [object EXCEPT ![p].known[f] = list,
                                     ![p].results[r] = IF panic THEN object[p].results[r]
                                                       ELSE "result"]
        BY <1>2, <2>4 DEF StepFinishRequest, ObjectOf
      <4> HIDE DEF list, panic, f
      <4> QED
        BY <1>1, <1>2, <4>1 DEF TypeOK, ObjectType
    <3>3. /\ list \in ListType
          /\ ListConsistent(object[p].known[f]) /\ object[p].known[f].requests[r] # "Started"
                => ListConsistent(list)
          /\ list.requests = IF CanFinish(object[p].known[f], r)
                             THEN [object[p].known[f].requests EXCEPT ![r] = "Finished"]
                             ELSE object[p].known[f].requests
      BY <1>2, <3>1, MethodsKeepType, MethodsKeepConsistency, MethodsSetState
    <3>4. object[p].known[f].requests \in [Requests -> RequestState]
      BY <3>1 DEF ListType
    <3>5. res \in [Requests -> CallSummary]
      BY <3>1 DEF CallSummary
    <3> HIDE DEF list, res
    <3>6. \A x \in Requests : object[p].known[f].requests[x] \in {"Processing", "Finished"}
                                  => list.requests[x] \in {"Processing", "Finished"}
      BY <3>3, <3>4
    <3>7. f = Tolerable /\ Live(p) /\ ListConsistent(object[p].known[f])
             => ListConsistent(list) \/ Free(p)
      <4>1. CASE task[t].negotiated
        <5>1. Started(task[t])
          BY <1>3, <1>5, <4>1 DEF Started
        <5>2. object[p].known[f].requests[r] # "Started"
          BY <4>1, <5>1 DEF ExecutorInv, LocalInv, KnownInv, Listed
        <5> QED
          BY <3>3, <5>2
      <4>2. CASE ~ task[t].negotiated
        BY <1>3, <4>2 DEF Free, Unresolved, EarlyError
      <4> QED
        BY <4>1, <4>2
    <3>8. o \in ObjectType /\ KnownUpdate(o, object[p], f, list)
      BY <1>2, <3>3, <3>5, KnownUpdateFacts
    <3> HIDE DEF o, f
    <3>9. LocalObject(p, o) /\ SoftObject(p, o)
      BY <1>2, <1>3, <3>3, <3>6, <3>7, <3>8, KnownChanges
    <3> QED
      BY <1>1, <1>3, <2>1, <2>2, <3>2, <3>9, TaskEnds, TaskMoves
  <2> QED
    BY <2>3, <2>4
<1> QED
  BY <1>4, <1>5

(* stepPublishDataCallSummary *)
LEMMA PublishDataCallSummaryInv ==
    ASSUME ExecutorInv, NEW t \in Tasks, StepPublishDataCallSummary(t)
    PROVE  ExecutorInv'
<1> DEFINE p == SlotOf[t]
           r == Call[t]
           tk == [task[t] EXCEPT !.pc = "sendFinished"]
           o == [object[p] EXCEPT !.summary[r] = "result"]
<1>1. task[t] \in TaskType /\ TaskOK(task[t], NodeOf(t), SlotOf[t]) /\ TypeOK
  BY TypeFacts DEF ExecutorInv, LocalInv, TaskInv
<1>2. /\ p \in Pulses /\ object[p] \in ObjectType /\ r \in Requests
  BY <1>1, PulseFacts, CallFacts, TypeFacts
<1>3. /\ clock' = clock /\ msgs' = msgs /\ msgs' \subseteq MessageType /\ panics' \subseteq Panic
      /\ task[t].pc = "callSummary" /\ object[p].phase # "none"
  BY <1>1 DEF StepPublishDataCallSummary, Step, At, TypeOK, Panic, ExecutorInv, LocalInv,
              KnownInv, Ended
<1>4. task[t].active /\ task[t].migrated
  BY <1>1, <1>3 DEF TaskOK
<1>5. \/ task' = [task EXCEPT ![t] = EndTask(task[t], "dead")] /\ object' = object
      \/ task' = [task EXCEPT ![t] = tk] /\ object' = object
      \/ task' = [task EXCEPT ![t] = tk] /\ object' = [object EXCEPT ![p].summary[r] = "result"]
  BY DEF StepPublishDataCallSummary, Step, Goto
<1>6. tk \in TaskType /\ tk.pc = "sendFinished" /\ SameFrame(tk, task[t])
  BY <1>1 DEF TaskType, SameFrame, TaskStep
<1> HIDE DEF tk
<1>7. ASSUME NEW x, x.phase = object[p].phase
      PROVE  LocalTask(t, tk, x) /\ SoftTask(t, tk)
  <2>1. ~ Started(tk) /\ ~ EarlyError(tk, Call[t])
    BY <1>6 DEF Started, EarlyError
  <2> QED
    BY <1>3, <1>4, <1>6, <1>7, <2>1, TaskGoesOn
       DEF SameFrame, Ended, EarlySteps, ActingSteps, ObjectOf
<1>8. /\ o \in ObjectType
      /\ o.phase = object[p].phase /\ o.asked = object[p].asked
      /\ o.ReadyToWork = object[p].ReadyToWork /\ o.execute = object[p].execute
      /\ o.pending = object[p].pending /\ o.report = object[p].report
      /\ o.oldestPending = object[p].oldestPending /\ o.state = object[p].state
      /\ o.prevPending = object[p].prevPending /\ o.known = object[p].known
  BY <1>2 DEF ObjectType, CallSummary
<1>9. [object EXCEPT ![p].summary[r] = "result"] = [object EXCEPT ![p] = o]
  BY <1>1, <1>2 DEF TypeOK
<1> HIDE DEF o
<1>10. LocalObject(p, o) /\ SoftObject(p, o)
  <2>1. /\ \A x \in Requests : Listed(object[p], x) => Listed(o, x)
        /\ ObjectFree(o) => Free(p)
    BY <1>8 DEF Listed, ObjectFree, Free
  <2> QED
    BY <1>2, <1>3, <1>8, <2>1, ObjectKept
<1>11. CASE task' = [task EXCEPT ![t] = EndTask(task[t], "dead")] /\ object' = object
  BY <1>1, <1>3, <1>11, TaskEnds, TaskMovesAlone DEF Ended
<1>12. CASE task' = [task EXCEPT ![t] = tk] /\ object' = object
  <2>1. LocalTask(t, tk, object[SlotOf[t]]) /\ SoftTask(t, tk)
    BY <1>7
  <2> QED
    BY <1>3, <1>6, <1>12, <2>1, TaskMovesAlone
<1>13. CASE task' = [task EXCEPT ![t] = tk] /\ object' = [object EXCEPT ![p] = o]
  <2>1. LocalTask(t, tk, o) /\ SoftTask(t, tk)
    BY <1>7, <1>8
  <2> QED
    BY <1>3, <1>6, <1>10, <1>13, <2>1, TaskMoves
<1> QED
  BY <1>5, <1>9, <1>11, <1>12, <1>13

(* A delegated call that ends and says so held the only claim. *)
LEMMA DelegatedEnds ==
    ASSUME ExecutorInv, NEW t \in Tasks, Hot(t), NodeOf(t) > SlotOf[t],
           NEW x \in TaskType, NEW pc \in Ended, NEW latest \in Descriptor,
           clock' = clock, object' = object, panics' = panics,
           task' = [task EXCEPT ![t] = EndTask(x, pc)],
           msgs' = msgs \cup Posted({DelegatedRequestFinished(NodeOf(t), t, latest)})
    PROVE  ExecutorInv'
<1>0. TypeOK /\ ClockInv /\ ObjectInv /\ CoreInv
  BY DEF ExecutorInv, LocalInv
<1>1. PICK q \in Pulses : /\ q = NodeOf(t) /\ q \in Nat /\ q - 1 \in Pulses
                          /\ SlotOf[t] \in Nat /\ SlotOf[t] \in Pulses /\ Call[t] \in Requests
  BY <1>0, TypeFacts, PulseFacts, CallFacts DEF ClockInv, NodeOf
<1>2. PICK m \in MessageType : /\ m.type = "VDelegatedRequestFinished" /\ m.task = t /\ m.to = q
                               /\ m = DelegatedRequestFinished(q, t, latest)
  BY DEF MessageType, DelegatedRequestFinished
<1>3. /\ msgs' \subseteq MessageType /\ panics' \subseteq Panic
      /\ \A k \in msgs' : k \in msgs \/ k = m
  BY <1>0, <1>1, <1>2 DEF TypeOK, Posted
<1>4. /\ EndTask(x, pc) \in TaskType
      /\ LocalTask(t, EndTask(x, pc), object[SlotOf[t]]) /\ SoftTask(t, EndTask(x, pc))
      /\ ~ EndTask(x, pc).active
  BY TaskEnds, EndTaskFacts DEF TaskStep
<1>5. FinishedOK(m)'
  <2> SUFFICES ASSUME IsOrdered(t), Live(q) PROVE (Claims(q - 1) = {})' /\ Sealed(q)'
    BY <1>2 DEF FinishedOK, IsOrdered, Live, Sealed
  <2>1. t \in Claims(q - 1)
    BY <1>0, <1>1, HotClaims
  <2>2. \A u \in Claims(q - 1) : u = t
    BY <1>0, <1>1, <2>1 DEF CoreInv, ClaimsInv
  <2>3. \A c : Claims(c)' \subseteq Claims(c)
    <3>1. \A u \in Tasks : u # t => task'[u] = task[u]
      BY <1>0 DEF TypeOK
    <3>2. ~ task'[t].active
      BY <1>0, <1>4 DEF TypeOK
    <3>3. \A u \in Tasks : (task'[u].active => task[u].active) /\ (Hot(u)' => Hot(u))
      BY <3>1, <3>2 DEF Hot, CanAct
    <3>4. \A u \in Tasks : Requested(u)' => Requested(u)
      <4>1. \A u \in Tasks : NodeOf(u)' = NodeOf(u)
                             /\ DelegatedCallRequest(NodeOf(u), u).type = "VDelegatedCallRequest"
        BY DEF NodeOf, DelegatedCallRequest
      <4> QED
        BY <1>2, <1>3, <4>1 DEF Requested
    <3> QED
      BY <3>3, <3>4, ClaimsShrink
  <2>4. t \notin Claims(q - 1)'
    BY <1>0, <1>4 DEF Claims, TypeOK
  <2>5. (Claims(q - 1) = {})'
    BY <2>2, <2>3, <2>4
  <2>6. Sealed(q)
    <3>1. object[q].pending[Tolerable].requests[Call[t]] = "Processing"
      BY <1>0, <1>1 DEF CoreInv, PendingInv
    <3>2. object[q].state # "Unknown"
      BY <1>0, <1>1, <3>1 DEF ObjectInv, ObjectOK, Live, NewList
    <3> QED
      BY <1>0, <1>1, <3>2 DEF CoreInv, GateInv
  <2>7. Sealed(q)'
    BY <2>6 DEF Sealed
  <2> QED
    BY <2>5, <2>7
<1> QED
  BY <1>2, <1>3, <1>4, <1>5, TaskMovesAlone

(* stepSendDelegatedRequestFinished, stepGetDelegationToken *)
LEMMA DelegatedInv ==
    ASSUME ExecutorInv, NEW t \in Tasks,
           StepSendDelegatedRequestFinished(t) \/ StepDelegationToken(t)
    PROVE  ExecutorInv'
<1>1. /\ task[t] \in TaskType /\ TaskOK(task[t], NodeOf(t), SlotOf[t]) /\ TypeOK
      /\ task[t].new \in Descriptor /\ NoDescriptor \in Descriptor /\ task[t].sent \in Nat
  BY TypeFacts DEF ExecutorInv, LocalInv, TaskInv, TaskType, Descriptor, NoDescriptor
<1>2. /\ clock' = clock /\ object' = object /\ panics' = panics /\ panics' \subseteq Panic
      /\ task[t].pc \in {"sendFinished", "getToken"}
      /\ task[t].pc = "getToken" => task[t].granted # UnknownPulse
  BY <1>1 DEF StepSendDelegatedRequestFinished, StepDelegationToken, Step, At, TypeOK
<1>3. /\ task[t].active /\ task[t].migrated /\ task[t].negotiated /\ task[t].lock
      /\ NodeOf(t) > SlotOf[t] /\ Hot(t)
      /\ object[SlotOf[t]].phase # "none"
  BY <1>1, <1>2 DEF TaskOK, Hot, CanAct, ExecutorInv, LocalInv, KnownInv, Ended
<1>4. CASE StepSendDelegatedRequestFinished(t)
  <2>1. /\ task' = [task EXCEPT ![t] = EndTask(task[t], "done")] /\ "done" \in Ended
        /\ msgs' = msgs \cup Posted({DelegatedRequestFinished(NodeOf(t), t, task[t].new)})
    BY <1>4 DEF StepSendDelegatedRequestFinished, Step, NodeOf, Ended
  <2> QED
    BY <1>1, <1>2, <1>3, <2>1, DelegatedEnds
<1>5. CASE StepDelegationToken(t)
  <2> DEFINE tk == [task[t] EXCEPT !.pc = task[t].resume, !.resume = "idle",
                                   !.granted = UnknownPulse]
             again == [tk EXCEPT !.sent = task[t].sent + 1]
  <2>1. task[t].pc = "getToken" /\ task[t].resume \in ActingSteps /\ task[t].resume \in TaskStep
    BY <1>1, <1>5 DEF StepDelegationToken, Step, At, TaskOK, TaskType
  <2>2. /\ tk \in TaskType /\ tk.pc = task[t].resume /\ tk.resume = "idle"
        /\ tk.granted = UnknownPulse /\ tk.active = task[t].active /\ tk.lock = task[t].lock
        /\ tk.migrated = task[t].migrated /\ tk.negotiated = task[t].negotiated
        /\ tk.outcome = task[t].outcome /\ tk.sent = task[t].sent
    BY <1>1, <2>1 DEF TaskType, TaskStep
  <2> HIDE DEF tk
  <2>3. /\ again \in TaskType /\ again.pc = task[t].resume /\ again.resume = "idle"
        /\ again.granted = UnknownPulse /\ again.active = task[t].active
        /\ again.lock = task[t].lock /\ again.migrated = task[t].migrated
        /\ again.negotiated = task[t].negotiated /\ again.outcome = task[t].outcome
    BY <1>1, <2>2 DEF TaskType
  <2> HIDE DEF again
  <2>4. ASSUME NEW new \in TaskType, new \in {tk, again}, msgs' = msgs,
               task' = [task EXCEPT ![t] = new]
        PROVE  ExecutorInv'
    <3>1. /\ new.pc = task[t].resume /\ new.resume = "idle"
          /\ new.granted = UnknownPulse /\ new.active = task[t].active
          /\ new.lock = task[t].lock /\ new.migrated = task[t].migrated
          /\ new.negotiated = task[t].negotiated /\ new.outcome = task[t].outcome
      BY <2>2, <2>3, <2>4
    <3>2. TaskOK(new, NodeOf(t), SlotOf[t])
      BY <1>1, <1>3, <2>1, <3>1 DEF TaskOK, ActingSteps, EarlySteps, Ended
    <3>3. LocalTask(t, new, object[SlotOf[t]])
      BY <1>3, <3>1, <3>2 DEF LocalTask, Started
    <3>4. SoftTask(t, new)
      BY <1>3, <3>1 DEF SoftTask, EarlyError
    <3>5. msgs' \subseteq MessageType
      BY <1>1, <2>4 DEF TypeOK
    <3> QED
      BY <1>2, <2>4, <3>3, <3>4, <3>5, TaskMovesAlone
  <2>5. CASE task[t].sent >= MaxOutgoingSendCount
    <3>1. task[t].sent # 0
      BY <1>1, <2>5, RequestKindsAssumption
    <3>2. /\ task' = [task EXCEPT ![t] = EndTask(tk, "dead")] /\ "dead" \in Ended
          /\ msgs' = msgs \cup Posted({DelegatedRequestFinished(NodeOf(t), t, NoDescriptor)})
      BY <1>5, <2>2, <2>5, <3>1 DEF StepDelegationToken, Step, NodeOf, Ended, tk
    <3> QED
      BY <1>1, <1>2, <1>3, <2>2, <3>2, DelegatedEnds
  <2>6. CASE ~ (task[t].sent >= MaxOutgoingSendCount)
    <3>1. msgs' = msgs
      BY <1>5, <2>2, <2>6 DEF StepDelegationToken, tk
    <3>2. task' = [task EXCEPT ![t] = tk] \/ task' = [task EXCEPT ![t] = again]
      BY <1>5, <2>2, <2>6 DEF StepDelegationToken, Step, tk, again
    <3> QED
      BY <2>2, <2>3, <2>4, <3>1, <3>2
  <2> QED
    BY <2>5, <2>6
<1> QED
  BY <1>4, <1>5

-----------------------------------------------------------------------------
(***************************************************************************)
(* The two steps that make a claim                                         *)
(***************************************************************************)

(* An ordered call starts.  It is behind the open gate, so that the claims *)
(* from before its pulse are requests that will be refused, and it has     *)
(* OrderedExecute for itself: it is the only claim on its pulse.           *)
LEMMA StartClaims ==
    ASSUME ExecutorInv, clock' = clock, msgs' = msgs, panics' \subseteq Panic,
           NEW t \in Tasks, IsOrdered(t), task[t].pc = "start",
           NEW tk \in TaskType, tk.pc = "execute", tk.active, tk.lock, tk.negotiated,
           ~ tk.migrated, tk.granted = UnknownPulse, tk.resume = "idle",
           NEW o, LocalObject(SlotOf[t], o), o.state = object[SlotOf[t]].state,
           o.pending = object[SlotOf[t]].pending,
           o.oldestPending = object[SlotOf[t]].oldestPending, Listed(o, Call[t]),
           task' = [task EXCEPT ![t] = tk], object' = [object EXCEPT ![SlotOf[t]] = o]
    PROVE  ExecutorInv'
<1> DEFINE p == SlotOf[t]
<1> USE DEF ExecutorInv
<1>1. /\ task[t] \in TaskType /\ TaskOK(task[t], NodeOf(t), SlotOf[t])
      /\ TypeOK /\ ClockInv /\ ObjectInv /\ LockInv /\ CoreInv
      /\ p \in Pulses /\ p \in Nat /\ ObjectPulse <= p /\ ObjectPulse \in Nat
      /\ o \in ObjectType
  BY TypeFacts, PulseFacts DEF LocalInv, TaskInv, LocalObject
<1>2. ~ task[t].active /\ task[t].lock /\ NodeOf(t) = p /\ clock[p] = p /\ Live(p)
  BY <1>1 DEF TaskOK, Ended, ActingSteps, NodeOf, Live
<1>3. object[p].execute[Tolerable] /\ object[p].state # "Unknown" /\ Quiet(p)
  <2>1. object[p].execute[Tolerable]
    BY <1>1, <1>2 DEF LockInv
  <2> QED
    BY <1>1, <1>2, <2>1 DEF CoreInv, GateInv, Free, ObjectFree
<1>4. TypeOK'
  BY <1>1 DEF TypeOK
<1>5. /\ task'[t] = tk /\ \A u \in Tasks : u # t => task'[u] = task[u]
      /\ object'[p] = o /\ \A q \in Pulses : q # p => object'[q] = object[q]
  BY <1>1 DEF TypeOK
<1>6. LocalInv'
  <2>1. o.phase # "none"
    BY <1>1, <1>2, PulseFacts DEF LocalObject, LocalInv, KnownInv, Ended
  <2>2. TaskOK(tk, NodeOf(t), SlotOf[t])
    BY <1>2 DEF TaskOK, ActingSteps, EarlySteps, Ended
  <2>3. LocalTask(t, tk, o)
    BY <1>2, <2>1, <2>2 DEF LocalTask
  <2> QED
    BY <1>4, <1>5, <2>3, LocalStep
<1>7. \A u : /\ NodeOf(u)' = NodeOf(u) /\ IsOrdered(u)' = IsOrdered(u)
             /\ Requested(u)' = Requested(u)
  BY DEF NodeOf, IsOrdered, Requested
<1>8. \A u \in Tasks : u # t => /\ Hot(u)' = Hot(u) /\ Unresolved(u)' = Unresolved(u)
  BY <1>5 DEF Hot, Unresolved
<1>9. \A u \in Tasks : /\ NodeOf(u) \in Nat /\ SlotOf[u] \in Nat
                       /\ SlotOf[u] \in Pulses
  BY <1>1, TypeFacts, PulseFacts
<1>10. ASSUME NEW c \in Int, NEW u \in Claims(c)', u # t \/ c # p
       PROVE  u \in Claims(c) /\ u # t
  <2>1. u \in Tasks /\ IsOrdered(u) /\ task'[u].active /\ SlotOf[u] <= c /\ c <= NodeOf(u)
    BY <1>7, <1>10 DEF Claims
  <2>2. u # t
    BY <1>1, <1>2, <1>10, <2>1
  <2>3. task'[u] = task[u] /\ Hot(u)' = Hot(u)
    BY <1>5, <1>8, <2>1, <2>2
  <2> QED
    BY <1>7, <1>10, <2>1, <2>2, <2>3 DEF Claims
<1>11. \A c \in Int : c # p => Claims(c)' \subseteq Claims(c)
  BY <1>10
<1>12. \A u, v \in Claims(p)' : u = v
  <2> SUFFICES ASSUME NEW u \in Claims(p)', u # t PROVE FALSE
    OBVIOUS
  <2>1. u \in Claims(p)
    BY <1>1, <1>10
  <2>2. /\ u \in Tasks /\ IsOrdered(u) /\ task[u].active /\ SlotOf[u] <= p /\ p <= NodeOf(u)
        /\ NodeOf(u) = p => Hot(u)
    BY <2>1 DEF Claims
  <2>3. task[u].lock
    BY <2>2 DEF LocalInv, TaskInv, TaskOK
  <2>4. SlotOf[u] # p
    BY <1>1, <1>2, <2>2, <2>3 DEF LockInv
  <2>5. u \in Claims(p - 1)
    BY <1>1, <1>9, <2>2, <2>4 DEF Claims
  <2> QED
    BY <1>3, <2>2, <2>5 DEF Quiet, Heard
<1>13. ASSUME NEW q \in Int, q # p + 1, Heard(q) PROVE Heard(q)'
  <2> SUFFICES ASSUME NEW u \in Claims(q - 1)' PROVE (NodeOf(u) = q /\ ~ Hot(u))'
    BY DEF Heard
  <2>1. q - 1 # p /\ q - 1 \in Int
    BY <1>1, <1>13
  <2>2. u \in Claims(q - 1) /\ u # t
    BY <1>10, <2>1
  <2>3. u \in Tasks
    BY <2>2 DEF Claims
  <2> QED
    BY <1>7, <1>8, <1>13, <2>2, <2>3 DEF Heard
<1>14. Quiet(p)'
  <2>1. p # p + 1 /\ p \in Int /\ p - 1 \in Int /\ p - 1 # p
    BY <1>1
  <2>2. Heard(p)' /\ Claims(p - 1)' \subseteq Claims(p - 1)
    BY <1>3, <1>11, <1>13, <2>1 DEF Quiet
  <2> QED
    BY <1>3, <1>5, <2>2 DEF Quiet
<1>15. ASSUME NEW u \in Tasks, IsOrdered(u), Hot(u)', NodeOf(u) = p, SlotOf[u] < p
       PROVE  object'[p].pending[Tolerable].requests[Call[u]] = "Processing"
  <2>1. u # t
    BY <1>1, <1>15
  <2>2. Hot(u) /\ NodeOf(u) > SlotOf[u] /\ Live(NodeOf(u))
    BY <1>1, <1>2, <1>8, <1>9, <1>15, <2>1
  <2> QED
    BY <1>1, <1>5, <1>15, <2>2 DEF CoreInv, PendingInv
<1>16. (Claims(p - 1) # {})' => OnlyAdded(object'[p].pending[Tolerable])
  <2>1. p - 1 # p /\ p - 1 \in Int
    BY <1>1
  <2> QED
    BY <1>1, <1>2, <1>5, <1>11, <2>1 DEF CoreInv, PendingInv
<1>17. \A u \in Tasks : SlotOf[u] # p /\ Unresolved(u)' => Unresolved(u)
  BY <1>8
<1>18. \A u \in Tasks : NodeOf(u) # p /\ Hot(u)' => Hot(u)
  BY <1>2, <1>8
<1>19. CoreInv'
  <2> HIDE DEF ExecutorInv, p
  <2>1. object[p].state # "Unknown" /\ object'[p].state # "Unknown"
    BY <1>3, <1>5 DEF p
  <2> QED
    BY <1>1, <1>2, <1>4, <1>5, <1>11, <1>12, <1>13, <1>14, <1>15, <1>16, <1>17, <1>18, <2>1,
       GrowStep
<1> QED
  BY <1>4, <1>6, <1>19

(* stepStartRequestProcessing *)
LEMMA StartInv ==
    ASSUME ExecutorInv, NEW t \in Tasks, StepStartRequestProcessing(t)
    PROVE  ExecutorInv'
<1> DEFINE p == SlotOf[t]
           r == Call[t]
           f == FlagOf[r]
           ok == CanSetActive(object[p].known[f], r)
           deactivated == IsDeactivated(object[p])
           panic == ~ ok \/ (~ deactivated /\ ~ object[p].dirty.has)
           list == WorkingSetActive(object[p].known[f], r)
           res == [object[p].results EXCEPT ![r] = "empty"]
           o == [object[p] EXCEPT !.known[f] = list, !.results = res]
<1>1. task[t] \in TaskType /\ TaskOK(task[t], NodeOf(t), SlotOf[t]) /\ TypeOK
  BY TypeFacts DEF ExecutorInv, LocalInv, TaskInv
<1>2. /\ p \in Pulses /\ object[p] \in ObjectType /\ r \in Requests /\ f \in Flags
  BY <1>1, PulseFacts, CallFacts, TypeFacts
<1>3. /\ clock' = clock /\ msgs' = msgs /\ msgs' \subseteq MessageType /\ panics' \subseteq Panic
      /\ task[t].pc = "start" /\ object[p].phase # "none"
  BY <1>1 DEF StepStartRequestProcessing, Step, At, TypeOK, Panic, ExecutorInv, LocalInv,
              KnownInv, Ended
<1>4. /\ ~ task[t].active /\ task[t].negotiated /\ task[t].lock /\ ~ task[t].migrated
      /\ task[t].granted = UnknownPulse /\ task[t].resume = "idle" /\ NodeOf(t) = SlotOf[t]
  BY <1>1, <1>3 DEF TaskOK, ActingSteps, EarlySteps, Ended
<1>5. CASE ~ ok
  <2>1. task' = [task EXCEPT ![t] = EndTask(task[t], "dead")] /\ object' = object
    BY <1>5 DEF StepStartRequestProcessing, Step, ObjectOf
  <2>2. "dead" \in Ended
    BY DEF Ended
  <2> QED
    BY <1>1, <1>3, <2>1, <2>2, TaskEnds, TaskMovesAlone
<1>6. CASE ok
  <2>1. /\ object[p].known[f] \in ListType /\ object[p].results \in [Requests -> CallSummary]
        /\ object[p].dirty \in Descriptor
    BY <1>2 DEF ObjectType
  <2>2. object' = [object EXCEPT ![p] = o]
    <3>1. o = KnownSetActive(object[p], r)
      BY <1>2 DEF KnownSetActive, ObjectType
    <3>2. object' = [object EXCEPT ![p] = KnownSetActive(object[p], r)]
      BY <1>1, <1>2, <1>6 DEF StepStartRequestProcessing, ObjectOf, TypeOK
    <3> HIDE DEF o
    <3> QED
      BY <3>1, <3>2
  <2>3. /\ list \in ListType
        /\ ListConsistent(object[p].known[f]) => ListConsistent(list)
        /\ list.requests = [object[p].known[f].requests EXCEPT ![r] = "Processing"]
    BY <1>2, <1>6, <2>1, MethodsKeepType, MethodsKeepConsistency, MethodsSetState
  <2>4. object[p].known[f].requests \in [Requests -> RequestState]
    BY <2>1 DEF ListType
  <2>5. res \in [Requests -> CallSummary]
    BY <2>1 DEF CallSummary
  <2> HIDE DEF list, res
  <2>6. /\ \A x \in Requests : object[p].known[f].requests[x] \in {"Processing", "Finished"}
                                   => list.requests[x] \in {"Processing", "Finished"}
        /\ list.requests[r] = "Processing"
    BY <1>2, <2>3, <2>4
  <2>7. o \in ObjectType /\ KnownUpdate(o, object[p], f, list)
    BY <1>2, <2>3, <2>5, KnownUpdateFacts
  <2> HIDE DEF o
  <2>8. LocalObject(p, o) /\ SoftObject(p, o)
    BY <1>2, <1>3, <2>3, <2>6, <2>7, KnownChanges
  <2>9. Listed(o, Call[t]) /\ o.phase = object[p].phase
    BY <2>6, <2>7 DEF Listed, KnownUpdate
  <2>10. CASE panic
    <3>1. task' = [task EXCEPT ![t] = EndTask(task[t], "dead")]
      BY <2>10 DEF StepStartRequestProcessing, Step, ObjectOf
    <3>2. "dead" \in Ended
      BY DEF Ended
    <3> QED
      BY <1>1, <1>3, <2>2, <2>8, <3>1, <3>2, TaskEnds, TaskMoves
  <2>11. CASE ~ panic /\ deactivated
    <3> DEFINE tk == [task[t] EXCEPT !.pc = "sendCallResult", !.outcome = "error"]
    <3>1. task' = [task EXCEPT ![t] = tk]
      <4>1. task' = [task EXCEPT ![t] = [Goto(t, "sendCallResult") EXCEPT !.outcome = "error"]]
        BY <2>11 DEF StepStartRequestProcessing, Step, ObjectOf
      <4> QED
        BY <1>1, <4>1 DEF Goto
    <3>2. tk \in TaskType /\ tk.pc = "sendCallResult" /\ SameFrame(tk, task[t])
      BY <1>1 DEF TaskType, SameFrame, TaskStep, Outcome
    <3> HIDE DEF tk
    <3>3. ~ EarlyError(tk, Call[t])
      BY <1>4, <3>2 DEF EarlyError, SameFrame
    <3>4. LocalTask(t, tk, o) /\ SoftTask(t, tk)
      BY <1>3, <1>4, <2>9, <3>2, <3>3, TaskGoesOn
         DEF SameFrame, Ended, EarlySteps, ActingSteps, ObjectOf
    <3> QED
      BY <1>3, <2>2, <2>8, <3>1, <3>2, <3>4, TaskMoves
  <2>12. CASE ~ panic /\ ~ deactivated
    <3> DEFINE tk == [task[t] EXCEPT !.pc = "execute", !.active = TRUE, !.ran = TRUE,
                                     !.base = object[p].dirty.memory]
    <3>1. task' = [task EXCEPT ![t] = tk]
      <4>1. task' = [task EXCEPT ![t] =
                       [Goto(t, "execute") EXCEPT !.active = TRUE, !.ran = TRUE,
                                                  !.base = object[p].dirty.memory]]
        BY <2>12 DEF StepStartRequestProcessing, Step, ObjectOf
      <4> QED
        BY <1>1, <4>1 DEF Goto
    <3>2. object[p].dirty.memory \in SUBSET (Requests \cup {Genesis})
      BY <2>1 DEF Descriptor
    <3>3. /\ tk \in TaskType /\ tk.pc = "execute" /\ tk.active /\ tk.lock /\ tk.negotiated
          /\ ~ tk.migrated /\ tk.granted = UnknownPulse /\ tk.resume = "idle"
      BY <1>1, <1>4, <3>2 DEF TaskType, TaskStep
    <3> HIDE DEF tk
    <3>4. CASE IsOrdered(t)
      BY <1>3, <2>2, <2>7, <2>8, <2>9, <3>1, <3>3, <3>4, StartClaims DEF KnownUpdate
    <3>5. CASE ~ IsOrdered(t)
      <4>1. TaskOK(tk, NodeOf(t), SlotOf[t])
        BY <1>4, <3>3 DEF TaskOK, ActingSteps, EarlySteps, Ended
      <4>2. LocalTask(t, tk, o) /\ SoftTask(t, tk)
        BY <1>3, <2>9, <3>3, <3>5, <4>1 DEF LocalTask, SoftTask, EarlyError
      <4> QED
        BY <1>3, <2>2, <2>8, <3>1, <3>3, <4>2, TaskMoves
    <3> QED
      BY <3>4, <3>5
  <2> QED
    BY <2>10, <2>11, <2>12
<1> QED
  BY <1>5, <1>6

(* PendingList.Add *)
LEMMA PendingAddFacts ==
    ASSUME NEW list \in ListType, NEW r \in Requests, OnlyAdded(list)
    PROVE  /\ OnlyAdded(PendingAdd(list, r))
           /\ PendingAdd(list, r).requests[r] = "Processing"
<1> DEFINE new == PendingAdd(list, r)
<1>1. list.requests \in [Requests -> RequestState] /\ list.countActive \in Nat
  BY DEF ListType, OnlyAdded
<1>2. CASE Exist(list, r)
  BY <1>2 DEF PendingAdd, OnlyAdded, Exist
<1>3. CASE ~ Exist(list, r)
  <2>1. new.requests = [list.requests EXCEPT ![r] = "Processing"]
        /\ new.countActive = list.countActive + 1
    BY <1>3 DEF PendingAdd, ListActivity, ListType
  <2> HIDE DEF new
  <2>2. /\ \A x \in Requests : new.requests[x] \in {"Unknown", "Processing"}
        /\ new.countActive \in Nat /\ new.countActive > 0
        /\ new.requests[r] = "Processing"
    BY <1>1, <2>1 DEF OnlyAdded
  <2> QED
    BY <2>2 DEF OnlyAdded, new
<1> QED
  BY <1>2, <1>3

(* An object whose list of pending calls changes, and nothing else *)
PendingUpdate(o, x, f, list) ==
    /\ o.phase = x.phase /\ o.asked = x.asked /\ o.ReadyToWork = x.ReadyToWork
    /\ o.execute = x.execute /\ o.known = x.known /\ o.report = x.report
    /\ o.oldestPending = x.oldestPending /\ o.state = x.state /\ o.prevPending = x.prevPending
    /\ o.pending[f] = list /\ \A g \in Flags : g # f => o.pending[g] = x.pending[g]

LEMMA PendingUpdateFacts ==
    ASSUME NEW x \in ObjectType, NEW f \in Flags, NEW list \in ListType
    PROVE  LET o == [x EXCEPT !.pending[f] = list]
           IN  o \in ObjectType /\ PendingUpdate(o, x, f, list)
BY DEF ObjectType, PendingUpdate

(* Such an object, of an executor that knows its state *)
LEMMA PendingChanges ==
    ASSUME ExecutorInv, NEW p \in Pulses, NEW f \in Flags, NEW list \in ListType,
           NEW o \in ObjectType, PendingUpdate(o, object[p], f, list),
           object[p].ReadyToWork,
           \A r \in Requests : list.requests[r] # "Unknown"
              => object[p].pending[f].requests[r] # "Unknown" \/ FlagOf[r] = f
    PROVE  /\ LocalObject(p, o)
           /\ f # Tolerable \/ Claims(p - 1) = {} => SoftObject(p, o)
           /\ ObjectFree(o) => ObjectFree(object[p])
<1>1. ObjectOK(object[p], p, clock[p]) /\ GateInv
  BY DEF ExecutorInv, LocalInv, CoreInv, ObjectInv
<1>2. object[p].state # "Unknown" /\ object[p].phase # "none"
  BY <1>1 DEF ObjectOK
<1>3. ObjectOK(o, p, clock[p])
  BY <1>1, <1>2 DEF ObjectOK, PendingUpdate
<1>4. LocalObject(p, o)
  BY <1>2, <1>3 DEF LocalObject, PendingUpdate, Listed
<1>5. ObjectFree(o) => ObjectFree(object[p])
  BY DEF ObjectFree, PendingUpdate
<1>6. ASSUME f # Tolerable \/ Claims(p - 1) = {} PROVE SoftObject(p, o)
  <2>1. o.pending[Tolerable] = object[p].pending[Tolerable] \/ Claims(p - 1) = {}
    BY <1>6, CallFacts DEF PendingUpdate
  <2>2. Live(p) => /\ Sealed(p)
                   /\ ObjectFree(o) => Quiet(p)
    BY <1>1, <1>2, <1>5 DEF GateInv, Free
  <2> QED
    BY <1>2, <2>1, <2>2 DEF SoftObject, PendingUpdate, HasLeft, Quiet
<1> QED
  BY <1>4, <1>5, <1>6

(* An executor that still has an ordered claim to wait for gives a token:  *)
(* the call that gets it was that claim, and the only one.                 *)
LEMMA GrantClaims ==
    ASSUME ExecutorInv, clock' = clock, msgs' \subseteq msgs, panics' \subseteq Panic,
           NEW q \in Pulses, clock[q] = q, object[q].ReadyToWork,
           NEW t \in Tasks, IsOrdered(t), DelegatedCallRequest(q, t) \in msgs,
           object[q].oldestPending[Tolerable] # UnknownPulse, Claims(q - 1) # {},
           NEW o \in ObjectType,
           PendingUpdate(o, object[q], Tolerable, PendingAdd(object[q].pending[Tolerable], Call[t])),
           object' = [object EXCEPT ![q] = o], NEW tk \in TaskType,
           task' = [task EXCEPT ![t] = tk],
           \/ tk = task[t]
           \/ /\ task[t].pc = "getToken" /\ NodeOf(t) = q
              /\ tk.pc = "getToken" /\ tk.active = task[t].active /\ tk.lock = task[t].lock
              /\ tk.negotiated = task[t].negotiated /\ tk.migrated = task[t].migrated
              /\ tk.resume = task[t].resume /\ tk.outcome = task[t].outcome
    PROVE  ExecutorInv'
<1> DEFINE list == object[q].pending[Tolerable]
           r == Call[t]
<1>1. /\ TypeOK /\ ClockInv /\ TaskInv /\ LockInv /\ ObjectInv /\ KnownInv /\ CoreInv
      /\ ObjectOK(object[q], q, clock[q]) /\ TaskOK(task[t], NodeOf(t), SlotOf[t])
      /\ task[t] \in TaskType /\ r \in Requests /\ q \in Nat /\ q - 1 \in Pulses
      /\ object[q] \in ObjectType
      /\ list \in ListType /\ Tolerable \in Flags /\ SlotOf[t] \in Pulses
  <2>1. /\ TypeOK /\ ClockInv /\ TaskInv /\ LockInv /\ ObjectInv /\ KnownInv /\ CoreInv
    BY DEF ExecutorInv, LocalInv
  <2>2. object[q] \in ObjectType /\ task[t] \in TaskType /\ q \in Nat
    BY <2>1, TypeFacts
  <2> QED
    BY <2>1, <2>2, PulseFacts, CallFacts DEF TaskInv, ObjectInv, ClockInv, ObjectType
<1>2. Live(q) /\ object[q].state # "Unknown" /\ object[q].phase # "none"
  BY <1>1 DEF Live, ObjectOK
<1>3. OnlyAdded(list) /\ OnlyAdded(PendingAdd(list, r))
      /\ PendingAdd(list, r).requests[r] = "Processing" /\ PendingAdd(list, r) \in ListType
  BY <1>1, <1>2, PendingAddFacts, MethodsKeepType DEF CoreInv, PendingInv
<1>4. ~ Free(q)
  BY <1>1, <1>2 DEF CoreInv, GateInv, Quiet
<1>5. ObjectPulse <= q
  <2>1. PICK u \in Claims(q - 1) : TRUE
    OBVIOUS
  <2>2. u \in Tasks /\ SlotOf[u] <= q - 1
    BY <2>1 DEF Claims
  <2>3. SlotOf[u] \in Nat /\ ObjectPulse <= SlotOf[u] /\ ObjectPulse \in Nat
    BY <2>2, PulseFacts
  <2> QED
    BY <1>1, <2>2, <2>3
<1>6. TypeOK'
  BY <1>1 DEF TypeOK
<1>7. /\ task'[t] = tk /\ \A u \in Tasks : u # t => task'[u] = task[u]
      /\ object'[q] = o /\ \A p \in Pulses : p # q => object'[p] = object[p]
  BY <1>1 DEF TypeOK
<1>8. LocalInv'
  <2>1. LocalObject(q, o)
    <3>1. \A x \in Requests : PendingAdd(list, r).requests[x] # "Unknown"
             => list.requests[x] # "Unknown" \/ FlagOf[x] = Tolerable
      <4>1. list.requests \in [Requests -> RequestState] /\ FlagOf[r] = Tolerable
        BY <1>1 DEF ListType, IsOrdered
      <4>2. \/ PendingAdd(list, r).requests = list.requests
            \/ PendingAdd(list, r).requests = [list.requests EXCEPT ![r] = "Processing"]
        <5>1. PendingAdd(list, r).requests = IF Exist(list, r) THEN list.requests
                                             ELSE [list.requests EXCEPT ![r] = "Processing"]
          BY <1>1, MethodsSetState
        <5> QED
          BY <5>1
      <4> HIDE DEF list
      <4> QED
        BY <1>1, <4>1, <4>2
    <3> QED
      BY <1>1, <1>3, <3>1, PendingChanges
  <2>2. task'[t] = task[t] \/ LocalTask(t, tk, object'[SlotOf[t]])
    <3> SUFFICES ASSUME tk # task[t] PROVE LocalTask(t, tk, object'[SlotOf[t]])
      BY <1>7
    <3>1. TaskOK(tk, NodeOf(t), SlotOf[t])
      BY <1>1 DEF TaskOK, ActingSteps, EarlySteps, Ended
    <3>2. object'[SlotOf[t]].phase # "none"
      BY <1>1, <1>2, <1>7 DEF KnownInv, Ended, PendingUpdate
    <3> QED
      BY <1>1, <3>1, <3>2 DEF LocalTask, Started
  <2> QED
    BY <1>6, <1>7, <2>1, <2>2, LocalStep
<1>9. \A u : /\ NodeOf(u)' = NodeOf(u) /\ IsOrdered(u)' = IsOrdered(u)
  BY DEF NodeOf, IsOrdered
<1>10. \A u \in Tasks : /\ NodeOf(u) \in Nat /\ SlotOf[u] \in Nat /\ NodeOf(u) \in Pulses
                        /\ task[u] \in TaskType
  BY <1>1, TypeFacts
<1>11. \A u \in Tasks : /\ task'[u].active = task[u].active
                        /\ Requested(u)' => Requested(u)
                        /\ Unresolved(u)' => Unresolved(u)
                        /\ u # t => Hot(u)' = Hot(u)
                        /\ tk = task[t] => Hot(u)' = Hot(u)
  <2> SUFFICES ASSUME NEW u \in Tasks
               PROVE  /\ task'[u].active = task[u].active
                      /\ Requested(u)' => Requested(u)
                      /\ Unresolved(u)' => Unresolved(u)
                      /\ u # t => Hot(u)' = Hot(u)
                      /\ tk = task[t] => Hot(u)' = Hot(u)
    OBVIOUS
  <2>1. Requested(u)' => Requested(u)
    BY <1>9 DEF Requested
  <2>2. Unresolved(u)' => Unresolved(u)
    BY <1>7 DEF Unresolved, EarlyError
  <2>3. task'[u].active = task[u].active
    BY <1>7
  <2> QED
    BY <1>7, <2>1, <2>2, <2>3 DEF Hot
(* The call that gets the token held the claim. *)
<1>12. tk # task[t] => t \in Claims(q - 1) /\ SlotOf[t] < q /\ NodeOf(t) = q /\ Requested(t)
  <2> SUFFICES ASSUME tk # task[t]
               PROVE  t \in Claims(q - 1) /\ SlotOf[t] < q /\ NodeOf(t) = q /\ Requested(t)
    OBVIOUS
  <2>1. NodeOf(t) = q /\ Requested(t) /\ task[t].active /\ task[t].migrated
    BY <1>1 DEF Requested, TaskOK
  <2>2. SlotOf[t] < q
    BY <1>1, <1>10, <2>1 DEF TaskOK
  <2> QED
    BY <1>1, <1>10, <2>1, <2>2 DEF Claims
<1>13. ASSUME NEW c \in Int, NEW u \in Claims(c)', u # t \/ tk = task[t] \/ c # q
       PROVE  u \in Claims(c)
  <2>1. u \in Tasks /\ IsOrdered(u) /\ task[u].active /\ SlotOf[u] <= c /\ c <= NodeOf(u)
    BY <1>9, <1>11, <1>13 DEF Claims
  <2>2. CASE u # t \/ tk = task[t]
    <3>1. Hot(u)' = Hot(u) /\ (Requested(u)' => Requested(u))
      BY <1>11, <2>1, <2>2
    <3> QED
      BY <1>9, <1>13, <2>1, <3>1 DEF Claims
  <2>3. CASE u = t /\ tk # task[t]
    <3>1. NodeOf(u) = q /\ c # q /\ Requested(u)
      BY <1>12, <1>13, <2>3
    <3> QED
      BY <1>1, <2>1, <3>1 DEF Claims
  <2> QED
    BY <2>2, <2>3
<1>14. \A c \in Int : c # q => Claims(c)' \subseteq Claims(c)
  BY <1>13
<1>15. \A u, v \in Claims(q)' : u = v
  <2>1. CASE tk = task[t]
    BY <1>1, <1>13, <2>1 DEF CoreInv, ClaimsInv
  <2>2. CASE tk # task[t]
    <3> SUFFICES ASSUME NEW u \in Claims(q)', u # t PROVE FALSE
      OBVIOUS
    <3>1. u \in Claims(q)
      BY <1>1, <1>13
    <3>2. /\ u \in Tasks /\ IsOrdered(u) /\ task[u].active /\ SlotOf[u] <= q /\ q <= NodeOf(u)
          /\ NodeOf(u) = q => Hot(u)
      BY <3>1 DEF Claims
    <3>3. task[u].lock
      BY <1>1, <3>2 DEF TaskInv, TaskOK
    <3>4. SlotOf[u] # q
      <4>1. SlotOf[u] = q => object[q].execute[Tolerable]
        BY <1>1, <3>2, <3>3 DEF LockInv, NodeOf
      <4> QED
        BY <1>4, <4>1 DEF Free, ObjectFree
    <3>5. u \in Claims(q - 1)
      BY <1>1, <1>10, <3>2, <3>4 DEF Claims
    <3> QED
      BY <1>1, <1>12, <2>2, <3>5 DEF CoreInv, ClaimsInv
  <2> QED
    BY <2>1, <2>2
<1>16. ASSUME NEW k \in Int, k # q, k # q + 1, Heard(k) PROVE Heard(k)'
  <2> SUFFICES ASSUME NEW u \in Claims(k - 1)' PROVE (NodeOf(u) = k /\ ~ Hot(u))'
    BY DEF Heard
  <2>1. k - 1 # q /\ k - 1 \in Int
    BY <1>1, <1>16
  <2>2. u \in Claims(k - 1)
    BY <1>13, <2>1
  <2>3. u \in Tasks /\ NodeOf(u) = k /\ ~ Hot(u)
    BY <1>16, <2>2 DEF Claims, Heard
  <2>4. u # t \/ tk = task[t]
    BY <1>12, <1>16, <2>3
  <2> QED
    BY <1>9, <1>11, <2>3, <2>4
<1>17. ~ Free(q)'
  <2>1. ObjectFree(object'[q]) => ObjectFree(object[q])
    BY <1>7 DEF ObjectFree, PendingUpdate
  <2> QED
    BY <1>4, <1>11, <2>1 DEF Free
<1>18. ASSUME NEW u \in Tasks, IsOrdered(u), Hot(u)', NodeOf(u) = q, SlotOf[u] < q
       PROVE  object'[q].pending[Tolerable].requests[Call[u]] = "Processing"
  <2>1. CASE Call[u] = r
    BY <1>3, <1>7, <2>1 DEF PendingUpdate
  <2>2. CASE Call[u] # r
    <3>1. u # t
      BY <2>2
    <3>2. Hot(u) /\ NodeOf(u) > SlotOf[u] /\ Live(NodeOf(u))
      BY <1>2, <1>10, <1>11, <1>18, <3>1
    <3>3. list.requests[Call[u]] = "Processing"
      BY <1>1, <1>18, <3>2 DEF CoreInv, PendingInv
    <3>4. list.requests \in [Requests -> RequestState] /\ Call[u] \in Requests
      BY <1>1, CallFacts DEF ListType
    <3>5. PendingAdd(list, r).requests[Call[u]] = "Processing"
      <4>1. \/ PendingAdd(list, r).requests = list.requests
            \/ PendingAdd(list, r).requests = [list.requests EXCEPT ![r] = "Processing"]
        <5>1. PendingAdd(list, r).requests = IF Exist(list, r) THEN list.requests
                                             ELSE [list.requests EXCEPT ![r] = "Processing"]
          BY <1>1, MethodsSetState
        <5> QED
          BY <5>1
      <4> HIDE DEF list
      <4> QED
        BY <2>2, <3>3, <3>4, <4>1
    <3> QED
      BY <1>7, <3>5 DEF PendingUpdate
  <2> QED
    BY <2>1, <2>2
<1>19. OnlyAdded(object'[q].pending[Tolerable]) /\ object'[q].state # "Unknown"
  BY <1>2, <1>3, <1>7 DEF PendingUpdate
<1>20. \A u \in Tasks : NodeOf(u) # q /\ Hot(u)' => Hot(u)
  BY <1>11, <1>12
<1>21. CoreInv'
  BY <1>1, <1>2, <1>5, <1>6, <1>7, <1>11, <1>14, <1>15, <1>16, <1>17, <1>18, <1>19, <1>20,
     GrowStep
<1> QED
  BY <1>6, <1>8, <1>21 DEF ExecutorInv

(* SMVDelegatedCallRequest *)
LEMMA DelegatedCallRequestInv ==
    ASSUME ExecutorInv, NEW m \in msgs, ReceiveDelegatedCallRequest(m)
    PROVE  ExecutorInv'
<1> DEFINE q == m.to
           t == m.task
           r == Call[t]
           f == FlagOf[r]
           list == PendingAdd(object[q].pending[f], r)
           o == [object[q] EXCEPT !.pending[f] = list]
           oldRequest == object[q].oldestPending[f] = UnknownPulse
                         \/ PulseOf[r] < object[q].oldestPending[f]
           fullTable == /\ Count(object[q].pending[f]) = object[q].prevPending[f]
                        /\ ~ Exist(object[q].pending[f], r)
           ok == ~ oldRequest /\ ~ fullTable
           granted == At(t, "getToken") /\ clock[SlotOf[t]] = q
           tk == IF granted THEN [task[t] EXCEPT !.granted = q] ELSE task[t]
<1>1. TypeOK
  BY DEF ExecutorInv
<1>2. /\ m \in MessageType /\ m.type = "VDelegatedCallRequest"
      /\ clock' = clock /\ msgs' = msgs \ {m} /\ panics' \subseteq Panic
      /\ Present(q) /\ object[q].ReadyToWork
  BY <1>1 DEF ReceiveDelegatedCallRequest, TypeOK
<1>3. q \in Pulses /\ t \in Tasks /\ m = DelegatedCallRequest(q, t)
  BY <1>2 DEF MessageType, DelegatedCallRequest
<1>4. /\ clock[q] = q /\ r \in Requests /\ f \in Flags /\ object[q] \in ObjectType
      /\ task[t] \in TaskType /\ object[q].pending[f] \in ListType
  <2>1. object[q] \in ObjectType /\ task[t] \in TaskType /\ f \in Flags /\ r \in Requests
    BY <1>1, <1>3, CallFacts, TypeFacts
  <2> QED
    BY <1>2, <2>1 DEF Present, ObjectType
<1>5. CASE ~ ok
  <2>1. object' = object /\ task' = task
    BY <1>5 DEF ReceiveDelegatedCallRequest
  <2>2. TypeOK'
    BY <1>1, <1>2, <2>1 DEF TypeOK
  <2> QED
    BY <1>2, <2>1, <2>2, SoftInv
<1>6. CASE ok
  <2>1. object' = [object EXCEPT ![q] = o]
    <3>1. object' = [object EXCEPT ![q] = RegisterPending(object[q], r)]
      BY <1>1, <1>3, <1>6 DEF ReceiveDelegatedCallRequest, TypeOK
    <3>2. RegisterPending(object[q], r) = o
      BY <1>4 DEF RegisterPending, ObjectType
    <3> HIDE DEF o
    <3> QED
      BY <3>1, <3>2
  <2>2. task' = [task EXCEPT ![t] = tk] /\ tk \in TaskType
    <3>1. task' = IF granted THEN [task EXCEPT ![t].granted = q] ELSE task
      BY <1>6 DEF ReceiveDelegatedCallRequest
    <3>2. task' = [task EXCEPT ![t] = tk]
      <4> HIDE DEF granted, q, t
      <4> QED
        BY <1>1, <1>3, <3>1 DEF TypeOK
    <3>3. tk \in TaskType
      BY <1>3, <1>4 DEF TaskType
    <3> QED
      BY <3>2, <3>3
  <2>3. /\ granted => tk.granted = q
        /\ tk.pc = task[t].pc /\ tk.active = task[t].active /\ tk.lock = task[t].lock
        /\ tk.negotiated = task[t].negotiated /\ tk.migrated = task[t].migrated
        /\ tk.resume = task[t].resume /\ tk.outcome = task[t].outcome
        /\ ~ granted => tk = task[t]
        /\ granted => task[t].pc = "getToken" /\ NodeOf(t) = q
    BY <1>3, <1>4 DEF TaskType, At, NodeOf
  <2>4. list \in ListType
    BY <1>4, MethodsKeepType
  <2>5. \A x \in Requests : list.requests[x] # "Unknown"
           => object[q].pending[f].requests[x] # "Unknown" \/ FlagOf[x] = f
    <3>1. list.requests = IF Exist(object[q].pending[f], r) THEN object[q].pending[f].requests
                          ELSE [object[q].pending[f].requests EXCEPT ![r] = "Processing"]
      BY <1>4, MethodsSetState
    <3>2. object[q].pending[f].requests \in [Requests -> RequestState]
      BY <1>4 DEF ListType
    <3> HIDE DEF list
    <3> QED
      BY <1>4, <3>1, <3>2
  <2> HIDE DEF tk
  <2>6. o \in ObjectType /\ PendingUpdate(o, object[q], f, list)
    BY <1>4, <2>4, PendingUpdateFacts
  <2>7. object[q].oldestPending[f] # UnknownPulse
    BY <1>6
  <2> HIDE DEF o, list, ok, granted
  <2>8. CASE f = Tolerable /\ Claims(q - 1) # {}
    <3>1. IsOrdered(t) /\ DelegatedCallRequest(q, t) \in msgs /\ msgs' \subseteq msgs
      BY <1>2, <1>3, <2>8 DEF IsOrdered
    <3>2. PendingUpdate(o, object[q], Tolerable, PendingAdd(object[q].pending[Tolerable], Call[t]))
      BY <2>6, <2>8 DEF list
    <3> QED
      BY <1>2, <1>3, <1>4, <2>1, <2>2, <2>3, <2>6, <2>7, <2>8, <3>1, <3>2, GrantClaims
  <2>9. CASE f # Tolerable \/ Claims(q - 1) = {}
    <3>1. LocalObject(q, o) /\ SoftObject(q, o)
      BY ZenonT(40), <1>2, <1>3, <1>4, <2>4, <2>5, <2>6, <2>9, PendingChanges
    <3>2. TypeOK'
      BY <1>1, <1>2, <1>3, <2>1, <2>2, <2>6 DEF TypeOK
    <3>3. /\ task'[t] = tk /\ \A u \in Tasks : u # t => task'[u] = task[u]
          /\ object'[q] = o /\ \A p \in Pulses : p # q => object'[p] = object[p]
      BY <1>1, <1>3, <2>1, <2>2 DEF TypeOK
    <3>4. task'[t] = task[t] \/ (LocalTask(t, tk, object'[SlotOf[t]]) /\ SoftTask(t, tk))
      <4> SUFFICES ASSUME granted PROVE LocalTask(t, tk, object'[SlotOf[t]]) /\ SoftTask(t, tk)
        BY <2>3, <3>3
      <4>1. /\ TaskOK(task[t], NodeOf(t), SlotOf[t]) /\ SlotOf[t] \in Pulses
            /\ NodeOf(t) \in Nat /\ SlotOf[t] \in Nat
        BY <1>1, <1>3, TypeFacts, PulseFacts DEF ExecutorInv, LocalInv, TaskInv
      <4>2. TaskOK(tk, NodeOf(t), SlotOf[t])
        BY <2>3, <4>1 DEF TaskOK, ActingSteps, EarlySteps, Ended
      <4>3. object'[SlotOf[t]].phase # "none"
        <5>1. object[SlotOf[t]].phase # "none"
          BY <1>3, <2>3 DEF ExecutorInv, LocalInv, KnownInv, Ended
        <5> QED
          BY <2>6, <3>3, <4>1, <5>1 DEF PendingUpdate
      <4>4. LocalTask(t, tk, object'[SlotOf[t]])
        BY <2>3, <4>2, <4>3 DEF LocalTask, Started
      <4>5. ~ IsOrdered(t)
        <5> SUFFICES ASSUME IsOrdered(t) PROVE FALSE
          OBVIOUS
        <5>1. task[t].active /\ SlotOf[t] < q /\ NodeOf(t) = q /\ Requested(t)
          BY <1>3, <2>3, <4>1 DEF TaskOK, Requested
        <5>2. q \in Nat
          BY <1>3, PulseFacts
        <5>3. t \in Claims(q - 1)
          BY <1>3, <4>1, <5>1, <5>2 DEF Claims
        <5> QED
          BY <2>9, <5>3 DEF IsOrdered
      <4>6. SoftTask(t, tk)
        BY <2>3, <4>5 DEF SoftTask, EarlyError
      <4> QED
        BY <4>4, <4>6
    <3> QED
      BY <1>2, <3>1, <3>2, <3>3, <3>4, SoftInv
  <2> QED
    BY <2>8, <2>9
<1> QED
  BY <1>5, <1>6

-----------------------------------------------------------------------------
(***************************************************************************)
(* The steps of SMObject                                                   *)
(***************************************************************************)

(* An object moves on and keeps its state and its lists. *)
LEMMA ObjectGoesOn ==
    ASSUME ExecutorInv, NEW p \in Pulses, NEW o \in ObjectType,
           o.phase # "none", o.phase \in {"publish", "finalize"} => clock[p] = p + 1,
           HasLeft(p) => o.phase \in {"publish", "finalize", "sent"},
           o.asked => p - 1 \in Pulses, o.report = object[p].report,
           o.phase \in {"getState", "waitState", "asleep"} => ~ o.ReadyToWork,
           o.execute[Tolerable] => o.ReadyToWork,
           o.ReadyToWork => o.state # "Unknown",
           object[p].execute[Tolerable] => o.execute[Tolerable],
           o.state = object[p].state, o.known = object[p].known,
           o.pending = object[p].pending, o.oldestPending = object[p].oldestPending,
           ObjectFree(o) => ObjectFree(object[p])
    PROVE  LocalObject(p, o) /\ SoftObject(p, o)
<1>1. ObjectOK(object[p], p, clock[p]) /\ GateInv
  BY DEF ExecutorInv, LocalInv, CoreInv, ObjectInv
<1>2. ObjectOK(o, p, clock[p])
  BY <1>1 DEF ObjectOK
<1>3. LocalObject(p, o)
  BY <1>2 DEF LocalObject, Listed
<1>4. SoftObject(p, o)
  BY <1>1 DEF SoftObject, GateInv, Free, Quiet
<1> QED
  BY <1>3, <1>4

(* stepGetState, stepWaitState *)
LEMMA GetStateInv ==
    ASSUME ExecutorInv, NEW p \in Pulses, StepGetState(p) \/ StepWaitState(p)
    PROVE  ExecutorInv'
<1> DEFINE x == object[p]
<1>1. TypeOK /\ x \in ObjectType /\ ObjectOK(x, p, clock[p]) /\ ClockInv
  BY TypeFacts DEF ExecutorInv, LocalInv, ObjectInv
<1>2. /\ clock' = clock /\ task' = task /\ msgs' = msgs /\ panics' = panics
      /\ clock[p] = p /\ x.phase \in {"getState", "waitState"}
      /\ msgs' \subseteq MessageType /\ panics' \subseteq Panic
  BY <1>1 DEF StepGetState, StepWaitState, Present, TypeOK
<1>3. ~ x.ReadyToWork /\ ~ x.execute[Tolerable] /\ ~ HasLeft(p) /\ p - 1 \in Pulses
  BY <1>1, <1>2 DEF ObjectOK, HasLeft, ClockInv
<1>4. CASE x.state = "Unknown"
  <2> DEFINE o1 == [x EXCEPT !.phase = "waitState", !.asked = TRUE]
             o2 == [x EXCEPT !.phase = "asleep"]
  <2>1. object' = [object EXCEPT ![p] = o1] \/ object' = [object EXCEPT ![p] = o2]
    BY <1>1, <1>4 DEF StepGetState, StepWaitState, TypeOK
  <2>2. ASSUME NEW o, o = o1 \/ o = o2
        PROVE  /\ o \in ObjectType /\ o.phase \in {"waitState", "asleep"}
               /\ o.report = x.report /\ o.ReadyToWork = x.ReadyToWork
               /\ o.execute = x.execute /\ o.state = x.state /\ o.known = x.known
               /\ o.pending = x.pending /\ o.oldestPending = x.oldestPending
               /\ o.prevPending = x.prevPending
    BY ZenonT(40), <1>1, <2>2 DEF ObjectType, ObjectPhase
  <2> HIDE DEF o1, o2
  <2>3. ASSUME NEW o, o = o1 \/ o = o2
        PROVE  LocalObject(p, o) /\ SoftObject(p, o)
    <3>1. ObjectFree(o) => ObjectFree(x)
      BY <2>2, <2>3 DEF ObjectFree
    <3> QED
      BY <1>3, <2>2, <2>3, <3>1, ObjectGoesOn
  <2> QED
    BY <1>2, <2>1, <2>3, ObjectMoves
<1>5. CASE x.state # "Unknown"
  <2> DEFINE o == GotState(x)
             free == x.prevPending[Tolerable] = 0
             empty == x.state = "Empty"
             execute == [f \in Flags |-> IF f = Tolerable THEN free ELSE free \/ ~ empty]
             ctor == IF ~ free /\ empty THEN "closed" ELSE x.ctorFinished
  <2>1. object' = [object EXCEPT ![p] = o]
    BY <1>1, <1>5 DEF StepGetState, StepWaitState, TypeOK
  <2>2. o = [x EXCEPT !.phase = "working", !.execute = execute, !.ctorFinished = ctor,
                      !.signal = ~ free, !.ReadyToWork = TRUE]
    BY DEF GotState, OpenPaths
  <2>3. /\ execute \in [Flags -> BOOLEAN] /\ execute[Tolerable] = free
        /\ ctor \in {"none", "closed", "open"}
    BY <1>1, CallFacts DEF ObjectType
  <2> HIDE DEF execute, ctor
  <2>4. /\ o \in ObjectType /\ o.phase = "working" /\ o.asked = x.asked
        /\ o.report = x.report /\ o.ReadyToWork
        /\ o.execute = execute /\ o.state = x.state /\ o.known = x.known
        /\ o.pending = x.pending /\ o.oldestPending = x.oldestPending
        /\ o.prevPending = x.prevPending
    BY ZenonT(40), <1>1, <2>2, <2>3 DEF ObjectType, ObjectPhase
  <2> HIDE DEF o
  <2>5. ObjectFree(o) => ObjectFree(x)
    BY <1>5, <2>3, <2>4 DEF ObjectFree
  <2>6. LocalObject(p, o) /\ SoftObject(p, o)
    BY <1>3, <1>5, <2>4, <2>5, ObjectGoesOn
  <2> QED
    BY <1>2, <2>1, <2>6, ObjectMoves
<1> QED
  BY <1>4, <1>5

(* stepPublishCallSummary *)
LEMMA PublishCallSummaryInv ==
    ASSUME ExecutorInv, NEW p \in Pulses, StepPublishCallSummary(p)
    PROVE  ExecutorInv'
<1> DEFINE x == object[p]
           o == [x EXCEPT !.phase = "finalize", !.summary = x.results]
<1>1. TypeOK /\ x \in ObjectType /\ ObjectOK(x, p, clock[p])
  BY TypeFacts DEF ExecutorInv, LocalInv, ObjectInv
<1>2. /\ clock' = clock /\ task' = task /\ msgs' = msgs /\ x.phase = "publish"
      /\ msgs' \subseteq MessageType /\ panics' \subseteq Panic
      /\ object' = [object EXCEPT ![p] = o]
  BY <1>1 DEF StepPublishCallSummary, TypeOK, ObjectType
<1>3. /\ o \in ObjectType /\ o.phase = "finalize" /\ o.asked = x.asked
      /\ o.report = x.report /\ o.ReadyToWork = x.ReadyToWork
      /\ o.execute = x.execute /\ o.state = x.state /\ o.known = x.known
      /\ o.pending = x.pending /\ o.oldestPending = x.oldestPending
      /\ o.prevPending = x.prevPending
  BY <1>1 DEF ObjectType, ObjectPhase
<1> HIDE DEF o
<1>4. LocalObject(p, o) /\ SoftObject(p, o)
  <2>1. ObjectFree(o) => ObjectFree(x)
    BY <1>3 DEF ObjectFree
  <2>2. ObjectOK(o, p, clock[p])
    BY <1>1, <1>2, <1>3 DEF ObjectOK
  <2> QED
    BY <1>2, <1>3, <2>1, <2>2, ObjectGoesOn DEF ObjectOK
<1> QED
  BY <1>2, <1>4, ObjectMoves

(* SMPreservedStateReport: a report without ordered calls is sent only by  *)
(* an executor that has left no claim (ReportInv).                         *)
LEMMA SendVStateReportInv ==
    ASSUME ExecutorInv, NEW p \in Pulses, StepSendVStateReport(p)
    PROVE  ExecutorInv'
<1> DEFINE x == object[p]
           o == [x EXCEPT !.phase = "sent"]
           m == StateReportTo(clock[p], x.report)
<1>1. TypeOK /\ x \in ObjectType /\ ObjectOK(x, p, clock[p]) /\ clock[p] \in Pulses /\ p \in Nat
  BY TypeFacts DEF ExecutorInv, LocalInv, ObjectInv
<1>2. /\ clock' = clock /\ task' = task /\ msgs' \subseteq msgs \cup {m} /\ x.phase = "finalize"
      /\ panics' \subseteq Panic /\ object' = [object EXCEPT ![p] = o]
  BY <1>1 DEF StepSendVStateReport, Posted, TypeOK
<1>3. clock[p] = p + 1
  BY <1>1, <1>2 DEF ObjectOK
<1>4. /\ o \in ObjectType /\ o.phase = "sent" /\ o.asked = x.asked
      /\ o.report = x.report /\ o.ReadyToWork = x.ReadyToWork
      /\ o.execute = x.execute /\ o.state = x.state /\ o.known = x.known
      /\ o.pending = x.pending /\ o.oldestPending = x.oldestPending
      /\ o.prevPending = x.prevPending
  BY <1>1 DEF ObjectType, ObjectPhase
<1> HIDE DEF o
<1>5. LocalObject(p, o) /\ SoftObject(p, o)
  <2>1. ObjectFree(o) => ObjectFree(x)
    BY <1>4 DEF ObjectFree
  <2> QED
    BY <1>1, <1>2, <1>4, <2>1, ObjectGoesOn DEF ObjectOK
<1>6. m.type = "VStateReport" /\ m.to = p + 1 /\ m.report = x.report /\ m \in MessageType
  <2>1. x.report \in VStateReport
    BY <1>1 DEF ObjectType
  <2> QED
    BY <1>1, <1>3, <2>1 DEF StateReportTo, MessageType
<1> HIDE DEF m
<1>7. ReportOK(m)
  <2>1. p + 1 \in Pulses /\ (p + 1) - 1 = p
    BY <1>1, <1>3
  <2>2. Sealed(p + 1)
    BY <1>1, <1>3, <2>1 DEF Sealed
  <2>3. Live(p + 1) /\ object[p + 1].state = "Unknown" /\ x.report.OrderedPendingCount = 0
           => Heard(p + 1)
    BY <1>3, <2>1 DEF ExecutorInv, CoreInv, ReportInv, NothingLeft
  <2> QED
    BY <1>6, <2>2, <2>3 DEF ReportOK
<1> QED
  BY <1>1, <1>2, <1>5, <1>6, <1>7, ObjectMoves DEF TypeOK

(* SMVStateRequest *)
LEMMA AnswerStateRequestInv ==
    ASSUME ExecutorInv, NEW p \in Pulses, AnswerStateRequest(p)
    PROVE  ExecutorInv'
<1> DEFINE x == object[p]
           o == [x EXCEPT !.asked = FALSE]
           report == IF HasReport(p - 1) THEN object[p - 1].report ELSE MissingReport
           m == StateReportTo(p, report)
<1>1. TypeOK /\ x \in ObjectType /\ ObjectOK(x, p, clock[p]) /\ p \in Nat
  BY TypeFacts DEF ExecutorInv, LocalInv, ObjectInv
<1>2. /\ clock' = clock /\ task' = task /\ msgs' \subseteq msgs \cup {m} /\ x.asked
      /\ panics' \subseteq Panic /\ object' = [object EXCEPT ![p] = o] /\ clock[p - 1] = p
  BY <1>1 DEF AnswerStateRequest, Posted, TypeOK
<1>3. p - 1 \in Pulses /\ x.phase # "none"
  <2>1. "none" \in ObjectPhase /\ NewObject("none").asked = FALSE
    BY DEF ObjectPhase, NewObject
  <2> QED
    BY <1>1, <1>2, <2>1 DEF ObjectOK
<1>4. /\ o \in ObjectType /\ o.phase = x.phase /\ ~ o.asked
      /\ o.report = x.report /\ o.ReadyToWork = x.ReadyToWork
      /\ o.execute = x.execute /\ o.state = x.state /\ o.known = x.known
      /\ o.pending = x.pending /\ o.oldestPending = x.oldestPending
      /\ o.prevPending = x.prevPending
  BY <1>1 DEF ObjectType, ObjectPhase
<1> HIDE DEF o
<1>5. LocalObject(p, o) /\ SoftObject(p, o)
  <2>1. ObjectFree(o) => ObjectFree(x)
    BY <1>4 DEF ObjectFree
  <2>2. HasLeft(p) => o.phase \in {"publish", "finalize", "sent"}
    BY <1>4 DEF HasLeft
  <2> QED
    BY <1>1, <1>3, <1>4, <2>1, <2>2, ObjectGoesOn DEF ObjectOK
<1>6. m.type = "VStateReport" /\ m.to = p /\ m.report = report /\ m \in MessageType
  <2>1. object[p - 1].report \in VStateReport /\ MissingReport \in VStateReport
    <3>1. "none" \in ObjectPhase /\ object[p - 1] \in ObjectType
      BY <1>1, <1>3, TypeFacts DEF ObjectPhase
    <3> QED
      BY <3>1, NewObjectFacts DEF ObjectType
  <2> QED
    BY <2>1 DEF StateReportTo, MessageType
<1> HIDE DEF m
<1>7. ReportOK(m)
  <2>1. Sealed(p)
    BY <1>1, <1>2 DEF Sealed
  <2>2. report.OrderedPendingCount = 0 => NothingLeft(p - 1)
    BY <1>1, <1>2 DEF NothingLeft, HasLeft, HasReport
  <2>3. Live(p) /\ object[p].state = "Unknown" /\ report.OrderedPendingCount = 0
           => Heard(p)
    BY <1>2, <1>3, <2>2 DEF ExecutorInv, CoreInv, ReportInv
  <2> HIDE DEF report
  <2> QED
    BY <1>6, <2>1, <2>3 DEF ReportOK
<1> QED
  BY <1>1, <1>2, <1>5, <1>6, <1>7, ObjectMoves DEF TypeOK

(* GetOrCreate *)
LEMMA GetOrCreateFacts ==
    ASSUME ExecutorInv, NEW p \in Pulses
    PROVE  LET o == GetOrCreate(p)
               x == object[p]
           IN  /\ o \in ObjectType
               /\ o.phase = IF x.phase = "none" THEN "getState" ELSE x.phase
               /\ o.asked = x.asked /\ o.report = x.report /\ o.ReadyToWork = x.ReadyToWork
               /\ o.execute = x.execute /\ o.state = x.state /\ o.known = x.known
               /\ o.pending = x.pending /\ o.oldestPending = x.oldestPending
               /\ o.prevPending = x.prevPending
               /\ LocalObject(p, o) /\ SoftObject(p, o)
<1> DEFINE o == GetOrCreate(p)
           x == object[p]
<1>1. TypeOK /\ x \in ObjectType /\ ObjectOK(x, p, clock[p])
  BY TypeFacts DEF ExecutorInv, LocalInv, ObjectInv
<1>2. /\ o \in ObjectType
      /\ o.phase = IF x.phase = "none" THEN "getState" ELSE x.phase
      /\ o.asked = x.asked /\ o.report = x.report /\ o.ReadyToWork = x.ReadyToWork
      /\ o.execute = x.execute /\ o.state = x.state /\ o.known = x.known
      /\ o.pending = x.pending /\ o.oldestPending = x.oldestPending
      /\ o.prevPending = x.prevPending
  <2>1. CASE x.phase = "none"
    <3>1. x = NewObject("none") /\ o = NewObject("getState")
      BY <1>1, <2>1 DEF ObjectOK, GetOrCreate
    <3>2. "getState" \in ObjectPhase
      BY DEF ObjectPhase
    <3>3. NewObject("getState") \in ObjectType
      BY <3>2, NewObjectFacts
    <3> QED
      BY <2>1, <3>1, <3>3 DEF NewObject
  <2>2. CASE x.phase # "none"
    BY <1>1, <2>2 DEF GetOrCreate
  <2> QED
    BY <2>1, <2>2
<1> HIDE DEF o
<1>3. ObjectFree(o) => ObjectFree(x)
  BY <1>2 DEF ObjectFree
<1>4. HasLeft(p) => o.phase \in {"publish", "finalize", "sent"}
  BY <1>2 DEF HasLeft
<1>5. LocalObject(p, o) /\ SoftObject(p, o)
  BY <1>1, <1>2, <1>3, <1>4, ObjectGoesOn DEF ObjectOK
<1> QED
  BY <1>2, <1>5 DEF o

(* GetOrCreate of the handlers of delegated calls *)
LEMMA CreateForDelegatedInv ==
    ASSUME ExecutorInv, NEW m \in msgs, CreateForDelegated(m)
    PROVE  ExecutorInv'
<1>1. /\ TypeOK /\ m.to \in Pulses
  BY DEF ExecutorInv, TypeOK, MessageType
<1> DEFINE o == GetOrCreate(m.to)
<1>2. LocalObject(m.to, o) /\ SoftObject(m.to, o)
  BY <1>1, GetOrCreateFacts
<1> HIDE DEF o
<1>3. /\ clock' = clock /\ task' = task /\ msgs' = msgs /\ msgs' \subseteq MessageType
      /\ panics' \subseteq Panic /\ object' = [object EXCEPT ![m.to] = o]
  BY <1>1 DEF CreateForDelegated, TypeOK, o
<1> QED
  BY <1>1, <1>2, <1>3, ObjectMoves

(* What the validation lets pass *)
LEMMA ValidReport ==
    ASSUME NEW report \in VStateReport, NEW p, Validate(report, p)
    PROVE  /\ report.OrderedPendingCount % 256 = 0 => report.OrderedPendingCount = 0
           /\ report.OrderedPendingCount = 0 => report.OrderedPendingEarliestPulse = UnknownPulse
           /\ report.Status = "Missing" => report.OrderedPendingCount = 0
<1>1. report.Status \in {"Ready", "Empty", "Inactive", "Missing"}
      /\ report.OrderedPendingCount \in Int
  BY DEF VStateReport, StateStatus
<1>2. CASE report.Status = "Ready"
  <2>1. ValidPendings(report.OrderedPendingCount, report.OrderedPendingEarliestPulse, p)
    BY <1>2 DEF Validate
  <2> QED
    BY <1>1, <1>2, <2>1 DEF ValidPendings, MaxPendingCount
<1>3. CASE report.Status = "Empty"
  BY <1>1, <1>3 DEF Validate, ValidEmpty
<1>4. CASE report.Status \in {"Inactive", "Missing"}
  BY <1>1, <1>4 DEF Validate, ValidMissingOrInactive
<1> QED
  BY <1>1, <1>2, <1>3, <1>4

(* SMVStateReport: the first report that is accepted gives the state.  One *)
(* without ordered calls opens the gate, and the executor that sent it has *)
(* left no claim.                                                          *)
LEMMA ReceiveStateReportInv ==
    ASSUME ExecutorInv, NEW m \in msgs, ReceiveStateReport(m)
    PROVE  ExecutorInv'
<1> DEFINE p == m.to
           x == object[p]
           g == GetOrCreate(p)
           report == m.report
<1>1. /\ TypeOK /\ ClockInv /\ GateInv /\ MessageInv /\ m \in MessageType
      /\ m.type = "VStateReport"
  BY DEF ExecutorInv, LocalInv, CoreInv, TypeOK, ReceiveStateReport
<1>2. /\ p \in Pulses /\ report \in VStateReport /\ clock[p] = p
      /\ clock' = clock /\ task' = task /\ msgs' = msgs \ {m} /\ msgs' \subseteq MessageType
      /\ panics' \subseteq Panic
  BY <1>1 DEF ReceiveStateReport, Present, TypeOK, MessageType
<1>3. /\ x \in ObjectType /\ ObjectOK(x, p, clock[p]) /\ Live(p) /\ ReportOK(m) /\ p \in Nat
  BY <1>1, <1>2, TypeFacts DEF ExecutorInv, LocalInv, ObjectInv, MessageInv, Live
<1>4. CASE ~ Validate(report, p)
  <2>1. object' = object
    BY <1>4 DEF ReceiveStateReport
  <2>2. TypeOK'
    BY <1>1, <1>2, <2>1 DEF TypeOK
  <2> QED
    BY <1>2, <2>1, <2>2, SoftInv
<1>5. CASE Validate(report, p) /\ g.state # "Unknown"
  <2>1. object' = [object EXCEPT ![p] = g]
    BY <1>5 DEF ReceiveStateReport
  <2>2. LocalObject(p, g) /\ SoftObject(p, g)
    BY <1>2, GetOrCreateFacts
  <2> HIDE DEF g
  <2> QED
    BY <1>2, <2>1, <2>2, ObjectMoves
<1>6. CASE Validate(report, p) /\ g.state = "Unknown"
  <2> DEFINE state == StateOfStatus(report.Status)
             prev == [f \in Flags |-> (IF f = Tolerable THEN report.OrderedPendingCount
                                       ELSE report.UnorderedPendingCount) % 256]
             oldest == [f \in Flags |-> IF f = Tolerable
                                        THEN report.OrderedPendingEarliestPulse
                                        ELSE report.UnorderedPendingEarliestPulse]
             dirty == IF report.ProvidedContent.has THEN report.ProvidedContent ELSE g.dirty
             phase == IF g.phase = "asleep" THEN "waitState" ELSE g.phase
             o == [g EXCEPT !.state = state, !.prevPending = prev, !.oldestPending = oldest,
                            !.dirty = dirty, !.phase = phase]
  <2>1. object' = [object EXCEPT ![p] = o]
    BY <1>6 DEF ReceiveStateReport, ApplyReport
  <2>2. /\ g \in ObjectType /\ g.phase = IF x.phase = "none" THEN "getState" ELSE x.phase
        /\ g.asked = x.asked /\ g.report = x.report /\ g.ReadyToWork = x.ReadyToWork
        /\ g.execute = x.execute /\ g.state = x.state /\ g.known = x.known
        /\ g.pending = x.pending
    BY <1>2, GetOrCreateFacts
  <2> HIDE DEF g
  <2>3. /\ report.Status \in StateStatus
        /\ report.OrderedPendingCount \in Int /\ report.UnorderedPendingCount \in Int
        /\ report.OrderedPendingEarliestPulse \in Pulses \cup {UnknownPulse}
        /\ report.UnorderedPendingEarliestPulse \in Pulses \cup {UnknownPulse}
        /\ report.ProvidedContent \in Descriptor
    BY <1>2 DEF VStateReport
  <2> HIDE DEF report
  <2>4. state \in ObjectState /\ state # "Unknown" /\ (state = "Missing" => report.Status = "Missing")
    BY <2>3 DEF StateOfStatus, StateStatus, ObjectState
  <2>5. prev \in [Flags -> Nat] /\ prev[Tolerable] = report.OrderedPendingCount % 256
    BY <2>3, CallFacts
  <2>6. /\ oldest \in [Flags -> Pulses \cup {UnknownPulse}]
        /\ oldest[Tolerable] = report.OrderedPendingEarliestPulse
    BY <2>3, CallFacts
  <2>7. dirty \in Descriptor /\ phase \in ObjectPhase
    BY <2>2, <2>3 DEF ObjectType, ObjectPhase
  <2> HIDE DEF state, prev, oldest, dirty, phase
  <2>8. /\ o \in ObjectType /\ o.phase = phase /\ o.asked = x.asked
        /\ o.report = x.report /\ o.ReadyToWork = x.ReadyToWork
        /\ o.execute = x.execute /\ o.state = state /\ o.known = x.known
        /\ o.pending = x.pending /\ o.oldestPending = oldest /\ o.prevPending = prev
    BY <2>2, <2>4, <2>5, <2>6, <2>7 DEF ObjectType
  <2> HIDE DEF o
  <2>9. x.state = "Unknown" /\ ~ x.ReadyToWork /\ ~ x.execute[Tolerable] /\ ~ Free(p)
    BY <1>1, <1>2, <1>3, <1>6, <2>2 DEF ObjectOK, GateInv
  <2>10. LocalObject(p, o)
    <3>1. ObjectOK(o, p, clock[p])
      BY <1>3, <2>2, <2>4, <2>8, <2>9 DEF ObjectOK, phase
    <3> QED
      BY <2>2, <2>8, <2>9, <3>1 DEF LocalObject, Listed, phase
  <2>11. ObjectFree(o) => Heard(p) /\ oldest[Tolerable] = UnknownPulse
    <3>1. ObjectFree(o) => report.OrderedPendingCount = 0
      <4>1. ListConsistent(x.known[Tolerable])
        BY <2>9 DEF Free, ObjectFree
      <4>2. report \in VStateReport
        BY <1>2 DEF report
      <4>3. /\ report.OrderedPendingCount % 256 = 0 => report.OrderedPendingCount = 0
            /\ report.Status = "Missing" => report.OrderedPendingCount = 0
        BY <1>6, <4>2, ValidReport
      <4> QED
        BY <2>4, <2>5, <2>8, <2>9, <4>1, <4>3 DEF ObjectFree
    <3>2. report.OrderedPendingCount = 0 => Heard(p)
      BY <1>3, <2>9 DEF ReportOK, report
    <3>3. report.OrderedPendingCount = 0 => oldest[Tolerable] = UnknownPulse
      <4>1. report \in VStateReport
        BY <1>2 DEF report
      <4> QED
        BY <1>6, <2>6, <4>1, ValidReport
    <3> QED
      BY <3>1, <3>2, <3>3
  <2>12. Sealed(p)
    BY <1>3 DEF ReportOK
  <2>13. SoftObject(p, o)
    <3>1. HasLeft(p) => o.phase \in {"publish", "finalize", "sent"}
      BY <2>2, <2>8 DEF HasLeft, phase
    <3> QED
      BY <2>4, <2>8, <2>9, <2>11, <2>12, <3>1 DEF SoftObject
  <2> QED
    BY <1>2, <2>1, <2>10, <2>13, ObjectMoves
<1> QED
  BY <1>4, <1>5, <1>6

(* stepGetObject: a constructor starts its object, which nobody knows      *)
(* earlier.                                                                *)
LEMMA GetObjectInv ==
    ASSUME ExecutorInv, NEW t \in Tasks, StepGetObject(t)
    PROVE  ExecutorInv'
<1> DEFINE p == SlotOf[t]
           x == object[p]
           g == GetOrCreate(p)
           starts == /\ Call[t] \in Constructors
                     /\ PulseOf[Call[t]] = p
                     /\ g.state \in {"Unknown", "Missing"}
           tk == [task[t] EXCEPT !.pc = "waitObjectReady"]
<1>1. task[t] \in TaskType /\ TaskOK(task[t], NodeOf(t), SlotOf[t]) /\ TypeOK
  BY TypeFacts DEF ExecutorInv, LocalInv, TaskInv
<1>2. /\ p \in Pulses /\ p \in Nat /\ x \in ObjectType /\ ObjectOK(x, p, clock[p])
  BY <1>1, PulseFacts, TypeFacts DEF ExecutorInv, LocalInv, ObjectInv
<1>3. /\ clock' = clock /\ msgs' = msgs /\ panics' \subseteq Panic
      /\ task[t].pc = "idle" /\ task' = [task EXCEPT ![t] = tk] /\ clock[p] = p
  BY <1>1 DEF StepGetObject, Step, At, TypeOK, Goto, Present
<1>4. /\ tk \in TaskType /\ tk.pc = "waitObjectReady" /\ SameFrame(tk, task[t])
      /\ tk.outcome = task[t].outcome
  BY <1>1 DEF TaskType, SameFrame, TaskStep
<1> HIDE DEF tk
<1>5. TaskOK(tk, NodeOf(t), SlotOf[t]) /\ ~ tk.active
  BY <1>1, <1>3, <1>4 DEF TaskOK, SameFrame, NodeOf, Ended, EarlySteps, ActingSteps
<1>6. SoftTask(t, tk) /\ \A o : o.phase # "none" => LocalTask(t, tk, o)
  BY <1>1, <1>3, <1>4, <1>5
     DEF SoftTask, LocalTask, SameFrame, CanAct, EarlyError, Started, TaskOK
<1>7. /\ g \in ObjectType /\ g.phase = IF x.phase = "none" THEN "getState" ELSE x.phase
      /\ g.asked = x.asked /\ g.report = x.report /\ g.ReadyToWork = x.ReadyToWork
      /\ g.execute = x.execute /\ g.state = x.state /\ g.known = x.known
      /\ g.pending = x.pending /\ g.oldestPending = x.oldestPending
      /\ LocalObject(p, g) /\ SoftObject(p, g)
  BY <1>2, GetOrCreateFacts
<1>8. CASE ~ starts
  <2>1. object' = [object EXCEPT ![p] = g]
    BY <1>8 DEF StepGetObject
  <2> HIDE DEF g
  <2> QED
    BY <1>3, <1>4, <1>6, <1>7, <2>1, TaskMoves
<1>9. CASE starts
  <2> DEFINE o == [g EXCEPT !.state = "Empty"]
  <2>1. object' = [object EXCEPT ![p] = o]
    BY <1>9 DEF StepGetObject
  <2> HIDE DEF g
  <2>2. /\ o \in ObjectType /\ o.phase = g.phase /\ o.asked = x.asked
        /\ o.report = x.report /\ o.ReadyToWork = x.ReadyToWork
        /\ o.execute = x.execute /\ o.state = "Empty" /\ o.known = x.known
        /\ o.pending = x.pending /\ o.oldestPending = x.oldestPending
    BY <1>7 DEF ObjectType, ObjectState
  <2> HIDE DEF o
  <2>3. LocalObject(p, o)
    <3>1. ObjectOK(o, p, clock[p])
      BY <1>2, <1>7, <2>2 DEF ObjectOK
    <3> QED
      BY <1>7, <2>2, <3>1 DEF LocalObject, Listed
  <2>4. p = ObjectPulse
    BY <1>9, CallFacts, ObjectAgeAssumption
  <2>5. Sealed(p) /\ Claims(p - 1) = {}
    <3>1. Sealed(p)
      BY <1>2, <2>4 DEF Sealed
    <3>2. \A u \in Tasks : ~ (SlotOf[u] <= p - 1)
      <4> SUFFICES ASSUME NEW u \in Tasks PROVE ~ (SlotOf[u] <= p - 1)
        OBVIOUS
      <4>1. SlotOf[u] \in Nat /\ p <= SlotOf[u]
        BY <2>4, PulseFacts
      <4> QED
        BY <1>2, <4>1
    <3> QED
      BY <3>1, <3>2 DEF Claims
  <2>6. SoftObject(p, o)
    BY <1>7, <2>2, <2>5 DEF SoftObject, HasLeft, Heard
  <2>7. o.phase # "none"
    BY <1>7, <2>2
  <2> QED
    BY <1>3, <1>4, <1>6, <2>1, <2>3, <2>6, <2>7, TaskMoves
<1> QED
  BY <1>8, <1>9

(* What the end of a delegated call may change of an object *)
FinishUpdate(o, x) ==
    /\ o.phase = x.phase /\ o.asked = x.asked /\ o.ReadyToWork = x.ReadyToWork
    /\ o.known = x.known /\ o.report = x.report
    /\ o.oldestPending = x.oldestPending /\ o.prevPending = x.prevPending
    /\ x.state # "Unknown" => o.state # "Unknown"
    /\ x.execute[Tolerable] => o.execute[Tolerable]
    /\ \A g \in Flags, r \in Requests : o.pending[g].requests[r] # "Unknown"
          => x.pending[g].requests[r] # "Unknown"

LEMMA FinishChanges ==
    ASSUME ExecutorInv, NEW q \in Pulses, NEW o \in ObjectType, object[q].ReadyToWork,
           clock[q] = q, FinishUpdate(o, object[q]),
           \/ Claims(q - 1) = {}
           \/ /\ o.pending[Tolerable] = object[q].pending[Tolerable]
              /\ o.execute[Tolerable] = object[q].execute[Tolerable]
              /\ o.state = "Missing" => object[q].state = "Missing"
    PROVE  LocalObject(q, o) /\ SoftObject(q, o)
<1> DEFINE x == object[q]
<1>1. ObjectOK(x, q, clock[q]) /\ GateInv /\ q \in Nat
  BY PulseFacts DEF ExecutorInv, LocalInv, CoreInv, ObjectInv
<1>2. x.state # "Unknown" /\ o.state # "Unknown" /\ Live(q)
  BY <1>1 DEF ObjectOK, Live, FinishUpdate
<1>3. x.phase # "none"
  <2>1. x.phase \notin {"none"}
    BY <1>1 DEF ObjectOK
  <2> QED
    BY <2>1
<1>4. ObjectOK(o, q, clock[q])
  BY <1>1, <1>2, <1>3 DEF ObjectOK, FinishUpdate
<1>5. LocalObject(q, o)
  BY <1>3, <1>4 DEF LocalObject, FinishUpdate, Listed
<1>6. Sealed(q)
  BY <1>1, <1>2 DEF GateInv
<1>7. ObjectFree(o) => Heard(q) /\ (Claims(q - 1) # {} => x.oldestPending[Tolerable] = UnknownPulse)
  <2>1. CASE Claims(q - 1) = {}
    BY <2>1 DEF Heard
  <2>2. CASE Claims(q - 1) # {}
    <3>1. ObjectFree(o) => ObjectFree(x)
      BY <1>2, <2>2 DEF ObjectFree, FinishUpdate
    <3> QED
      BY <1>1, <1>2, <3>1 DEF GateInv, Free, Quiet
  <2> QED
    BY <2>1, <2>2
<1>8. SoftObject(q, o)
  BY <1>2, <1>6, <1>7 DEF SoftObject, FinishUpdate, HasLeft
<1> QED
  BY <1>5, <1>8

(* SMVDelegatedRequestFinished: when an ordered call tells of its end no   *)
(* claim from before this pulse is left.                                   *)
LEMMA DelegatedRequestFinishedInv ==
    ASSUME ExecutorInv, NEW m \in msgs, ReceiveDelegatedRequestFinished(m)
    PROVE  ExecutorInv'
<1> DEFINE q == m.to
           t == m.task
           r == Call[t]
           f == CallFlag[r]
           x == object[q]
           dirty == IF m.latest.has THEN m.latest ELSE x.dirty
           o1 == [x EXCEPT !.dirty = dirty]
           state == IF x.state # "Empty" THEN x.state
                    ELSE IF m.latest.has THEN "HasState"
                    ELSE IF f = Tolerable /\ r \in Constructors THEN "Missing"
                    ELSE x.state
           o2 == [o1 EXCEPT !.state = state]
           list == PendingFinish(x.pending[f], r)
           o3 == [o2 EXCEPT !.pending[f] = list]
           o4 == ReleasePaths(o3)
           badState == m.latest.has /\ o1.state \notin {"Empty", "HasState"}
           unregistered == ~ Exist(x.pending[f], r)
           signal == f = Tolerable /\ list.countActive = 0 /\ x.signal
<1>1. /\ TypeOK /\ m \in MessageType /\ m.type = "VDelegatedRequestFinished" /\ MessageInv
  BY DEF ExecutorInv, TypeOK, CoreInv, ReceiveDelegatedRequestFinished
<1>2. /\ q \in Pulses /\ t \in Tasks /\ m.latest \in Descriptor
  BY <1>1 DEF MessageType
<1>3. /\ clock' = clock /\ task' = task /\ msgs' \subseteq msgs /\ msgs' \subseteq MessageType
      /\ panics' \subseteq Panic /\ clock[q] = q /\ x.ReadyToWork
  BY <1>1 DEF ReceiveDelegatedRequestFinished, Present, TypeOK, Panic
<1>4. /\ x \in ObjectType /\ ObjectOK(x, q, clock[q]) /\ r \in Requests /\ f \in Flags
      /\ q \in Nat
  BY <1>1, <1>2, TypeFacts, CallFacts DEF ExecutorInv, LocalInv, ObjectInv
<1>5. /\ x.pending[f] \in ListType /\ x.dirty \in Descriptor /\ x.state \in ObjectState
      /\ x.pending \in [Flags -> ListType] /\ x.execute \in [Flags -> BOOLEAN]
      /\ x.ctorFinished \in {"none", "closed", "open"}
  BY <1>4 DEF ObjectType
<1>6. dirty \in Descriptor /\ state \in ObjectState
  BY <1>2, <1>5 DEF ObjectState
<1>7. /\ list \in ListType
      /\ list.requests = IF Exist(x.pending[f], r)
                         THEN [x.pending[f].requests EXCEPT ![r] = "Finished"]
                         ELSE x.pending[f].requests
  BY <1>4, <1>5, MethodsKeepType, MethodsSetState
<1>8. SetLatestState(x, m.latest) = o1
  BY <1>4 DEF SetLatestState, ObjectType
<1>9. /\ o1 \in ObjectType /\ FinishUpdate(o1, x)
      /\ o1.pending = x.pending /\ o1.execute = x.execute /\ o1.state = x.state
      /\ o1.signal = x.signal /\ o1.ctorFinished = x.ctorFinished
  <2> HIDE DEF dirty
  <2> QED
    BY <1>4, <1>6 DEF ObjectType, FinishUpdate
<1>10. /\ o2 \in ObjectType /\ o2.state = state
       /\ o2.phase = x.phase /\ o2.asked = x.asked /\ o2.ReadyToWork = x.ReadyToWork
       /\ o2.known = x.known /\ o2.report = x.report
       /\ o2.oldestPending = x.oldestPending /\ o2.prevPending = x.prevPending
       /\ o2.pending = x.pending /\ o2.execute = x.execute
       /\ o2.signal = x.signal /\ o2.ctorFinished = x.ctorFinished
  <2> HIDE DEF o1, state
  <2> QED
    BY <1>6, <1>9 DEF ObjectType, FinishUpdate
<1>11. FinishUpdate(o2, x) /\ (x.state # "Unknown" => state # "Unknown")
  BY <1>10 DEF FinishUpdate
<1>12. /\ o3 \in ObjectType /\ o3.state = state
       /\ o3.phase = x.phase /\ o3.asked = x.asked /\ o3.ReadyToWork = x.ReadyToWork
       /\ o3.known = x.known /\ o3.report = x.report
       /\ o3.oldestPending = x.oldestPending /\ o3.prevPending = x.prevPending
       /\ o3.pending[f] = list /\ (\A g \in Flags : g # f => o3.pending[g] = x.pending[g])
       /\ o3.execute = x.execute
       /\ o3.signal = x.signal /\ o3.ctorFinished = x.ctorFinished
  <2> HIDE DEF o2, state, list
  <2> QED
    BY <1>4, <1>5, <1>7, <1>10 DEF ObjectType
<1>13. ASSUME ~ unregistered
       PROVE  \A g \in Flags, y \in Requests : o3.pending[g].requests[y] # "Unknown"
                 => x.pending[g].requests[y] # "Unknown"
  <2>1. x.pending[f].requests \in [Requests -> RequestState] /\ x.pending[f].requests[r] # "Unknown"
    BY <1>5, <1>13 DEF ListType, Exist
  <2>2. \A y \in Requests : list.requests[y] # "Unknown" => x.pending[f].requests[y] # "Unknown"
    <3> HIDE DEF list
    <3> QED
      BY <1>4, <1>7, <2>1
  <2> HIDE DEF o3, list
  <2> QED
    BY <1>12, <2>2
<1>14. ASSUME ~ unregistered PROVE FinishUpdate(o3, x)
  <2> HIDE DEF o3, list, state
  <2> QED
    BY <1>11, <1>12, <1>13, <1>14 DEF FinishUpdate
<1>15. /\ o4 \in ObjectType /\ (FinishUpdate(o3, x) => FinishUpdate(o4, x))
  <2> DEFINE execute == [g \in Flags |-> g = Tolerable \/ o3.execute[g] \/ o3.ctorFinished # "none"]
             ctor == IF o3.ctorFinished = "none" THEN o3.ctorFinished ELSE "open"
  <2>1. execute \in [Flags -> BOOLEAN] /\ execute[Tolerable] /\ ctor \in {"none", "closed", "open"}
    BY <1>5, <1>12, CallFacts
  <2>2. o4 = [o3 EXCEPT !.execute = execute, !.ctorFinished = ctor]
    BY DEF ReleasePaths
  <2> HIDE DEF o3, o4, execute, ctor
  <2>3. /\ o4 \in ObjectType
        /\ o4.phase = o3.phase /\ o4.asked = o3.asked /\ o4.ReadyToWork = o3.ReadyToWork
        /\ o4.known = o3.known /\ o4.report = o3.report /\ o4.state = o3.state
        /\ o4.oldestPending = o3.oldestPending /\ o4.prevPending = o3.prevPending
        /\ o4.pending = o3.pending /\ o4.execute = execute
    BY <1>12, <2>1, <2>2 DEF ObjectType
  <2> QED
    BY <2>1, <2>3 DEF FinishUpdate
<1>16. \/ object' = [object EXCEPT ![q] = o1]
       \/ object' = [object EXCEPT ![q] = o2]
       \/ ~ unregistered /\ object' = [object EXCEPT ![q] = o3]
       \/ ~ unregistered /\ signal /\ object' = [object EXCEPT ![q] = o4]
  <2> DEFINE n1 == SetLatestState(object[q], m.latest)
             n2 == [n1 EXCEPT !.state =
                      IF @ # "Empty" THEN @
                      ELSE IF m.latest.has THEN "HasState"
                      ELSE IF f = Tolerable /\ r \in Constructors THEN "Missing"
                      ELSE @]
             n3 == [n2 EXCEPT !.pending[f] = PendingFinish(@, r)]
             n4 == IF f = Tolerable /\ n3.pending[f].countActive = 0 /\ n3.signal
                   THEN ReleasePaths(n3) ELSE n3
  <2>1. object' = [object EXCEPT ![q] =
                     IF m.latest.has /\ n1.state \notin {"Empty", "HasState"} THEN n1
                     ELSE IF ~ Exist(n2.pending[f], r) THEN n2 ELSE n4]
    BY DEF ReceiveDelegatedRequestFinished
  <2>2. n2 = o2
    BY <1>8, <1>9
  <2>3. n3 = o3
    <3> HIDE DEF n2, o2
    <3> QED
      BY <1>10, <2>2
  <2>4. n4 = IF signal THEN o4 ELSE o3
    <3> HIDE DEF n3, o3
    <3> QED
      BY <1>12, <2>3
  <2> HIDE DEF n1, n2, n3, n4, o1, o2, o3, o4, signal
  <2>5. Exist(n2.pending[f], r) => ~ unregistered
    BY <1>10, <2>2
  <2>6. n1 = o1
    BY <1>8 DEF n1
  <2> QED
    BY <2>1, <2>2, <2>4, <2>5, <2>6
<1>17. Claims(q - 1) = {} \/ FlagOf[r] # Tolerable
  <2>1. FinishedOK(m) /\ Live(q)
    BY <1>1, <1>3, <1>4 DEF MessageInv, Live
  <2> QED
    BY <2>1 DEF FinishedOK, IsOrdered
(* An unordered call is in no ordered list, and it is no constructor. *)
<1>18. FlagOf[r] # Tolerable => /\ state = "Missing" => x.state = "Missing"
                                /\ ~ unregistered => f # Tolerable
  <2>1. r \in Constructors => FlagOf[r] = Tolerable
    BY RequestKindsAssumption DEF FlagOf
  <2>2. ~ unregistered => FlagOf[r] = f
    BY <1>4 DEF ObjectOK, Exist
  <2> QED
    BY <2>1, <2>2
<1>19. ASSUME NEW o \in ObjectType, FinishUpdate(o, x), object' = [object EXCEPT ![q] = o],
              FlagOf[r] # Tolerable => /\ o.pending[Tolerable] = x.pending[Tolerable]
                                       /\ o.execute[Tolerable] = x.execute[Tolerable]
                                       /\ o.state = "Missing" => x.state = "Missing"
       PROVE  ExecutorInv'
  <2>1. LocalObject(q, o) /\ SoftObject(q, o)
    BY <1>2, <1>3, <1>17, <1>19, FinishChanges
  <2>2. \A n \in msgs' : n \in msgs
    BY <1>3
  <2> QED
    BY <1>2, <1>3, <1>19, <2>1, <2>2, ObjectMoves
<1>20. Tolerable \in Flags
  BY CallFacts
<1> HIDE DEF o1, o2, o3, o4, state, list, unregistered
<1>21. CASE object' = [object EXCEPT ![q] = o1]
  BY <1>9, <1>19, <1>21
<1>22. CASE object' = [object EXCEPT ![q] = o2]
  <2>1. FlagOf[r] # Tolerable => /\ o2.pending[Tolerable] = x.pending[Tolerable]
                                 /\ o2.execute[Tolerable] = x.execute[Tolerable]
                                 /\ o2.state = "Missing" => x.state = "Missing"
    BY <1>10, <1>18
  <2> QED
    BY <1>10, <1>11, <1>19, <1>22, <2>1
<1>23. CASE ~ unregistered /\ object' = [object EXCEPT ![q] = o3]
  <2>1. FlagOf[r] # Tolerable => /\ o3.pending[Tolerable] = x.pending[Tolerable]
                                 /\ o3.execute[Tolerable] = x.execute[Tolerable]
                                 /\ o3.state = "Missing" => x.state = "Missing"
    BY <1>12, <1>18, <1>20, <1>23
  <2> QED
    BY <1>12, <1>14, <1>19, <1>23, <2>1
<1>24. CASE ~ unregistered /\ signal /\ object' = [object EXCEPT ![q] = o4]
  <2>1. FlagOf[r] = Tolerable
    BY <1>18, <1>24
  <2> QED
    BY <1>14, <1>15, <1>19, <1>24, <2>1
<1> QED
  BY <1>16, <1>21, <1>22, <1>23, <1>24

-----------------------------------------------------------------------------
(***************************************************************************)
(* The invariant                                                           *)
(***************************************************************************)

(* At the start one pulse has ended.  The only claim is that of its        *)
(* ordered call, which waits for a token.                                  *)
LEMMA InitInv == Init => ExecutorInv
<1> SUFFICES ASSUME Init PROVE ExecutorInv
  OBVIOUS
<1>1. PICK h \in Handovers : TakenOver(h)
  BY DEF Init
<1> DEFINE p == h.pulse
           missing == h.report.Status = "Missing"
           summary == [r \in Requests |-> IF r \in h.finished THEN "result"
                                          ELSE IF \E t \in h.running : Call[t] = r THEN "empty"
                                          ELSE "none"]
           phase == IF missing THEN "gone" ELSE "sent"
           left == [NewObject(phase) EXCEPT !.report = h.report, !.summary = summary]
           waiting == [IdleTask EXCEPT !.pc = "getToken", !.resume = "execute",
                          !.lock = TRUE, !.active = TRUE, !.ran = TRUE, !.migrated = TRUE,
                          !.negotiated = TRUE, !.base = h.report.ProvidedContent.memory]
<1>2. /\ p \in Pulses /\ p # LastPulse /\ h.report \in VStateReport
      /\ h.running \subseteq {t \in Tasks : SlotOf[t] = p}
      /\ \A t, u \in h.running : IsOrdered(t) /\ IsOrdered(u) => t = u
  BY HandoversAssumption DEF IsOrdered, FlagOf
<1>3. p \in Nat /\ p + 1 \in Pulses
  <2>1. p \in Nat /\ p <= LastPulse /\ LastPulse \in Nat
    BY <1>2, PulseFacts
  <2> QED
    BY <1>2, <2>1, PulseFacts
<1>4. /\ clock = [n \in Pulses |-> p + 1]
      /\ object = [q \in Pulses |-> IF q = p THEN left ELSE NewObject("none")]
      /\ task = [t \in Tasks |-> IF t \in h.running THEN waiting ELSE IdleTask]
      /\ msgs = {DelegatedCallRequest(p + 1, t) : t \in h.running}
                \cup (IF missing THEN {} ELSE {StateReportTo(p + 1, h.report)})
      /\ panics = {}
  BY <1>1 DEF TakenOver, Init
<1>5. /\ left \in ObjectType /\ left.phase \in {"gone", "sent"} /\ ~ left.asked
      /\ ~ left.ReadyToWork /\ ~ left.execute[Tolerable] /\ left.report = h.report
      /\ left.pending = [f \in Flags |-> NewList]
  <2>1. phase \in ObjectPhase /\ phase \in {"gone", "sent"}
    BY DEF ObjectPhase
  <2>2. NewObject(phase) \in ObjectType
    BY <2>1, NewObjectFacts
  <2>3. summary \in [Requests -> CallSummary]
    BY DEF CallSummary
  <2>4. /\ NewObject(phase).phase = phase /\ ~ NewObject(phase).asked
        /\ ~ NewObject(phase).ReadyToWork /\ ~ NewObject(phase).execute[Tolerable]
        /\ NewObject(phase).pending = [f \in Flags |-> NewList]
    BY CallFacts DEF NewObject
  <2> HIDE DEF summary, phase
  <2> QED
    BY <1>2, <2>1, <2>2, <2>3, <2>4 DEF ObjectType
<1>6. /\ NewObject("none") \in ObjectType /\ NewObject("none").phase = "none"
      /\ NewObject("none").state = "Unknown" /\ ~ NewObject("none").asked
      /\ ~ NewObject("none").ReadyToWork /\ ~ NewObject("none").execute[Tolerable]
      /\ NewObject("none").pending = [f \in Flags |-> NewList]
      /\ NewObject("none").known = [f \in Flags |-> NewList]
  <2>1. "none" \in ObjectPhase
    BY DEF ObjectPhase
  <2>2. NewObject("none") \in ObjectType
    BY <2>1, NewObjectFacts
  <2> QED
    BY <2>2, CallFacts DEF NewObject
<1>7. /\ IdleTask \in TaskType /\ IdleTask.pc = "idle" /\ IdleTask.resume = "idle"
      /\ ~ IdleTask.active /\ ~ IdleTask.lock /\ ~ IdleTask.migrated /\ ~ IdleTask.negotiated
      /\ IdleTask.granted = UnknownPulse /\ IdleTask.outcome = "none"
  BY DEF IdleTask, TaskType, TaskStep, Ended, Outcome, Descriptor, NoDescriptor
<1>8. /\ waiting \in TaskType /\ waiting.pc = "getToken" /\ waiting.resume = "execute"
      /\ waiting.active /\ waiting.lock /\ waiting.migrated /\ waiting.negotiated
      /\ waiting.granted = UnknownPulse /\ waiting.outcome = "none"
  <2>1. h.report.ProvidedContent.memory \in SUBSET (Requests \cup {Genesis})
    BY <1>2 DEF VStateReport, Descriptor
  <2> HIDE DEF IdleTask
  <2> QED
    BY <1>7, <2>1 DEF TaskType, TaskStep
<1> HIDE DEF p, left, waiting, missing
<1>9. /\ \A n \in Pulses : clock[n] = p + 1 /\ n \in Nat
      /\ object[p] = left /\ \A q \in Pulses : q # p => object[q] = NewObject("none")
      /\ \A t \in Tasks : IF t \in h.running THEN task[t] = waiting /\ SlotOf[t] = p
                          ELSE task[t] = IdleTask
      /\ \A t \in Tasks : NodeOf(t) = p + 1
  BY <1>2, <1>4, PulseFacts DEF NodeOf
<1>10. TypeOK
  <2>1. \A t \in h.running : DelegatedCallRequest(p + 1, t) \in MessageType
    BY <1>2, <1>3 DEF DelegatedCallRequest, MessageType
  <2>2. StateReportTo(p + 1, h.report) \in MessageType
    BY <1>2, <1>3 DEF StateReportTo, MessageType
  <2>3. msgs \subseteq MessageType
    BY <1>4, <2>1, <2>2
  <2>4. /\ clock \in [Pulses -> Pulses] /\ object \in [Pulses -> ObjectType]
        /\ task \in [Tasks -> TaskType] /\ panics \subseteq Panic
    BY <1>3, <1>4, <1>5, <1>6, <1>7, <1>8
  <2> QED
    BY <2>3, <2>4 DEF TypeOK
<1>11. \A t \in Tasks : ~ Hot(t) /\ ~ Unresolved(t) /\ ~ Started(task[t])
  BY <1>7, <1>8, <1>9 DEF Hot, CanAct, Unresolved, EarlyError, Started
<1>12. LocalInv
  <2>1. ClockInv
    BY <1>2, <1>3, <1>9 DEF ClockInv
  <2>2. TaskInv
    <3> SUFFICES ASSUME NEW t \in Tasks PROVE TaskOK(task[t], NodeOf(t), SlotOf[t])
      BY DEF TaskInv
    <3>1. CASE t \in h.running
      BY <1>3, <1>8, <1>9, <3>1 DEF TaskOK, ActingSteps, EarlySteps, Ended
    <3>2. CASE t \notin h.running
      BY <1>7, <1>9, <3>2 DEF TaskOK, ActingSteps, EarlySteps, Ended
    <3> QED
      BY <3>1, <3>2
  <2>3. LockInv
    <3>1. \A t \in Tasks : task[t].lock => t \in h.running /\ NodeOf(t) # SlotOf[t]
      BY <1>3, <1>7, <1>9
    <3> QED
      BY <1>2, <3>1 DEF LockInv
  <2>4. ObjectInv
    <3> SUFFICES ASSUME NEW q \in Pulses PROVE ObjectOK(object[q], q, clock[q])
      BY DEF ObjectInv
    <3>1. \A f \in Flags, r \in Requests : NewList.requests[r] = "Unknown"
      BY DEF NewList
    <3>2. CASE q = p
      BY <1>3, <1>5, <1>9, <3>1, <3>2 DEF ObjectOK
    <3>3. CASE q # p
      BY <1>6, <1>9, <3>1, <3>3, CallFacts DEF ObjectOK
    <3> QED
      BY <3>2, <3>3
  <2>5. KnownInv
    BY <1>5, <1>7, <1>9, <1>11 DEF KnownInv, Ended
  <2> QED
    BY <2>1, <2>2, <2>3, <2>4, <2>5 DEF LocalInv
<1>13. ASSUME NEW c \in Int, NEW t \in Claims(c)
       PROVE  t \in h.running /\ IsOrdered(t) /\ c = p /\ NodeOf(t) = p + 1 /\ ~ Hot(t)
  BY <1>3, <1>7, <1>9, <1>11, <1>13 DEF Claims
<1>14. Heard(p + 1)
  <2>1. (p + 1) - 1 = p /\ p \in Int
    BY <1>3
  <2> QED
    BY <1>13, <2>1 DEF Heard
<1>15. \A q \in Pulses : Live(q) => /\ q # p /\ object[q] = NewObject("none") /\ ~ Free(q)
  <2> SUFFICES ASSUME NEW q \in Pulses, Live(q)
               PROVE  q # p /\ object[q] = NewObject("none") /\ ~ Free(q)
    OBVIOUS
  <2>1. q # p
    BY <1>3, <1>9 DEF Live
  <2>2. object[q] = NewObject("none")
    BY <1>9, <2>1
  <2>3. ~ ObjectFree(NewObject("none"))
    <3>1. ListConsistent(NewList)
      BY NewListConsistent
    <3> QED
      BY <1>6, <3>1, CallFacts DEF ObjectFree
  <2> QED
    BY <1>11, <2>1, <2>2, <2>3 DEF Free
<1>16. CoreInv
  <2>1. ClaimsInv
    BY <1>2, <1>13, PulseFacts DEF ClaimsInv
  <2>2. GateInv
    BY <1>6, <1>15 DEF GateInv
  <2>3. PendingInv
    <3>1. OnlyAdded(NewList)
      BY DEF OnlyAdded, NewList, Active
    <3>2. \A q \in Pulses : Live(q) => object[q].pending[Tolerable] = NewList
      BY <1>6, <1>15, CallFacts
    <3> QED
      BY <1>11, <3>1, <3>2 DEF PendingInv
  <2>4. Sealed(p + 1)
    <3>1. (p + 1) - 1 = p
      BY <1>3
    <3> QED
      BY <1>2, <1>3, <1>9, <3>1 DEF Sealed
  <2>5. MessageInv
    <3> SUFFICES ASSUME NEW m \in msgs
                 PROVE  /\ m.type = "VStateReport" => ReportOK(m)
                        /\ m.type = "VDelegatedRequestFinished" => FinishedOK(m)
      BY DEF MessageInv
    <3>1. CASE m = StateReportTo(p + 1, h.report)
      BY <1>14, <2>4, <3>1 DEF StateReportTo, ReportOK
    <3>2. CASE \E t \in h.running : m = DelegatedCallRequest(p + 1, t)
      BY <3>2 DEF DelegatedCallRequest
    <3> QED
      BY <1>4, <3>1, <3>2
  <2>6. ReportInv
    <3> SUFFICES ASSUME NEW q \in Pulses, q - 1 \in Pulses, clock[q - 1] = q PROVE Heard(q)
      BY DEF ReportInv
    <3>1. q = p + 1
      BY <1>9
    <3> QED
      BY <1>14, <3>1
  <2> QED
    BY <2>1, <2>2, <2>3, <2>5, <2>6 DEF CoreInv
<1> QED
  BY <1>10, <1>12, <1>16 DEF ExecutorInv

(* Every step keeps the invariant. *)
LEMMA NextInv ==
    ASSUME ExecutorInv, [Next]_vars
    PROVE  ExecutorInv'
<1>1. ASSUME NEW p \in Pulses, ObjectStep(p) PROVE ExecutorInv'
  BY <1>1, GetStateInv, PublishCallSummaryInv, SendVStateReportInv, AnswerStateRequestInv
     DEF ObjectStep
<1>2. ASSUME NEW t \in Tasks, StepGetObject(t) \/ TaskStepOf(t) PROVE ExecutorInv'
  BY <1>2, GetObjectInv, WaitObjectReadyInv, DeduplicateInv, FindCallInv, TakeLockInv,
     LifelineInv, StartInv, ExecuteInv, SaveNewObjectInv, FinishRequestInv,
     PublishDataCallSummaryInv, DelegatedInv
     DEF TaskStepOf
<1>3. CASE Receive
  BY <1>3, ReceiveStateReportInv, CreateForDelegatedInv, DelegatedCallRequestInv,
     DelegatedRequestFinishedInv
     DEF Receive
<1>4. CASE PulseChange
  BY <1>4, AdvanceInv DEF PulseChange
<1>5. CASE UNCHANGED vars
  <2>1. clock' = clock /\ object' = object /\ task' = task /\ msgs' = msgs /\ panics' = panics
    BY <1>5 DEF vars
  <2>2. TypeOK'
    BY <2>1 DEF ExecutorInv, TypeOK
  <2> QED
    BY <2>1, <2>2, SoftInv
<1> QED
  BY <1>1, <1>2, <1>3, <1>4, <1>5 DEF Next

(* The right to act is handed on as the invariant says, whatever the order *)
(* of steps, messages and pulse changes.                                   *)
THEOREM ExecutorInvariant == Spec => []ExecutorInv
<1>1. ExecutorInv /\ [Next]_vars => ExecutorInv'
  BY NextInv
<1> QED
  BY InitInv, <1>1, PTL DEF Spec

(* Every executor keeps its object and its machines within their types:    *)
(* states, counts and lists are those that the code declares, and a panic  *)
(* is one of those that the steps name.                                    *)
THEOREM ExecutorTyped == Spec => []TypeOK
<1>1. ExecutorInv => TypeOK
  BY DEF ExecutorInv
<1> QED
  BY <1>1, ExecutorInvariant, PTL

(* At most one ordered call of an object acts at a time: neither late      *)
(* messages nor nodes that disagree on the pulse let two calls into        *)
(* contract code, results or the state of the object (OrderedExecute, the  *)
(* delegation tokens and the pending list of stepGotState).                *)
THEOREM OneOrderedActs == Spec => []EffectExclusion
BY InvExclusion, ExecutorInvariant, PTL

-----------------------------------------------------------------------------
(***************************************************************************)
(* A repeated call runs once.                                              *)
(*                                                                         *)
(* A call passes stepDeduplicate only as the first of its request in the   *)
(* working list of its executor, so two tasks of one slot never both own   *)
(* the request.  A method that comes to the next executor asks the         *)
(* previous one, which has left its pulse when it answers: nothing starts  *)
(* there any more, and all that has started is in its call summary.        *)
(***************************************************************************)

(* The steps that only the owner of a request takes *)
OwnSteps == {"waitFindCall", "takeLock", "lifeline", "start"}
ReadySteps == {"waitConstructor", "deduplicate"} \cup OwnSteps
Owns(tk) == tk.pc \in OwnSteps \/ tk.ran

(* A method that has to ask the previous executor; it has its answer. *)
AsksFirst(t) == Call[t] \notin Constructors /\ PulseOf[Call[t]] < SlotOf[t]
Passed(tk) == tk.find = "notFound" \/ tk.pc \in OwnSteps \ {"waitFindCall"} \/ tk.ran

(* The executor that has left its pulse can tell of the call. *)
Recorded(o, r) == \/ o.phase = "publish" /\ o.results[r] # "none"
                  \/ o.phase \in {"finalize", "sent"} /\ o.summary[r] # "none"

Noted(o, r) == o.known[FlagOf[r]].requests[r] # "Unknown"

OwnerInv ==
    \A t, u \in Tasks :
        Owns(task[t]) /\ Owns(task[u]) /\ Call[t] = Call[u] /\ SlotOf[t] = SlotOf[u] => t = u
NotedInv ==
    \A t \in Tasks : Owns(task[t]) /\ NodeOf(t) = SlotOf[t] => Noted(object[SlotOf[t]], Call[t])
ReadyInv == \A t \in Tasks : task[t].pc \in ReadySteps => object[SlotOf[t]].state # "Unknown"
RanInv ==
    \A t \in Tasks : task[t].ran =>
        /\ NodeOf(t) >= SlotOf[t]
        /\ NodeOf(t) = SlotOf[t] => /\ object[SlotOf[t]].state # "Unknown"
                                    /\ object[SlotOf[t]].results[Call[t]] # "none"
        /\ NodeOf(t) = SlotOf[t] + 1 /\ Call[t] \notin Constructors
              => Recorded(object[SlotOf[t]], Call[t])
RepeatInv ==
    \A u \in Tasks : AsksFirst(u) /\ Passed(task[u]) =>
        /\ clock[SlotOf[u] - 1] >= SlotOf[u]
        /\ \A t \in Tasks : Call[t] = Call[u] /\ SlotOf[t] = SlotOf[u] - 1 => ~ task[t].ran

OnceInv == OwnerInv /\ NotedInv /\ ReadyInv /\ RanInv /\ RepeatInv

(* What most steps do to the machine of task t, which becomes tk, and to   *)
(* an object x, which becomes o                                            *)
TaskKept(t, tk) ==
    /\ tk.ran => task[t].ran
    /\ Owns(tk) => Owns(task[t])
    /\ Passed(tk) => Passed(task[t])
    /\ tk.pc \in ReadySteps => \/ task[t].pc \in ReadySteps
                               \/ object[SlotOf[t]].state # "Unknown"
EntriesKept(o, x) ==
    /\ \A r \in Requests : Noted(x, r) => Noted(o, r)
    /\ \A r \in Requests : x.results[r] # "none" => o.results[r] # "none"
    /\ \A r \in Requests : Recorded(x, r) => Recorded(o, r)
    /\ x.state # "Unknown" => o.state # "Unknown"

(* Before its call acts, a machine is on a node in the pulse of its slot. *)
LEMMA EarlyNode ==
    ASSUME ExecutorInv, NEW t \in Tasks, task[t].pc \in EarlySteps
    PROVE  /\ NodeOf(t) = SlotOf[t] /\ SlotOf[t] \in Pulses /\ object[SlotOf[t]] \in ObjectType
           /\ task[t] \in TaskType /\ Call[t] \in Requests /\ FlagOf[Call[t]] \in Flags
<1>1. TaskOK(task[t], NodeOf(t), SlotOf[t]) /\ TypeOK
  BY DEF ExecutorInv, LocalInv, TaskInv
<1>2. task[t].pc \notin Ended \cup {"idle"} /\ ~ task[t].active
  BY <1>1 DEF TaskOK, EarlySteps, ActingSteps, Ended
<1> QED
  BY <1>1, <1>2, TypeFacts, PulseFacts, CallFacts DEF TaskOK

(* Every step that makes no owner, starts no code and asks nobody *)
LEMMA OnceKept ==
    ASSUME ExecutorInv, OnceInv, clock' = clock,
           \A t \in Tasks : task'[t] = task[t] \/ TaskKept(t, task'[t]),
           \A p \in Pulses : object'[p] = object[p] \/ EntriesKept(object'[p], object[p])
    PROVE  OnceInv'
<1>1. \A t \in Tasks : /\ task'[t].ran => task[t].ran
                       /\ Owns(task'[t]) => Owns(task[t])
                       /\ Passed(task'[t]) => Passed(task[t])
  BY DEF TaskKept
<1>2. \A t : NodeOf(t)' = NodeOf(t)
  BY DEF NodeOf
<1>3. \A t \in Tasks : SlotOf[t] \in Pulses /\ Call[t] \in Requests
  BY PulseFacts, CallFacts
<1>4. \A p \in Pulses, r \in Requests :
         /\ Noted(object[p], r) => Noted(object'[p], r)
         /\ object[p].results[r] # "none" => object'[p].results[r] # "none"
         /\ Recorded(object[p], r) => Recorded(object'[p], r)
         /\ object[p].state # "Unknown" => object'[p].state # "Unknown"
  BY DEF EntriesKept
<1>5. OwnerInv'
  BY <1>1 DEF OnceInv, OwnerInv, Owns
<1>6. NotedInv'
  BY <1>1, <1>2, <1>3, <1>4 DEF OnceInv, NotedInv, Owns, Noted
<1>7. ReadyInv'
  BY <1>3, <1>4 DEF OnceInv, ReadyInv, TaskKept
<1>8. RanInv'
  BY <1>1, <1>2, <1>3, <1>4 DEF OnceInv, RanInv, Recorded
<1>9. RepeatInv'
  BY <1>1 DEF OnceInv, RepeatInv, Passed, AsksFirst
<1> QED
  BY <1>5, <1>6, <1>7, <1>8, <1>9 DEF OnceInv

LEMMA OnceTask ==
    ASSUME ExecutorInv, OnceInv, clock' = clock, NEW t \in Tasks, NEW tk,
           task' = [task EXCEPT ![t] = tk], TaskKept(t, tk),
           object' = object \/ \E o : /\ object' = [object EXCEPT ![SlotOf[t]] = o]
                                      /\ EntriesKept(o, object[SlotOf[t]])
    PROVE  OnceInv'
<1>1. TypeOK /\ SlotOf[t] \in Pulses
  BY PulseFacts DEF ExecutorInv
<1>2. task'[t] = tk /\ \A u \in Tasks : u # t => task'[u] = task[u]
  BY <1>1 DEF TypeOK
<1>3. \A p \in Pulses : object'[p] = object[p] \/ EntriesKept(object'[p], object[p])
  BY <1>1 DEF TypeOK
<1> QED
  BY <1>2, <1>3, OnceKept

LEMMA OnceObject ==
    ASSUME ExecutorInv, OnceInv, clock' = clock, task' = task, NEW p \in Pulses, NEW o,
           object' = [object EXCEPT ![p] = o], EntriesKept(o, object[p])
    PROVE  OnceInv'
<1>1. TypeOK
  BY DEF ExecutorInv
<1>2. \A q \in Pulses : object'[q] = object[q] \/ EntriesKept(object'[q], object[q])
  BY <1>1 DEF TypeOK
<1> QED
  BY <1>2, OnceKept

(* A machine may stop at any time, and one that goes on takes only steps   *)
(* that it had the right to.                                               *)
LEMMA EndKept ==
    ASSUME NEW t \in Tasks, NEW x, x.ran = task[t].ran, NEW pc \in Ended
    PROVE  TaskKept(t, EndTask(x, pc))
<1>1. EndTask(x, pc).pc = pc /\ EndTask(x, pc).ran = x.ran /\ EndTask(x, pc).find = "none"
  BY DEF EndTask, IdleTask
<1>2. pc \notin ReadySteps /\ pc \notin OwnSteps
  BY DEF Ended, ReadySteps, OwnSteps
<1> QED
  BY <1>1, <1>2 DEF TaskKept, Owns, Passed

LEMMA MoveKept ==
    ASSUME NEW t \in Tasks, NEW tk, tk.ran = task[t].ran, tk.find = task[t].find,
           tk.pc \in OwnSteps => task[t].pc \in OwnSteps,
           tk.pc \in OwnSteps \ {"waitFindCall"} => Passed(task[t]),
           tk.pc \in ReadySteps => \/ task[t].pc \in ReadySteps
                                   \/ object[SlotOf[t]].state # "Unknown"
    PROVE  TaskKept(t, tk)
BY DEF TaskKept, Owns, Passed

(* A machine changes in nothing but its step pc, or in what deduplication  *)
(* does not look at.                                                       *)
LEMMA ActingKept ==
    ASSUME ExecutorInv, OnceInv, NEW t \in Tasks, NEW tk, clock' = clock, object' = object,
           task' = [task EXCEPT ![t] = tk], tk.ran = task[t].ran, tk.find = task[t].find,
           tk.pc \in ActingSteps \cup {"getToken"}
    PROVE  OnceInv'
<1>1. tk.pc \notin ReadySteps /\ tk.pc \notin OwnSteps
  BY DEF ActingSteps, ReadySteps, OwnSteps
<1>2. TaskKept(t, tk)
  BY <1>1, MoveKept
<1> QED
  BY <1>2, OnceTask

(* stepWaitObjectReady, stepWaitPendingConstructorFinished *)
LEMMA WaitObjectReadyOnce ==
    ASSUME ExecutorInv, OnceInv, NEW t \in Tasks,
           StepWaitObjectReady(t) \/ StepWaitPendingConstructorFinished(t)
    PROVE  OnceInv'
<1>1. TypeOK /\ task[t] \in TaskType /\ ObjectInv /\ SlotOf[t] \in Pulses
  BY TypeFacts, PulseFacts DEF ExecutorInv, LocalInv
<1>2. /\ clock' = clock /\ object' = object
      /\ task[t].pc \in {"waitObjectReady", "waitConstructor"}
  BY DEF StepWaitObjectReady, StepWaitPendingConstructorFinished, Step, At
<1>3. object[SlotOf[t]].state # "Unknown"
  <2>1. CASE StepWaitObjectReady(t)
    BY <1>1, <2>1 DEF StepWaitObjectReady, ObjectOf, ObjectInv, ObjectOK
  <2>2. CASE StepWaitPendingConstructorFinished(t)
    <3>1. task[t].pc \in ReadySteps
      BY <2>2 DEF StepWaitPendingConstructorFinished, Step, At, ReadySteps
    <3> QED
      BY <3>1 DEF OnceInv, ReadyInv
  <2> QED
    BY <2>1, <2>2
<1>4. PICK tk : /\ task' = [task EXCEPT ![t] = tk]
                /\ \/ tk = EndTask(task[t], "dead")
                   \/ tk = [task[t] EXCEPT !.pc = "sendCallResult", !.outcome = "error"]
                   \/ tk = [task[t] EXCEPT !.pc = "waitConstructor"]
                   \/ tk = [task[t] EXCEPT !.pc = "deduplicate", !.negotiated = TRUE]
  <2>1. /\ [Goto(t, "sendCallResult") EXCEPT !.outcome = "error"]
              = [task[t] EXCEPT !.pc = "sendCallResult", !.outcome = "error"]
        /\ Goto(t, "waitConstructor") = [task[t] EXCEPT !.pc = "waitConstructor"]
        /\ [Goto(t, "deduplicate") EXCEPT !.negotiated = TRUE]
              = [task[t] EXCEPT !.pc = "deduplicate", !.negotiated = TRUE]
    BY <1>1 DEF Goto
  <2> QED
    BY <2>1 DEF StepWaitObjectReady, StepWaitPendingConstructorFinished, Step,
                StepIsolationNegotiation
<1>5. CASE tk = EndTask(task[t], "dead")
  BY <1>5, EndKept, <1>2, <1>4, OnceTask DEF Ended
<1>6. CASE tk # EndTask(task[t], "dead")
  <2>1. /\ tk.ran = task[t].ran /\ tk.find = task[t].find
        /\ tk.pc \in {"sendCallResult", "waitConstructor", "deduplicate"}
    BY <1>1, <1>4, <1>6 DEF TaskType
  <2>2. TaskKept(t, tk)
    BY <1>3, <2>1, MoveKept DEF OwnSteps
  <2> QED
    BY <1>2, <1>4, <2>2, OnceTask
<1> QED
  BY <1>5, <1>6

(* stepProcessFindCallResponse, stepTakeLock, stepRegisterObjectLifelineAfter *)
LEMMA OwnStepsOnce ==
    ASSUME ExecutorInv, OnceInv, NEW t \in Tasks,
           \/ StepProcessFindCallResponse(t) \/ StepTakeLock(t)
           \/ StepRegisterObjectLifelineAfter(t)
    PROVE  OnceInv'
<1>1. TypeOK /\ task[t] \in TaskType /\ SlotOf[t] \in Pulses /\ object[SlotOf[t]] \in ObjectType
  BY TypeFacts, PulseFacts DEF ExecutorInv
<1>2. ASSUME NEW tk, tk.ran = task[t].ran, tk.find = task[t].find,
             tk.pc \in OwnSteps, task[t].pc \in OwnSteps, Passed(task[t])
      PROVE  TaskKept(t, tk)
  BY <1>2, MoveKept DEF ReadySteps
<1>3. CASE StepProcessFindCallResponse(t)
  <2>1. /\ task[t].find \in {"result", "running", "notFound"} /\ task[t].pc = "waitFindCall"
        /\ clock' = clock /\ object' = object
    BY <1>1, <1>3 DEF StepProcessFindCallResponse, TaskType, Step, At
  <2>2. \/ \E pc \in {"dead", "deduplicated"} : task' = [task EXCEPT ![t] = EndTask(task[t], pc)]
        \/ task' = [task EXCEPT ![t] = EndTask([task[t] EXCEPT !.answer = "resent"],
                                               "deduplicated")]
        \/ task' = [task EXCEPT ![t] = Goto(t, "takeLock")] /\ task[t].find = "notFound"
    BY <2>1, <1>3 DEF StepProcessFindCallResponse, Step
  <2>3. "dead" \in Ended /\ "deduplicated" \in Ended
        /\ [task[t] EXCEPT !.answer = "resent"].ran = task[t].ran
    BY <1>1 DEF Ended, TaskType
  <2>4. CASE task' = [task EXCEPT ![t] = Goto(t, "takeLock")] /\ task[t].find = "notFound"
    <3>1. /\ Goto(t, "takeLock").ran = task[t].ran /\ Goto(t, "takeLock").find = task[t].find
          /\ Goto(t, "takeLock").pc = "takeLock"
      BY <1>1 DEF Goto, TaskType
    <3>2. TaskKept(t, Goto(t, "takeLock"))
      BY <1>2, <2>1, <2>4, <3>1 DEF OwnSteps, Passed
    <3> QED
      BY <2>1, <2>4, <3>2, OnceTask
  <2>5. CASE task' = [task EXCEPT ![t] = EndTask([task[t] EXCEPT !.answer = "resent"],
                                                 "deduplicated")]
    BY <2>1, <2>3, <2>5, EndKept, OnceTask
  <2> QED
    BY <2>1, <2>2, <2>3, <2>4, <2>5, EndKept, OnceTask
<1>4. CASE StepTakeLock(t)
  <2>1. /\ task[t].pc = "takeLock" /\ clock' = clock /\ object' = object
    BY <1>4 DEF StepTakeLock, Step, At
  <2>2. PICK pc \in {"lifeline", "start"} :
           task' = [task EXCEPT ![t] = [Goto(t, pc) EXCEPT !.lock = TRUE]]
    BY <1>4 DEF StepTakeLock, Step
  <2> DEFINE tk == [Goto(t, pc) EXCEPT !.lock = TRUE]
  <2>3. tk.ran = task[t].ran /\ tk.find = task[t].find /\ tk.pc = pc
    BY <1>1 DEF Goto, TaskType
  <2> HIDE DEF tk
  <2>4. TaskKept(t, tk)
    BY <1>2, <2>1, <2>3 DEF OwnSteps, Passed
  <2> QED
    BY <2>1, <2>2, <2>4, OnceTask DEF tk
<1>5. CASE StepRegisterObjectLifelineAfter(t)
  <2> DEFINE o == [object[SlotOf[t]] EXCEPT !.dirty = NewDescriptor({}, FALSE)]
             tk == [task[t] EXCEPT !.pc = "start"]
  <2>1. /\ task[t].pc = "lifeline" /\ clock' = clock /\ task' = [task EXCEPT ![t] = tk]
        /\ object' = [object EXCEPT ![SlotOf[t]] = o]
    BY <1>1, <1>5 DEF StepRegisterObjectLifelineAfter, Step, At, Goto
  <2>2. tk.ran = task[t].ran /\ tk.find = task[t].find /\ tk.pc = "start"
    BY <1>1 DEF TaskType
  <2>3. /\ o.phase = object[SlotOf[t]].phase /\ o.state = object[SlotOf[t]].state
        /\ o.known = object[SlotOf[t]].known /\ o.results = object[SlotOf[t]].results
        /\ o.summary = object[SlotOf[t]].summary
    BY <1>1 DEF ObjectType
  <2> HIDE DEF tk, o
  <2>4. TaskKept(t, tk)
    BY <1>2, <2>1, <2>2 DEF OwnSteps, Passed
  <2>5. EntriesKept(o, object[SlotOf[t]])
    BY <2>3 DEF EntriesKept, Noted, Recorded
  <2> QED
    BY <2>1, <2>4, <2>5, OnceTask
<1> QED
  BY <1>3, <1>4, <1>5

(* A step on one of the working lists *)
LEMMA ListKept ==
    ASSUME NEW x, NEW o, NEW f \in Flags, \A g \in Flags : g # f => o.known[g] = x.known[g],
           \A q \in Requests : x.known[f].requests[q] # "Unknown"
                                  => o.known[f].requests[q] # "Unknown"
    PROVE  \A q \in Requests : Noted(x, q) => Noted(o, q)
<1> SUFFICES ASSUME NEW q \in Requests, Noted(x, q) PROVE Noted(o, q)
  OBVIOUS
<1>1. FlagOf[q] \in Flags
  BY CallFacts
<1>2. CASE FlagOf[q] # f
  BY <1>1, <1>2 DEF Noted
<1>3. CASE FlagOf[q] = f
  BY <1>3 DEF Noted
<1> QED
  BY <1>2, <1>3

(* stepDeduplicate: the request gets its owner. *)
LEMMA DeduplicateOnce ==
    ASSUME ExecutorInv, OnceInv, NEW t \in Tasks, StepDeduplicate(t)
    PROVE  OnceInv'
<1> DEFINE p == SlotOf[t]
           r == Call[t]
           f == FlagOf[r]
           list == WorkingAdd(object[p].known[f], r)
           o == [object[p] EXCEPT !.known[f] = list]
<1>1. TypeOK /\ task[t].pc = "deduplicate" /\ clock' = clock
  BY DEF ExecutorInv, StepDeduplicate, Step, At
<1>2. /\ NodeOf(t) = p /\ p \in Pulses /\ object[p] \in ObjectType
      /\ task[t] \in TaskType /\ r \in Requests /\ f \in Flags
  BY <1>1, EarlyNode DEF EarlySteps
<1>3. object' = [object EXCEPT ![p] = o]
  <2>1. object' = [object EXCEPT ![p].known[f] = list]
    BY DEF StepDeduplicate, ObjectOf
  <2> HIDE DEF list
  <2> QED
    BY <1>1, <1>2, <2>1
<1>4. /\ list.requests = IF CanAdd(object[p].known[f], r)
                         THEN [object[p].known[f].requests EXCEPT ![r] = "Started"]
                         ELSE object[p].known[f].requests
      /\ object[p].known[f].requests \in [Requests -> RequestState]
      /\ object[p].known \in [Flags -> ListType]
  <2>1. object[p].known[f] \in ListType /\ object[p].known \in [Flags -> ListType]
    BY <1>2 DEF ObjectType
  <2> QED
    BY <1>2, <2>1, MethodsSetState DEF ListType
<1> HIDE DEF list
<1>5. /\ o.phase = object[p].phase /\ o.state = object[p].state
      /\ o.results = object[p].results /\ o.summary = object[p].summary
      /\ o.known = [object[p].known EXCEPT ![f] = list]
  BY <1>2 DEF ObjectType
<1> HIDE DEF o
<1>6. EntriesKept(o, object[p]) /\ Noted(o, r)
  <2>1. \A q \in Requests : Noted(object[p], q) => Noted(o, q)
    <3>1. o.known[f] = list /\ \A g \in Flags : g # f => o.known[g] = object[p].known[g]
      BY <1>2, <1>4, <1>5
    <3>2. \A q \in Requests : object[p].known[f].requests[q] # "Unknown"
                                  => list.requests[q] # "Unknown"
      BY <1>4
    <3> QED
      BY <1>2, <3>1, <3>2, ListKept
  <2>2. Noted(o, r)
    BY <1>2, <1>4, <1>5 DEF Noted, CanAdd
  <2> QED
    BY <1>5, <2>1, <2>2 DEF EntriesKept, Recorded
<1>7. ASSUME NEW x, x.ran = task[t].ran, NEW pc \in Ended,
             task' = [task EXCEPT ![t] = EndTask(x, pc)]
      PROVE  OnceInv'
  BY <1>1, <1>3, <1>6, <1>7, EndKept, OnceTask
<1>8. ASSUME NEW tk, task' = [task EXCEPT ![t] = tk], ~ Noted(object[p], r),
             tk.ran = task[t].ran, tk.find = task[t].find,
             \/ tk.pc = "waitFindCall"
             \/ tk.pc = "takeLock" /\ ~ AsksFirst(t)
      PROVE  OnceInv'
  <2>1. /\ task'[t] = tk /\ \A u \in Tasks : u # t => task'[u] = task[u]
        /\ object'[p] = o /\ \A q \in Pulses : q # p => object'[q] = object[q]
    BY <1>1, <1>2, <1>3, <1>8 DEF TypeOK
  <2>2. \A u \in Tasks : /\ task'[u].ran = task[u].ran /\ NodeOf(u)' = NodeOf(u)
                         /\ SlotOf[u] \in Pulses /\ Call[u] \in Requests
                         /\ AsksFirst(u) /\ Passed(task'[u]) => Passed(task[u])
    BY <1>1, <1>8, <2>1, PulseFacts, CallFacts DEF NodeOf, Passed, OwnSteps
  <2>3. \A q \in Pulses, s \in Requests :
           /\ Noted(object[q], s) => Noted(object'[q], s)
           /\ object[q].results[s] # "none" => object'[q].results[s] # "none"
           /\ Recorded(object[q], s) => Recorded(object'[q], s)
           /\ object[q].state # "Unknown" => object'[q].state # "Unknown"
    BY <1>6, <2>1 DEF EntriesKept
  <2>4. ASSUME NEW u \in Tasks, Owns(task[u]), Call[u] = r, SlotOf[u] = p
        PROVE  FALSE
    BY <1>2, <1>8, <2>4 DEF OnceInv, NotedInv, NodeOf
  <2>5. OwnerInv'
    BY <2>1, <2>4 DEF OnceInv, OwnerInv, Owns
  <2>6. NotedInv'
    BY <1>6, <2>1, <2>2, <2>3 DEF OnceInv, NotedInv, Owns, Noted
  <2>7. ReadyInv'
    <3>1. task[t].pc \in ReadySteps
      BY <1>1 DEF ReadySteps
    <3> QED
      BY <2>1, <2>2, <2>3, <3>1 DEF OnceInv, ReadyInv
  <2>8. RanInv'
    BY <2>2, <2>3 DEF OnceInv, RanInv, Recorded
  <2>9. RepeatInv'
    BY <1>1, <2>2 DEF OnceInv, RepeatInv, Passed, AsksFirst
  <2> QED
    BY <2>5, <2>6, <2>7, <2>8, <2>9 DEF OnceInv
<1>9. \/ \E pc \in {"dead", "deduplicated"} : task' = [task EXCEPT ![t] = EndTask(task[t], pc)]
      \/ task' = [task EXCEPT ![t] = EndTask([task[t] EXCEPT !.answer = "resent"],
                                             "deduplicated")]
      \/ /\ task' = [task EXCEPT ![t] = Goto(t, "takeLock")]
         /\ CanAdd(object[p].known[f], r) /\ DeduplicationAction(t) = "ContinueExecute"
      \/ /\ task' = [task EXCEPT ![t] = [Goto(t, "waitFindCall") EXCEPT
                                            !.settled = Settled(ObjectOf(t), r)]]
         /\ CanAdd(object[p].known[f], r)
  <2>1. DeduplicationAction(t) \in {"ContinueExecute", "Stop", "NotImplemented",
                                    "DeduplicateThroughPreviousExecutor"}
    BY DEF DeduplicationAction
  <2> QED
    BY <2>1 DEF StepDeduplicate, Step, ObjectOf
<1>10. CanAdd(object[p].known[f], r) => ~ Noted(object[p], r)
  BY DEF CanAdd, Noted
<1>11. CASE /\ task' = [task EXCEPT ![t] = Goto(t, "takeLock")]
            /\ CanAdd(object[p].known[f], r) /\ DeduplicationAction(t) = "ContinueExecute"
  <2>1. ~ AsksFirst(t)
    <3>1. PulseOf[r] = SlotOf[t] \/ r \in Constructors
      BY <1>11 DEF DeduplicationAction
    <3>2. SlotOf[t] \in Nat
      BY <1>1, TypeFacts
    <3> QED
      BY <3>1, <3>2 DEF AsksFirst
  <2> DEFINE tk == Goto(t, "takeLock")
  <2>2. tk.ran = task[t].ran /\ tk.find = task[t].find /\ tk.pc = "takeLock"
    BY <1>2 DEF Goto, TaskType
  <2> HIDE DEF tk
  <2> QED
    BY <1>8, <1>10, <1>11, <2>1, <2>2 DEF tk
<1>12. CASE /\ task' = [task EXCEPT ![t] = [Goto(t, "waitFindCall") EXCEPT
                                               !.settled = Settled(ObjectOf(t), r)]]
            /\ CanAdd(object[p].known[f], r)
  <2> DEFINE tk == [Goto(t, "waitFindCall") EXCEPT !.settled = Settled(ObjectOf(t), r)]
  <2>1. tk.ran = task[t].ran /\ tk.find = task[t].find /\ tk.pc = "waitFindCall"
    BY <1>2 DEF Goto, TaskType
  <2> HIDE DEF tk
  <2> QED
    BY <1>8, <1>10, <1>12, <2>1 DEF tk
<1>13. "dead" \in Ended /\ "deduplicated" \in Ended
       /\ [task[t] EXCEPT !.answer = "resent"].ran = task[t].ran
  BY <1>2 DEF Ended, TaskType
<1> QED
  BY <1>7, <1>9, <1>11, <1>12, <1>13

(* SMVFindCallRequest: an executor that has left its pulse and does not    *)
(* find the call has never run it.                                         *)
LEMMA AnswerFindCallOnce ==
    ASSUME ExecutorInv, OnceInv, NEW t \in Tasks, AnswerFindCall(t)
    PROVE  OnceInv'
<1> DEFINE p == SlotOf[t]
           r == Call[t]
           found == HasSummary(p - 1) /\ object[p - 1].summary[r] # "none"
<1>1. /\ TypeOK /\ task[t].pc = "waitFindCall" /\ clock' = clock /\ object' = object
      /\ clock[p - 1] = p /\ object[p - 1].phase # "publish"
  BY DEF ExecutorInv, AnswerFindCall, At
<1>2. task[t] \in TaskType /\ p \in Nat
  BY <1>1, TypeFacts
<1>3. PICK find \in {"result", "running", "notFound"} :
         /\ task' = [task EXCEPT ![t] = [task[t] EXCEPT !.find = find]]
         /\ find = "notFound" => ~ found
  BY DEF AnswerFindCall, Step
<1> HIDE DEF found
<1> DEFINE tk == [task[t] EXCEPT !.find = find]
<1>4. tk.ran = task[t].ran /\ tk.find = find /\ tk.pc = "waitFindCall"
  BY <1>1, <1>2 DEF TaskType
<1>5. task' = [task EXCEPT ![t] = tk]
  BY <1>3
<1> HIDE DEF tk
<1>6. CASE find # "notFound"
  <2>1. TaskKept(t, tk)
    BY <1>1, <1>4, <1>6 DEF TaskKept, Owns, Passed, OwnSteps
  <2> QED
    BY <1>1, <1>5, <2>1, OnceTask
<1>7. CASE find = "notFound"
  <2>1. task'[t] = tk /\ \A u \in Tasks : u # t => task'[u] = task[u]
    BY <1>1, <1>5 DEF TypeOK
  <2>2. \A u \in Tasks : /\ task'[u].ran = task[u].ran /\ task'[u].pc = task[u].pc
                         /\ NodeOf(u)' = NodeOf(u) /\ Owns(task'[u]) = Owns(task[u])
                         /\ Passed(task'[u]) => Passed(task[u]) \/ u = t
    BY <1>1, <1>4, <2>1 DEF Owns, NodeOf
  <2>3. OwnerInv'
    BY <2>2 DEF OnceInv, OwnerInv, Owns
  <2>4. NotedInv'
    BY <1>1, <2>2 DEF OnceInv, NotedInv, Owns, Noted
  <2>5. ReadyInv'
    BY <1>1, <2>2 DEF OnceInv, ReadyInv
  <2>6. RanInv'
    BY <1>1, <2>2 DEF OnceInv, RanInv, Recorded
  <2>7. ASSUME NEW v \in Tasks, Call[v] = r, SlotOf[v] = p - 1, r \notin Constructors,
               task[v].ran
        PROVE  FALSE
    <3>1. NodeOf(v) = SlotOf[v] + 1
      BY <1>1, <1>2, <2>7 DEF NodeOf
    <3>2. Recorded(object[p - 1], r)
      BY <2>7, <3>1 DEF OnceInv, RanInv
    <3>3. HasSummary(p - 1) /\ object[p - 1].summary[r] # "none"
      BY <1>1, <1>2, <3>2 DEF Recorded, HasSummary
    <3> QED
      BY <1>3, <1>7, <3>3 DEF found
  <2>8. RepeatInv'
    <3> SUFFICES ASSUME NEW u \in Tasks, AsksFirst(u), Passed(task'[u])
                 PROVE  /\ clock[SlotOf[u] - 1] >= SlotOf[u]
                        /\ \A v \in Tasks : Call[v] = Call[u] /\ SlotOf[v] = SlotOf[u] - 1
                                => ~ task[v].ran
      BY <1>1, <2>2 DEF RepeatInv, Passed, AsksFirst
    <3>1. CASE u = t
      BY <1>1, <1>2, <2>7, <3>1 DEF AsksFirst
    <3>2. CASE u # t
      BY <2>2, <3>2 DEF OnceInv, RepeatInv
    <3> QED
      BY <3>1, <3>2
  <2> QED
    BY <2>3, <2>4, <2>5, <2>6, <2>8 DEF OnceInv
<1> QED
  BY <1>6, <1>7

(* stepStartRequestProcessing: the request is in the results before the    *)
(* code runs.                                                              *)
LEMMA StartOnce ==
    ASSUME ExecutorInv, OnceInv, NEW t \in Tasks, StepStartRequestProcessing(t)
    PROVE  OnceInv'
<1> DEFINE p == SlotOf[t]
           r == Call[t]
           f == FlagOf[r]
           x == object[p]
           ok == CanSetActive(x.known[f], r)
           deactivated == IsDeactivated(x)
           panic == ~ ok \/ (~ deactivated /\ ~ x.dirty.has)
           list == WorkingSetActive(x.known[f], r)
           o == [x EXCEPT !.known[f] = list, !.results[r] = "empty"]
           run == [Goto(t, "execute") EXCEPT !.active = TRUE, !.ran = TRUE, !.base = x.dirty.memory]
<1>1. TypeOK /\ task[t].pc = "start" /\ clock' = clock
  BY DEF ExecutorInv, StepStartRequestProcessing, Step, At
<1>2. /\ NodeOf(t) = p /\ p \in Pulses /\ x \in ObjectType
      /\ task[t] \in TaskType /\ r \in Requests /\ f \in Flags
  BY <1>1, EarlyNode DEF EarlySteps
<1>3. /\ object' = IF ok THEN [object EXCEPT ![p] = KnownSetActive(x, r)] ELSE object
      /\ task' = [task EXCEPT ![t] =
                    IF panic THEN EndTask(task[t], "dead")
                    ELSE IF deactivated
                    THEN [Goto(t, "sendCallResult") EXCEPT !.outcome = "error"]
                    ELSE run]
  BY <1>1, <1>2 DEF StepStartRequestProcessing, Step, ObjectOf, TypeOK
<1>4. KnownSetActive(x, r) = o
  BY <1>2 DEF KnownSetActive, ObjectType
<1>5. /\ x.known \in [Flags -> ListType] /\ x.results \in [Requests -> CallSummary]
      /\ list.requests = IF ok THEN [x.known[f].requests EXCEPT ![r] = "Processing"]
                         ELSE x.known[f].requests
      /\ x.known[f].requests \in [Requests -> RequestState]
  <2>1. x.known[f] \in ListType /\ x.known \in [Flags -> ListType]
        /\ x.results \in [Requests -> CallSummary]
    BY <1>2 DEF ObjectType
  <2> QED
    BY <1>2, <2>1, MethodsSetState DEF ListType
<1> HIDE DEF list
<1>6. /\ o.phase = x.phase /\ o.state = x.state /\ o.summary = x.summary
      /\ o.known = [x.known EXCEPT ![f] = list]
      /\ o.results = [x.results EXCEPT ![r] = "empty"]
  BY <1>2 DEF ObjectType
<1> HIDE DEF o, ok, panic, deactivated
<1>7. EntriesKept(o, x) /\ o.results[r] # "none"
  <2>1. \A q \in Requests : x.known[f].requests[q] # "Unknown" => list.requests[q] # "Unknown"
    BY <1>5
  <2>2. \A q \in Requests : Noted(x, q) => Noted(o, q)
    <3>1. o.known[f] = list /\ \A g \in Flags : g # f => o.known[g] = x.known[g]
      BY <1>2, <1>5, <1>6
    <3> QED
      BY <1>2, <2>1, <3>1, ListKept
  <2>3. /\ o.results[r] # "none"
        /\ \A q \in Requests : x.results[q] # "none" => o.results[q] # "none"
    BY <1>2, <1>5, <1>6
  <2>4. \A q \in Requests : Recorded(x, q) => Recorded(o, q)
    BY <1>6, <2>3 DEF Recorded
  <2> QED
    BY <1>6, <2>2, <2>3, <2>4 DEF EntriesKept
<1>8. object' = object \/ object' = [object EXCEPT ![p] = o]
  BY <1>3, <1>4
<1>9. CASE panic
  <2>1. task' = [task EXCEPT ![t] = EndTask(task[t], "dead")] /\ "dead" \in Ended
    BY <1>3, <1>9 DEF Ended
  <2> QED
    BY <1>1, <1>7, <1>8, <2>1, EndKept, OnceTask
<1>10. CASE ~ panic /\ deactivated
  <2> DEFINE tk == [Goto(t, "sendCallResult") EXCEPT !.outcome = "error"]
  <2>1. tk.ran = task[t].ran /\ tk.find = task[t].find /\ tk.pc = "sendCallResult"
    BY <1>2 DEF Goto, TaskType
  <2>2. task' = [task EXCEPT ![t] = tk]
    BY <1>3, <1>10
  <2> HIDE DEF tk
  <2>3. TaskKept(t, tk)
    BY <2>1, MoveKept DEF OwnSteps, ReadySteps
  <2> QED
    BY <1>1, <1>7, <1>8, <2>2, <2>3, OnceTask
<1>11. CASE ~ panic /\ ~ deactivated
  <2>1. run.pc = "execute" /\ run.ran /\ run.find = task[t].find
    BY <1>2 DEF Goto, TaskType
  <2>2. task' = [task EXCEPT ![t] = run] /\ object' = [object EXCEPT ![p] = o]
    BY <1>3, <1>4, <1>11 DEF panic
  <2> HIDE DEF run
  <2>3. /\ task'[t] = run /\ \A u \in Tasks : u # t => task'[u] = task[u]
        /\ object'[p] = o /\ \A q \in Pulses : q # p => object'[q] = object[q]
    BY <1>1, <1>2, <2>2 DEF TypeOK
  <2>4. \A u \in Tasks : /\ NodeOf(u)' = NodeOf(u)
                         /\ Owns(task'[u]) => Owns(task[u])
                         /\ Passed(task'[u]) => Passed(task[u])
                         /\ task'[u].ran => task[u].ran \/ u = t
                         /\ task'[u].pc \in ReadySteps => task[u].pc \in ReadySteps
                         /\ SlotOf[u] \in Pulses /\ SlotOf[u] \in Nat /\ Call[u] \in Requests
    <3>1. Owns(task[t]) /\ Passed(task[t]) /\ task'[t].pc \notin ReadySteps
      BY <1>1, <2>1, <2>3 DEF Owns, Passed, OwnSteps, ReadySteps
    <3> QED
      BY <1>1, <2>3, <3>1, PulseFacts, CallFacts DEF NodeOf
  <2>5. \A q \in Pulses, s \in Requests :
           /\ Noted(object[q], s) => Noted(object'[q], s)
           /\ object[q].results[s] # "none" => object'[q].results[s] # "none"
           /\ Recorded(object[q], s) => Recorded(object'[q], s)
           /\ object[q].state # "Unknown" => object'[q].state # "Unknown"
    BY <1>7, <2>3 DEF EntriesKept
  <2>6. OwnerInv'
    BY <2>4 DEF OnceInv, OwnerInv, Owns
  <2>7. NotedInv'
    BY <2>4, <2>5 DEF OnceInv, NotedInv, Owns, Noted
  <2>8. ReadyInv'
    BY <2>4, <2>5 DEF OnceInv, ReadyInv
  <2>9. RanInv'
    <3>1. x.state # "Unknown"
      BY <1>1 DEF OnceInv, ReadyInv, ReadySteps, OwnSteps
    <3>2. /\ object'[p].state # "Unknown" /\ object'[p].results[r] # "none"
          /\ NodeOf(t)' = p /\ p \in Nat
      BY <1>2, <1>7, <2>3, <2>4, <2>5, <3>1
    <3> QED
      BY <2>4, <2>5, <3>2 DEF OnceInv, RanInv, Recorded
  <2>10. RepeatInv'
    <3> SUFFICES ASSUME NEW u \in Tasks, AsksFirst(u), Passed(task'[u])
                 PROVE  /\ clock[SlotOf[u] - 1] >= SlotOf[u]
                        /\ \A v \in Tasks : Call[v] = Call[u] /\ SlotOf[v] = SlotOf[u] - 1
                                => ~ task'[v].ran
      BY <1>1 DEF RepeatInv, Passed, AsksFirst
    <3>1. /\ clock[SlotOf[u] - 1] >= SlotOf[u]
          /\ \A v \in Tasks : Call[v] = Call[u] /\ SlotOf[v] = SlotOf[u] - 1 => ~ task[v].ran
      BY <2>4 DEF OnceInv, RepeatInv
    <3>2. SlotOf[t] # SlotOf[u] - 1
      BY <1>2, <2>4, <3>1 DEF NodeOf
    <3> QED
      BY <2>4, <3>1, <3>2
  <2> QED
    BY <2>6, <2>7, <2>8, <2>9, <2>10 DEF OnceInv
<1> QED
  BY <1>9, <1>10, <1>11

(* The steps of a call that acts *)
LEMMA ActingOnce ==
    ASSUME ExecutorInv, OnceInv, NEW t \in Tasks,
           \/ StepSendOutgoing(t) \/ StepExecuteContinue(t) \/ StepExecuteDecideNextStep(t)
           \/ StepSendCallResult(t) \/ StepSendDelegatedRequestFinished(t)
           \/ StepDelegationToken(t)
    PROVE  OnceInv'
<1>1. TypeOK /\ task[t] \in TaskType /\ TaskOK(task[t], NodeOf(t), SlotOf[t])
  BY TypeFacts DEF ExecutorInv, LocalInv, TaskInv
<1>2. clock' = clock /\ object' = object
  BY DEF StepSendOutgoing, StepExecuteContinue, StepExecuteDecideNextStep, StepSendCallResult,
         StepSendDelegatedRequestFinished, StepDelegationToken
<1>3. ASSUME NEW tk, task' = [task EXCEPT ![t] = tk], tk.ran = task[t].ran,
             tk.find = task[t].find, tk.pc \in ActingSteps
      PROVE  OnceInv'
  BY <1>2, <1>3, ActingKept
<1>4. ASSUME NEW x, x.ran = task[t].ran, NEW pc \in Ended,
             task' = [task EXCEPT ![t] = EndTask(x, pc)]
      PROVE  OnceInv'
  BY <1>2, <1>4, EndKept, OnceTask
<1>5. CASE StepSendOutgoing(t)
  <2> DEFINE tk == [task[t] EXCEPT !.sent = 1]
  <2>1. task' = [task EXCEPT ![t] = tk] /\ task[t].pc = "execute"
    BY <1>5 DEF StepSendOutgoing, Step, At
  <2>2. tk.ran = task[t].ran /\ tk.find = task[t].find /\ tk.pc \in ActingSteps
    BY <1>1, <2>1 DEF TaskType, ActingSteps
  <2> HIDE DEF tk
  <2> QED
    BY <1>3, <2>1, <2>2
<1>6. CASE StepExecuteContinue(t)
  <2> DEFINE tk == [task[t] EXCEPT !.sent = 0, !.called = TRUE]
  <2>1. task' = [task EXCEPT ![t] = tk] /\ task[t].pc = "execute"
    BY <1>6 DEF StepExecuteContinue, Step, At
  <2>2. tk.ran = task[t].ran /\ tk.find = task[t].find /\ tk.pc \in ActingSteps
    BY <1>1, <2>1 DEF TaskType, ActingSteps
  <2> HIDE DEF tk
  <2> QED
    BY <1>3, <2>1, <2>2
<1>7. CASE StepExecuteDecideNextStep(t)
  <2>1. PICK outcome \in OutcomesOf[Call[t]] :
           \/ task' = [task EXCEPT ![t] = [Goto(t, "sendCallResult") EXCEPT !.outcome = "error"]]
           \/ task' = [task EXCEPT ![t] = [Goto(t, "saveNewObject") EXCEPT !.outcome = outcome]]
    BY <1>7 DEF StepExecuteDecideNextStep, Step
  <2> DEFINE fails == [Goto(t, "sendCallResult") EXCEPT !.outcome = "error"]
             saves == [Goto(t, "saveNewObject") EXCEPT !.outcome = outcome]
  <2>2. /\ fails.ran = task[t].ran /\ fails.find = task[t].find /\ fails.pc \in ActingSteps
        /\ saves.ran = task[t].ran /\ saves.find = task[t].find /\ saves.pc \in ActingSteps
    BY <1>1 DEF Goto, TaskType, ActingSteps
  <2>3. task' = [task EXCEPT ![t] = fails] \/ task' = [task EXCEPT ![t] = saves]
    BY <2>1
  <2> HIDE DEF fails, saves
  <2> QED
    BY <1>3, <2>2, <2>3
<1>8. CASE StepSendCallResult(t)
  <2>1. PICK answer : task' = [task EXCEPT ![t] = [Goto(t, "finishRequest") EXCEPT !.answer = answer]]
    BY <1>8 DEF StepSendCallResult, Step
  <2> DEFINE tk == [Goto(t, "finishRequest") EXCEPT !.answer = answer]
  <2>2. tk.ran = task[t].ran /\ tk.find = task[t].find /\ tk.pc \in ActingSteps
    BY <1>1 DEF Goto, TaskType, ActingSteps
  <2> HIDE DEF tk
  <2> QED
    BY <1>3, <2>1, <2>2 DEF tk
<1>9. CASE StepSendDelegatedRequestFinished(t)
  <2>1. task' = [task EXCEPT ![t] = EndTask(task[t], "done")] /\ "done" \in Ended
    BY <1>9 DEF StepSendDelegatedRequestFinished, Step, Ended
  <2> QED
    BY <1>4, <2>1
<1>10. CASE StepDelegationToken(t)
  <2> DEFINE tk == [task[t] EXCEPT !.pc = task[t].resume, !.resume = "idle",
                                   !.granted = UnknownPulse]
             more == [tk EXCEPT !.sent = @ + 1]
  <2>1. task[t].pc = "getToken" /\ task[t].resume \in ActingSteps
    BY <1>1, <1>10 DEF StepDelegationToken, Step, At, TaskOK
  <2>2. \/ task' = [task EXCEPT ![t] = tk]
        \/ task' = [task EXCEPT ![t] = EndTask(tk, "dead")]
        \/ task' = [task EXCEPT ![t] = more]
    BY <1>10 DEF StepDelegationToken, Step
  <2>3. /\ tk.ran = task[t].ran /\ tk.find = task[t].find /\ tk.pc \in ActingSteps
        /\ more.ran = task[t].ran /\ more.find = task[t].find /\ more.pc \in ActingSteps
    BY <1>1, <2>1 DEF TaskType
  <2>4. "dead" \in Ended
    BY DEF Ended
  <2> HIDE DEF tk, more
  <2> QED
    BY <1>3, <1>4, <2>2, <2>3, <2>4
<1> QED
  BY <1>5, <1>6, <1>7, <1>8, <1>9, <1>10

(* What deduplication looks at stays as it is. *)
LEMMA SameEntries ==
    ASSUME NEW x, NEW o, o.known = x.known, o.results = x.results, o.summary = x.summary,
           o.phase = x.phase \/ x.phase \notin {"publish", "finalize", "sent"},
           x.state # "Unknown" => o.state # "Unknown"
    PROVE  EntriesKept(o, x)
BY DEF EntriesKept, Noted, Recorded

(* stepSaveNewObject *)
LEMMA SaveNewObjectOnce ==
    ASSUME ExecutorInv, OnceInv, NEW t \in Tasks, StepSaveNewObject(t)
    PROVE  OnceInv'
<1> DEFINE p == SlotOf[t]
<1>1. TypeOK /\ task[t] \in TaskType /\ p \in Pulses /\ object[p] \in ObjectType
  BY TypeFacts, PulseFacts DEF ExecutorInv
<1>2. clock' = clock
  BY DEF StepSaveNewObject
<1>3. PICK new : \/ object' = object
                 \/ object' = [object EXCEPT ![p].dirty = new]
                 \/ object' = [object EXCEPT ![p] = SaveDescriptor(@, new)]
  BY DEF StepSaveNewObject
<1>4. \/ task' = [task EXCEPT ![t] = EndTask(task[t], "dead")]
      \/ \E d : task' = [task EXCEPT ![t] = [Goto(t, "sendCallResult") EXCEPT !.new = d]]
  BY DEF StepSaveNewObject, Step
<1>5. PICK tk : task' = [task EXCEPT ![t] = tk] /\ TaskKept(t, tk)
  <2>1. CASE task' = [task EXCEPT ![t] = EndTask(task[t], "dead")]
    BY <2>1, EndKept DEF Ended
  <2>2. ASSUME NEW d, task' = [task EXCEPT ![t] = [Goto(t, "sendCallResult") EXCEPT !.new = d]]
        PROVE  \E tk : task' = [task EXCEPT ![t] = tk] /\ TaskKept(t, tk)
    <3> DEFINE tk == [Goto(t, "sendCallResult") EXCEPT !.new = d]
    <3>1. tk.ran = task[t].ran /\ tk.find = task[t].find /\ tk.pc = "sendCallResult"
      BY <1>1 DEF Goto, TaskType
    <3> HIDE DEF tk
    <3>2. TaskKept(t, tk)
      BY <3>1, MoveKept DEF OwnSteps, ReadySteps
    <3> QED
      BY <2>2, <3>2 DEF tk
  <2> QED
    BY <1>4, <2>1, <2>2
<1>6. \/ object' = object
      \/ \E o : object' = [object EXCEPT ![p] = o] /\ EntriesKept(o, object[p])
  <2>1. CASE object' = [object EXCEPT ![p].dirty = new]
    <3> DEFINE o == [object[p] EXCEPT !.dirty = new]
    <3>1. /\ o.known = object[p].known /\ o.results = object[p].results
          /\ o.summary = object[p].summary /\ o.phase = object[p].phase
          /\ o.state = object[p].state
      BY <1>1 DEF ObjectType
    <3>2. object' = [object EXCEPT ![p] = o]
      BY <1>1, <2>1
    <3> HIDE DEF o
    <3>3. EntriesKept(o, object[p])
      BY <3>1, SameEntries
    <3> QED
      BY <3>2, <3>3
  <2>2. CASE object' = [object EXCEPT ![p] = SaveDescriptor(@, new)]
    <3> DEFINE o == [object[p] EXCEPT !.dirty = new, !.state = "HasState"]
    <3>1. /\ o.known = object[p].known /\ o.results = object[p].results
          /\ o.summary = object[p].summary /\ o.phase = object[p].phase
          /\ o.state = "HasState"
      BY <1>1 DEF ObjectType
    <3>2. object' = [object EXCEPT ![p] = o]
      BY <1>1, <2>2 DEF SaveDescriptor, TypeOK
    <3> HIDE DEF o
    <3>3. EntriesKept(o, object[p])
      BY <3>1, SameEntries
    <3> QED
      BY <3>2, <3>3
  <2> QED
    BY <1>3, <2>1, <2>2
<1> QED
  BY <1>2, <1>5, <1>6, OnceTask

(* stepFinishRequest *)
LEMMA FinishRequestOnce ==
    ASSUME ExecutorInv, OnceInv, NEW t \in Tasks, StepFinishRequest(t)
    PROVE  OnceInv'
<1> DEFINE p == SlotOf[t]
           r == Call[t]
           x == object[p]
           f == IF task[t].negotiated THEN FlagOf[r] ELSE CallFlag[r]
           finishes == ~ task[t].migrated /\ CanFinish(x.known[f], r)
           panic == finishes /\ x.results[r] = "none"
           list == WorkingFinish(x.known[f], r)
           result == IF panic THEN x.results[r] ELSE "result"
           o == [x EXCEPT !.known[f] = list, !.results[r] = result]
<1>1. /\ TypeOK /\ task[t] \in TaskType /\ p \in Pulses /\ x \in ObjectType
      /\ r \in Requests /\ f \in Flags /\ clock' = clock
  BY TypeFacts, PulseFacts, CallFacts DEF ExecutorInv, StepFinishRequest
<1>2. /\ object' = IF ~ finishes THEN object
                   ELSE [object EXCEPT ![p].known[f] = list, ![p].results[r] = result]
      /\ task' = [task EXCEPT ![t] = IF task[t].migrated THEN Goto(t, "callSummary")
                                     ELSE EndTask(task[t], IF panic THEN "dead" ELSE "done")]
  BY <1>1 DEF StepFinishRequest, Step, ObjectOf, TypeOK
<1>3. /\ x.known \in [Flags -> ListType] /\ x.results \in [Requests -> CallSummary]
      /\ x.known[f].requests \in [Requests -> RequestState]
      /\ list.requests = IF CanFinish(x.known[f], r)
                         THEN [x.known[f].requests EXCEPT ![r] = "Finished"]
                         ELSE x.known[f].requests
  <2>1. x.known \in [Flags -> ListType] /\ x.results \in [Requests -> CallSummary]
    BY <1>1 DEF ObjectType
  <2>2. x.known[f] \in ListType
    BY <1>1, <2>1
  <2> QED
    BY <1>1, <2>1, <2>2, MethodsSetState DEF ListType
<1>4. PICK tk : task' = [task EXCEPT ![t] = tk] /\ TaskKept(t, tk)
  <2>1. CASE task[t].migrated
    <3> DEFINE tk == Goto(t, "callSummary")
    <3>1. tk.ran = task[t].ran /\ tk.find = task[t].find /\ tk.pc = "callSummary"
      BY <1>1 DEF Goto, TaskType
    <3>2. task' = [task EXCEPT ![t] = tk]
      BY <1>2, <2>1
    <3> HIDE DEF tk
    <3>3. TaskKept(t, tk)
      BY <3>1, MoveKept DEF OwnSteps, ReadySteps
    <3> QED
      BY <3>2, <3>3
  <2>2. CASE ~ task[t].migrated
    <3>1. PICK pc \in Ended : task' = [task EXCEPT ![t] = EndTask(task[t], pc)]
      BY <1>2, <2>2 DEF Ended
    <3> QED
      BY <3>1, EndKept
  <2> QED
    BY <2>1, <2>2
<1> HIDE DEF f, list, result, finishes
<1>5. CASE ~ finishes
  BY <1>1, <1>2, <1>4, <1>5, OnceTask
<1>6. CASE finishes
  <2>1. object' = [object EXCEPT ![p] = o]
    BY <1>1, <1>2, <1>6
  <2>2. /\ o.phase = x.phase /\ o.state = x.state /\ o.summary = x.summary
        /\ o.known = [x.known EXCEPT ![f] = list]
        /\ o.results = [x.results EXCEPT ![r] = result]
    BY <1>1 DEF ObjectType
  <2> HIDE DEF o
  <2>3. \A q \in Requests : Noted(x, q) => Noted(o, q)
    <3>1. o.known[f] = list /\ \A g \in Flags : g # f => o.known[g] = x.known[g]
      BY <1>1, <1>3, <2>2
    <3>2. \A q \in Requests : x.known[f].requests[q] # "Unknown" => list.requests[q] # "Unknown"
      BY <1>3
    <3> QED
      BY <1>1, <3>1, <3>2, ListKept
  <2>4. \A q \in Requests : x.results[q] # "none" => o.results[q] # "none"
    <3>1. x.results[r] # "none" => result # "none"
      BY DEF result
    <3> QED
      BY <1>1, <1>3, <2>2, <3>1
  <2>5. EntriesKept(o, x)
    BY <2>2, <2>3, <2>4 DEF EntriesKept, Recorded
  <2> QED
    BY <1>1, <1>4, <2>1, <2>5, OnceTask
<1> QED
  BY <1>5, <1>6

(* stepPublishDataCallSummary *)
LEMMA PublishDataCallSummaryOnce ==
    ASSUME ExecutorInv, OnceInv, NEW t \in Tasks, StepPublishDataCallSummary(t)
    PROVE  OnceInv'
<1> DEFINE p == SlotOf[t]
           r == Call[t]
           x == object[p]
           o == [x EXCEPT !.summary[r] = "result"]
<1>1. /\ TypeOK /\ task[t] \in TaskType /\ p \in Pulses /\ x \in ObjectType
      /\ r \in Requests /\ clock' = clock
  BY TypeFacts, PulseFacts, CallFacts DEF ExecutorInv, StepPublishDataCallSummary
<1>2. /\ object' = object \/ object' = [object EXCEPT ![p].summary[r] = "result"]
      /\ \/ task' = [task EXCEPT ![t] = EndTask(task[t], "dead")]
         \/ task' = [task EXCEPT ![t] = Goto(t, "sendFinished")]
  BY DEF StepPublishDataCallSummary, Step
<1>3. PICK tk : task' = [task EXCEPT ![t] = tk] /\ TaskKept(t, tk)
  <2> DEFINE tk == Goto(t, "sendFinished")
  <2>1. tk.ran = task[t].ran /\ tk.find = task[t].find /\ tk.pc = "sendFinished"
    BY <1>1 DEF Goto, TaskType
  <2> HIDE DEF tk
  <2>2. TaskKept(t, tk)
    BY <2>1, MoveKept DEF OwnSteps, ReadySteps
  <2>3. TaskKept(t, EndTask(task[t], "dead"))
    BY EndKept DEF Ended
  <2> QED
    BY <1>2, <2>2, <2>3 DEF tk
<1>4. CASE object' = [object EXCEPT ![p].summary[r] = "result"]
  <2>1. object' = [object EXCEPT ![p] = o]
    BY <1>1, <1>4
  <2>2. x.summary \in [Requests -> CallSummary]
    BY <1>1 DEF ObjectType
  <2>3. /\ o.phase = x.phase /\ o.state = x.state /\ o.known = x.known /\ o.results = x.results
        /\ o.summary = [x.summary EXCEPT ![r] = "result"]
    BY <1>1 DEF ObjectType
  <2> HIDE DEF o
  <2>4. \A q \in Requests : x.summary[q] # "none" => o.summary[q] # "none"
    BY <1>1, <2>2, <2>3
  <2>5. EntriesKept(o, x)
    BY <2>3, <2>4 DEF EntriesKept, Noted, Recorded
  <2> QED
    BY <1>1, <1>3, <2>1, <2>5, OnceTask
<1> QED
  BY <1>1, <1>2, <1>3, <1>4, OnceTask

(* The steps of SMObject *)
LEMMA ObjectStepsOnce ==
    ASSUME ExecutorInv, OnceInv, NEW p \in Pulses, ObjectStep(p)
    PROVE  OnceInv'
<1> DEFINE x == object[p]
<1>1. TypeOK /\ x \in ObjectType
  BY TypeFacts DEF ExecutorInv
<1>2. clock' = clock /\ task' = task
  BY DEF ObjectStep, StepGetState, StepWaitState, StepPublishCallSummary, StepSendVStateReport,
         AnswerStateRequest
<1>3. ASSUME NEW o, object' = [object EXCEPT ![p] = o], EntriesKept(o, x)
      PROVE  OnceInv'
  BY <1>2, <1>3, OnceObject
<1>4. CASE StepGetState(p) \/ StepWaitState(p)
  <2>1. PICK o : /\ object' = [object EXCEPT ![p] = o]
                 /\ \/ o = GotState(x)
                    \/ o = [x EXCEPT !.phase = "waitState", !.asked = TRUE]
                    \/ o = [x EXCEPT !.phase = "asleep"]
    BY <1>1, <1>4 DEF StepGetState, StepWaitState, TypeOK
  <2>2. x.phase \notin {"publish", "finalize", "sent"}
    BY <1>4 DEF StepGetState, StepWaitState
  <2>3. /\ o.known = x.known /\ o.results = x.results /\ o.summary = x.summary
        /\ o.state = x.state
    <3>1. CASE o = GotState(x)
      BY <1>1, <3>1 DEF GotState, OpenPaths, ObjectType
    <3>2. CASE \/ o = [x EXCEPT !.phase = "waitState", !.asked = TRUE]
               \/ o = [x EXCEPT !.phase = "asleep"]
      BY <1>1, <3>2 DEF ObjectType
    <3> QED
      BY <2>1, <3>1, <3>2
  <2>4. EntriesKept(o, x)
    BY <2>2, <2>3, SameEntries
  <2> QED
    BY <1>3, <2>1, <2>4
<1>5. CASE StepPublishCallSummary(p)
  <2> DEFINE o == [x EXCEPT !.phase = "finalize", !.summary = x.results]
  <2>1. x.phase = "publish" /\ object' = [object EXCEPT ![p] = o]
    BY <1>1, <1>5 DEF StepPublishCallSummary
  <2>2. /\ o.known = x.known /\ o.results = x.results /\ o.summary = x.results
        /\ o.state = x.state /\ o.phase = "finalize"
    BY <1>1 DEF ObjectType
  <2> HIDE DEF o
  <2>3. EntriesKept(o, x)
    BY <2>1, <2>2 DEF EntriesKept, Noted, Recorded
  <2> QED
    BY <1>3, <2>1, <2>3
<1>6. CASE StepSendVStateReport(p)
  <2> DEFINE o == [x EXCEPT !.phase = "sent"]
  <2>1. x.phase = "finalize" /\ object' = [object EXCEPT ![p] = o]
    BY <1>1, <1>6 DEF StepSendVStateReport
  <2>2. /\ o.known = x.known /\ o.results = x.results /\ o.summary = x.summary
        /\ o.state = x.state /\ o.phase = "sent"
    BY <1>1 DEF ObjectType
  <2> HIDE DEF o
  <2>3. EntriesKept(o, x)
    BY <2>1, <2>2 DEF EntriesKept, Noted, Recorded
  <2> QED
    BY <1>3, <2>1, <2>3
<1>7. CASE AnswerStateRequest(p)
  <2> DEFINE o == [x EXCEPT !.asked = FALSE]
  <2>1. object' = [object EXCEPT ![p] = o]
    BY <1>1, <1>7 DEF AnswerStateRequest
  <2>2. /\ o.known = x.known /\ o.results = x.results /\ o.summary = x.summary
        /\ o.state = x.state /\ o.phase = x.phase
    BY <1>1 DEF ObjectType
  <2> HIDE DEF o
  <2>3. EntriesKept(o, x)
    BY <2>2, SameEntries
  <2> QED
    BY <1>3, <2>1, <2>3
<1> QED
  BY <1>4, <1>5, <1>6, <1>7 DEF ObjectStep

(* GetOrCreate finds the object or creates one without entries. *)
LEMMA CreatedEntries ==
    ASSUME ExecutorInv, NEW p \in Pulses
    PROVE  LET o == GetOrCreate(p) IN
           /\ o \in ObjectType /\ o.known = object[p].known /\ o.results = object[p].results
           /\ o.summary = object[p].summary /\ o.state = object[p].state
           /\ o.phase = object[p].phase \/ object[p].phase = "none"
<1> DEFINE o == GetOrCreate(p)
<1>1. /\ o \in ObjectType /\ o.known = object[p].known /\ o.state = object[p].state
      /\ o.phase = object[p].phase \/ object[p].phase = "none"
  BY GetOrCreateFacts
<1>2. o.results = object[p].results /\ o.summary = object[p].summary
  <2>1. CASE object[p].phase = "none"
    <3>1. object[p] = NewObject("none") /\ o = NewObject("getState")
      BY <2>1 DEF ExecutorInv, LocalInv, ObjectInv, ObjectOK, GetOrCreate
    <3> QED
      BY <3>1 DEF NewObject
  <2>2. CASE object[p].phase # "none"
    BY <2>2 DEF GetOrCreate
  <2> QED
    BY <2>1, <2>2
<1> QED
  BY <1>1, <1>2

(* stepGetObject *)
LEMMA GetObjectOnce ==
    ASSUME ExecutorInv, OnceInv, NEW t \in Tasks, StepGetObject(t)
    PROVE  OnceInv'
<1> DEFINE p == SlotOf[t]
           x == object[p]
           c == GetOrCreate(p)
           tk == Goto(t, "waitObjectReady")
<1>1. TypeOK /\ task[t] \in TaskType /\ p \in Pulses
  BY TypeFacts, PulseFacts DEF ExecutorInv
<1>2. /\ c \in ObjectType /\ c.known = x.known /\ c.results = x.results
      /\ c.summary = x.summary /\ c.state = x.state
      /\ c.phase = x.phase \/ x.phase = "none"
  BY <1>1, CreatedEntries
<1>3. PICK o : /\ object' = [object EXCEPT ![p] = o]
               /\ o = c \/ o = [c EXCEPT !.state = "Empty"]
  BY DEF StepGetObject
<1>4. clock' = clock /\ task' = [task EXCEPT ![t] = tk]
  BY DEF StepGetObject, Step
<1>5. tk.ran = task[t].ran /\ tk.find = task[t].find /\ tk.pc = "waitObjectReady"
  BY <1>1 DEF Goto, TaskType
<1> HIDE DEF tk, c
<1>6. TaskKept(t, tk)
  BY <1>5, MoveKept DEF OwnSteps, ReadySteps
<1>7. /\ o.known = x.known /\ o.results = x.results /\ o.summary = x.summary
      /\ o.phase = x.phase \/ x.phase = "none"
      /\ x.state # "Unknown" => o.state # "Unknown"
  BY <1>2, <1>3 DEF ObjectType
<1>8. EntriesKept(o, x)
  BY <1>7, SameEntries
<1> QED
  BY <1>3, <1>4, <1>6, <1>8, OnceTask

(* SMVStateReport, SMVDelegatedCallRequest, SMVDelegatedRequestFinished *)
LEMMA ReceiveOnce ==
    ASSUME ExecutorInv, OnceInv, Receive
    PROVE  OnceInv'
<1>1. PICK m \in msgs : \/ ReceiveStateReport(m) \/ CreateForDelegated(m)
                        \/ ReceiveDelegatedCallRequest(m) \/ ReceiveDelegatedRequestFinished(m)
  BY DEF Receive
<1> DEFINE p == m.to
           x == object[p]
           c == GetOrCreate(p)
<1>2. TypeOK /\ m \in MessageType /\ p \in Pulses /\ x \in ObjectType
  BY TypeFacts DEF ExecutorInv, TypeOK, MessageType
<1>3. /\ c \in ObjectType /\ c.known = x.known /\ c.results = x.results
      /\ c.summary = x.summary /\ c.state = x.state
      /\ c.phase = x.phase \/ x.phase = "none"
  BY <1>2, CreatedEntries
<1>4. EntriesKept(c, x)
  BY <1>3, SameEntries
<1>5. ASSUME clock' = clock, task' = task, object' = object
      PROVE  OnceInv'
  BY <1>5, OnceKept
<1>6. CASE ReceiveStateReport(m)
  <2>1. /\ clock' = clock /\ task' = task
        /\ \/ object' = object
           \/ x.state = "Unknown" /\ object' = [object EXCEPT ![p] = ApplyReport(c, m.report)]
           \/ object' = [object EXCEPT ![p] = c]
    BY <1>3, <1>6 DEF ReceiveStateReport
  <2>2. CASE x.state = "Unknown" /\ object' = [object EXCEPT ![p] = ApplyReport(c, m.report)]
    <3> DEFINE o == ApplyReport(c, m.report)
    <3> HIDE DEF c
    <3>1. /\ o.known = c.known /\ o.results = c.results /\ o.summary = c.summary
          /\ o.phase = c.phase \/ c.phase = "asleep"
      BY <1>3 DEF ApplyReport, ObjectType
    <3> HIDE DEF o
    <3>2. EntriesKept(o, x)
      BY <1>3, <2>2, <3>1, SameEntries
    <3> QED
      BY <1>2, <2>1, <2>2, <3>2, OnceObject DEF o
  <2> QED
    BY <1>2, <1>4, <1>5, <2>1, <2>2, OnceObject
<1>7. CASE CreateForDelegated(m)
  <2>1. clock' = clock /\ task' = task /\ object' = [object EXCEPT ![p] = c]
    BY <1>7 DEF CreateForDelegated
  <2> QED
    BY <1>2, <1>4, <2>1, OnceObject
<1>8. CASE ReceiveDelegatedCallRequest(m)
  <2> DEFINE t == m.task
             r == Call[t]
             tk == [task[t] EXCEPT !.granted = p]
             o == RegisterPending(x, r)
  <2>1. t \in Tasks /\ task[t] \in TaskType
    BY <1>2, <1>8, TypeFacts DEF MessageType, ReceiveDelegatedCallRequest
  <2>2. /\ clock' = clock
        /\ object' = object \/ object' = [object EXCEPT ![p] = o]
        /\ task' = task \/ task' = [task EXCEPT ![t] = tk]
    BY <1>2, <1>8, <2>1 DEF ReceiveDelegatedCallRequest, TypeOK
  <2>3. tk.ran = task[t].ran /\ tk.find = task[t].find /\ tk.pc = task[t].pc
    BY <2>1 DEF TaskType
  <2>4. /\ o.known = x.known /\ o.results = x.results /\ o.summary = x.summary
        /\ o.phase = x.phase /\ o.state = x.state
    BY <1>2 DEF RegisterPending, ObjectType
  <2> HIDE DEF tk, o
  <2>5. EntriesKept(o, x)
    BY <2>4, SameEntries
  <2>6. TaskKept(t, tk)
    BY <2>3 DEF TaskKept, Owns, Passed
  <2>7. \A u \in Tasks : task'[u] = task[u] \/ TaskKept(u, task'[u])
    BY <1>2, <2>1, <2>2, <2>6 DEF TypeOK
  <2>8. \A q \in Pulses : object'[q] = object[q] \/ EntriesKept(object'[q], object[q])
    BY <1>2, <2>2, <2>5 DEF TypeOK
  <2> QED
    BY <2>2, <2>7, <2>8, OnceKept
<1>9. CASE ReceiveDelegatedRequestFinished(m)
  <2> DEFINE r == Call[m.task]
             f == CallFlag[r]
             dirty == IF m.latest.has THEN m.latest ELSE x.dirty
             state == IF x.state # "Empty" THEN x.state
                      ELSE IF m.latest.has THEN "HasState"
                      ELSE IF f = Tolerable /\ r \in Constructors THEN "Missing"
                      ELSE x.state
             o1 == [x EXCEPT !.dirty = dirty]
             o2 == [o1 EXCEPT !.state = state]
             o3 == [o2 EXCEPT !.pending[f] = PendingFinish(@, r)]
             o4 == ReleasePaths(o3)
             same(o) == /\ o.known = x.known /\ o.results = x.results
                        /\ o.summary = x.summary /\ o.phase = x.phase
                        /\ x.state # "Unknown" => o.state # "Unknown"
  <2>1. SetLatestState(x, m.latest) = o1 /\ o1.state = x.state
    BY <1>2 DEF SetLatestState, ObjectType
  <2>2. /\ clock' = clock /\ task' = task
        /\ \/ object' = [object EXCEPT ![p] = o1] \/ object' = [object EXCEPT ![p] = o2]
           \/ object' = [object EXCEPT ![p] = o3] \/ object' = [object EXCEPT ![p] = o4]
    BY <1>9, <2>1 DEF ReceiveDelegatedRequestFinished
  <2>3. DOMAIN x = DOMAIN NewObject("none")
    BY <1>2 DEF ObjectType, NewObject
  <2>4. same(o1) /\ DOMAIN o1 = DOMAIN NewObject("none")
    <3> HIDE DEF dirty
    <3> QED
      BY <2>3 DEF NewObject
  <2>5. same(o2) /\ DOMAIN o2 = DOMAIN NewObject("none")
    <3>1. x.state # "Unknown" => state # "Unknown"
      OBVIOUS
    <3> HIDE DEF o1, state
    <3> QED
      BY <2>4, <3>1 DEF NewObject
  <2>6. same(o3) /\ DOMAIN o3 = DOMAIN NewObject("none")
    <3> HIDE DEF o2
    <3> QED
      BY <2>5 DEF NewObject
  <2>7. same(o4)
    <3> HIDE DEF o3
    <3> QED
      BY <2>6 DEF NewObject, ReleasePaths
  <2> HIDE DEF o1, o2, o3, o4
  <2>8. /\ EntriesKept(o1, x) /\ EntriesKept(o2, x) /\ EntriesKept(o3, x)
        /\ EntriesKept(o4, x)
    BY <2>4, <2>5, <2>6, <2>7, SameEntries
  <2> QED
    BY <1>2, <2>2, <2>8, OnceObject
<1> QED
  BY <1>1, <1>6, <1>7, <1>8, <1>9

(* The pulse change: an executor that leaves its pulse takes the calls     *)
(* that have started into its summary, and nothing starts there again.     *)
LEMMA AdvanceOnce ==
    ASSUME ExecutorInv, OnceInv, NEW N \in ChangeTogether, NEW old \in Pulses, AdvancePulse(N, old)
    PROVE  OnceInv'
<1>1. /\ N \subseteq Pulses /\ old \in Nat /\ TypeOK
      /\ \A n \in Pulses : /\ clock[n] \in Nat /\ clock[n] >= old
                           /\ n \in N => clock[n] = old /\ clock'[n] = old + 1
                           /\ n \notin N => clock'[n] = clock[n]
      /\ \A n \in Pulses : n \notin N \/ n > old => object'[n] = object[n]
      /\ old \in N => object'[old] = MigrateObject(object[old])
  BY AdvanceFacts DEF ExecutorInv
<1>2. \A t \in Tasks : /\ SlotOf[t] \in Pulses /\ SlotOf[t] \in Nat /\ Call[t] \in Requests
                       /\ task[t] \in TaskType /\ TaskOK(task[t], NodeOf(t), SlotOf[t])
                       /\ NodeOf(t) = clock[SlotOf[t]] /\ NodeOf(t)' = clock'[SlotOf[t]]
                       /\ NodeOf(t) \in Nat /\ NodeOf(t)' \in Nat
  BY <1>1, PulseFacts, CallFacts, TypeFacts DEF ExecutorInv, LocalInv, TaskInv, NodeOf
<1>3. ASSUME NEW t \in Tasks
      PROVE  /\ task'[t].ran = task[t].ran
             /\ Owns(task'[t]) => Owns(task[t])
             /\ Passed(task'[t]) => Passed(task[t])
             /\ SlotOf[t] \in N => task'[t].pc \notin ReadySteps
             /\ SlotOf[t] \notin N => task'[t] = task[t]
  <2>1. CASE SlotOf[t] \in N
    <3> DEFINE x == task[t]
    <3>1. task'[t] = MigrateTask(x)
      BY <2>1, AdvanceFacts
    <3>2. PICK tk : task'[t] = tk /\ tk.ran = x.ran /\ (tk.find = "notFound" => x.find = "notFound")
                    /\ tk.pc \in Ended \cup {"idle", "getToken"}
      <4>1. CASE x.pc \in Ended \cup {"idle"}
        <5>1. MigrateTask(x) = x
          BY <4>1 DEF MigrateTask, Asks, Ended
        <5> QED
          BY <3>1, <4>1, <5>1
      <4>2. CASE Asks(x)
        <5> DEFINE tk == [x EXCEPT !.pc = "getToken", !.resume = x.pc, !.migrated = TRUE]
        <5>1. MigrateTask(x) = tk
          BY <4>2 DEF MigrateTask, Asks
        <5>2. tk.ran = x.ran /\ tk.find = x.find /\ tk.pc = "getToken"
          BY <1>2 DEF TaskType
        <5> HIDE DEF tk
        <5> QED
          BY <3>1, <5>1, <5>2
      <4>3. CASE x.pc \notin Ended \cup {"idle"} /\ ~ Asks(x)
        <5>1. PICK pc \in {"dead", "stopped"} : MigrateTask(x) = EndTask(x, pc)
          BY <4>3 DEF MigrateTask
        <5>2. EndTask(x, pc).pc = pc /\ EndTask(x, pc).ran = x.ran /\ EndTask(x, pc).find = "none"
          BY DEF EndTask, IdleTask
        <5> QED
          BY <3>1, <5>1, <5>2 DEF Ended
      <4> QED
        BY <4>1, <4>2, <4>3
    <3>3. tk.pc \notin ReadySteps /\ tk.pc \notin OwnSteps
      BY <3>2 DEF ReadySteps, OwnSteps, Ended
    <3> QED
      BY <2>1, <3>2, <3>3 DEF Owns, Passed
  <2>2. CASE SlotOf[t] \notin N
    <3>1. task'[t] = task[t]
      BY <2>2, AdvanceFacts
    <3> QED
      BY <2>2, <3>1
  <2> QED
    BY <2>1, <2>2
<1>4. ASSUME NEW t \in Tasks, Owns(task[t]) PROVE NodeOf(t) >= SlotOf[t]
  <2>1. CASE task[t].ran
    BY <2>1 DEF OnceInv, RanInv
  <2>2. CASE task[t].pc \in OwnSteps
    <3>1. task[t].pc \in EarlySteps
      BY <2>2 DEF OwnSteps, EarlySteps
    <3> QED
      BY <1>2, <3>1, EarlyNode
  <2> QED
    BY <1>4, <2>1, <2>2 DEF Owns
<1>5. OwnerInv'
  BY <1>3 DEF OnceInv, OwnerInv, Owns
<1>6. NotedInv'
  <2> SUFFICES ASSUME NEW t \in Tasks, Owns(task'[t]), clock'[SlotOf[t]] = SlotOf[t]
               PROVE  Noted(object'[SlotOf[t]], Call[t])
    BY <1>2 DEF NotedInv, Owns, Noted, NodeOf
  <2>1. Owns(task[t]) /\ NodeOf(t) >= SlotOf[t]
    BY <1>3, <1>4
  <2>2. SlotOf[t] \notin N
    BY <1>1, <1>2, <2>1
  <2> QED
    BY <1>1, <1>2, <2>1, <2>2 DEF OnceInv, NotedInv
<1>7. ReadyInv'
  <2> SUFFICES ASSUME NEW t \in Tasks, task'[t].pc \in ReadySteps
               PROVE  object'[SlotOf[t]].state # "Unknown"
    BY DEF ReadyInv
  <2> QED
    BY <1>1, <1>2, <1>3 DEF OnceInv, ReadyInv
<1>8. RanInv'
  <2> SUFFICES ASSUME NEW t \in Tasks, task[t].ran
               PROVE  LET s == SlotOf[t] IN
                      /\ clock'[s] >= s
                      /\ clock'[s] = s => /\ object'[s].state # "Unknown"
                                          /\ object'[s].results[Call[t]] # "none"
                      /\ clock'[s] = s + 1 /\ Call[t] \notin Constructors
                            => Recorded(object'[s], Call[t])
    BY <1>2, <1>3 DEF RanInv, Recorded, NodeOf
  <2> DEFINE s == SlotOf[t]
  <2>1. /\ clock[s] >= s /\ s \in Pulses /\ s \in Nat /\ clock[s] \in Nat
        /\ clock[s] = s => object[s].state # "Unknown" /\ object[s].results[Call[t]] # "none"
        /\ clock[s] = s + 1 /\ Call[t] \notin Constructors => Recorded(object[s], Call[t])
    BY <1>1, <1>2 DEF OnceInv, RanInv
  <2>2. CASE s \notin N
    BY <1>1, <2>1, <2>2
  <2>3. CASE s \in N /\ s # old
    BY <1>1, <2>1, <2>3
  <2>4. CASE s \in N /\ s = old
    <3>1. object'[s] = MigrateObject(object[s]) /\ clock'[s] = s + 1 /\ clock[s] = s
      BY <1>1, <2>1, <2>4
    <3>2. object[s] \in ObjectType
      BY <1>1, <2>1, TypeFacts
    <3> DEFINE settled == [object[s] EXCEPT !.state = IF object[s].dirty.deactivated
                                                     THEN "Inactive" ELSE @]
               new == [settled EXCEPT !.phase = "publish", !.report = BuildStateReport(settled),
                                      !.asked = FALSE]
    <3>3. MigrateObject(object[s]) = new
      BY <2>1, <3>1 DEF MigrateObject
    <3>4. new.phase = "publish" /\ new.results = object[s].results
      BY <3>2 DEF ObjectType
    <3> HIDE DEF new
    <3>5. Recorded(object'[s], Call[t])
      BY <2>1, <3>1, <3>3, <3>4 DEF Recorded
    <3> QED
      BY <2>1, <3>1, <3>5
  <2> QED
    BY <2>2, <2>3, <2>4
<1>9. RepeatInv'
  <2> SUFFICES ASSUME NEW u \in Tasks, AsksFirst(u), Passed(task'[u])
               PROVE  /\ clock'[SlotOf[u] - 1] >= SlotOf[u]
                      /\ \A v \in Tasks : Call[v] = Call[u] /\ SlotOf[v] = SlotOf[u] - 1
                              => ~ task'[v].ran
    BY DEF RepeatInv, Passed, AsksFirst
  <2>1. /\ clock[SlotOf[u] - 1] >= SlotOf[u]
        /\ \A v \in Tasks : Call[v] = Call[u] /\ SlotOf[v] = SlotOf[u] - 1 => ~ task[v].ran
    BY <1>3 DEF OnceInv, RepeatInv
  <2>2. SlotOf[u] - 1 \in Pulses
    <3>1. /\ PulseOf[Call[u]] \in Pulses /\ PulseOf[Call[u]] \in Nat
          /\ PulseOf[Call[u]] < SlotOf[u]
      BY <1>2, PulsesAssumption DEF AsksFirst
    <3>2. /\ SlotOf[u] - 1 \in Int /\ PulseOf[Call[u]] <= SlotOf[u] - 1
          /\ SlotOf[u] - 1 <= SlotOf[u]
      BY <1>2, <3>1
    <3> QED
      BY <1>2, <3>1, <3>2, PulseFacts
  <2> QED
    BY <1>1, <1>2, <1>3, <2>1, <2>2
<1> QED
  BY <1>5, <1>6, <1>7, <1>8, <1>9 DEF OnceInv

(* A handover *)
LEMMA InitOnce == Init => OnceInv
<1> SUFFICES ASSUME Init PROVE OnceInv
  OBVIOUS
<1>1. PICK h \in Handovers : TakenOver(h)
  BY DEF Init
<1> DEFINE s == h.pulse
           missing == h.report.Status = "Missing"
           none == NewObject(IF missing THEN "gone" ELSE "sent")
           summary == [r \in Requests |-> IF r \in h.finished THEN "result"
                                          ELSE IF \E t \in h.running : Call[t] = r THEN "empty"
                                          ELSE "none"]
           left == [none EXCEPT !.report = h.report, !.summary = summary]
           run == [IdleTask EXCEPT !.pc = "getToken", !.resume = "execute",
                      !.lock = TRUE, !.active = TRUE, !.ran = TRUE,
                      !.migrated = TRUE, !.negotiated = TRUE,
                      !.base = h.report.ProvidedContent.memory]
<1>2. /\ s \in Pulses /\ s \in Nat
      /\ h.running \subseteq {t \in Tasks : SlotOf[t] = s}
      /\ \A t, u \in h.running : Call[t] = Call[u] => t = u
      /\ missing => {Call[t] : t \in h.running} \subseteq Constructors
  BY HandoversAssumption, PulseFacts
<1>3. /\ clock = [n \in Pulses |-> s + 1]
      /\ object = [q \in Pulses |-> IF q = s THEN left ELSE NewObject("none")]
      /\ task = [t \in Tasks |-> IF t \in h.running THEN run ELSE IdleTask]
  BY <1>1 DEF TakenOver
<1>4. /\ run.ran /\ run.pc = "getToken" /\ run.find = "none"
      /\ ~ IdleTask.ran /\ IdleTask.pc = "idle" /\ IdleTask.find = "none"
  BY DEF IdleTask
<1> HIDE DEF run
<1>5. ASSUME NEW t \in Tasks
      PROVE  /\ task[t].ran <=> t \in h.running
             /\ task[t].pc \notin ReadySteps /\ (Owns(task[t]) => t \in h.running)
             /\ Passed(task[t]) => t \in h.running
             /\ NodeOf(t) = s + 1 /\ SlotOf[t] \in Nat /\ SlotOf[t] \in Pulses
             /\ t \in h.running => SlotOf[t] = s
  <2>1. task[t].ran <=> t \in h.running
    BY <1>3, <1>4
  <2>2. task[t].pc \in {"getToken", "idle"} /\ task[t].find = "none"
    BY <1>3, <1>4
  <2>3. NodeOf(t) = s + 1 /\ SlotOf[t] \in Nat /\ SlotOf[t] \in Pulses
    BY <1>3, PulseFacts DEF NodeOf
  <2> QED
    BY <1>2, <2>1, <2>2, <2>3 DEF Owns, Passed, ReadySteps, OwnSteps
<1>6. OwnerInv
  BY <1>2, <1>5 DEF OwnerInv
<1>7. NotedInv
  BY <1>2, <1>5 DEF NotedInv
<1>8. ReadyInv
  BY <1>5 DEF ReadyInv
<1>9. RanInv
  <2> SUFFICES ASSUME NEW t \in Tasks, t \in h.running, Call[t] \notin Constructors
               PROVE  Recorded(object[s], Call[t])
    BY <1>2, <1>5 DEF RanInv
  <2>1. ~ missing /\ Call[t] \in Requests
    BY <1>2, CallFacts
  <2>2. summary[Call[t]] # "none"
    BY <2>1
  <2>3. none.phase = "sent" /\ DOMAIN none = DOMAIN NewObject("none")
    BY <2>1 DEF NewObject
  <2> HIDE DEF none, summary
  <2>4. left.phase = "sent" /\ left.summary = summary
    BY <2>3 DEF NewObject
  <2>5. object[s] = left
    BY <1>2, <1>3
  <2> HIDE DEF left
  <2> QED
    BY <2>2, <2>4, <2>5 DEF Recorded
<1>10. RepeatInv
  <2> SUFFICES ASSUME NEW u \in Tasks, AsksFirst(u), u \in h.running
               PROVE  /\ clock[SlotOf[u] - 1] >= SlotOf[u]
                      /\ \A t \in Tasks : Call[t] = Call[u] /\ SlotOf[t] = SlotOf[u] - 1
                              => ~ task[t].ran
    BY <1>5 DEF RepeatInv
  <2>1. SlotOf[u] = s
    BY <1>5
  <2>2. s - 1 \in Pulses
    <3>1. /\ PulseOf[Call[u]] \in Pulses /\ PulseOf[Call[u]] \in Nat
          /\ PulseOf[Call[u]] < s
      BY <2>1, CallFacts, PulsesAssumption DEF AsksFirst
    <3>2. s - 1 \in Int /\ PulseOf[Call[u]] <= s - 1 /\ s - 1 <= s
      BY <1>2, <3>1
    <3> QED
      BY <1>2, <3>1, <3>2, PulseFacts
  <2>3. clock[s - 1] = s + 1
    BY <1>3, <2>2
  <2> QED
    BY <1>2, <1>5, <2>1, <2>3
<1> QED
  BY <1>6, <1>7, <1>8, <1>9, <1>10 DEF OnceInv

LEMMA NextOnce ==
    ASSUME ExecutorInv, OnceInv, [Next]_vars
    PROVE  OnceInv'
<1>1. ASSUME NEW t \in Tasks, TaskStepOf(t) PROVE OnceInv'
  BY <1>1, WaitObjectReadyOnce, DeduplicateOnce, AnswerFindCallOnce, OwnStepsOnce, StartOnce,
     ActingOnce, SaveNewObjectOnce, FinishRequestOnce, PublishDataCallSummaryOnce
     DEF TaskStepOf
<1>2. CASE PulseChange
  BY <1>2, AdvanceOnce DEF PulseChange
<1>3. CASE UNCHANGED vars
  <2>1. clock' = clock /\ object' = object /\ task' = task
    BY <1>3 DEF vars
  <2> QED
    BY <2>1, OnceKept
<1> QED
  BY <1>1, <1>2, <1>3, ObjectStepsOnce, GetObjectOnce, ReceiveOnce DEF Next

(* A method that comes again in the same pulse or at the next executor     *)
(* does not run again, whatever is late and however the nodes disagree on  *)
(* the pulse.                                                              *)
MethodsRunOnce ==
    \A t, u \in Tasks :
        /\ Call[t] = Call[u] /\ task[t].ran /\ task[u].ran /\ Call[t] \notin Constructors
        /\ SlotOf[t] <= SlotOf[u] /\ SlotOf[u] <= SlotOf[t] + 1
        => t = u

LEMMA InvMethodsOnce == OnceInv => MethodsRunOnce
<1> SUFFICES ASSUME OnceInv, NEW t \in Tasks, NEW u \in Tasks, Call[t] = Call[u],
                    task[t].ran, task[u].ran, Call[t] \notin Constructors,
                    SlotOf[t] <= SlotOf[u], SlotOf[u] <= SlotOf[t] + 1
             PROVE  t = u
  BY DEF MethodsRunOnce
<1>1. SlotOf[t] \in Pulses /\ SlotOf[u] \in Pulses /\ SlotOf[t] \in Nat /\ SlotOf[u] \in Nat
      /\ PulseOf[Call[t]] <= SlotOf[t] /\ PulseOf[Call[t]] \in Nat
  BY PulseFacts, CallFacts, TasksAssumption, PulsesAssumption
<1>2. CASE SlotOf[t] = SlotOf[u]
  BY <1>2 DEF OnceInv, OwnerInv, Owns
<1>3. CASE SlotOf[t] = SlotOf[u] - 1
  <2>1. AsksFirst(u) /\ Passed(task[u])
    BY <1>1, <1>3 DEF AsksFirst, Passed
  <2> QED
    BY <1>3, <2>1 DEF OnceInv, RepeatInv
<1> QED
  BY <1>1, <1>2, <1>3

(* Two tasks of one method, in one slot or in two that follow each other,  *)
(* do not both run contract code: the first is in the working list of its  *)
(* executor (stepDeduplicate), or the next executor finds it when it asks  *)
(* (VFindCallRequest).                                                     *)
THEOREM RepeatedMethodsRunOnce == Spec => []MethodsRunOnce
<1>1. OnceInv /\ ExecutorInv /\ [Next]_vars => OnceInv'
  BY NextOnce
<1> QED
  BY <1>1, InitOnce, InvMethodsOnce, ExecutorInvariant, PTL DEF Spec

(* The calls are methods, repeated only in their own pulse and in the one  *)
(* after it.  Both are needed.  A constructor of an earlier pulse is taken *)
(* for a new one wherever the object is reported as missing (deduplicate), *)
(* with no question to the previous executor.  And a call summary tells of *)
(* one pulse: what ended two pulses ago is in none that is asked for.      *)
RepeatedSoon == \A t \in Tasks : /\ Call[t] \notin Constructors
                                 /\ SlotOf[t] <= PulseOf[Call[t]] + 1

LEMMA SoonRunOnce ==
    ASSUME RepeatedSoon, MethodsRunOnce
    PROVE  AtMostOnce
<1> SUFFICES ASSUME NEW t \in Tasks, NEW u \in Tasks, Call[t] = Call[u],
                    task[t].ran, task[u].ran
             PROVE  t = u
  BY DEF AtMostOnce
<1>1. SlotOf[t] \in Nat /\ SlotOf[u] \in Nat /\ PulseOf[Call[t]] \in Nat
      /\ PulseOf[Call[t]] <= SlotOf[t] /\ PulseOf[Call[t]] <= SlotOf[u]
      /\ SlotOf[t] <= PulseOf[Call[t]] + 1 /\ SlotOf[u] <= PulseOf[Call[t]] + 1
      /\ Call[t] \notin Constructors
  BY PulseFacts, CallFacts, TasksAssumption, PulsesAssumption DEF RepeatedSoon
<1> QED
  BY <1>1 DEF MethodsRunOnce

(* No such call runs twice, on whatever executors: the working lists and   *)
(* the question to the previous executor make repeated sends harmless,     *)
(* with any lateness of messages and any skew of the nodes' pulses.        *)
THEOREM MethodsAtMostOnce == RepeatedSoon => (Spec => []AtMostOnce)
<1> SUFFICES ASSUME RepeatedSoon PROVE Spec => []AtMostOnce
  OBVIOUS
<1>1. MethodsRunOnce => AtMostOnce
  BY SoonRunOnce
<1> QED
  BY <1>1, RepeatedMethodsRunOnce, PTL


-----------------------------------------------------------------------------
(***************************************************************************)
(* The executors use their tables as the call registry says, when the      *)
(* calls are methods that are repeated soon (RepeatedSoon).                *)
(*                                                                         *)
(* Two steps may break the rules of the registry.  stepFinishRequest may   *)
(* end a request that another machine has only started: it does so for a   *)
(* call that fails before the negotiation of its queue, and then either    *)
(* the queue is another one or the object is missing and has no calls      *)
(* (UnusedInv, MachineInv).  And a delegated call may be finished twice:   *)
(* but it has one machine, which reports its end once (EndsInv).           *)
(***************************************************************************)
Entered(list, r) == list.requests[r] # "Unknown"
NoKnown(o) == \A f \in Flags, r \in Requests : ~ Entered(o.known[f], r)

(* The tables of the executor of pulse p *)
TableOK(o, p) ==
    /\ \A f \in Flags : ListConsistent(o.known[f]) /\ ListConsistent(o.pending[f])
    /\ \A f \in Flags, r \in Requests :
          Entered(o.known[f], r) => FlagOf[r] = f /\ PulseOf[r] <= p
    /\ \A f \in Flags, r \in Requests :
          Entered(o.pending[f], r) => PulseOf[r] <= p /\ o.pending[f].requests[r] # "Started"
    /\ \A r \in Requests : Listed(o, r) => o.results[r] # "none"
TablesInv == \A p \in Pulses : TableOK(object[p], p)

(* No call starts on an object that is missing. *)
UnusedInv ==
    \A p \in Pulses : Live(p) /\ object[p].state \in {"Unknown", "Missing"} => NoKnown(object[p])

(* A call that ends with an error before its queue is negotiated *)
FailsEarly(tk) == tk.pc \in {"sendCallResult", "finishRequest"} /\ ~ tk.negotiated
MachineInv ==
    \A t \in Tasks :
        /\ task[t].active => task[t].ran
        /\ task[t].pc \in ReadySteps => object[SlotOf[t]].state # "Missing"
        /\ FailsEarly(task[t]) => \/ NegotiationFails(Call[t])
                                  \/ object[SlotOf[t]].state = "Missing"
AskInv == \A m \in msgs : m.type = "VDelegatedCallRequest" => SlotOf[m.task] <= m.to
StaticInv == TablesInv /\ UnusedInv /\ MachineInv /\ AskInv

(* A pending call is finished when its machine has ended, which tells one  *)
(* executor of it, once.                                                   *)
EndedRun(t) == task[t].ran /\ task[t].pc \in Ended
DoneInv ==
    \A p \in Pulses, f \in Flags, r \in Requests :
        object[p].pending[f].requests[r] = "Finished"
            => \E t \in Tasks : Call[t] = r /\ EndedRun(t)
FinishedInv ==
    \A m \in msgs : m.type = "VDelegatedRequestFinished" =>
        /\ EndedRun(m.task)
        /\ \A f \in Flags : object[m.to].pending[f].requests[Call[m.task]] # "Finished"
        /\ \A n \in msgs : n.type = m.type /\ n.task = m.task => n = m
EndsInv == DoneInv /\ FinishedInv

UseInv == StaticInv /\ EndsInv

(* What most steps do to the machine of task t, which becomes tk, and to   *)
(* an object x of pulse p, which becomes o                                 *)
MachineKept(t, tk) ==
    /\ ~ EndedRun(t)
    /\ tk.active => tk.ran
    /\ tk.pc \in ReadySteps => \/ task[t].pc \in ReadySteps
                               \/ object[SlotOf[t]].state \notin {"Unknown", "Missing"}
    /\ FailsEarly(tk) => \/ FailsEarly(task[t]) \/ NegotiationFails(Call[t])
                         \/ object[SlotOf[t]].state = "Missing"
StateKept(o, x) ==
    /\ x.state = "Missing" => o.state = "Missing"
    /\ o.state = "Missing" => x.state \in {"Unknown", "Missing"}
    /\ o.state = "Unknown" => x.state = "Unknown"
NothingEnds(o, x) ==
    \A f \in Flags, r \in Requests :
        o.pending[f].requests[r] = "Finished" => x.pending[f].requests[r] = "Finished"
TablesKept(o, x) ==
    /\ o.known = x.known /\ o.results = x.results /\ o.pending = x.pending
    /\ StateKept(o, x)

LEMMA StaticStep ==
    ASSUME OnceInv, StaticInv, clock' = clock,
           \A t \in Tasks : task'[t] = task[t] \/ MachineKept(t, task'[t]),
           \A p \in Pulses : \/ object'[p] = object[p]
                             \/ /\ TableOK(object'[p], p) /\ StateKept(object'[p], object[p])
                                /\ object[p].state \in {"Unknown", "Missing"} /\ NoKnown(object[p])
                                     => NoKnown(object'[p]),
           \A m \in msgs' : m \in msgs \/ (m.type = "VDelegatedCallRequest" => SlotOf[m.task] <= m.to)
    PROVE  StaticInv'
<1>1. TablesInv'
  BY DEF StaticInv, TablesInv
<1>2. UnusedInv'
  <2> SUFFICES ASSUME NEW p \in Pulses, Live(p), object'[p].state \in {"Unknown", "Missing"}
               PROVE  NoKnown(object'[p])
    BY DEF UnusedInv, Live, NoKnown, Entered
  <2> QED
    BY DEF StaticInv, UnusedInv, StateKept
<1>3. MachineInv'
  <2> SUFFICES ASSUME NEW t \in Tasks
               PROVE  /\ task'[t].active => task'[t].ran
                      /\ task'[t].pc \in ReadySteps => object'[SlotOf[t]].state # "Missing"
                      /\ FailsEarly(task'[t]) => \/ NegotiationFails(Call[t])
                                                 \/ object'[SlotOf[t]].state = "Missing"
    BY DEF MachineInv, FailsEarly
  <2>1. /\ task[t].active => task[t].ran
        /\ task[t].pc \in ReadySteps => object[SlotOf[t]].state \notin {"Unknown", "Missing"}
        /\ FailsEarly(task[t]) => \/ NegotiationFails(Call[t])
                                  \/ object[SlotOf[t]].state = "Missing"
    BY DEF StaticInv, MachineInv, OnceInv, ReadyInv
  <2>2. SlotOf[t] \in Pulses
    BY PulseFacts
  <2> QED
    BY <2>1, <2>2 DEF MachineKept, StateKept
<1>4. AskInv'
  BY DEF StaticInv, AskInv
<1> QED
  BY <1>1, <1>2, <1>3, <1>4 DEF StaticInv

LEMMA EndsStep ==
    ASSUME TypeOK, EndsInv,
           \A t \in Tasks : EndedRun(t) => task'[t] = task[t],
           \A p \in Pulses : NothingEnds(object'[p], object[p]),
           \A m \in msgs' : m \in msgs \/ m.type # "VDelegatedRequestFinished"
    PROVE  EndsInv'
<1>1. \A t \in Tasks : EndedRun(t) => EndedRun(t)'
  BY DEF EndedRun
<1>2. DoneInv'
  BY <1>1 DEF EndsInv, DoneInv, NothingEnds, EndedRun
<1>3. FinishedInv'
  <2> SUFFICES ASSUME NEW m \in msgs', m.type = "VDelegatedRequestFinished"
               PROVE  /\ EndedRun(m.task)'
                      /\ \A f \in Flags : object'[m.to].pending[f].requests[Call[m.task]] # "Finished"
                      /\ \A n \in msgs' : n.type = m.type /\ n.task = m.task => n = m
    BY DEF FinishedInv, EndedRun
  <2>1. m \in msgs /\ m.task \in Tasks /\ m.to \in Pulses
    BY DEF TypeOK, MessageType
  <2>2. Call[m.task] \in Requests
    BY <2>1, CallFacts
  <2> QED
    BY <1>1, <2>1, <2>2 DEF EndsInv, FinishedInv, NothingEnds
<1> QED
  BY <1>2, <1>3 DEF EndsInv

(* A step that leaves all tables alone *)
LEMMA UseKept ==
    ASSUME ExecutorInv, OnceInv, UseInv, clock' = clock,
           \A t \in Tasks : task'[t] = task[t] \/ MachineKept(t, task'[t]),
           \A p \in Pulses : object'[p] = object[p] \/ TablesKept(object'[p], object[p]),
           \A m \in msgs' : \/ m \in msgs
                            \/ m.type = "VStateReport"
                            \/ m.type = "VDelegatedCallRequest" /\ SlotOf[m.task] <= m.to
    PROVE  UseInv' /\ RegistriesStep
<1>1. \A p \in Pulses : /\ object'[p].known = object[p].known
                        /\ object'[p].results = object[p].results
                        /\ object'[p].pending = object[p].pending
  BY DEF TablesKept
<1>2. StaticInv'
  <2>1. ASSUME NEW p \in Pulses, object'[p] # object[p]
        PROVE  /\ TableOK(object'[p], p) /\ StateKept(object'[p], object[p])
               /\ object[p].state \in {"Unknown", "Missing"} /\ NoKnown(object[p])
                     => NoKnown(object'[p])
    <3>1. TableOK(object[p], p)
      BY DEF UseInv, StaticInv, TablesInv
    <3> QED
      BY <1>1, <2>1, <3>1 DEF TablesKept, TableOK, NoKnown, Listed
  <2>2. StaticInv
    BY DEF UseInv
  <2> QED
    BY <2>1, <2>2, StaticStep
<1>3. EndsInv'
  <2>1. \A t \in Tasks : EndedRun(t) => task'[t] = task[t]
    BY DEF MachineKept
  <2>2. \A p \in Pulses : NothingEnds(object'[p], object[p])
    BY <1>1 DEF NothingEnds
  <2> QED
    BY <2>1, <2>2, EndsStep DEF UseInv, ExecutorInv
<1>4. RegistriesStep
  BY <1>1 DEF RegistriesStep
<1> QED
  BY <1>2, <1>3, <1>4 DEF UseInv

LEMMA TaskUse ==
    ASSUME ExecutorInv, OnceInv, UseInv, clock' = clock, msgs' = msgs, NEW t \in Tasks, NEW tk,
           task' = [task EXCEPT ![t] = tk], MachineKept(t, tk),
           object' = object \/ \E o : /\ object' = [object EXCEPT ![SlotOf[t]] = o]
                                      /\ TablesKept(o, object[SlotOf[t]])
    PROVE  UseInv' /\ RegistriesStep
<1>1. TypeOK /\ SlotOf[t] \in Pulses
  BY PulseFacts DEF ExecutorInv
<1>2. task'[t] = tk /\ \A u \in Tasks : u # t => task'[u] = task[u]
  BY <1>1 DEF TypeOK
<1>3. \A q \in Pulses : object'[q] = object[q] \/ TablesKept(object'[q], object[q])
  BY <1>1 DEF TypeOK
<1> QED
  BY <1>2, <1>3, UseKept

LEMMA ObjectUse ==
    ASSUME ExecutorInv, OnceInv, UseInv, clock' = clock, task' = task, NEW p \in Pulses, NEW o,
           object' = [object EXCEPT ![p] = o], TablesKept(o, object[p]),
           \A m \in msgs' : m \in msgs \/ m.type = "VStateReport"
    PROVE  UseInv' /\ RegistriesStep
<1>1. TypeOK
  BY DEF ExecutorInv
<1>2. \A q \in Pulses : object'[q] = object[q] \/ TablesKept(object'[q], object[q])
  BY <1>1 DEF TypeOK
<1> QED
  BY <1>2, UseKept

(* A machine may stop, and one that goes on fails early only where that    *)
(* was said.                                                               *)
LEMMA EndUse ==
    ASSUME NEW t \in Tasks, task[t].pc \notin Ended, NEW x, NEW pc \in Ended
    PROVE  MachineKept(t, EndTask(x, pc))
<1>1. EndTask(x, pc).pc = pc /\ ~ EndTask(x, pc).active
  BY DEF EndTask, IdleTask
<1>2. pc \notin ReadySteps \cup {"sendCallResult", "finishRequest"}
  BY DEF Ended, ReadySteps, OwnSteps
<1> QED
  BY <1>1, <1>2 DEF MachineKept, EndedRun, FailsEarly

LEMMA MoveUse ==
    ASSUME UseInv, NEW t \in Tasks, task[t].pc \notin Ended, NEW tk,
           tk.ran = task[t].ran, tk.active = task[t].active,
           tk.pc \in ReadySteps => \/ task[t].pc \in ReadySteps
                                   \/ object[SlotOf[t]].state \notin {"Unknown", "Missing"},
           FailsEarly(tk) => \/ FailsEarly(task[t]) \/ NegotiationFails(Call[t])
                             \/ object[SlotOf[t]].state = "Missing"
    PROVE  MachineKept(t, tk)
BY DEF MachineKept, EndedRun, UseInv, StaticInv, MachineInv

(* stepWaitObjectReady, stepWaitPendingConstructorFinished *)
LEMMA WaitObjectReadyUse ==
    ASSUME ExecutorInv, OnceInv, UseInv, RepeatedSoon, NEW t \in Tasks,
           StepWaitObjectReady(t) \/ StepWaitPendingConstructorFinished(t)
    PROVE  UseInv' /\ RegistriesStep
<1> DEFINE x == object[SlotOf[t]]
<1>1. TypeOK /\ task[t] \in TaskType /\ ObjectInv /\ SlotOf[t] \in Pulses
      /\ Call[t] \notin Constructors
  BY TypeFacts, PulseFacts DEF ExecutorInv, LocalInv, RepeatedSoon
<1>2. /\ clock' = clock /\ object' = object /\ msgs' = msgs
      /\ task[t].pc \in {"waitObjectReady", "waitConstructor"} /\ task[t].pc \notin Ended
  BY DEF StepWaitObjectReady, StepWaitPendingConstructorFinished, Step, At, Ended
<1>3. x.state # "Unknown" /\ (task[t].pc = "waitConstructor" => x.state # "Missing")
  <2>1. CASE StepWaitObjectReady(t)
    <3>1. task[t].pc = "waitObjectReady"
      BY <2>1 DEF StepWaitObjectReady, Step, At
    <3> QED
      BY <1>1, <2>1, <3>1 DEF StepWaitObjectReady, ObjectOf, ObjectInv, ObjectOK
  <2>2. CASE StepWaitPendingConstructorFinished(t)
    <3>1. task[t].pc \in ReadySteps
      BY <2>2 DEF StepWaitPendingConstructorFinished, Step, At, ReadySteps
    <3> QED
      BY <3>1 DEF OnceInv, ReadyInv, UseInv, StaticInv, MachineInv
  <2> QED
    BY <2>1, <2>2
<1> DEFINE fail == [task[t] EXCEPT !.pc = "sendCallResult", !.outcome = "error"]
           wait == [task[t] EXCEPT !.pc = "waitConstructor"]
           pass == [task[t] EXCEPT !.pc = "deduplicate", !.negotiated = TRUE]
<1>4. \/ task' = [task EXCEPT ![t] = EndTask(task[t], "dead")]
      \/ /\ task' = [task EXCEPT ![t] = fail]
         /\ x.state = "Missing" \/ NegotiationFails(Call[t])
      \/ task' = [task EXCEPT ![t] = wait] /\ x.state # "Missing"
      \/ task' = [task EXCEPT ![t] = pass] /\ x.state # "Missing"
  <2>1. /\ [Goto(t, "sendCallResult") EXCEPT !.outcome = "error"] = fail
        /\ Goto(t, "waitConstructor") = wait
        /\ [Goto(t, "deduplicate") EXCEPT !.negotiated = TRUE] = pass
    BY <1>1 DEF Goto
  <2>2. \/ StepIsolationNegotiation(t) = EndTask(task[t], "dead")
        \/ StepIsolationNegotiation(t) = fail /\ NegotiationFails(Call[t])
        \/ StepIsolationNegotiation(t) = pass
    BY <2>1 DEF StepIsolationNegotiation
  <2> HIDE DEF fail, wait, pass
  <2>3. CASE StepWaitObjectReady(t)
    BY <1>1, <2>1, <2>2, <2>3 DEF StepWaitObjectReady, Step, ObjectOf
  <2>4. CASE StepWaitPendingConstructorFinished(t)
    <3>1. x.state # "Missing"
      BY <1>3, <2>4 DEF StepWaitPendingConstructorFinished, Step, At
    <3> QED
      BY <2>2, <2>4, <3>1 DEF StepWaitPendingConstructorFinished, Step
  <2> QED
    BY <2>3, <2>4
<1>5. /\ fail.ran = task[t].ran /\ fail.active = task[t].active /\ fail.pc = "sendCallResult"
      /\ wait.ran = task[t].ran /\ wait.active = task[t].active /\ wait.pc = "waitConstructor"
      /\ pass.ran = task[t].ran /\ pass.active = task[t].active /\ pass.pc = "deduplicate"
  BY <1>1 DEF TaskType
<1> HIDE DEF fail, wait, pass
<1>6. CASE task' = [task EXCEPT ![t] = EndTask(task[t], "dead")]
  BY <1>2, <1>6, EndUse, TaskUse DEF Ended
<1>7. CASE /\ task' = [task EXCEPT ![t] = fail]
           /\ x.state = "Missing" \/ NegotiationFails(Call[t])
  <2>1. MachineKept(t, fail)
    BY <1>2, <1>5, <1>7, MoveUse DEF ReadySteps, OwnSteps
  <2> QED
    BY <1>2, <1>7, <2>1, TaskUse
<1>8. CASE task' = [task EXCEPT ![t] = wait] /\ x.state # "Missing"
  <2>1. MachineKept(t, wait)
    BY <1>2, <1>3, <1>5, <1>8, MoveUse DEF FailsEarly
  <2> QED
    BY <1>2, <1>8, <2>1, TaskUse
<1>9. CASE task' = [task EXCEPT ![t] = pass] /\ x.state # "Missing"
  <2>1. MachineKept(t, pass)
    BY <1>2, <1>3, <1>5, <1>9, MoveUse DEF FailsEarly
  <2> QED
    BY <1>2, <1>9, <2>1, TaskUse
<1> QED
  BY <1>4, <1>6, <1>7, <1>8, <1>9

(* SMVFindCallRequest, stepProcessFindCallResponse, stepTakeLock,          *)
(* stepRegisterObjectLifelineAfter                                         *)
LEMMA OwnStepsUse ==
    ASSUME ExecutorInv, OnceInv, UseInv, NEW t \in Tasks,
           \/ AnswerFindCall(t) \/ StepProcessFindCallResponse(t) \/ StepTakeLock(t)
           \/ StepRegisterObjectLifelineAfter(t)
    PROVE  UseInv' /\ RegistriesStep
<1>1. TypeOK /\ task[t] \in TaskType /\ SlotOf[t] \in Pulses /\ object[SlotOf[t]] \in ObjectType
  BY TypeFacts, PulseFacts DEF ExecutorInv
<1>2. /\ clock' = clock /\ msgs' = msgs
      /\ task[t].pc \in OwnSteps /\ task[t].pc \notin Ended /\ task[t].pc \in ReadySteps
  BY DEF AnswerFindCall, StepProcessFindCallResponse, StepTakeLock, OwnSteps, ReadySteps,
         StepRegisterObjectLifelineAfter, Step, At, Ended
<1>3. ASSUME NEW tk, tk.ran = task[t].ran, tk.active = task[t].active, tk.pc \in OwnSteps
      PROVE  MachineKept(t, tk)
  BY <1>2, <1>3, MoveUse DEF FailsEarly, OwnSteps
<1>4. CASE AnswerFindCall(t)
  <2>1. PICK find : task' = [task EXCEPT ![t] = [task[t] EXCEPT !.find = find]]
    BY <1>4 DEF AnswerFindCall, Step
  <2> DEFINE tk == [task[t] EXCEPT !.find = find]
  <2>2. tk.ran = task[t].ran /\ tk.active = task[t].active /\ tk.pc = task[t].pc
    BY <1>1 DEF TaskType
  <2>3. object' = object /\ task' = [task EXCEPT ![t] = tk]
    BY <1>4, <2>1 DEF AnswerFindCall
  <2> HIDE DEF tk
  <2>4. MachineKept(t, tk)
    BY <1>2, <1>3, <2>2
  <2> QED
    BY <1>2, <2>3, <2>4, TaskUse
<1>5. CASE StepProcessFindCallResponse(t)
  <2>1. task[t].find \in {"result", "running", "notFound"} /\ object' = object
    BY <1>1, <1>5 DEF StepProcessFindCallResponse, TaskType
  <2>2. \/ \E pc \in {"dead", "deduplicated"} : task' = [task EXCEPT ![t] = EndTask(task[t], pc)]
        \/ task' = [task EXCEPT ![t] = EndTask([task[t] EXCEPT !.answer = "resent"],
                                               "deduplicated")]
        \/ task' = [task EXCEPT ![t] = Goto(t, "takeLock")]
    BY <2>1, <1>5 DEF StepProcessFindCallResponse, Step
  <2>3. "dead" \in Ended /\ "deduplicated" \in Ended
    BY DEF Ended
  <2>4. CASE task' = [task EXCEPT ![t] = Goto(t, "takeLock")]
    <3> DEFINE tk == Goto(t, "takeLock")
    <3>1. tk.ran = task[t].ran /\ tk.active = task[t].active /\ tk.pc \in OwnSteps
      BY <1>1 DEF Goto, TaskType, OwnSteps
    <3> HIDE DEF tk
    <3>2. MachineKept(t, tk)
      BY <1>3, <3>1
    <3> QED
      BY <1>2, <2>1, <2>4, <3>2, TaskUse DEF tk
  <2> QED
    BY <1>2, <2>1, <2>2, <2>3, <2>4, EndUse, TaskUse
<1>6. CASE StepTakeLock(t)
  <2>1. PICK pc \in {"lifeline", "start"} :
           task' = [task EXCEPT ![t] = [Goto(t, pc) EXCEPT !.lock = TRUE]]
    BY <1>6 DEF StepTakeLock, Step
  <2> DEFINE tk == [Goto(t, pc) EXCEPT !.lock = TRUE]
  <2>2. tk.ran = task[t].ran /\ tk.active = task[t].active /\ tk.pc \in OwnSteps
    BY <1>1 DEF Goto, TaskType, OwnSteps
  <2>3. task' = [task EXCEPT ![t] = tk] /\ object' = object
    BY <1>6, <2>1 DEF StepTakeLock
  <2> HIDE DEF tk
  <2>4. MachineKept(t, tk)
    BY <1>3, <2>2
  <2> QED
    BY <1>2, <2>3, <2>4, TaskUse
<1>7. CASE StepRegisterObjectLifelineAfter(t)
  <2> DEFINE o == [object[SlotOf[t]] EXCEPT !.dirty = NewDescriptor({}, FALSE)]
             tk == [task[t] EXCEPT !.pc = "start"]
  <2>1. task' = [task EXCEPT ![t] = tk] /\ object' = [object EXCEPT ![SlotOf[t]] = o]
    BY <1>1, <1>7 DEF StepRegisterObjectLifelineAfter, Step, Goto
  <2>2. tk.ran = task[t].ran /\ tk.active = task[t].active /\ tk.pc \in OwnSteps
    BY <1>1 DEF TaskType, OwnSteps
  <2>3. /\ o.state = object[SlotOf[t]].state /\ o.pending = object[SlotOf[t]].pending
        /\ o.known = object[SlotOf[t]].known /\ o.results = object[SlotOf[t]].results
    BY <1>1 DEF ObjectType
  <2> HIDE DEF tk, o
  <2>4. MachineKept(t, tk) /\ TablesKept(o, object[SlotOf[t]])
    BY <1>3, <2>2, <2>3 DEF TablesKept, StateKept
  <2> QED
    BY <1>2, <2>1, <2>4, TaskUse
<1> QED
  BY <1>4, <1>5, <1>6, <1>7

(* The steps of a call that acts, up to its result *)
LEMMA ActingUse ==
    ASSUME ExecutorInv, OnceInv, UseInv, NEW t \in Tasks,
           \/ StepSendOutgoing(t) \/ StepExecuteContinue(t) \/ StepExecuteDecideNextStep(t)
           \/ StepSendCallResult(t)
    PROVE  UseInv' /\ RegistriesStep
<1>1. TypeOK /\ task[t] \in TaskType /\ TaskOK(task[t], NodeOf(t), SlotOf[t])
  BY TypeFacts DEF ExecutorInv, LocalInv, TaskInv
<1>2. clock' = clock /\ object' = object /\ msgs' = msgs
  BY DEF StepSendOutgoing, StepExecuteContinue, StepExecuteDecideNextStep, StepSendCallResult
<1>3. ASSUME NEW tk, task' = [task EXCEPT ![t] = tk], tk.ran = task[t].ran,
             tk.active = task[t].active, tk.negotiated = task[t].negotiated,
             tk.pc \in ActingSteps, task[t].pc \in {"execute", "sendCallResult"}
      PROVE  UseInv' /\ RegistriesStep
  <2>1. tk.pc \notin ReadySteps /\ task[t].pc \notin Ended
    BY <1>3 DEF ActingSteps, ReadySteps, OwnSteps, Ended
  <2>2. FailsEarly(tk) => FailsEarly(task[t])
    BY <1>1, <1>3 DEF FailsEarly, TaskOK
  <2>3. MachineKept(t, tk)
    BY <1>3, <2>1, <2>2, MoveUse
  <2> QED
    BY <1>2, <1>3, <2>3, TaskUse
<1>5. CASE StepSendOutgoing(t)
  <2> DEFINE tk == [task[t] EXCEPT !.sent = 1]
  <2>1. task' = [task EXCEPT ![t] = tk] /\ task[t].pc = "execute"
    BY <1>5 DEF StepSendOutgoing, Step, At
  <2>2. /\ tk.ran = task[t].ran /\ tk.active = task[t].active
        /\ tk.negotiated = task[t].negotiated /\ tk.pc \in ActingSteps
    BY <1>1, <2>1 DEF TaskType, ActingSteps
  <2> HIDE DEF tk
  <2> QED
    BY <1>3, <2>1, <2>2
<1>6. CASE StepExecuteContinue(t)
  <2> DEFINE tk == [task[t] EXCEPT !.sent = 0, !.called = TRUE]
  <2>1. task' = [task EXCEPT ![t] = tk] /\ task[t].pc = "execute"
    BY <1>6 DEF StepExecuteContinue, Step, At
  <2>2. /\ tk.ran = task[t].ran /\ tk.active = task[t].active
        /\ tk.negotiated = task[t].negotiated /\ tk.pc \in ActingSteps
    BY <1>1, <2>1 DEF TaskType, ActingSteps
  <2> HIDE DEF tk
  <2> QED
    BY <1>3, <2>1, <2>2
<1>7. CASE StepExecuteDecideNextStep(t)
  <2>1. task[t].pc = "execute"
    BY <1>7 DEF StepExecuteDecideNextStep, Step, At
  <2>2. PICK outcome \in OutcomesOf[Call[t]] :
           \/ task' = [task EXCEPT ![t] = [Goto(t, "sendCallResult") EXCEPT !.outcome = "error"]]
           \/ task' = [task EXCEPT ![t] = [Goto(t, "saveNewObject") EXCEPT !.outcome = outcome]]
    BY <1>7 DEF StepExecuteDecideNextStep, Step
  <2> DEFINE fails == [Goto(t, "sendCallResult") EXCEPT !.outcome = "error"]
             saves == [Goto(t, "saveNewObject") EXCEPT !.outcome = outcome]
  <2>3. /\ fails.ran = task[t].ran /\ fails.active = task[t].active
        /\ fails.negotiated = task[t].negotiated /\ fails.pc \in ActingSteps
        /\ saves.ran = task[t].ran /\ saves.active = task[t].active
        /\ saves.negotiated = task[t].negotiated /\ saves.pc \in ActingSteps
    BY <1>1 DEF Goto, TaskType, ActingSteps
  <2>4. task' = [task EXCEPT ![t] = fails] \/ task' = [task EXCEPT ![t] = saves]
    BY <2>2
  <2> HIDE DEF fails, saves
  <2> QED
    BY <1>3, <2>1, <2>3, <2>4
<1>8. CASE StepSendCallResult(t)
  <2>1. task[t].pc = "sendCallResult"
    BY <1>8 DEF StepSendCallResult, Step, At
  <2>2. PICK answer : task' = [task EXCEPT ![t] = [Goto(t, "finishRequest") EXCEPT !.answer = answer]]
    BY <1>8 DEF StepSendCallResult, Step
  <2> DEFINE tk == [Goto(t, "finishRequest") EXCEPT !.answer = answer]
  <2>3. /\ tk.ran = task[t].ran /\ tk.active = task[t].active
        /\ tk.negotiated = task[t].negotiated /\ tk.pc \in ActingSteps
    BY <1>1 DEF Goto, TaskType, ActingSteps
  <2> HIDE DEF tk
  <2> QED
    BY <1>3, <2>1, <2>2, <2>3 DEF tk
<1> QED
  BY <1>5, <1>6, <1>7, <1>8

(* stepSaveNewObject: a call that saves is in the working list, so the     *)
(* object is not missing.                                                  *)
LEMMA SaveNewObjectUse ==
    ASSUME ExecutorInv, OnceInv, UseInv, NEW t \in Tasks, StepSaveNewObject(t)
    PROVE  UseInv' /\ RegistriesStep
<1> DEFINE p == SlotOf[t]
           x == object[p]
<1>1. /\ TypeOK /\ task[t] \in TaskType /\ p \in Pulses /\ x \in ObjectType
      /\ TaskOK(task[t], NodeOf(t), p) /\ Call[t] \in Requests /\ FlagOf[Call[t]] \in Flags
      /\ p \in Nat
  BY TypeFacts, PulseFacts, CallFacts DEF ExecutorInv, LocalInv, TaskInv
<1>2. clock' = clock /\ msgs' = msgs /\ task[t].pc = "saveNewObject"
  BY DEF StepSaveNewObject, Step, At
<1>3. ~ task[t].migrated => x.state # "Missing"
  <2> SUFFICES ASSUME ~ task[t].migrated PROVE x.state # "Missing"
    OBVIOUS
  <2>1. task[t].active /\ task[t].negotiated /\ NodeOf(t) = p
    BY <1>1, <1>2 DEF TaskOK
  <2>2. Listed(x, Call[t])
    BY <1>2, <2>1 DEF ExecutorInv, LocalInv, KnownInv, Started
  <2>3. ~ NoKnown(x)
    BY <1>1, <2>2 DEF Listed, NoKnown, Entered
  <2>4. Live(p)
    BY <1>1, <2>1 DEF Live, NodeOf
  <2> QED
    BY <1>1, <2>3, <2>4 DEF UseInv, StaticInv, UnusedInv
<1>4. PICK new : \/ object' = object
                 \/ object' = [object EXCEPT ![p].dirty = new]
                 \/ object' = [object EXCEPT ![p] = SaveDescriptor(@, new)] /\ ~ task[t].migrated
  BY DEF StepSaveNewObject
<1>5. PICK tk : task' = [task EXCEPT ![t] = tk] /\ MachineKept(t, tk)
  <2>0. task[t].pc \notin Ended
    BY <1>2 DEF Ended
  <2>1. CASE task' = [task EXCEPT ![t] = EndTask(task[t], "dead")]
    BY <2>0, <2>1, EndUse DEF Ended
  <2>2. ASSUME NEW d, task' = [task EXCEPT ![t] = [Goto(t, "sendCallResult") EXCEPT !.new = d]]
        PROVE  \E tk : task' = [task EXCEPT ![t] = tk] /\ MachineKept(t, tk)
    <3> DEFINE tk == [Goto(t, "sendCallResult") EXCEPT !.new = d]
    <3>1. tk.ran = task[t].ran /\ tk.active = task[t].active /\ tk.pc = "sendCallResult"
          /\ tk.negotiated = task[t].negotiated
      BY <1>1 DEF Goto, TaskType
    <3> HIDE DEF tk
    <3>2. ~ FailsEarly(tk)
      BY <1>1, <1>2, <3>1 DEF TaskOK, FailsEarly
    <3>3. MachineKept(t, tk)
      BY <2>0, <3>1, <3>2, MoveUse DEF OwnSteps, ReadySteps
    <3> QED
      BY <2>2, <3>3 DEF tk
  <2> QED
    BY <2>1, <2>2 DEF StepSaveNewObject, Step
<1>6. \/ object' = object
      \/ \E o : object' = [object EXCEPT ![p] = o] /\ TablesKept(o, x)
  <2>1. CASE object' = [object EXCEPT ![p].dirty = new]
    <3> DEFINE o == [x EXCEPT !.dirty = new]
    <3>1. /\ o.known = x.known /\ o.results = x.results
          /\ o.pending = x.pending /\ o.state = x.state
      BY <1>1 DEF ObjectType
    <3>2. object' = [object EXCEPT ![p] = o]
      BY <1>1, <2>1
    <3> HIDE DEF o
    <3>3. TablesKept(o, x)
      BY <3>1 DEF TablesKept, StateKept
    <3> QED
      BY <3>2, <3>3
  <2>2. CASE object' = [object EXCEPT ![p] = SaveDescriptor(@, new)] /\ ~ task[t].migrated
    <3> DEFINE o == [x EXCEPT !.dirty = new, !.state = "HasState"]
    <3>1. /\ o.known = x.known /\ o.results = x.results
          /\ o.pending = x.pending /\ o.state = "HasState"
      BY <1>1 DEF ObjectType
    <3>2. object' = [object EXCEPT ![p] = o]
      BY <1>1, <2>2 DEF SaveDescriptor, TypeOK
    <3> HIDE DEF o
    <3>3. TablesKept(o, x)
      BY <1>3, <2>2, <3>1 DEF TablesKept, StateKept
    <3> QED
      BY <3>2, <3>3
  <2> QED
    BY <1>4, <2>1, <2>2
<1> QED
  BY <1>2, <1>5, <1>6, TaskUse

(* stepPublishDataCallSummary *)
LEMMA PublishDataCallSummaryUse ==
    ASSUME ExecutorInv, OnceInv, UseInv, NEW t \in Tasks, StepPublishDataCallSummary(t)
    PROVE  UseInv' /\ RegistriesStep
<1> DEFINE p == SlotOf[t]
           r == Call[t]
           x == object[p]
           o == [x EXCEPT !.summary[r] = "result"]
<1>1. /\ TypeOK /\ task[t] \in TaskType /\ p \in Pulses /\ x \in ObjectType
      /\ clock' = clock /\ msgs' = msgs /\ task[t].pc = "callSummary" /\ task[t].pc \notin Ended
  BY TypeFacts, PulseFacts
     DEF ExecutorInv, StepPublishDataCallSummary, Step, At, Ended
<1>2. /\ object' = object \/ object' = [object EXCEPT ![p].summary[r] = "result"]
      /\ \/ task' = [task EXCEPT ![t] = EndTask(task[t], "dead")]
         \/ task' = [task EXCEPT ![t] = Goto(t, "sendFinished")]
  BY DEF StepPublishDataCallSummary, Step
<1>3. PICK tk : task' = [task EXCEPT ![t] = tk] /\ MachineKept(t, tk)
  <2> DEFINE tk == Goto(t, "sendFinished")
  <2>1. tk.ran = task[t].ran /\ tk.active = task[t].active /\ tk.pc = "sendFinished"
    BY <1>1 DEF Goto, TaskType
  <2> HIDE DEF tk
  <2>2. MachineKept(t, tk)
    BY <1>1, <2>1, MoveUse DEF OwnSteps, ReadySteps, FailsEarly
  <2>3. MachineKept(t, EndTask(task[t], "dead"))
    BY <1>1, EndUse DEF Ended
  <2> QED
    BY <1>2, <2>2, <2>3 DEF tk
<1>4. CASE object' = [object EXCEPT ![p].summary[r] = "result"]
  <2>1. object' = [object EXCEPT ![p] = o]
    BY <1>1, <1>4
  <2>2. /\ o.pending = x.pending /\ o.state = x.state /\ o.known = x.known
        /\ o.results = x.results
    BY <1>1 DEF ObjectType
  <2> HIDE DEF o
  <2>3. TablesKept(o, x)
    BY <2>2 DEF TablesKept, StateKept
  <2> QED
    BY <1>1, <1>3, <2>1, <2>3, TaskUse
<1> QED
  BY <1>1, <1>2, <1>3, <1>4, TaskUse

(* The steps of SMObject *)
LEMMA ObjectStepsUse ==
    ASSUME ExecutorInv, OnceInv, UseInv, NEW p \in Pulses, ObjectStep(p)
    PROVE  UseInv' /\ RegistriesStep
<1> DEFINE x == object[p]
<1>1. TypeOK /\ x \in ObjectType
  BY TypeFacts DEF ExecutorInv
<1>2. /\ clock' = clock /\ task' = task
      /\ \A m \in msgs' : m \in msgs \/ m.type = "VStateReport"
  BY DEF ObjectStep, StepGetState, StepWaitState, StepPublishCallSummary, StepSendVStateReport,
         AnswerStateRequest, Posted, StateReportTo
<1>3. ASSUME NEW o, object' = [object EXCEPT ![p] = o], o.known = x.known,
             o.results = x.results, o.pending = x.pending, o.state = x.state
      PROVE  UseInv' /\ RegistriesStep
  BY <1>2, <1>3, ObjectUse DEF TablesKept, StateKept
<1>4. CASE StepGetState(p) \/ StepWaitState(p)
  <2>1. PICK o : /\ object' = [object EXCEPT ![p] = o]
                 /\ \/ o = GotState(x)
                    \/ o = [x EXCEPT !.phase = "waitState", !.asked = TRUE]
                    \/ o = [x EXCEPT !.phase = "asleep"]
    BY <1>1, <1>4 DEF StepGetState, StepWaitState, TypeOK
  <2>2. /\ o.known = x.known /\ o.results = x.results /\ o.pending = x.pending
        /\ o.state = x.state
    <3>1. CASE o = GotState(x)
      BY <1>1, <3>1 DEF GotState, OpenPaths, ObjectType
    <3>2. CASE \/ o = [x EXCEPT !.phase = "waitState", !.asked = TRUE]
               \/ o = [x EXCEPT !.phase = "asleep"]
      BY <1>1, <3>2 DEF ObjectType
    <3> QED
      BY <2>1, <3>1, <3>2
  <2> QED
    BY <1>3, <2>1, <2>2
<1>5. CASE StepPublishCallSummary(p)
  <2> DEFINE o == [x EXCEPT !.phase = "finalize", !.summary = x.results]
  <2>1. object' = [object EXCEPT ![p] = o]
    BY <1>1, <1>5 DEF StepPublishCallSummary
  <2>2. /\ o.known = x.known /\ o.results = x.results /\ o.pending = x.pending
        /\ o.state = x.state
    BY <1>1 DEF ObjectType
  <2> HIDE DEF o
  <2> QED
    BY <1>3, <2>1, <2>2
<1>6. CASE StepSendVStateReport(p)
  <2> DEFINE o == [x EXCEPT !.phase = "sent"]
  <2>1. object' = [object EXCEPT ![p] = o]
    BY <1>1, <1>6 DEF StepSendVStateReport
  <2>2. /\ o.known = x.known /\ o.results = x.results /\ o.pending = x.pending
        /\ o.state = x.state
    BY <1>1 DEF ObjectType
  <2> HIDE DEF o
  <2> QED
    BY <1>3, <2>1, <2>2
<1>7. CASE AnswerStateRequest(p)
  <2> DEFINE o == [x EXCEPT !.asked = FALSE]
  <2>1. object' = [object EXCEPT ![p] = o]
    BY <1>1, <1>7 DEF AnswerStateRequest
  <2>2. /\ o.known = x.known /\ o.results = x.results /\ o.pending = x.pending
        /\ o.state = x.state
    BY <1>1 DEF ObjectType
  <2> HIDE DEF o
  <2> QED
    BY <1>3, <2>1, <2>2
<1> QED
  BY <1>4, <1>5, <1>6, <1>7 DEF ObjectStep

(* GetOrCreate finds the object or creates one with empty tables. *)
LEMMA CreatedTables ==
    ASSUME ExecutorInv, NEW p \in Pulses
    PROVE  LET o == GetOrCreate(p) IN
           o \in ObjectType /\ TablesKept(o, object[p]) /\ o.state = object[p].state
<1> DEFINE o == GetOrCreate(p)
<1>1. /\ o \in ObjectType /\ o.known = object[p].known /\ o.results = object[p].results
      /\ o.state = object[p].state
  BY CreatedEntries
<1>2. o.pending = object[p].pending
  BY GetOrCreateFacts
<1> HIDE DEF o
<1> QED
  BY <1>1, <1>2 DEF TablesKept, StateKept, o

(* stepGetObject of a method *)
LEMMA GetObjectUse ==
    ASSUME ExecutorInv, OnceInv, UseInv, RepeatedSoon, NEW t \in Tasks, StepGetObject(t)
    PROVE  UseInv' /\ RegistriesStep
<1> DEFINE p == SlotOf[t]
           o == GetOrCreate(p)
           tk == Goto(t, "waitObjectReady")
<1>1. TypeOK /\ task[t] \in TaskType /\ p \in Pulses /\ Call[t] \notin Constructors
  BY TypeFacts, PulseFacts DEF ExecutorInv, RepeatedSoon
<1>2. TablesKept(o, object[p])
  BY <1>1, CreatedTables
<1>3. object' = [object EXCEPT ![p] = o]
  BY <1>1 DEF StepGetObject
<1>4. /\ clock' = clock /\ msgs' = msgs /\ task' = [task EXCEPT ![t] = tk]
      /\ task[t].pc \notin Ended
  BY DEF StepGetObject, Step, At, Ended
<1>5. tk.ran = task[t].ran /\ tk.active = task[t].active /\ tk.pc = "waitObjectReady"
  BY <1>1 DEF Goto, TaskType
<1> HIDE DEF tk, o
<1>6. MachineKept(t, tk)
  BY <1>4, <1>5, MoveUse DEF OwnSteps, ReadySteps, FailsEarly
<1> QED
  BY <1>2, <1>3, <1>4, <1>6, TaskUse

(* The methods of the lists are those of the registry. *)
LEMMA RegistryMethods ==
    ASSUME NEW p \in Pulses, NEW rl, NEW r
    PROVE  /\ Registry(p)!NewList = NewList
           /\ Registry(p)!WorkingAdd(rl, r) = WorkingAdd(rl, r)
           /\ Registry(p)!WorkingSetActive(rl, r) = WorkingSetActive(rl, r)
           /\ Registry(p)!CanSetActive(rl, r) <=> CanSetActive(rl, r)
           /\ Registry(p)!WorkingFinish(rl, r) = WorkingFinish(rl, r)
           /\ Registry(p)!CanFinish(rl, r) <=> CanFinish(rl, r)
           /\ Registry(p)!PendingAdd(rl, r) = PendingAdd(rl, r)
           /\ Registry(p)!PendingFinish(rl, r) = PendingFinish(rl, r)
BY DEF Registry!NewList, NewList, Registry!UnknownPulse, UnknownPulse,
  Registry!WorkingAdd, WorkingAdd, Registry!CanAdd, CanAdd, Registry!WorkingSetActive, WorkingSetActive,
  Registry!CanSetActive, CanSetActive, Registry!WorkingFinish, WorkingFinish, Registry!CanFinish, CanFinish,
  Registry!PendingAdd, PendingAdd, Registry!PendingFinish, PendingFinish, Registry!Exist, Exist,
  Registry!ListActivity, ListActivity, Registry!DelistActivity, DelistActivity, Registry!MinActivePulse, MinActivePulse

(* A step of the registry on one executor *)
LEMMA OneRegistry ==
    ASSUME TypeOK, NEW p \in Pulses, NEW o, object' = [object EXCEPT ![p] = o], NEW r \in Requests,
           \/ /\ o.known = [object[p].known EXCEPT ![FlagOf[r]] = WorkingAdd(@, r)]
              /\ o.results = object[p].results /\ o.pending = object[p].pending
           \/ /\ CanSetActive(object[p].known[FlagOf[r]], r)
              /\ o.known = [object[p].known EXCEPT ![FlagOf[r]] = WorkingSetActive(@, r)]
              /\ o.results = [object[p].results EXCEPT ![r] = "empty"]
              /\ o.pending = object[p].pending
           \/ /\ CanFinish(object[p].known[FlagOf[r]], r)
              /\ object[p].known[FlagOf[r]].requests[r] # "Started"
              /\ o.known = [object[p].known EXCEPT ![FlagOf[r]] = WorkingFinish(@, r)]
              /\ o.results = [object[p].results EXCEPT ![r] = "result"]
              /\ o.pending = object[p].pending
           \/ /\ o.pending = [object[p].pending EXCEPT ![FlagOf[r]] = PendingAdd(@, r)]
              /\ o.known = object[p].known /\ o.results = object[p].results
           \/ /\ object[p].pending[FlagOf[r]].requests[r] # "Finished"
              /\ o.pending = [object[p].pending EXCEPT ![FlagOf[r]] = PendingFinish(@, r)]
              /\ o.known = object[p].known /\ o.results = object[p].results
    PROVE  RegistriesStep
<1>1. object'[p] = o /\ \A q \in Pulses : q # p => object'[q] = object[q]
  BY DEF TypeOK
<1>2. Registry(p)!Next
  <2>1. \/ Registry(p)!Add(r) \/ Registry(p)!SetActive(r) \/ Registry(p)!Finish(r)
        \/ Registry(p)!AddPending(r) \/ Registry(p)!FinishPending(r)
    BY <1>1, RegistryMethods
       DEF Registry!Add, Registry!SetActive, Registry!Finish, Registry!AddPending,
           Registry!FinishPending
  <2> QED
    BY <2>1 DEF Registry!Next
<1> QED
  BY <1>1, <1>2 DEF RegistriesStep

(* Lists change in the entry of one request r, in the queue f. *)
ListSet(lists, old, f, r) ==
    /\ ListConsistent(lists[f])
    /\ \A g \in Flags : g # f => lists[g] = old[g]
    /\ \A q \in Requests : q # r => lists[f].requests[q] = old[f].requests[q]
ResultSet(o, x, f, r) ==
    /\ \A q \in Requests : q # r => o.results[q] = x.results[q]
    /\ o.known[f].requests[r] \in {"Processing", "Finished"} => o.results[r] # "none"

LEMMA KnownTable ==
    ASSUME NEW p \in Pulses, NEW x, TableOK(x, p), NEW r \in Requests, PulseOf[r] <= p,
           NEW f, f = FlagOf[r], NEW o, o.pending = x.pending,
           ListSet(o.known, x.known, f, r), ResultSet(o, x, f, r)
    PROVE  TableOK(o, p)
<1>1. f \in Flags /\ \A q \in Requests : FlagOf[q] \in Flags
  BY CallFacts
<1>2. /\ \A g \in Flags : g # f => o.known[g] = x.known[g]
      /\ \A q \in Requests : q # r => o.known[f].requests[q] = x.known[f].requests[q]
      /\ \A q \in Requests : q # r => o.results[q] = x.results[q]
      /\ o.known[f].requests[r] \in {"Processing", "Finished"} => o.results[r] # "none"
      /\ ListConsistent(o.known[f])
  BY DEF ListSet, ResultSet
<1>3. \A g \in Flags : ListConsistent(o.known[g]) /\ ListConsistent(o.pending[g])
  BY <1>2 DEF TableOK
<1>4. \A g \in Flags, q \in Requests :
         Entered(o.known[g], q) => FlagOf[q] = g /\ PulseOf[q] <= p
  <2> SUFFICES ASSUME NEW g \in Flags, NEW q \in Requests, Entered(o.known[g], q)
               PROVE  FlagOf[q] = g /\ PulseOf[q] <= p
    OBVIOUS
  <2>1. CASE g = f /\ q = r
    BY <2>1
  <2>2. CASE g = f /\ q # r
    BY <1>2, <2>2 DEF TableOK, Entered
  <2>3. CASE g # f
    BY <1>2, <2>3 DEF TableOK, Entered
  <2> QED
    BY <2>1, <2>2, <2>3
<1>5. \A q \in Requests : Listed(o, q) => o.results[q] # "none"
  <2> SUFFICES ASSUME NEW q \in Requests, Listed(o, q) PROVE o.results[q] # "none"
    OBVIOUS
  <2>1. CASE q = r
    BY <1>2, <2>1 DEF Listed
  <2>2. CASE q # r
    <3>1. Listed(x, q)
      <4>1. CASE FlagOf[q] = f
        BY <1>2, <2>2, <4>1 DEF Listed
      <4>2. CASE FlagOf[q] # f
        BY <1>1, <1>2, <4>2 DEF Listed
      <4> QED
        BY <4>1, <4>2
    <3> QED
      BY <1>2, <2>2, <3>1 DEF TableOK
  <2> QED
    BY <2>1, <2>2
<1> QED
  BY <1>3, <1>4, <1>5 DEF TableOK

(* The same for a pending list *)
LEMMA PendingTable ==
    ASSUME NEW p \in Pulses, NEW x, TableOK(x, p), NEW r \in Requests, PulseOf[r] <= p,
           NEW f, f = FlagOf[r], NEW o, o.known = x.known, o.results = x.results,
           ListSet(o.pending, x.pending, f, r), o.pending[f].requests[r] # "Started"
    PROVE  TableOK(o, p)
<1>1. f \in Flags
  BY CallFacts
<1>2. /\ \A g \in Flags : g # f => o.pending[g] = x.pending[g]
      /\ \A q \in Requests : q # r => o.pending[f].requests[q] = x.pending[f].requests[q]
      /\ ListConsistent(o.pending[f])
  BY DEF ListSet
<1>3. \A g \in Flags : ListConsistent(o.known[g]) /\ ListConsistent(o.pending[g])
  BY <1>2 DEF TableOK
<1>4. \A g \in Flags, q \in Requests :
         Entered(o.pending[g], q) => PulseOf[q] <= p /\ o.pending[g].requests[q] # "Started"
  <2> SUFFICES ASSUME NEW g \in Flags, NEW q \in Requests, Entered(o.pending[g], q)
               PROVE  PulseOf[q] <= p /\ o.pending[g].requests[q] # "Started"
    OBVIOUS
  <2>0. CASE g = f /\ q = r
    BY <1>2, <2>0
  <2>1. CASE g = f /\ q # r
    BY <1>2, <2>1 DEF TableOK, Entered
  <2>2. CASE g # f
    BY <1>2, <2>2 DEF TableOK, Entered
  <2> QED
    BY <2>0, <2>1, <2>2
<1> QED
  BY <1>3, <1>4 DEF TableOK, Listed

(* A step of the machine of task t on the working list of its call *)
LEMMA KnownUse ==
    ASSUME ExecutorInv, OnceInv, UseInv, clock' = clock, msgs' = msgs, NEW t \in Tasks, NEW tk,
           task' = [task EXCEPT ![t] = tk], MachineKept(t, tk), NEW o,
           object' = [object EXCEPT ![SlotOf[t]] = o], TableOK(o, SlotOf[t]),
           o.state = object[SlotOf[t]].state, o.pending = object[SlotOf[t]].pending,
           object[SlotOf[t]].state \in {"Unknown", "Missing"} => ~ NoKnown(object[SlotOf[t]])
    PROVE  UseInv'
<1> DEFINE p == SlotOf[t]
<1>1. TypeOK /\ p \in Pulses /\ StaticInv /\ EndsInv
  BY PulseFacts DEF ExecutorInv, UseInv
<1>2. /\ task'[t] = tk /\ \A u \in Tasks : u # t => task'[u] = task[u]
      /\ object'[p] = o /\ \A q \in Pulses : q # p => object'[q] = object[q]
  BY <1>1 DEF TypeOK
<1>3. StaticInv'
  <2>1. StateKept(o, object[p])
    BY DEF StateKept
  <2> QED
    BY <1>1, <1>2, <2>1, StaticStep
<1>4. EndsInv'
  <2>1. \A q \in Pulses : NothingEnds(object'[q], object[q])
    BY <1>2 DEF NothingEnds
  <2>2. \A u \in Tasks : EndedRun(u) => task'[u] = task[u]
    BY <1>2 DEF MachineKept
  <2> QED
    BY <1>1, <2>1, <2>2, EndsStep
<1> QED
  BY <1>3, <1>4 DEF UseInv

(* stepDeduplicate: WorkingTable.Add *)
LEMMA DeduplicateUse ==
    ASSUME ExecutorInv, OnceInv, UseInv, NEW t \in Tasks, StepDeduplicate(t)
    PROVE  UseInv' /\ RegistriesStep
<1> DEFINE p == SlotOf[t]
           r == Call[t]
           f == FlagOf[r]
           x == object[p]
           list == WorkingAdd(x.known[f], r)
           o == [x EXCEPT !.known[f] = list]
<1>1. TypeOK /\ task[t].pc = "deduplicate" /\ clock' = clock /\ msgs' = msgs
  BY DEF ExecutorInv, StepDeduplicate, Step, At
<1>2. /\ NodeOf(t) = p /\ p \in Pulses /\ x \in ObjectType
      /\ task[t] \in TaskType /\ r \in Requests /\ f \in Flags
  BY <1>1, EarlyNode DEF EarlySteps
<1>3. object' = [object EXCEPT ![p] = o]
  <2>1. object' = [object EXCEPT ![p].known[f] = list]
    BY DEF StepDeduplicate, ObjectOf
  <2> HIDE DEF list
  <2> QED
    BY <1>1, <1>2, <2>1
<1>4. TableOK(x, p) /\ x.state \notin {"Unknown", "Missing"}
  <2>1. task[t].pc \in ReadySteps
    BY <1>1 DEF ReadySteps
  <2> QED
    BY <1>2, <2>1 DEF UseInv, StaticInv, TablesInv, MachineInv, OnceInv, ReadyInv
<1>5. /\ ListConsistent(list) /\ x.known[f] \in ListType
      /\ list.requests = IF CanAdd(x.known[f], r)
                         THEN [x.known[f].requests EXCEPT ![r] = "Started"]
                         ELSE x.known[f].requests
      /\ x.known[f].requests \in [Requests -> RequestState]
  <2>1. x.known[f] \in ListType /\ ListConsistent(x.known[f])
    BY <1>2, <1>4 DEF ObjectType, TableOK
  <2> QED
    BY <1>2, <2>1, MethodsSetState, MethodsKeepConsistency DEF ListType
<1>6. o.known = [x.known EXCEPT ![f] = WorkingAdd(@, r)]
  BY <1>2 DEF ObjectType
<1> HIDE DEF list
<1>7. /\ o.state = x.state /\ o.results = x.results /\ o.pending = x.pending
      /\ o.known = [x.known EXCEPT ![f] = list]
  BY <1>2 DEF ObjectType
<1> HIDE DEF o
<1>8. TableOK(o, p)
  <2>1. \A q \in Requests : q # r => list.requests[q] = x.known[f].requests[q]
    BY <1>2, <1>5
  <2>2. list.requests[r] \in {"Processing", "Finished"} => o.results[r] # "none"
    BY <1>2, <1>4, <1>5, <1>7 DEF TableOK, Listed
  <2>3. PulseOf[r] <= p
    BY TasksAssumption
  <2>4. o.known[f] = list /\ \A g \in Flags : g # f => o.known[g] = x.known[g]
    BY <1>2, <1>7 DEF ObjectType
  <2>5. ListSet(o.known, x.known, f, r) /\ ResultSet(o, x, f, r)
    BY <1>5, <1>7, <2>1, <2>2, <2>4 DEF ListSet, ResultSet
  <2> QED
    BY <1>2, <1>4, <1>7, <2>3, <2>5, KnownTable
<1>9. RegistriesStep
  BY <1>1, <1>2, <1>3, <1>6, <1>7, OneRegistry
<1>10. PICK tk : task' = [task EXCEPT ![t] = tk] /\ MachineKept(t, tk)
  <2>1. task[t].pc \notin Ended /\ task[t].pc \in ReadySteps
    BY <1>1 DEF Ended, ReadySteps
  <2>2. \/ \E y : \E pc \in Ended : task' = [task EXCEPT ![t] = EndTask(y, pc)]
        \/ task' = [task EXCEPT ![t] = Goto(t, "takeLock")]
        \/ \E b : task' = [task EXCEPT ![t] = [Goto(t, "waitFindCall") EXCEPT !.settled = b]]
    <3>1. DeduplicationAction(t) \in {"ContinueExecute", "Stop", "NotImplemented",
                                      "DeduplicateThroughPreviousExecutor"}
      BY DEF DeduplicationAction
    <3>2. "deduplicated" \in Ended /\ "dead" \in Ended
      BY DEF Ended
    <3> QED
      BY <3>1, <3>2 DEF StepDeduplicate, Step, ObjectOf
  <2>3. ASSUME NEW tk, tk.ran = task[t].ran, tk.active = task[t].active,
               tk.pc \in {"takeLock", "waitFindCall"}
        PROVE  MachineKept(t, tk)
    BY <2>1, <2>3, MoveUse DEF FailsEarly
  <2>4. CASE task' = [task EXCEPT ![t] = Goto(t, "takeLock")]
    <3> DEFINE tk == Goto(t, "takeLock")
    <3>1. tk.ran = task[t].ran /\ tk.active = task[t].active /\ tk.pc = "takeLock"
      BY <1>2 DEF Goto, TaskType
    <3> HIDE DEF tk
    <3> QED
      BY <2>3, <2>4, <3>1 DEF tk
  <2>5. ASSUME NEW b, task' = [task EXCEPT ![t] = [Goto(t, "waitFindCall") EXCEPT !.settled = b]]
        PROVE  \E tk : task' = [task EXCEPT ![t] = tk] /\ MachineKept(t, tk)
    <3> DEFINE tk == [Goto(t, "waitFindCall") EXCEPT !.settled = b]
    <3>1. tk.ran = task[t].ran /\ tk.active = task[t].active /\ tk.pc = "waitFindCall"
      BY <1>2 DEF Goto, TaskType
    <3> HIDE DEF tk
    <3> QED
      BY <2>3, <2>5, <3>1 DEF tk
  <2> QED
    BY <2>1, <2>2, <2>4, <2>5, EndUse
<1>11. UseInv'
  BY <1>1, <1>3, <1>4, <1>7, <1>8, <1>10, KnownUse
<1> QED
  BY <1>9, <1>11

(* stepStartRequestProcessing: WorkingTable.SetActive *)
LEMMA StartUse ==
    ASSUME ExecutorInv, OnceInv, UseInv, NEW t \in Tasks, StepStartRequestProcessing(t)
    PROVE  UseInv' /\ RegistriesStep
<1> DEFINE p == SlotOf[t]
           r == Call[t]
           f == FlagOf[r]
           x == object[p]
           ok == CanSetActive(x.known[f], r)
           deactivated == IsDeactivated(x)
           panic == ~ ok \/ (~ deactivated /\ ~ x.dirty.has)
           list == WorkingSetActive(x.known[f], r)
           o == [x EXCEPT !.known[f] = list, !.results[r] = "empty"]
           run == [Goto(t, "execute") EXCEPT !.active = TRUE, !.ran = TRUE, !.base = x.dirty.memory]
           refuse == [Goto(t, "sendCallResult") EXCEPT !.outcome = "error"]
<1>1. TypeOK /\ task[t].pc = "start" /\ clock' = clock /\ msgs' = msgs
  BY DEF ExecutorInv, StepStartRequestProcessing, Step, At
<1>2. /\ NodeOf(t) = p /\ p \in Pulses /\ x \in ObjectType
      /\ task[t] \in TaskType /\ r \in Requests /\ f \in Flags
  BY <1>1, EarlyNode DEF EarlySteps
<1>3. /\ object' = IF ok THEN [object EXCEPT ![p] = KnownSetActive(x, r)] ELSE object
      /\ task' = [task EXCEPT ![t] = IF panic THEN EndTask(task[t], "dead")
                                     ELSE IF deactivated THEN refuse ELSE run]
  BY <1>1, <1>2 DEF StepStartRequestProcessing, Step, ObjectOf, TypeOK
<1>4. KnownSetActive(x, r) = o
  BY <1>2 DEF KnownSetActive, ObjectType
<1>5. TableOK(x, p) /\ x.state \notin {"Unknown", "Missing"}
  <2>1. task[t].pc \in ReadySteps
    BY <1>1 DEF ReadySteps, OwnSteps
  <2> QED
    BY <1>2, <2>1 DEF UseInv, StaticInv, TablesInv, MachineInv, OnceInv, ReadyInv
<1>6. /\ ListConsistent(list)
      /\ list.requests = IF ok THEN [x.known[f].requests EXCEPT ![r] = "Processing"]
                         ELSE x.known[f].requests
      /\ x.known[f].requests \in [Requests -> RequestState]
      /\ x.results \in [Requests -> CallSummary]
  <2>1. x.known[f] \in ListType /\ ListConsistent(x.known[f]) /\ x.results \in [Requests -> CallSummary]
    BY <1>2, <1>5 DEF ObjectType, TableOK
  <2> QED
    BY <1>2, <2>1, MethodsSetState, MethodsKeepConsistency DEF ListType
<1>7. o.known = [x.known EXCEPT ![f] = WorkingSetActive(@, r)]
  BY <1>2 DEF ObjectType
<1> HIDE DEF list
<1>8. /\ o.state = x.state /\ o.pending = x.pending
      /\ o.known = [x.known EXCEPT ![f] = list]
      /\ o.results = [x.results EXCEPT ![r] = "empty"]
  BY <1>2 DEF ObjectType
<1>9. /\ run.pc = "execute" /\ run.ran
      /\ refuse.pc = "sendCallResult" /\ refuse.ran = task[t].ran
      /\ refuse.active = task[t].active /\ refuse.negotiated = task[t].negotiated
  BY <1>2 DEF Goto, TaskType
<1> HIDE DEF o, ok, panic, deactivated, run, refuse
<1>10. PICK tk : task' = [task EXCEPT ![t] = tk] /\ MachineKept(t, tk)
  <2>1. task[t].pc \notin Ended /\ task[t].negotiated
    <3>1. TaskOK(task[t], NodeOf(t), p)
      BY DEF ExecutorInv, LocalInv, TaskInv
    <3> QED
      BY <1>1, <3>1 DEF Ended, TaskOK, EarlySteps
  <2>2. MachineKept(t, EndTask(task[t], "dead"))
    BY <2>1, EndUse DEF Ended
  <2>3. MachineKept(t, refuse)
    BY <1>9, <2>1, MoveUse DEF FailsEarly, ReadySteps, OwnSteps
  <2>4. MachineKept(t, run)
    BY <1>9, <2>1 DEF MachineKept, EndedRun, FailsEarly, ReadySteps, OwnSteps
  <2> QED
    BY <1>3, <2>2, <2>3, <2>4
<1>11. CASE ~ ok
  BY <1>1, <1>3, <1>10, <1>11, TaskUse
<1>12. CASE ok
  <2>1. object' = [object EXCEPT ![p] = o]
    BY <1>3, <1>4, <1>12
  <2>2. TableOK(o, p)
    <3>1. \A q \in Requests : q # r => list.requests[q] = x.known[f].requests[q]
      BY <1>2, <1>6
    <3>2. o.results[r] # "none" /\ \A q \in Requests : q # r => o.results[q] = x.results[q]
      BY <1>2, <1>6, <1>8
    <3>3. PulseOf[r] <= p
      BY TasksAssumption
    <3>4. o.known[f] = list /\ \A g \in Flags : g # f => o.known[g] = x.known[g]
      BY <1>2, <1>8 DEF ObjectType
    <3>5. ListSet(o.known, x.known, f, r) /\ ResultSet(o, x, f, r)
      BY <1>6, <3>1, <3>2, <3>4 DEF ListSet, ResultSet
    <3> QED
      BY <1>2, <1>5, <1>8, <3>3, <3>5, KnownTable
  <2>3. RegistriesStep
    BY <1>1, <1>2, <1>7, <1>8, <1>12, <2>1, OneRegistry DEF ok
  <2>4. UseInv'
    BY <1>1, <1>5, <1>8, <1>10, <2>1, <2>2, KnownUse
  <2> QED
    BY <2>3, <2>4
<1> QED
  BY <1>11, <1>12

(* stepFinishRequest: WorkingTable.Finish, of a request that is active *)
LEMMA FinishRequestUse ==
    ASSUME ExecutorInv, OnceInv, UseInv, NEW t \in Tasks, StepFinishRequest(t)
    PROVE  UseInv' /\ RegistriesStep
<1> DEFINE p == SlotOf[t]
           r == Call[t]
           x == object[p]
           f == IF task[t].negotiated THEN FlagOf[r] ELSE CallFlag[r]
           finishes == ~ task[t].migrated /\ CanFinish(x.known[f], r)
           panic == finishes /\ x.results[r] = "none"
           list == WorkingFinish(x.known[f], r)
           result == IF panic THEN x.results[r] ELSE "result"
           o == [x EXCEPT !.known[f] = list, !.results[r] = result]
<1>1. /\ TypeOK /\ task[t] \in TaskType /\ p \in Pulses /\ x \in ObjectType
      /\ r \in Requests /\ f \in Flags /\ clock' = clock /\ msgs' = msgs
      /\ task[t].pc = "finishRequest" /\ p \in Nat /\ TableOK(x, p)
      /\ TaskOK(task[t], NodeOf(t), p)
  BY TypeFacts, PulseFacts, CallFacts
     DEF ExecutorInv, StepFinishRequest, Step, At, UseInv, StaticInv, TablesInv, LocalInv, TaskInv
<1>2. /\ object' = IF ~ finishes THEN object
                   ELSE [object EXCEPT ![p].known[f] = list, ![p].results[r] = result]
      /\ task' = [task EXCEPT ![t] = IF task[t].migrated THEN Goto(t, "callSummary")
                                     ELSE EndTask(task[t], IF panic THEN "dead" ELSE "done")]
  BY <1>1 DEF StepFinishRequest, Step, ObjectOf, TypeOK
<1>3. PICK tk : task' = [task EXCEPT ![t] = tk] /\ MachineKept(t, tk)
  <2>0. task[t].pc \notin Ended
    BY <1>1 DEF Ended
  <2>1. CASE task[t].migrated
    <3> DEFINE tk == Goto(t, "callSummary")
    <3>1. tk.ran = task[t].ran /\ tk.active = task[t].active /\ tk.pc = "callSummary"
      BY <1>1 DEF Goto, TaskType
    <3>2. task' = [task EXCEPT ![t] = tk]
      BY <1>2, <2>1
    <3> HIDE DEF tk
    <3>3. MachineKept(t, tk)
      BY <2>0, <3>1, MoveUse DEF OwnSteps, ReadySteps, FailsEarly
    <3> QED
      BY <3>2, <3>3
  <2>2. CASE ~ task[t].migrated
    <3>1. PICK pc \in Ended : task' = [task EXCEPT ![t] = EndTask(task[t], pc)]
      BY <1>2, <2>2 DEF Ended
    <3> QED
      BY <2>0, <3>1, EndUse
  <2> QED
    BY <2>1, <2>2
<1>4. CASE ~ finishes
  <2> HIDE DEF finishes, list, result
  <2> QED
    BY <1>1, <1>2, <1>3, <1>4, TaskUse
<1>5. CASE finishes
  <2>1. Entered(x.known[f], r) /\ f = FlagOf[r] /\ ~ NoKnown(x)
    <3>1. Entered(x.known[f], r)
      BY <1>5 DEF CanFinish, Entered
    <3> HIDE DEF f
    <3> QED
      BY <1>1, <3>1 DEF TableOK, NoKnown
  <2>2. task[t].negotiated
    <3> SUFFICES ASSUME ~ task[t].negotiated PROVE FALSE
      OBVIOUS
    <3>1. f = CallFlag[r] /\ FailsEarly(task[t])
      BY <1>1 DEF FailsEarly
    <3>2. ~ NegotiationFails(r)
      BY <2>1, <3>1 DEF NegotiationFails, FlagOf, Tolerable, Intolerable
    <3>3. x.state = "Missing"
      BY <3>1, <3>2 DEF UseInv, StaticInv, MachineInv
    <3>4. NodeOf(t) = p
      BY <1>1 DEF TaskOK, Ended
    <3>5. Live(p)
      BY <1>1, <3>4 DEF Live, NodeOf
    <3> QED
      BY <1>1, <2>1, <3>3, <3>5 DEF UseInv, StaticInv, UnusedInv
  <2>3. Listed(x, r)
    BY <1>1, <1>5, <2>2 DEF ExecutorInv, LocalInv, KnownInv, Started
  <2>4. x.known[f].requests[r] # "Started" /\ x.results[r] # "none" /\ result = "result"
    <3>1. x.known[f].requests[r] # "Started"
      BY <2>1, <2>3 DEF Listed
    <3>2. x.results[r] # "none"
      BY <1>1, <2>3 DEF TableOK
    <3> QED
      BY <3>1, <3>2
  <2>5. /\ ListConsistent(list)
        /\ \A q \in Requests : q # r => list.requests[q] = x.known[f].requests[q]
    <3>1. x.known[f] \in ListType /\ ListConsistent(x.known[f])
      BY <1>1 DEF ObjectType, TableOK
    <3>2. list.requests = IF CanFinish(x.known[f], r)
                          THEN [x.known[f].requests EXCEPT ![r] = "Finished"]
                          ELSE x.known[f].requests
      BY <1>1, <3>1, MethodsSetState
    <3>3. x.known[f].requests \in [Requests -> RequestState]
      BY <3>1 DEF ListType
    <3> HIDE DEF list, f
    <3>4. ListConsistent(list)
      BY <1>1, <2>4, <3>1, MethodsKeepConsistency DEF list
    <3> QED
      BY <1>1, <3>2, <3>3, <3>4
  <2> HIDE DEF result, finishes
  <2>6. o.known = [x.known EXCEPT ![f] = WorkingFinish(@, r)]
    BY <1>1 DEF ObjectType
  <2> HIDE DEF list
  <2>7. object' = [object EXCEPT ![p] = o]
    <3> HIDE DEF f
    <3> QED
      BY <1>1, <1>2, <1>5
  <2> HIDE DEF f
  <2>8. /\ o.state = x.state /\ o.pending = x.pending
        /\ o.known = [x.known EXCEPT ![f] = list]
        /\ o.results = [x.results EXCEPT ![r] = "result"]
    BY <1>1, <2>4 DEF ObjectType
  <2> HIDE DEF o
  <2>9. x.results \in [Requests -> CallSummary]
    BY <1>1 DEF ObjectType
  <2>10. TableOK(o, p)
    <3>1. o.results[r] # "none" /\ \A q \in Requests : q # r => o.results[q] = x.results[q]
      BY <1>1, <2>8, <2>9
    <3>2. PulseOf[r] <= p
      BY TasksAssumption
    <3>3. o.known[f] = list /\ \A g \in Flags : g # f => o.known[g] = x.known[g]
      BY <1>1, <2>8 DEF ObjectType
    <3>4. ListSet(o.known, x.known, f, r) /\ ResultSet(o, x, f, r)
      BY <2>5, <3>1, <3>3 DEF ListSet, ResultSet
    <3> QED
      BY <1>1, <2>1, <2>8, <3>2, <3>4, KnownTable
  <2>11. CanFinish(x.known[FlagOf[r]], r)
    BY <1>5, <2>1 DEF finishes
  <2>12. RegistriesStep
    BY <1>1, <2>1, <2>4, <2>6, <2>7, <2>8, <2>11, OneRegistry
  <2>13. UseInv'
    BY <1>1, <1>3, <2>1, <2>7, <2>8, <2>10, KnownUse
  <2> QED
    BY <2>12, <2>13
<1> QED
  BY <1>4, <1>5

(* A delegated call tells the executor of its end.  It has told nobody     *)
(* before, and there is no other machine that has run this call.           *)
LEMMA DelegatedEndsUse ==
    ASSUME ExecutorInv, OnceInv, UseInv, RepeatedSoon, NEW t \in Tasks, task[t].active,
           task[t].pc \notin Ended, NEW x, x.ran = task[t].ran, NEW pc \in Ended, NEW latest,
           clock' = clock, object' = object, task' = [task EXCEPT ![t] = EndTask(x, pc)],
           msgs' = msgs \cup Posted({DelegatedRequestFinished(NodeOf(t), t, latest)})
    PROVE  UseInv' /\ RegistriesStep
<1> DEFINE m == DelegatedRequestFinished(NodeOf(t), t, latest)
<1>1. /\ TypeOK /\ StaticInv /\ EndsInv /\ AtMostOnce /\ NodeOf(t) \in Pulses
      /\ Call[t] \in Requests
  BY SoonRunOnce, InvMethodsOnce, TypeFacts, CallFacts DEF ExecutorInv, UseInv
<1>2. /\ m.type = "VDelegatedRequestFinished" /\ m.task = t /\ m.to = NodeOf(t)
      /\ m.type # "VDelegatedCallRequest"
  BY DEF DelegatedRequestFinished
<1>3. \A n \in msgs' : n \in msgs \/ n = m
  BY DEF Posted
<1> HIDE DEF m
<1>4. EndTask(x, pc).ran = task[t].ran /\ EndTask(x, pc).pc = pc
  BY DEF EndTask, IdleTask
<1>5. /\ task'[t].ran = task[t].ran /\ task'[t].pc \in Ended
      /\ task'[t] = EndTask(x, pc) /\ \A u \in Tasks : u # t => task'[u] = task[u]
  BY <1>1, <1>4 DEF TypeOK
<1>6. task[t].ran /\ ~ EndedRun(t) /\ EndedRun(t)'
  BY <1>1, <1>5 DEF StaticInv, MachineInv, EndedRun
<1>7. StaticInv'
  <2>1. MachineKept(t, task'[t])
    BY <1>5, EndUse
  <2> QED
    BY <1>1, <1>2, <1>3, <1>5, <2>1, StaticStep
<1>8. \A u \in Tasks : EndedRun(u) => EndedRun(u)' /\ u # t
  BY <1>5, <1>6 DEF EndedRun
<1>9. DoneInv'
  <2> SUFFICES ASSUME NEW p \in Pulses, NEW f \in Flags, NEW r \in Requests,
                      object[p].pending[f].requests[r] = "Finished"
               PROVE  \E u \in Tasks : Call[u] = r /\ EndedRun(u)'
    BY DEF DoneInv, EndedRun
  <2> QED
    BY <1>1, <1>8 DEF EndsInv, DoneInv
<1>10. \A p \in Pulses, f \in Flags : object[p].pending[f].requests[Call[t]] # "Finished"
  <2> SUFFICES ASSUME NEW p \in Pulses, NEW f \in Flags,
                      object[p].pending[f].requests[Call[t]] = "Finished"
               PROVE  FALSE
    OBVIOUS
  <2>1. PICK u \in Tasks : Call[u] = Call[t] /\ EndedRun(u)
    BY <1>1 DEF EndsInv, DoneInv
  <2>2. u = t
    BY <1>1, <1>6, <2>1 DEF AtMostOnce, EndedRun
  <2> QED
    BY <1>6, <2>1, <2>2
<1>11. FinishedInv'
  <2> SUFFICES ASSUME NEW n \in msgs', n.type = "VDelegatedRequestFinished"
               PROVE  /\ EndedRun(n.task)'
                      /\ \A f \in Flags : object[n.to].pending[f].requests[Call[n.task]] # "Finished"
                      /\ \A k \in msgs' : k.type = n.type /\ k.task = n.task => k = n
    BY DEF FinishedInv, EndedRun
  <2>1. \A k \in msgs : k.type = "VDelegatedRequestFinished" => EndedRun(k.task) /\ k.task \in Tasks
    BY <1>1 DEF EndsInv, FinishedInv, TypeOK, MessageType
  <2>2. \A k \in msgs : k.type = "VDelegatedRequestFinished" => k.task # t
    BY <1>6, <2>1
  <2>3. CASE n = m
    BY <1>1, <1>2, <1>3, <1>6, <1>10, <2>2, <2>3
  <2>4. CASE n \in msgs
    <3>1. EndedRun(n.task)' /\ n.task # t
      BY <1>8, <2>1, <2>4
    <3>2. \A k \in msgs' : k.type = n.type /\ k.task = n.task => k \in msgs
      BY <1>2, <1>3, <3>1
    <3> QED
      BY <1>1, <2>4, <3>1, <3>2 DEF EndsInv, FinishedInv
  <2> QED
    BY <1>3, <2>3, <2>4
<1>12. RegistriesStep
  BY DEF RegistriesStep
<1> QED
  BY <1>7, <1>9, <1>11, <1>12 DEF UseInv, EndsInv

(* stepSendDelegatedRequestFinished, stepGetDelegationToken *)
LEMMA DelegatedUse ==
    ASSUME ExecutorInv, OnceInv, UseInv, RepeatedSoon, NEW t \in Tasks,
           StepSendDelegatedRequestFinished(t) \/ StepDelegationToken(t)
    PROVE  UseInv' /\ RegistriesStep
<1>1. /\ task[t] \in TaskType /\ TaskOK(task[t], NodeOf(t), SlotOf[t]) /\ TypeOK
      /\ task[t].sent \in Nat
  BY TypeFacts DEF ExecutorInv, LocalInv, TaskInv, TaskType
<1>2. clock' = clock /\ object' = object /\ task[t].pc \in {"sendFinished", "getToken"}
  BY DEF StepSendDelegatedRequestFinished, StepDelegationToken, Step, At
<1>3. task[t].active /\ task[t].pc \notin Ended
  BY <1>1, <1>2 DEF TaskOK, Ended
<1>4. CASE StepSendDelegatedRequestFinished(t)
  <2>1. /\ task' = [task EXCEPT ![t] = EndTask(task[t], "done")] /\ "done" \in Ended
        /\ msgs' = msgs \cup Posted({DelegatedRequestFinished(NodeOf(t), t, task[t].new)})
    BY <1>4 DEF StepSendDelegatedRequestFinished, Step, NodeOf, Ended
  <2> QED
    BY <1>2, <1>3, <2>1, DelegatedEndsUse
<1>5. CASE StepDelegationToken(t)
  <2> DEFINE tk == [task[t] EXCEPT !.pc = task[t].resume, !.resume = "idle",
                                   !.granted = UnknownPulse]
             again == [tk EXCEPT !.sent = task[t].sent + 1]
  <2>1. task[t].resume \in ActingSteps /\ task[t].resume \in TaskStep
    BY <1>1, <1>5 DEF StepDelegationToken, Step, At, TaskOK, TaskType
  <2>2. /\ tk.pc = task[t].resume /\ tk.active = task[t].active /\ tk.sent = task[t].sent
        /\ tk.ran = task[t].ran /\ tk.negotiated = task[t].negotiated /\ tk \in TaskType
    BY <1>1, <2>1 DEF TaskType, TaskStep
  <2> HIDE DEF tk
  <2>3. /\ again.pc = task[t].resume /\ again.active = task[t].active
        /\ again.ran = task[t].ran /\ again.negotiated = task[t].negotiated
    BY <2>2 DEF TaskType
  <2> HIDE DEF again
  <2>4. ASSUME NEW new \in {tk, again}, msgs' = msgs, task' = [task EXCEPT ![t] = new]
        PROVE  UseInv' /\ RegistriesStep
    <3>1. /\ new.ran = task[t].ran /\ new.active = task[t].active
          /\ new.pc \in ActingSteps /\ new.negotiated
      BY <1>1, <1>3, <2>1, <2>2, <2>3 DEF TaskOK
    <3>2. new.pc \notin ReadySteps /\ ~ FailsEarly(new)
      BY <3>1 DEF ReadySteps, OwnSteps, ActingSteps, FailsEarly
    <3>3. MachineKept(t, new)
      BY <1>3, <3>1, <3>2, MoveUse
    <3> QED
      BY <1>2, <2>4, <3>3, TaskUse
  <2>5. CASE task[t].sent >= MaxOutgoingSendCount
    <3>1. task[t].sent # 0
      BY <1>1, <2>5, RequestKindsAssumption
    <3>2. /\ task' = [task EXCEPT ![t] = EndTask(tk, "dead")] /\ "dead" \in Ended
          /\ msgs' = msgs \cup Posted({DelegatedRequestFinished(NodeOf(t), t, NoDescriptor)})
      BY <1>5, <2>2, <2>5, <3>1 DEF StepDelegationToken, Step, NodeOf, Ended, tk
    <3> QED
      BY <1>2, <1>3, <2>2, <3>2, DelegatedEndsUse
  <2>6. CASE ~ (task[t].sent >= MaxOutgoingSendCount)
    <3>1. msgs' = msgs
      BY <1>5, <2>2, <2>6 DEF StepDelegationToken, tk
    <3>2. task' = [task EXCEPT ![t] = tk] \/ task' = [task EXCEPT ![t] = again]
      BY <1>5, <2>2, <2>6 DEF StepDelegationToken, Step, tk, again
    <3> QED
      BY <2>4, <3>1, <3>2
  <2> QED
    BY <2>5, <2>6
<1> QED
  BY <1>4, <1>5

(* The reports and the creation of an object by a handler *)
LEMMA ReportUse ==
    ASSUME ExecutorInv, OnceInv, UseInv, NEW m \in msgs,
           ReceiveStateReport(m) \/ CreateForDelegated(m)
    PROVE  UseInv' /\ RegistriesStep
<1> DEFINE p == m.to
           x == object[p]
           c == GetOrCreate(p)
           o == ApplyReport(c, m.report)
<1>1. TypeOK /\ p \in Pulses /\ x \in ObjectType
  BY TypeFacts DEF ExecutorInv, TypeOK, MessageType
<1>2. c \in ObjectType /\ TablesKept(c, x) /\ c.state = x.state
  BY <1>1, CreatedTables
<1> HIDE DEF c
<1>3. /\ clock' = clock /\ task' = task /\ msgs' \subseteq msgs
      /\ \/ object' = object
         \/ x.state = "Unknown" /\ object' = [object EXCEPT ![p] = o]
         \/ object' = [object EXCEPT ![p] = c]
  BY <1>2 DEF ReceiveStateReport, CreateForDelegated, c
<1>4. x.state = "Unknown" => TablesKept(o, x)
  <2>1. o.known = c.known /\ o.results = c.results /\ o.pending = c.pending
    BY <1>2 DEF ApplyReport, ObjectType
  <2> HIDE DEF o
  <2> QED
    BY <1>2, <2>1 DEF TablesKept, StateKept
<1> HIDE DEF o
<1>5. \A n \in msgs' : n \in msgs
  BY <1>3
<1>6. CASE object' = object
  BY <1>3, <1>5, <1>6, UseKept
<1> QED
  BY <1>1, <1>2, <1>3, <1>4, <1>5, <1>6, ObjectUse

(* A handler changes a pending list. *)
LEMMA PendingUse ==
    ASSUME ExecutorInv, OnceInv, UseInv, clock' = clock, NEW p \in Pulses, NEW r \in Requests,
           PulseOf[r] <= p, NEW o, object' = [object EXCEPT ![p] = o],
           ListSet(o.pending, object[p].pending, FlagOf[r], r),
           o.pending[FlagOf[r]].requests[r] # "Started",
           o.known = object[p].known, o.results = object[p].results, StateKept(o, object[p]),
           \A t \in Tasks : task'[t] = task[t] \/ MachineKept(t, task'[t]),
           msgs' \subseteq msgs
    PROVE  StaticInv'
<1>1. TypeOK /\ StaticInv /\ TableOK(object[p], p)
  BY DEF ExecutorInv, UseInv, StaticInv, TablesInv
<1>2. object'[p] = o /\ \A q \in Pulses : q # p => object'[q] = object[q]
  BY <1>1 DEF TypeOK
<1>3. TableOK(o, p)
  BY <1>1, PendingTable
<1>4. NoKnown(object[p]) => NoKnown(o)
  BY DEF NoKnown
<1> QED
  BY <1>1, <1>2, <1>3, <1>4, StaticStep

(* SMVDelegatedCallRequest: PendingTable.Add *)
LEMMA DelegatedCallRequestUse ==
    ASSUME ExecutorInv, OnceInv, UseInv, NEW m \in msgs, ReceiveDelegatedCallRequest(m)
    PROVE  UseInv' /\ RegistriesStep
<1> DEFINE q == m.to
           t == m.task
           r == Call[t]
           f == FlagOf[r]
           x == object[q]
           list == PendingAdd(x.pending[f], r)
           o == RegisterPending(x, r)
           tk == [task[t] EXCEPT !.granted = q]
<1>1. /\ TypeOK /\ q \in Pulses /\ t \in Tasks /\ m.type = "VDelegatedCallRequest"
  BY DEF ExecutorInv, TypeOK, MessageType, ReceiveDelegatedCallRequest
<1>2. /\ x \in ObjectType /\ task[t] \in TaskType /\ r \in Requests /\ f \in Flags
      /\ TableOK(x, q) /\ EndsInv
  BY <1>1, TypeFacts, CallFacts DEF UseInv, StaticInv, TablesInv
<1>3. PulseOf[r] <= q
  <2>1. SlotOf[t] <= q
    BY <1>1 DEF UseInv, StaticInv, AskInv
  <2>2. PulseOf[r] <= SlotOf[t] /\ PulseOf[r] \in Nat /\ SlotOf[t] \in Nat /\ q \in Nat
    BY <1>1, <1>2, TasksAssumption, PulsesAssumption, PulseFacts
  <2> QED
    BY <2>1, <2>2
<1>4. /\ clock' = clock /\ msgs' \subseteq msgs
      /\ object' = object \/ object' = [object EXCEPT ![q] = o]
      /\ task' = task \/ (task[t].pc = "getToken" /\ task' = [task EXCEPT ![t] = tk])
  BY <1>1, <1>2 DEF ReceiveDelegatedCallRequest, TypeOK, At
<1>5. \A u \in Tasks : task'[u] = task[u] \/ MachineKept(u, task'[u])
  <2>1. CASE task' = task
    BY <2>1
  <2>2. CASE task[t].pc = "getToken" /\ task' = [task EXCEPT ![t] = tk]
    <3>1. tk.ran = task[t].ran /\ tk.active = task[t].active /\ tk.pc = "getToken"
      BY <1>2, <2>2 DEF TaskType
    <3> HIDE DEF tk
    <3>2. MachineKept(t, tk)
      BY <1>1, <2>2, <3>1, MoveUse DEF Ended, ReadySteps, OwnSteps, FailsEarly
    <3> QED
      BY <1>1, <2>2, <3>2 DEF TypeOK
  <2> QED
    BY <1>4, <2>1, <2>2
<1> HIDE DEF tk
<1>6. CASE object' = object
  <2>1. \A n \in msgs' : n \in msgs
    BY <1>4
  <2> QED
    BY <1>4, <1>5, <1>6, <2>1, UseKept
<1>7. CASE object' = [object EXCEPT ![q] = o]
  <2>1. /\ o.pending = [x.pending EXCEPT ![f] = PendingAdd(@, r)] /\ o.state = x.state
        /\ o.known = x.known /\ o.results = x.results /\ x.pending \in [Flags -> ListType]
    BY <1>2 DEF RegisterPending, ObjectType
  <2>2. /\ x.pending[f] \in ListType /\ ListConsistent(x.pending[f])
        /\ x.pending[f].requests[r] # "Started"
    BY <1>2 DEF TableOK, Entered, ObjectType
  <2>3. /\ ListConsistent(list)
        /\ list.requests = IF Exist(x.pending[f], r) THEN x.pending[f].requests
                           ELSE [x.pending[f].requests EXCEPT ![r] = "Processing"]
        /\ x.pending[f].requests \in [Requests -> RequestState]
    BY <1>2, <2>2, MethodsKeepConsistency, MethodsSetState DEF ListType
  <2> HIDE DEF o
  <2>4. o.pending[f] = list /\ \A g \in Flags : g # f => o.pending[g] = x.pending[g]
    BY <1>2, <2>1
  <2> HIDE DEF list
  <2>5. /\ list.requests[r] \in {x.pending[f].requests[r], "Processing"}
        /\ \A y \in Requests : y # r => list.requests[y] = x.pending[f].requests[y]
    BY <1>2, <2>3
  <2>6. ListSet(o.pending, x.pending, f, r) /\ o.pending[f].requests[r] # "Started"
    BY <2>2, <2>3, <2>4, <2>5 DEF ListSet
  <2>7. StateKept(o, x)
    BY <2>1 DEF StateKept
  <2>8. StaticInv'
    BY <1>1, <1>2, <1>3, <1>4, <1>5, <1>7, <2>1, <2>6, <2>7, PendingUse
  <2>9. EndsInv'
    <3>1. NothingEnds(o, x)
      <4> SUFFICES ASSUME NEW g \in Flags, NEW y \in Requests, o.pending[g].requests[y] = "Finished"
                   PROVE  x.pending[g].requests[y] = "Finished"
        BY DEF NothingEnds
      <4>1. CASE g = f /\ y = r
        BY <2>4, <2>5, <4>1
      <4>2. CASE g = f /\ y # r
        BY <2>4, <2>5, <4>2
      <4>3. CASE g # f
        BY <2>4, <4>3
      <4> QED
        BY <4>1, <4>2, <4>3
    <3>2. \A p \in Pulses : NothingEnds(object'[p], object[p])
      BY <1>1, <1>7, <3>1 DEF NothingEnds, TypeOK
    <3>3. \A u \in Tasks : EndedRun(u) => task'[u] = task[u]
      BY <1>5 DEF MachineKept
    <3>4. \A n \in msgs' : n \in msgs
      BY <1>4
    <3> QED
      BY <1>1, <1>2, <3>2, <3>3, <3>4, EndsStep
  <2>10. RegistriesStep
    BY <1>1, <1>2, <1>7, <2>1, OneRegistry
  <2> QED
    BY <2>8, <2>9, <2>10 DEF UseInv
<1> QED
  BY <1>4, <1>6, <1>7

(* SMVDelegatedRequestFinished: PendingTable.Finish, of a call that was    *)
(* not finished before                                                     *)
LEMMA DelegatedRequestFinishedUse ==
    ASSUME ExecutorInv, OnceInv, UseInv, RepeatedSoon, NEW m \in msgs,
           ReceiveDelegatedRequestFinished(m)
    PROVE  UseInv' /\ RegistriesStep
<1> DEFINE q == m.to
           t == m.task
           r == Call[t]
           f == CallFlag[r]
           x == object[q]
           dirty == IF m.latest.has THEN m.latest ELSE x.dirty
           state == IF x.state # "Empty" THEN x.state
                    ELSE IF m.latest.has THEN "HasState"
                    ELSE IF f = Tolerable /\ r \in Constructors THEN "Missing"
                    ELSE x.state
           list == PendingFinish(x.pending[f], r)
           o1 == [x EXCEPT !.dirty = dirty]
           o2 == [o1 EXCEPT !.state = state]
           o3 == [o2 EXCEPT !.pending[f] = PendingFinish(@, r)]
           o4 == ReleasePaths(o3)
           same(o) == /\ o.known = x.known /\ o.results = x.results /\ StateKept(o, x)
<1>1. /\ TypeOK /\ q \in Pulses /\ t \in Tasks /\ m.type = "VDelegatedRequestFinished"
      /\ r \notin Constructors /\ AtMostOnce
  BY SoonRunOnce, InvMethodsOnce
     DEF ExecutorInv, TypeOK, MessageType, ReceiveDelegatedRequestFinished, RepeatedSoon
<1>2. /\ x \in ObjectType /\ r \in Requests /\ f \in Flags /\ TableOK(x, q) /\ EndsInv
      /\ ObjectOK(x, q, clock[q])
  BY <1>1, TypeFacts, CallFacts DEF UseInv, StaticInv, TablesInv, ExecutorInv, LocalInv, ObjectInv
<1>3. SetLatestState(x, m.latest) = o1 /\ o1.state = x.state
  BY <1>2 DEF SetLatestState, ObjectType
<1>4. DOMAIN x = DOMAIN NewObject("none")
  BY <1>2 DEF ObjectType, NewObject
<1>5. same(o1) /\ o1.pending = x.pending /\ DOMAIN o1 = DOMAIN NewObject("none")
  <2> HIDE DEF dirty
  <2> QED
    BY <1>4 DEF NewObject, StateKept
<1>6. same(o2) /\ o2.pending = x.pending /\ DOMAIN o2 = DOMAIN NewObject("none")
  <2>1. /\ x.state = "Missing" => state = "Missing"
        /\ state = "Missing" => x.state = "Missing"
        /\ state = "Unknown" => x.state = "Unknown"
    BY <1>1
  <2> HIDE DEF o1, state
  <2> QED
    BY <1>5, <2>1 DEF NewObject, StateKept
<1>7. /\ same(o3) /\ DOMAIN o3 = DOMAIN NewObject("none")
      /\ o3.pending = [x.pending EXCEPT ![f] = PendingFinish(@, r)]
  <2> HIDE DEF o2
  <2> QED
    BY <1>6 DEF NewObject, StateKept
<1>8. same(o4) /\ o4.pending = o3.pending
  <2> HIDE DEF o3
  <2> QED
    BY <1>7 DEF NewObject, ReleasePaths, StateKept
<1>9. /\ clock' = clock /\ task' = task /\ msgs' = msgs \ {m}
      /\ \/ object' = [object EXCEPT ![q] = o1] \/ object' = [object EXCEPT ![q] = o2]
         \/ /\ Exist(o2.pending[f], r)
            /\ object' = [object EXCEPT ![q] = o3] \/ object' = [object EXCEPT ![q] = o4]
  BY <1>3 DEF ReceiveDelegatedRequestFinished
<1> HIDE DEF o1, o2, o3, o4
<1>10. \A n \in msgs' : n \in msgs
  BY <1>9
<1>11. CASE object' = [object EXCEPT ![q] = o1] \/ object' = [object EXCEPT ![q] = o2]
  <2>1. TablesKept(o1, x) /\ TablesKept(o2, x)
    BY <1>5, <1>6 DEF TablesKept
  <2> QED
    BY <1>1, <1>9, <1>10, <1>11, <2>1, ObjectUse
<1>12. ASSUME NEW o, Exist(x.pending[f], r), object' = [object EXCEPT ![q] = o], same(o),
              o.pending = [x.pending EXCEPT ![f] = PendingFinish(@, r)]
       PROVE  UseInv' /\ RegistriesStep
  <2>1. f = FlagOf[r]
    BY <1>2, <1>12 DEF ObjectOK, Exist
  <2>2. /\ EndedRun(t) /\ x.pending[f].requests[r] # "Finished"
        /\ \A n \in msgs : n.type = m.type /\ n.task = t => n = m
    BY <1>1, <1>2 DEF EndsInv, FinishedInv
  <2>3. /\ x.pending[f] \in ListType /\ ListConsistent(x.pending[f])
        /\ x.pending[f].requests[r] # "Started" /\ PulseOf[r] <= q
        /\ x.pending \in [Flags -> ListType]
    BY <1>2, <1>12 DEF TableOK, Entered, Exist, ObjectType
  <2>4. /\ ListConsistent(list)
        /\ list.requests = [x.pending[f].requests EXCEPT ![r] = "Finished"]
        /\ x.pending[f].requests \in [Requests -> RequestState]
    BY <1>2, <1>12, <2>2, <2>3, MethodsKeepConsistency, MethodsSetState DEF ListType
  <2>5. o.pending[f] = list /\ \A g \in Flags : g # f => o.pending[g] = x.pending[g]
    BY <1>2, <1>12, <2>3
  <2> HIDE DEF list
  <2>6. /\ list.requests[r] = "Finished"
        /\ \A y \in Requests : y # r => list.requests[y] = x.pending[f].requests[y]
    BY <1>2, <2>4
  <2>7. ListSet(o.pending, x.pending, f, r) /\ o.pending[f].requests[r] # "Started"
    BY <2>4, <2>5, <2>6 DEF ListSet
  <2>8. StaticInv'
    <3>1. msgs' \subseteq msgs /\ \A u \in Tasks : task'[u] = task[u]
      BY <1>9
    <3> QED
      BY <1>1, <1>2, <1>9, <1>12, <2>1, <2>3, <2>7, <3>1, PendingUse
  <2>9. object'[q] = o /\ \A p \in Pulses : p # q => object'[p] = object[p]
    BY <1>1, <1>12 DEF TypeOK
  <2>10. \A u \in Tasks : EndedRun(u)' <=> EndedRun(u)
    BY <1>9 DEF EndedRun
  <2>11. ASSUME NEW p \in Pulses, NEW g \in Flags, NEW y \in Requests,
                object'[p].pending[g].requests[y] = "Finished"
         PROVE  (p = q /\ y = r) \/ object[p].pending[g].requests[y] = "Finished"
    BY <2>5, <2>6, <2>9, <2>11
  <2>12. DoneInv'
    <3> SUFFICES ASSUME NEW p \in Pulses, NEW g \in Flags, NEW y \in Requests,
                        object'[p].pending[g].requests[y] = "Finished"
                 PROVE  \E u \in Tasks : Call[u] = y /\ EndedRun(u)'
      BY DEF DoneInv, EndedRun
    <3>1. CASE y = r
      BY <1>1, <2>2, <2>10, <3>1
    <3>2. CASE object[p].pending[g].requests[y] = "Finished"
      BY <1>2, <2>10, <3>2 DEF EndsInv, DoneInv
    <3> QED
      BY <2>11, <3>1, <3>2
  <2>13. FinishedInv'
    <3> SUFFICES ASSUME NEW n \in msgs', n.type = "VDelegatedRequestFinished"
                 PROVE  /\ EndedRun(n.task)'
                        /\ \A g \in Flags : object'[n.to].pending[g].requests[Call[n.task]] # "Finished"
                        /\ \A k \in msgs' : k.type = n.type /\ k.task = n.task => k = n
      BY DEF FinishedInv, EndedRun
    <3>1. n \in msgs /\ n # m /\ n.task \in Tasks /\ n.to \in Pulses
      BY <1>1, <1>9 DEF TypeOK, MessageType
    <3>2. /\ EndedRun(n.task)
          /\ \A g \in Flags : object[n.to].pending[g].requests[Call[n.task]] # "Finished"
          /\ \A k \in msgs : k.type = n.type /\ k.task = n.task => k = n
      BY <1>2, <3>1 DEF EndsInv, FinishedInv
    <3>3. n.task # t
      BY <1>1, <2>2, <3>1
    <3>4. Call[n.task] # r /\ Call[n.task] \in Requests
      BY <1>1, <2>2, <3>1, <3>2, <3>3, CallFacts DEF AtMostOnce, EndedRun
    <3> QED
      BY <1>10, <2>10, <2>11, <3>1, <3>2, <3>4
  <2>14. RegistriesStep
    <3> DEFINE g == FlagOf[r]
    <3>1. /\ x.pending[g].requests[r] # "Finished"
          /\ o.pending = [x.pending EXCEPT ![g] = PendingFinish(@, r)]
          /\ o.known = x.known /\ o.results = x.results
          /\ object' = [object EXCEPT ![q] = o]
      BY <1>12, <2>1, <2>2
    <3>2. TypeOK /\ q \in Pulses /\ r \in Requests
      BY <1>1, <1>2
    <3> QED
      BY <3>1, <3>2, OneRegistry
  <2> QED
    BY <2>8, <2>12, <2>13, <2>14 DEF UseInv, EndsInv
<1> QED
  BY <1>6, <1>7, <1>8, <1>9, <1>11, <1>12

(* The pulse change leaves all tables alone. *)
LEMMA AdvanceUse ==
    ASSUME ExecutorInv, OnceInv, UseInv, NEW N \in ChangeTogether, NEW old \in Pulses,
           AdvancePulse(N, old)
    PROVE  UseInv' /\ RegistriesStep
<1>1. /\ N \subseteq Pulses /\ old \in Nat /\ old + 1 \in Pulses /\ TypeOK
      /\ \A n \in Pulses : /\ clock[n] \in Nat /\ n \in Nat
                           /\ n \in N => clock[n] = old /\ clock'[n] = old + 1
                           /\ n \notin N => clock'[n] = clock[n]
      /\ \A n \in Pulses : n \notin N \/ n > old => object'[n] = object[n]
      /\ \A n \in N : n < old => object'[n] = Dropped(object[n])
      /\ old \in N => object'[old] = MigrateObject(object[old])
  BY AdvanceFacts, PulseFacts DEF ExecutorInv
<1>2. ASSUME NEW p \in Pulses
      PROVE  /\ object'[p].known = object[p].known /\ object'[p].results = object[p].results
             /\ object'[p].pending = object[p].pending
  <2> DEFINE x == object[p]
             settled == [x EXCEPT !.state = IF x.dirty.deactivated THEN "Inactive" ELSE @]
             new == [settled EXCEPT !.phase = "publish", !.report = BuildStateReport(settled),
                                    !.asked = FALSE]
  <2>0. x \in ObjectType
    BY <1>1, TypeFacts
  <2>1. /\ Dropped(x).known = x.known /\ Dropped(x).results = x.results
        /\ Dropped(x).pending = x.pending
    BY DEF Dropped, NewObject
  <2>2. new.known = x.known /\ new.results = x.results /\ new.pending = x.pending
    BY <2>0 DEF ObjectType
  <2>3. MigrateObject(x) \in {Dropped(x), new}
    BY DEF MigrateObject
  <2> HIDE DEF new
  <2>4. /\ MigrateObject(x).known = x.known /\ MigrateObject(x).results = x.results
        /\ MigrateObject(x).pending = x.pending
    BY <2>1, <2>2, <2>3
  <2>5. object'[p] \in {x, Dropped(x), MigrateObject(x)}
    BY <1>1
  <2> QED
    BY <2>1, <2>4, <2>5
<1>3. ASSUME NEW t \in Tasks
      PROVE  /\ SlotOf[t] \in Pulses
             /\ SlotOf[t] \notin N => task'[t] = task[t]
             /\ SlotOf[t] \in N =>
                  /\ task'[t].active => task'[t].ran
                  /\ task'[t].pc \notin ReadySteps /\ ~ FailsEarly(task'[t])
             /\ EndedRun(t) => task'[t] = task[t]
  <2>1. SlotOf[t] \in Pulses /\ task[t] \in TaskType /\ (task[t].active => task[t].ran)
    BY <1>1, PulseFacts, TypeFacts DEF UseInv, StaticInv, MachineInv
  <2>2. CASE SlotOf[t] \notin N
    <3>1. task'[t] = task[t]
      BY <2>2, AdvanceFacts
    <3> QED
      BY <2>1, <2>2, <3>1
  <2>3. CASE SlotOf[t] \in N
    <3> DEFINE x == task[t]
    <3>1. task'[t] = MigrateTask(x)
      BY <2>3, AdvanceFacts
    <3>2. CASE x.pc \in Ended \cup {"idle"}
      <4>1. MigrateTask(x) = x
        BY <3>2 DEF MigrateTask, Asks, Ended
      <4>2. x.pc \notin ReadySteps /\ ~ FailsEarly(x)
        BY <3>2 DEF Ended, ReadySteps, OwnSteps, FailsEarly
      <4> QED
        BY <2>1, <3>1, <4>1, <4>2
    <3>3. CASE Asks(x)
      <4> DEFINE tk == [x EXCEPT !.pc = "getToken", !.resume = x.pc, !.migrated = TRUE]
      <4>1. MigrateTask(x) = tk
        BY <3>3 DEF MigrateTask, Asks
      <4>2. tk.ran = x.ran /\ tk.active = x.active /\ tk.pc = "getToken" /\ x.pc \notin Ended
        BY <2>1, <3>3 DEF TaskType, Asks
      <4> HIDE DEF tk
      <4> QED
        BY <2>1, <2>3, <3>1, <4>1, <4>2 DEF ReadySteps, OwnSteps, FailsEarly, EndedRun
    <3>4. CASE x.pc \notin Ended \cup {"idle"} /\ ~ Asks(x)
      <4>1. PICK pc \in {"dead", "stopped"} : MigrateTask(x) = EndTask(x, pc)
        BY <3>4 DEF MigrateTask
      <4>2. EndTask(x, pc).pc = pc /\ ~ EndTask(x, pc).active
        BY DEF EndTask, IdleTask
      <4> QED
        BY <2>1, <2>3, <3>1, <3>4, <4>1, <4>2 DEF ReadySteps, OwnSteps, FailsEarly, EndedRun
    <3> QED
      BY <3>2, <3>3, <3>4
  <2> QED
    BY <2>2, <2>3
<1>4. \A m \in msgs' : \/ m \in msgs
                       \/ m.type = "VDelegatedCallRequest" /\ SlotOf[m.task] <= m.to
  <2> SUFFICES ASSUME NEW m \in msgs', m \notin msgs
               PROVE  m.type = "VDelegatedCallRequest" /\ SlotOf[m.task] <= m.to
    OBVIOUS
  <2>1. PICK t \in Tasks : /\ m = DelegatedCallRequest(old + 1, t) /\ SlotOf[t] \in N
                           /\ Asks(task[t])
    BY DEF AdvancePulse, Posted
  <2>2. task[t].ran
    BY <2>1 DEF Asks, UseInv, StaticInv, MachineInv
  <2>3. clock[SlotOf[t]] >= SlotOf[t]
    BY <2>1, <2>2 DEF OnceInv, RanInv, NodeOf
  <2>4. SlotOf[t] <= old + 1
    <3>1. SlotOf[t] \in Nat /\ clock[SlotOf[t]] = old
      BY <1>1, <2>1, PulseFacts
    <3> QED
      BY <1>1, <2>3, <3>1
  <2> QED
    BY <2>1, <2>4 DEF DelegatedCallRequest
<1>5. TablesInv'
  <2> SUFFICES ASSUME NEW p \in Pulses PROVE TableOK(object'[p], p)
    BY DEF TablesInv
  <2>1. TableOK(object[p], p)
    BY DEF UseInv, StaticInv, TablesInv
  <2> QED
    BY <1>2, <2>1 DEF TableOK, Listed
<1>6. UnusedInv'
  <2> SUFFICES ASSUME NEW p \in Pulses, clock'[p] <= p, object'[p].state \in {"Unknown", "Missing"}
               PROVE  NoKnown(object'[p])
    BY DEF UnusedInv, Live, NoKnown, Entered
  <2>1. object'[p] = object[p] /\ clock[p] <= p
    BY <1>1
  <2> QED
    BY <2>1 DEF UseInv, StaticInv, UnusedInv, Live
<1>7. MachineInv'
  <2> SUFFICES ASSUME NEW t \in Tasks
               PROVE  /\ task'[t].active => task'[t].ran
                      /\ task'[t].pc \in ReadySteps => object'[SlotOf[t]].state # "Missing"
                      /\ FailsEarly(task'[t]) => \/ NegotiationFails(Call[t])
                                                 \/ object'[SlotOf[t]].state = "Missing"
    BY DEF MachineInv, FailsEarly
  <2>1. CASE SlotOf[t] \in N
    BY <1>3, <2>1
  <2>2. CASE SlotOf[t] \notin N
    BY <1>1, <1>3, <2>2 DEF UseInv, StaticInv, MachineInv
  <2> QED
    BY <2>1, <2>2
<1>8. AskInv'
  BY <1>4 DEF UseInv, StaticInv, AskInv
<1>9. EndsInv'
  <2>1. \A p \in Pulses : NothingEnds(object'[p], object[p])
    BY <1>2 DEF NothingEnds
  <2>2. \A m \in msgs' : m \in msgs \/ m.type # "VDelegatedRequestFinished"
    BY <1>4
  <2> QED
    BY <1>1, <1>3, <2>1, <2>2, EndsStep DEF UseInv
<1>10. RegistriesStep
  BY <1>2 DEF RegistriesStep
<1> QED
  BY <1>5, <1>6, <1>7, <1>8, <1>9, <1>10 DEF UseInv, StaticInv

(* At a handover all tables are empty. *)
LEMMA InitUse == Init => UseInv /\ RegistriesNew
<1> SUFFICES ASSUME Init PROVE UseInv /\ RegistriesNew
  OBVIOUS
<1>1. PICK h \in Handovers : TakenOver(h)
  BY DEF Init
<1> DEFINE s == h.pulse
           missing == h.report.Status = "Missing"
           none == NewObject(IF missing THEN "gone" ELSE "sent")
           summary == [r \in Requests |-> IF r \in h.finished THEN "result"
                                          ELSE IF \E t \in h.running : Call[t] = r THEN "empty"
                                          ELSE "none"]
           left == [none EXCEPT !.report = h.report, !.summary = summary]
           run == [IdleTask EXCEPT !.pc = "getToken", !.resume = "execute",
                      !.lock = TRUE, !.active = TRUE, !.ran = TRUE,
                      !.migrated = TRUE, !.negotiated = TRUE,
                      !.base = h.report.ProvidedContent.memory]
           lists == [f \in Flags |-> NewList]
<1>2. s \in Pulses /\ s \in Nat /\ h.running \subseteq {t \in Tasks : SlotOf[t] = s}
  BY HandoversAssumption, PulseFacts
<1>3. /\ object = [q \in Pulses |-> IF q = s THEN left ELSE NewObject("none")]
      /\ task = [t \in Tasks |-> IF t \in h.running THEN run ELSE IdleTask]
      /\ msgs = {DelegatedCallRequest(s + 1, t) : t \in h.running}
                \cup (IF missing THEN {} ELSE {StateReportTo(s + 1, h.report)})
  BY <1>1 DEF TakenOver
<1>4. ASSUME NEW p \in Pulses
      PROVE  /\ object[p].known = lists /\ object[p].pending = lists
             /\ object[p].results = [r \in Requests |-> "none"]
  <2>1. left.known = lists /\ left.pending = lists /\ left.results = [r \in Requests |-> "none"]
    BY DEF NewObject
  <2>2. /\ NewObject("none").known = lists /\ NewObject("none").pending = lists
        /\ NewObject("none").results = [r \in Requests |-> "none"]
    BY DEF NewObject
  <2> HIDE DEF left, lists
  <2> QED
    BY <1>3, <2>1, <2>2
<1>5. \A f \in Flags : lists[f] = NewList /\ ListConsistent(lists[f])
  BY NewListConsistent
<1>6. \A r \in Requests : NewList.requests[r] = "Unknown"
  BY DEF NewList
<1> HIDE DEF lists
<1>7. ASSUME NEW p \in Pulses PROVE TableOK(object[p], p) /\ NoKnown(object[p])
  <2>1. \A f \in Flags, r \in Requests : ~ Entered(object[p].known[f], r)
    BY <1>4, <1>5, <1>6 DEF Entered
  <2>2. \A f \in Flags, r \in Requests : ~ Entered(object[p].pending[f], r)
    BY <1>4, <1>5, <1>6 DEF Entered
  <2>3. \A r \in Requests : ~ Listed(object[p], r)
    BY <1>4, <1>5, <1>6, CallFacts DEF Listed
  <2> QED
    BY <1>4, <1>5, <2>1, <2>2, <2>3 DEF TableOK, NoKnown
<1>8. MachineInv
  <2>1. /\ run.ran /\ run.pc = "getToken" /\ ~ IdleTask.active /\ IdleTask.pc = "idle"
    BY DEF IdleTask
  <2> HIDE DEF run
  <2>2. \A t \in Tasks : /\ task[t].active => task[t].ran
                         /\ task[t].pc \in {"getToken", "idle"}
    BY <1>3, <2>1
  <2> QED
    BY <2>2 DEF MachineInv, ReadySteps, OwnSteps, FailsEarly
<1>9. \A m \in msgs : /\ m.type = "VDelegatedCallRequest" => SlotOf[m.task] <= m.to
                      /\ m.type # "VDelegatedRequestFinished"
  <2>1. \A t \in h.running : /\ DelegatedCallRequest(s + 1, t).task = t
                             /\ DelegatedCallRequest(s + 1, t).to = s + 1
                             /\ DelegatedCallRequest(s + 1, t).type = "VDelegatedCallRequest"
                             /\ SlotOf[t] <= s + 1
    BY <1>2 DEF DelegatedCallRequest
  <2>2. StateReportTo(s + 1, h.report).type = "VStateReport"
    BY DEF StateReportTo
  <2>3. \A m \in msgs : \/ m = StateReportTo(s + 1, h.report)
                       \/ \E t \in h.running : m = DelegatedCallRequest(s + 1, t)
    BY <1>3
  <2> QED
    BY <2>1, <2>2, <2>3
<1>10. StaticInv
  BY <1>7, <1>8, <1>9 DEF StaticInv, TablesInv, UnusedInv, AskInv
<1>11. EndsInv
  BY <1>4, <1>5, <1>6, <1>9 DEF EndsInv, DoneInv, FinishedInv
<1>12. RegistriesNew
  BY <1>4, RegistryMethods DEF RegistriesNew, Registry!Init, lists
<1> QED
  BY <1>10, <1>11, <1>12 DEF UseInv

LEMMA NextUse ==
    ASSUME ExecutorInv, OnceInv, UseInv, RepeatedSoon, [Next]_vars
    PROVE  UseInv' /\ [RegistriesStep]_vars
<1>1. ASSUME NEW t \in Tasks, TaskStepOf(t) PROVE UseInv' /\ RegistriesStep
  BY <1>1, WaitObjectReadyUse, DeduplicateUse, OwnStepsUse, StartUse, ActingUse, SaveNewObjectUse,
     FinishRequestUse, PublishDataCallSummaryUse, DelegatedUse
     DEF TaskStepOf
<1>2. CASE PulseChange
  BY <1>2, AdvanceUse DEF PulseChange
<1>3. CASE Receive
  BY <1>3, ReportUse, DelegatedCallRequestUse, DelegatedRequestFinishedUse DEF Receive
<1>4. CASE UNCHANGED vars
  <2>1. clock' = clock /\ object' = object /\ task' = task /\ msgs' = msgs
    BY <1>4 DEF vars
  <2> QED
    BY <1>4, <2>1, UseKept
<1>5. ASSUME NEW p \in Pulses, ObjectStep(p) PROVE UseInv' /\ RegistriesStep
  BY <1>5, ObjectStepsUse
<1>6. ASSUME NEW t \in Tasks, StepGetObject(t) PROVE UseInv' /\ RegistriesStep
  BY <1>6, GetObjectUse
<1> QED
  BY <1>1, <1>2, <1>3, <1>4, <1>5, <1>6 DEF Next

(* Every executor uses its working and pending tables as CallRegistry      *)
(* specifies, from the first pulse on: whatever the machines of calls and  *)
(* the handlers of delegated calls do, each of their steps is a step of    *)
(* the registry of one executor.                                           *)
THEOREM MethodsUseRegistry == RepeatedSoon => (Spec => RegistryUse)
<1> SUFFICES ASSUME RepeatedSoon PROVE Spec => RegistryUse
  OBVIOUS
<1>1. OnceInv /\ ExecutorInv /\ [Next]_vars => OnceInv'
  BY NextOnce
<1>2. OnceInv /\ ExecutorInv /\ UseInv /\ [Next]_vars => UseInv' /\ [RegistriesStep]_vars
  BY NextUse
<1>3. Init => UseInv /\ RegistriesNew
  BY InitUse
<1> QED
  BY <1>1, <1>2, <1>3, InitOnce, ExecutorInvariant, PTL DEF Spec, RegistryUse
=============================================================================
