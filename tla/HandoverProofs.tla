--------------------------- MODULE HandoverProofs ---------------------------
(***************************************************************************)
(* What the executors of one object promise each other over a pulse        *)
(* change.  The first part proves that at most one ordered call is in its  *)
(* code, a call that waits for its token included, when all nodes change   *)
(* the pulse together (OrderedExclusion).  The second part proves that the *)
(* next executor accepts every report (ReportAccepted).  The third part    *)
(* proves that no machine panics (NoPanic).  The fourth part proves that   *)
(* no change of the object is lost (NoLostUpdate).                         *)
(***************************************************************************)
EXTENDS VirtualExecutionProofs, StateReportProofs

-----------------------------------------------------------------------------
(***************************************************************************)
(* At most one ordered call is in its contract code, even counting a call  *)
(* that waits for its token, when all nodes change the pulse together and  *)
(* the calls are methods that are repeated soon.                           *)
(*                                                                         *)
(* A call that runs in its own pulse is active in the working list of its  *)
(* executor, and only its own machine takes it out (HolderInv, RunsInv).   *)
(* So the report of an executor counts every ordered call that survives    *)
(* the pulse change.  The next executor knows nothing else, keeps          *)
(* OrderedExecute closed, and hears of the end of an ordered call only     *)
(* when no such call runs any more (WaitInv).                              *)
(***************************************************************************)

(* The machine that its request belongs to *)
Holds(tk) == \/ tk.pc \in OwnSteps
             \/ tk.active
             \/ tk.pc \in {"sendCallResult", "finishRequest"} /\ tk.negotiated
HolderInv ==
    \A t, u \in Tasks :
        Holds(task[t]) /\ Holds(task[u]) /\ Call[t] = Call[u] /\ SlotOf[t] = SlotOf[u] => t = u

InProcess(o, r) == o.known[FlagOf[r]].requests[r] = "Processing"
RunsInv ==
    \A t \in Tasks : task[t].active /\ NodeOf(t) = SlotOf[t]
                         => InProcess(object[SlotOf[t]], Call[t])

(* Nodes and messages are all of one pulse; the objects of later pulses do *)
(* not exist yet.                                                          *)
TogetherInv ==
    /\ \A m, n \in Pulses : clock[m] = clock[n]
    /\ \A m \in msgs, n \in Pulses : m.to = clock[n]
    /\ \A p \in Pulses : clock[p] < p => object[p].phase = "none"

(* An ordered call of an earlier pulse *)
TakenOn(t) == IsOrdered(t) /\ task[t].active /\ SlotOf[t] < NodeOf(t)
Awaited == \E t \in Tasks : TakenOn(t)

(* While there is one, the present executor stays closed, the one before   *)
(* it has counted the call, and no message says otherwise.                 *)
Shut(o) == ~ o.execute[Tolerable] /\ (o.state # "Unknown" => o.prevPending[Tolerable] # 0)
Told(o) == o.phase \in {"publish", "finalize", "sent"} /\ o.report.OrderedPendingCount # 0
Harmless(m) == /\ m.type = "VStateReport" => m.report.OrderedPendingCount # 0
               /\ m.type = "VDelegatedRequestFinished" => ~ IsOrdered(m.task)
WaitInv ==
    Awaited => /\ \A p \in Pulses : clock[p] = p => Shut(object[p])
               /\ \A p \in Pulses : clock[p] = p + 1 => Told(object[p])
               /\ \A m \in msgs : Harmless(m)

OneActive ==
    \A t, u \in Tasks :
        IsOrdered(t) /\ IsOrdered(u) /\ task[t].active /\ task[u].active => t = u

OrderInv == HolderInv /\ RunsInv /\ TogetherInv /\ WaitInv /\ OneActive

(* A call that runs is active. *)
LEMMA InvOrdered == OneActive => OrderedExclusion
BY DEF OneActive, OrderedExclusion, Running

(* What most steps do to the machine of task t, which becomes tk, and to   *)
(* an object x of pulse p, which becomes o                                 *)
RunKept(t, tk) == /\ Holds(tk) => Holds(task[t])
                  /\ tk.active => task[t].active
GateKept(o, x) == /\ Told(x) => Told(o)
                  /\ Awaited => (Shut(x) => Shut(o))
WorkKept(o, x) == \A r \in Requests : InProcess(x, r) => InProcess(o, r)
MessageKept(m) == /\ m.to \in Pulses /\ m.to = clock[m.to]
                  /\ Awaited' => Harmless(m)

(* A step that takes on no call *)
LEMMA GateStep ==
    ASSUME OrderInv, clock' = clock,
           \A t \in Tasks : TakenOn(t)' => TakenOn(t),
           \A p \in Pulses : \/ object'[p] = object[p]
                             \/ clock[p] >= p /\ clock[p] \in Nat /\ p \in Nat
                                /\ GateKept(object'[p], object[p]),
           \A m \in msgs' : m \in msgs \/ MessageKept(m)
    PROVE  TogetherInv' /\ WaitInv'
<1>1. TogetherInv'
  <2>1. \A m \in msgs', n \in Pulses : m.to = clock[n]
    BY DEF OrderInv, TogetherInv, MessageKept
  <2>2. \A p \in Pulses : clock[p] < p => object'[p].phase = "none"
    BY DEF OrderInv, TogetherInv
  <2> QED
    BY <2>1, <2>2 DEF OrderInv, TogetherInv
<1>2. WaitInv'
  <2> SUFFICES ASSUME Awaited'
               PROVE  /\ \A p \in Pulses : clock[p] = p => Shut(object'[p])
                      /\ \A p \in Pulses : clock[p] = p + 1 => Told(object'[p])
                      /\ \A m \in msgs' : Harmless(m)
    BY DEF WaitInv, Shut, Told, Harmless, IsOrdered
  <2>1. Awaited
    BY DEF Awaited
  <2>2. /\ \A p \in Pulses : clock[p] = p => Shut(object[p])
        /\ \A p \in Pulses : clock[p] = p + 1 => Told(object[p])
        /\ \A m \in msgs : Harmless(m)
    BY <2>1 DEF OrderInv, WaitInv
  <2> QED
    BY <2>1, <2>2 DEF GateKept, MessageKept
<1> QED
  BY <1>1, <1>2

(* A step in which no call starts *)
LEMMA RunStep ==
    ASSUME OrderInv, clock' = clock,
           \A t \in Tasks : task'[t].active => task[t].active,
           \A p \in Pulses : \/ object'[p] = object[p]
                             \/ /\ clock[p] >= p /\ clock[p] \in Nat /\ p \in Nat
                                /\ GateKept(object'[p], object[p])
                                /\ \A t \in Tasks : SlotOf[t] = p /\ task'[t].active
                                      /\ InProcess(object[p], Call[t]) => InProcess(object'[p], Call[t]),
           \A m \in msgs' : m \in msgs \/ MessageKept(m)
    PROVE  RunsInv' /\ TogetherInv' /\ WaitInv' /\ OneActive'
<1>1. \A t \in Tasks : NodeOf(t)' = NodeOf(t) /\ SlotOf[t] \in Pulses
  BY PulseFacts DEF NodeOf
<1>2. \A t \in Tasks : TakenOn(t)' => TakenOn(t)
  BY <1>1 DEF TakenOn, IsOrdered
<1>3. TogetherInv' /\ WaitInv'
  BY <1>2, GateStep
<1>4. OneActive'
  BY DEF OrderInv, OneActive, IsOrdered
<1>5. RunsInv'
  <2> SUFFICES ASSUME NEW t \in Tasks, task'[t].active, NodeOf(t) = SlotOf[t]
               PROVE  InProcess(object'[SlotOf[t]], Call[t])
    BY <1>1 DEF RunsInv, InProcess
  <2>1. InProcess(object[SlotOf[t]], Call[t])
    BY DEF OrderInv, RunsInv
  <2> QED
    BY <1>1, <2>1
<1> QED
  BY <1>3, <1>4, <1>5

LEMMA OrderKept ==
    ASSUME OrderInv, clock' = clock,
           \A t \in Tasks : task'[t] = task[t] \/ RunKept(t, task'[t]),
           \A p \in Pulses : \/ object'[p] = object[p]
                             \/ /\ clock[p] >= p /\ clock[p] \in Nat /\ p \in Nat
                                /\ GateKept(object'[p], object[p])
                                /\ \A t \in Tasks : SlotOf[t] = p /\ task'[t].active
                                      /\ InProcess(object[p], Call[t]) => InProcess(object'[p], Call[t]),
           \A m \in msgs' : m \in msgs \/ MessageKept(m)
    PROVE  OrderInv'
<1>1. \A t \in Tasks : /\ Holds(task'[t]) => Holds(task[t])
                       /\ task'[t].active => task[t].active
  BY DEF RunKept
<1>2. HolderInv'
  BY <1>1 DEF OrderInv, HolderInv, Holds
<1>3. RunsInv' /\ TogetherInv' /\ WaitInv' /\ OneActive'
  BY <1>1, RunStep
<1> QED
  BY <1>2, <1>3 DEF OrderInv

LEMMA OrderTask ==
    ASSUME ExecutorInv, OrderInv, clock' = clock, msgs' = msgs, NEW t \in Tasks, NEW tk,
           task' = [task EXCEPT ![t] = tk], RunKept(t, tk),
           \/ object' = object
           \/ \E o : /\ object' = [object EXCEPT ![SlotOf[t]] = o]
                     /\ NodeOf(t) >= SlotOf[t]
                     /\ GateKept(o, object[SlotOf[t]]) /\ WorkKept(o, object[SlotOf[t]])
    PROVE  OrderInv'
<1>1. TypeOK /\ SlotOf[t] \in Pulses /\ SlotOf[t] \in Nat /\ clock[SlotOf[t]] \in Nat
      /\ \A u \in Tasks : Call[u] \in Requests
  BY PulseFacts, CallFacts, TypeFacts DEF ExecutorInv
<1>2. task'[t] = tk /\ \A u \in Tasks : u # t => task'[u] = task[u]
  BY <1>1 DEF TypeOK
<1>3. \A p \in Pulses : p # SlotOf[t] => object'[p] = object[p]
  BY <1>1 DEF TypeOK
<1>4. \/ object'[SlotOf[t]] = object[SlotOf[t]]
      \/ /\ clock[SlotOf[t]] >= SlotOf[t]
         /\ GateKept(object'[SlotOf[t]], object[SlotOf[t]])
         /\ WorkKept(object'[SlotOf[t]], object[SlotOf[t]])
  BY <1>1 DEF TypeOK, NodeOf
<1> QED
  BY <1>1, <1>2, <1>3, <1>4, OrderKept DEF WorkKept

LEMMA OrderObject ==
    ASSUME ExecutorInv, OrderInv, clock' = clock, task' = task, NEW p \in Pulses, NEW o,
           object' = [object EXCEPT ![p] = o], clock[p] >= p,
           GateKept(o, object[p]), WorkKept(o, object[p]),
           \A m \in msgs' : m \in msgs \/ MessageKept(m)
    PROVE  OrderInv'
<1>1. TypeOK /\ p \in Nat /\ clock[p] \in Nat /\ \A u \in Tasks : Call[u] \in Requests
  BY PulseFacts, CallFacts, TypeFacts DEF ExecutorInv
<1>2. object'[p] = o /\ \A q \in Pulses : q # p => object'[q] = object[q]
  BY <1>1 DEF TypeOK
<1> QED
  BY <1>1, <1>2, OrderKept DEF WorkKept

(* An object that changes in nothing that matters here *)
SameGate(o, x) ==
    /\ o.known = x.known /\ o.phase = x.phase /\ o.report = x.report
    /\ o.execute = x.execute /\ o.prevPending = x.prevPending /\ o.state = x.state

LEMMA SameGateKept ==
    ASSUME NEW o, NEW x, SameGate(o, x)
    PROVE  GateKept(o, x) /\ WorkKept(o, x)
BY DEF SameGate, GateKept, WorkKept, Told, Shut, InProcess

(* A machine may stop, and one that goes on holds what it held. *)
LEMMA EndRun ==
    ASSUME NEW t \in Tasks, NEW x, NEW pc \in Ended
    PROVE  RunKept(t, EndTask(x, pc))
<1>1. EndTask(x, pc).pc = pc /\ ~ EndTask(x, pc).active
  BY DEF EndTask, IdleTask
<1>2. pc \notin OwnSteps \cup {"sendCallResult", "finishRequest"}
  BY DEF Ended, OwnSteps
<1> QED
  BY <1>1, <1>2 DEF RunKept, Holds

LEMMA MoveRun ==
    ASSUME NEW t \in Tasks, NEW tk, tk.active = task[t].active,
           \/ Holds(task[t])
           \/ tk.pc \notin OwnSteps /\ ~ (tk.pc \in {"sendCallResult", "finishRequest"} /\ tk.negotiated)
    PROVE  RunKept(t, tk)
BY DEF RunKept, Holds

(* A call that acts is on a node in its pulse or a later one. *)
LEMMA LateNode ==
    ASSUME ExecutorInv, NEW t \in Tasks, task[t].pc \notin Ended \cup {"idle"}
    PROVE  NodeOf(t) >= SlotOf[t] /\ NodeOf(t) \in Nat /\ SlotOf[t] \in Nat
<1>1. TaskOK(task[t], NodeOf(t), SlotOf[t]) /\ NodeOf(t) \in Nat /\ SlotOf[t] \in Nat
  BY TypeFacts DEF ExecutorInv, LocalInv, TaskInv
<1> QED
  BY <1>1 DEF TaskOK

(* stepWaitObjectReady, stepWaitPendingConstructorFinished *)
LEMMA WaitObjectReadyOrder ==
    ASSUME ExecutorInv, OrderInv, NEW t \in Tasks,
           StepWaitObjectReady(t) \/ StepWaitPendingConstructorFinished(t)
    PROVE  OrderInv'
<1>1. TypeOK /\ task[t] \in TaskType /\ TaskOK(task[t], NodeOf(t), SlotOf[t])
  BY TypeFacts DEF ExecutorInv, LocalInv, TaskInv
<1>2. /\ clock' = clock /\ object' = object /\ msgs' = msgs
      /\ task[t].pc \in {"waitObjectReady", "waitConstructor"}
  BY DEF StepWaitObjectReady, StepWaitPendingConstructorFinished, Step, At
<1>3. ~ task[t].negotiated
  BY <1>1, <1>2 DEF TaskOK
<1>4. PICK tk : /\ task' = [task EXCEPT ![t] = tk]
                /\ \/ tk = EndTask(task[t], "dead")
                   \/ tk = [task[t] EXCEPT !.pc = "sendCallResult", !.outcome = "error"]
                   \/ tk = [task[t] EXCEPT !.pc = "waitConstructor"]
                   \/ tk = [task[t] EXCEPT !.pc = "deduplicate", !.negotiated = TRUE]
  <2>1. /\ [Goto(t, "sendCallResult") EXCEPT !.outcome = "error"]
              = [task[t] EXCEPT !.pc = "sendCallResult", !.outcome = "error"]
        /\ Goto(t, "waitConstructor") = [task[t] EXCEPT !.pc = "waitConstructor"]
        /\ [Goto(t, "deduplicate") EXCEPT !.negotiated = TRUE]
              = [task[t] EXCEPT !.pc = "deduplicate", !.negotiated = TRUE]
    BY <1>1 DEF Goto
  <2> QED
    BY <2>1 DEF StepWaitObjectReady, StepWaitPendingConstructorFinished, Step,
                StepIsolationNegotiation
<1>5. CASE tk = EndTask(task[t], "dead")
  BY <1>2, <1>4, <1>5, EndRun, OrderTask DEF Ended
<1>6. CASE tk # EndTask(task[t], "dead")
  <2>1. /\ tk.active = task[t].active
        /\ \/ tk.pc = "sendCallResult" /\ ~ tk.negotiated
           \/ tk.pc \in {"waitConstructor", "deduplicate"}
    BY <1>1, <1>3, <1>4, <1>6 DEF TaskType
  <2>2. RunKept(t, tk)
    BY <2>1, MoveRun DEF OwnSteps
  <2> QED
    BY <1>2, <1>4, <2>2, OrderTask
<1> QED
  BY <1>5, <1>6

(* SMVFindCallRequest, stepProcessFindCallResponse, stepTakeLock,          *)
(* stepRegisterObjectLifelineAfter                                         *)
LEMMA OwnStepsOrder ==
    ASSUME ExecutorInv, OrderInv, NEW t \in Tasks,
           \/ AnswerFindCall(t) \/ StepProcessFindCallResponse(t) \/ StepTakeLock(t)
           \/ StepRegisterObjectLifelineAfter(t)
    PROVE  OrderInv'
<1>1. TypeOK /\ task[t] \in TaskType /\ SlotOf[t] \in Pulses /\ object[SlotOf[t]] \in ObjectType
  BY TypeFacts, PulseFacts DEF ExecutorInv
<1>2. /\ clock' = clock /\ msgs' = msgs
      /\ task[t].pc \in OwnSteps /\ task[t].pc \notin Ended \cup {"idle"}
  BY DEF AnswerFindCall, StepProcessFindCallResponse, StepTakeLock, OwnSteps,
         StepRegisterObjectLifelineAfter, Step, At, Ended
<1>3. ASSUME NEW tk, tk.active = task[t].active PROVE RunKept(t, tk)
  BY <1>2, <1>3, MoveRun DEF Holds
<1>4. CASE AnswerFindCall(t)
  <2>1. PICK find : task' = [task EXCEPT ![t] = [task[t] EXCEPT !.find = find]]
    BY <1>4 DEF AnswerFindCall, Step
  <2> DEFINE tk == [task[t] EXCEPT !.find = find]
  <2>2. tk.active = task[t].active
    BY <1>1 DEF TaskType
  <2>3. object' = object /\ task' = [task EXCEPT ![t] = tk]
    BY <1>4, <2>1 DEF AnswerFindCall
  <2> HIDE DEF tk
  <2>4. RunKept(t, tk)
    BY <1>3, <2>2
  <2> QED
    BY <1>2, <2>3, <2>4, OrderTask
<1>5. CASE StepProcessFindCallResponse(t)
  <2>1. task[t].find \in {"result", "running", "notFound"} /\ object' = object
    BY <1>1, <1>5 DEF StepProcessFindCallResponse, TaskType
  <2>2. \/ \E pc \in {"dead", "deduplicated"} : task' = [task EXCEPT ![t] = EndTask(task[t], pc)]
        \/ task' = [task EXCEPT ![t] = EndTask([task[t] EXCEPT !.answer = "resent"],
                                               "deduplicated")]
        \/ task' = [task EXCEPT ![t] = Goto(t, "takeLock")]
    BY <2>1, <1>5 DEF StepProcessFindCallResponse, Step
  <2>3. "dead" \in Ended /\ "deduplicated" \in Ended
    BY DEF Ended
  <2>4. CASE task' = [task EXCEPT ![t] = Goto(t, "takeLock")]
    <3> DEFINE tk == Goto(t, "takeLock")
    <3>1. tk.active = task[t].active
      BY <1>1 DEF Goto, TaskType
    <3> HIDE DEF tk
    <3>2. RunKept(t, tk)
      BY <1>3, <3>1
    <3> QED
      BY <1>2, <2>1, <2>4, <3>2, OrderTask DEF tk
  <2> QED
    BY <1>2, <2>1, <2>2, <2>3, <2>4, EndRun, OrderTask
<1>6. CASE StepTakeLock(t)
  <2>1. PICK pc \in {"lifeline", "start"} :
           task' = [task EXCEPT ![t] = [Goto(t, pc) EXCEPT !.lock = TRUE]]
    BY <1>6 DEF StepTakeLock, Step
  <2> DEFINE tk == [Goto(t, pc) EXCEPT !.lock = TRUE]
  <2>2. tk.active = task[t].active
    BY <1>1 DEF Goto, TaskType
  <2>3. task' = [task EXCEPT ![t] = tk] /\ object' = object
    BY <1>6, <2>1 DEF StepTakeLock
  <2> HIDE DEF tk
  <2>4. RunKept(t, tk)
    BY <1>3, <2>2
  <2> QED
    BY <1>2, <2>3, <2>4, OrderTask
<1>7. CASE StepRegisterObjectLifelineAfter(t)
  <2> DEFINE x == object[SlotOf[t]]
             o == [x EXCEPT !.dirty = NewDescriptor({}, FALSE)]
             tk == [task[t] EXCEPT !.pc = "start"]
  <2>1. task' = [task EXCEPT ![t] = tk] /\ object' = [object EXCEPT ![SlotOf[t]] = o]
    BY <1>1, <1>7 DEF StepRegisterObjectLifelineAfter, Step, Goto
  <2>2. tk.active = task[t].active
    BY <1>1 DEF TaskType
  <2>3. SameGate(o, x)
    BY <1>1 DEF ObjectType, SameGate
  <2> HIDE DEF tk, o
  <2>4. RunKept(t, tk) /\ GateKept(o, x) /\ WorkKept(o, x)
    BY <1>3, <2>2, <2>3, SameGateKept
  <2> QED
    BY <1>2, <2>1, <2>4, LateNode, OrderTask
<1> QED
  BY <1>4, <1>5, <1>6, <1>7

(* The steps of a call that acts, up to its result *)
LEMMA ActingOrder ==
    ASSUME ExecutorInv, OrderInv, NEW t \in Tasks,
           \/ StepSendOutgoing(t) \/ StepExecuteContinue(t) \/ StepExecuteDecideNextStep(t)
           \/ StepSendCallResult(t)
    PROVE  OrderInv'
<1>1. TypeOK /\ task[t] \in TaskType /\ TaskOK(task[t], NodeOf(t), SlotOf[t])
  BY TypeFacts DEF ExecutorInv, LocalInv, TaskInv
<1>2. clock' = clock /\ object' = object /\ msgs' = msgs
  BY DEF StepSendOutgoing, StepExecuteContinue, StepExecuteDecideNextStep, StepSendCallResult
<1>3. ASSUME NEW tk, task' = [task EXCEPT ![t] = tk], tk.active = task[t].active,
             tk.negotiated = task[t].negotiated, tk.pc \in ActingSteps,
             task[t].pc \in {"execute", "sendCallResult"}
      PROVE  OrderInv'
  <2>1. tk.pc \notin OwnSteps
    BY <1>3 DEF ActingSteps, OwnSteps
  <2>2. Holds(task[t]) \/ ~ tk.negotiated
    BY <1>1, <1>3 DEF Holds, TaskOK
  <2>3. RunKept(t, tk)
    BY <1>3, <2>1, <2>2, MoveRun
  <2> QED
    BY <1>2, <1>3, <2>3, OrderTask
<1>5. CASE StepSendOutgoing(t)
  <2> DEFINE tk == [task[t] EXCEPT !.sent = 1]
  <2>1. task' = [task EXCEPT ![t] = tk] /\ task[t].pc = "execute"
    BY <1>5 DEF StepSendOutgoing, Step, At
  <2>2. /\ tk.active = task[t].active
        /\ tk.negotiated = task[t].negotiated /\ tk.pc \in ActingSteps
    BY <1>1, <2>1 DEF TaskType, ActingSteps
  <2> HIDE DEF tk
  <2> QED
    BY <1>3, <2>1, <2>2
<1>6. CASE StepExecuteContinue(t)
  <2> DEFINE tk == [task[t] EXCEPT !.sent = 0, !.called = TRUE]
  <2>1. task' = [task EXCEPT ![t] = tk] /\ task[t].pc = "execute"
    BY <1>6 DEF StepExecuteContinue, Step, At
  <2>2. /\ tk.active = task[t].active
        /\ tk.negotiated = task[t].negotiated /\ tk.pc \in ActingSteps
    BY <1>1, <2>1 DEF TaskType, ActingSteps
  <2> HIDE DEF tk
  <2> QED
    BY <1>3, <2>1, <2>2
<1>7. CASE StepExecuteDecideNextStep(t)
  <2>1. task[t].pc = "execute"
    BY <1>7 DEF StepExecuteDecideNextStep, Step, At
  <2>2. PICK outcome \in OutcomesOf[Call[t]] :
           \/ task' = [task EXCEPT ![t] = [Goto(t, "sendCallResult") EXCEPT !.outcome = "error"]]
           \/ task' = [task EXCEPT ![t] = [Goto(t, "saveNewObject") EXCEPT !.outcome = outcome]]
    BY <1>7 DEF StepExecuteDecideNextStep, Step
  <2> DEFINE fails == [Goto(t, "sendCallResult") EXCEPT !.outcome = "error"]
             saves == [Goto(t, "saveNewObject") EXCEPT !.outcome = outcome]
  <2>3. /\ fails.active = task[t].active
        /\ fails.negotiated = task[t].negotiated /\ fails.pc \in ActingSteps
        /\ saves.active = task[t].active
        /\ saves.negotiated = task[t].negotiated /\ saves.pc \in ActingSteps
    BY <1>1 DEF Goto, TaskType, ActingSteps
  <2>4. task' = [task EXCEPT ![t] = fails] \/ task' = [task EXCEPT ![t] = saves]
    BY <2>2
  <2> HIDE DEF fails, saves
  <2> QED
    BY <1>3, <2>1, <2>3, <2>4
<1>8. CASE StepSendCallResult(t)
  <2>1. task[t].pc = "sendCallResult"
    BY <1>8 DEF StepSendCallResult, Step, At
  <2>2. PICK answer : task' = [task EXCEPT ![t] = [Goto(t, "finishRequest") EXCEPT !.answer = answer]]
    BY <1>8 DEF StepSendCallResult, Step
  <2> DEFINE tk == [Goto(t, "finishRequest") EXCEPT !.answer = answer]
  <2>3. /\ tk.active = task[t].active
        /\ tk.negotiated = task[t].negotiated /\ tk.pc \in ActingSteps
    BY <1>1 DEF Goto, TaskType, ActingSteps
  <2> HIDE DEF tk
  <2> QED
    BY <1>3, <2>1, <2>2, <2>3 DEF tk
<1> QED
  BY <1>5, <1>6, <1>7, <1>8

(* stepSaveNewObject *)
LEMMA SaveNewObjectOrder ==
    ASSUME ExecutorInv, OnceInv, UseInv, OrderInv, NEW t \in Tasks, StepSaveNewObject(t)
    PROVE  OrderInv'
<1> DEFINE p == SlotOf[t]
           x == object[p]
<1>1. /\ TypeOK /\ task[t] \in TaskType /\ p \in Pulses /\ x \in ObjectType
      /\ TaskOK(task[t], NodeOf(t), p) /\ p \in Nat
  BY TypeFacts, PulseFacts DEF ExecutorInv, LocalInv, TaskInv
<1>2. clock' = clock /\ msgs' = msgs /\ task[t].pc = "saveNewObject"
  BY DEF StepSaveNewObject, Step, At
<1>3. task[t].active /\ NodeOf(t) >= p
  BY <1>1, <1>2, LateNode DEF TaskOK, Ended
<1>4. ~ task[t].migrated => x.state # "Unknown"
  <2>1. task[t].ran
    BY <1>3 DEF UseInv, StaticInv, MachineInv
  <2>2. ~ task[t].migrated => NodeOf(t) = p
    BY <1>1, <1>3 DEF TaskOK
  <2> QED
    BY <2>1, <2>2 DEF OnceInv, RanInv
<1>5. PICK new : \/ object' = object
                 \/ object' = [object EXCEPT ![p].dirty = new]
                 \/ object' = [object EXCEPT ![p] = SaveDescriptor(@, new)] /\ ~ task[t].migrated
  BY DEF StepSaveNewObject
<1>6. PICK tk : task' = [task EXCEPT ![t] = tk] /\ RunKept(t, tk)
  <2>1. CASE task' = [task EXCEPT ![t] = EndTask(task[t], "dead")]
    BY <2>1, EndRun DEF Ended
  <2>2. ASSUME NEW d, task' = [task EXCEPT ![t] = [Goto(t, "sendCallResult") EXCEPT !.new = d]]
        PROVE  \E tk : task' = [task EXCEPT ![t] = tk] /\ RunKept(t, tk)
    <3> DEFINE tk == [Goto(t, "sendCallResult") EXCEPT !.new = d]
    <3>1. tk.active = task[t].active
      BY <1>1 DEF Goto, TaskType
    <3> HIDE DEF tk
    <3>2. RunKept(t, tk)
      BY <1>3, <3>1, MoveRun DEF Holds
    <3> QED
      BY <2>2, <3>2 DEF tk
  <2> QED
    BY <2>1, <2>2 DEF StepSaveNewObject, Step
<1>7. \/ object' = object
      \/ \E o : object' = [object EXCEPT ![p] = o] /\ GateKept(o, x) /\ WorkKept(o, x)
  <2>1. CASE object' = [object EXCEPT ![p].dirty = new]
    <3> DEFINE o == [x EXCEPT !.dirty = new]
    <3>1. SameGate(o, x)
      BY <1>1 DEF ObjectType, SameGate
    <3>2. object' = [object EXCEPT ![p] = o]
      BY <1>1, <2>1
    <3> HIDE DEF o
    <3> QED
      BY <3>1, <3>2, SameGateKept
  <2>2. CASE object' = [object EXCEPT ![p] = SaveDescriptor(@, new)] /\ ~ task[t].migrated
    <3> DEFINE o == [x EXCEPT !.dirty = new, !.state = "HasState"]
    <3>1. /\ o.known = x.known /\ o.phase = x.phase /\ o.report = x.report
          /\ o.execute = x.execute /\ o.prevPending = x.prevPending
      BY <1>1 DEF ObjectType
    <3>2. object' = [object EXCEPT ![p] = o]
      BY <1>1, <2>2 DEF SaveDescriptor, TypeOK
    <3> HIDE DEF o
    <3>3. GateKept(o, x) /\ WorkKept(o, x)
      BY <1>4, <2>2, <3>1 DEF GateKept, WorkKept, Told, Shut, InProcess
    <3> QED
      BY <3>2, <3>3
  <2> QED
    BY <1>5, <2>1, <2>2
<1> QED
  BY <1>2, <1>3, <1>6, <1>7, OrderTask

(* stepPublishDataCallSummary *)
LEMMA PublishDataCallSummaryOrder ==
    ASSUME ExecutorInv, OrderInv, NEW t \in Tasks, StepPublishDataCallSummary(t)
    PROVE  OrderInv'
<1> DEFINE p == SlotOf[t]
           r == Call[t]
           x == object[p]
           o == [x EXCEPT !.summary[r] = "result"]
<1>1. /\ TypeOK /\ task[t] \in TaskType /\ p \in Pulses /\ x \in ObjectType
      /\ clock' = clock /\ msgs' = msgs /\ task[t].pc = "callSummary"
  BY TypeFacts, PulseFacts DEF ExecutorInv, StepPublishDataCallSummary, Step, At
<1>2. /\ object' = object \/ object' = [object EXCEPT ![p].summary[r] = "result"]
      /\ \/ task' = [task EXCEPT ![t] = EndTask(task[t], "dead")]
         \/ task' = [task EXCEPT ![t] = Goto(t, "sendFinished")]
  BY DEF StepPublishDataCallSummary, Step
<1>3. PICK tk : task' = [task EXCEPT ![t] = tk] /\ RunKept(t, tk)
  <2> DEFINE tk == Goto(t, "sendFinished")
  <2>1. tk.active = task[t].active /\ tk.pc = "sendFinished"
    BY <1>1 DEF Goto, TaskType
  <2> HIDE DEF tk
  <2>2. RunKept(t, tk)
    BY <2>1, MoveRun DEF OwnSteps
  <2>3. RunKept(t, EndTask(task[t], "dead"))
    BY EndRun DEF Ended
  <2> QED
    BY <1>2, <2>2, <2>3 DEF tk
<1>4. NodeOf(t) >= p
  BY <1>1, LateNode DEF Ended
<1>5. CASE object' = [object EXCEPT ![p].summary[r] = "result"]
  <2>1. object' = [object EXCEPT ![p] = o]
    BY <1>1, <1>5
  <2>2. SameGate(o, x)
    BY <1>1 DEF ObjectType, SameGate
  <2> HIDE DEF o
  <2>3. GateKept(o, x) /\ WorkKept(o, x)
    BY <2>2, SameGateKept
  <2> QED
    BY <1>1, <1>3, <1>4, <2>1, <2>3, OrderTask
<1> QED
  BY <1>1, <1>2, <1>3, <1>5, OrderTask

(* The report of an executor that has left its pulse, sent to the present  *)
(* one, counts what is awaited.                                            *)
LEMMA ReportKept ==
    ASSUME ExecutorInv, OrderInv, task' = task, clock' = clock, NEW q \in Pulses, NEW report,
           clock[q] = q, Awaited => report.OrderedPendingCount # 0
    PROVE  MessageKept(StateReportTo(q, report))
<1> DEFINE m == StateReportTo(q, report)
<1>1. m.to = q /\ m.type = "VStateReport" /\ m.report = report
  BY DEF StateReportTo
<1> HIDE DEF m
<1>2. Awaited' => Awaited
  BY DEF Awaited, TakenOn, NodeOf, IsOrdered
<1>3. Awaited' => Harmless(m)
  BY <1>1, <1>2 DEF Harmless
<1> QED
  BY <1>1, <1>3 DEF MessageKept, m

(* The steps of SMObject.  It opens its paths when it was told of nothing; *)
(* its report counts what is awaited.                                      *)
LEMMA ObjectStepsOrder ==
    ASSUME ExecutorInv, OrderInv, NEW p \in Pulses, ObjectStep(p)
    PROVE  OrderInv'
<1> DEFINE x == object[p]
<1>1. TypeOK /\ x \in ObjectType /\ ObjectOK(x, p, clock[p]) /\ p \in Nat /\ clock[p] \in Nat
  BY TypeFacts DEF ExecutorInv, LocalInv, ObjectInv
<1>2. clock' = clock /\ task' = task
  BY DEF ObjectStep, StepGetState, StepWaitState, StepPublishCallSummary, StepSendVStateReport,
         AnswerStateRequest
<1>3. CASE StepGetState(p) \/ StepWaitState(p)
  <2>0. msgs' = msgs /\ clock[p] = p /\ x.phase \in {"getState", "waitState"}
    BY <1>3 DEF StepGetState, StepWaitState, Present
  <2>1. PICK o : /\ object' = [object EXCEPT ![p] = o]
                 /\ \/ o = GotState(x) /\ x.state # "Unknown"
                    \/ o = [x EXCEPT !.phase = "waitState", !.asked = TRUE]
                    \/ o = [x EXCEPT !.phase = "asleep"]
    BY <1>1, <1>3 DEF StepGetState, StepWaitState, TypeOK
  <2>2. /\ o.known = x.known /\ o.state = x.state /\ o.prevPending = x.prevPending
        /\ \/ o.execute = x.execute
           \/ /\ x.state # "Unknown"
              /\ x.prevPending[Tolerable] # 0 => ~ o.execute[Tolerable]
    <3>1. CASE o = GotState(x) /\ x.state # "Unknown"
      <4>1. /\ o.known = x.known /\ o.state = x.state /\ o.prevPending = x.prevPending
            /\ o.execute = [f \in Flags |-> IF f = Tolerable THEN x.prevPending[Tolerable] = 0
                                            ELSE x.prevPending[Tolerable] = 0 \/ x.state # "Empty"]
        BY <1>1, <3>1 DEF GotState, OpenPaths, ObjectType
      <4> QED
        BY <3>1, <4>1, CallFacts
    <3>2. CASE \/ o = [x EXCEPT !.phase = "waitState", !.asked = TRUE]
               \/ o = [x EXCEPT !.phase = "asleep"]
      BY <1>1, <3>2 DEF ObjectType
    <3> QED
      BY <2>1, <3>1, <3>2
  <2>3. GateKept(o, x) /\ WorkKept(o, x)
    BY <2>0, <2>2 DEF GateKept, WorkKept, Told, Shut, InProcess
  <2>4. clock[p] >= p
    BY <1>1, <2>0
  <2> QED
    BY <1>2, <2>0, <2>1, <2>3, <2>4, OrderObject
<1>4. CASE StepPublishCallSummary(p)
  <2> DEFINE o == [x EXCEPT !.phase = "finalize", !.summary = x.results]
  <2>1. object' = [object EXCEPT ![p] = o] /\ msgs' = msgs /\ x.phase = "publish"
    BY <1>1, <1>4 DEF StepPublishCallSummary
  <2>2. /\ o.known = x.known /\ o.state = x.state /\ o.prevPending = x.prevPending
        /\ o.execute = x.execute /\ o.report = x.report /\ o.phase = "finalize"
    BY <1>1 DEF ObjectType
  <2> HIDE DEF o
  <2>3. GateKept(o, x) /\ WorkKept(o, x)
    BY <2>1, <2>2 DEF GateKept, WorkKept, Told, Shut, InProcess
  <2>4. clock[p] >= p
    BY <1>1, <2>1 DEF ObjectOK
  <2> QED
    BY <1>2, <2>1, <2>3, <2>4, OrderObject
<1>5. CASE StepSendVStateReport(p)
  <2> DEFINE o == [x EXCEPT !.phase = "sent"]
             m == StateReportTo(clock[p], x.report)
  <2>1. /\ object' = [object EXCEPT ![p] = o] /\ x.phase = "finalize"
        /\ \A n \in msgs' : n \in msgs \/ n = m
    BY <1>1, <1>5 DEF StepSendVStateReport, Posted
  <2>2. /\ o.known = x.known /\ o.state = x.state /\ o.prevPending = x.prevPending
        /\ o.execute = x.execute /\ o.report = x.report /\ o.phase = "sent"
    BY <1>1 DEF ObjectType
  <2> HIDE DEF o
  <2>3. GateKept(o, x) /\ WorkKept(o, x)
    BY <2>1, <2>2 DEF GateKept, WorkKept, Told, Shut, InProcess
  <2>4. clock[p] = p + 1 /\ clock[p] >= p
    BY <1>1, <2>1 DEF ObjectOK
  <2>5. clock[p] \in Pulses /\ clock[clock[p]] = clock[p]
    BY <1>1, TypeFacts DEF OrderInv, TogetherInv
  <2>6. Awaited => x.report.OrderedPendingCount # 0
    BY <2>4 DEF OrderInv, WaitInv, Told
  <2>7. MessageKept(m)
    BY <1>2, <2>5, <2>6, ReportKept
  <2> HIDE DEF m
  <2> QED
    BY <1>2, <2>1, <2>3, <2>4, <2>7, OrderObject
<1>6. CASE AnswerStateRequest(p)
  <2> DEFINE o == [x EXCEPT !.asked = FALSE]
             report == IF HasReport(p - 1) THEN object[p - 1].report ELSE MissingReport
             m == StateReportTo(p, report)
  <2>1. /\ object' = [object EXCEPT ![p] = o] /\ x.asked /\ clock[p - 1] = p
        /\ \A n \in msgs' : n \in msgs \/ n = m
    BY <1>1, <1>6 DEF AnswerStateRequest, Posted
  <2>2. SameGate(o, x)
    BY <1>1 DEF ObjectType, SameGate
  <2> HIDE DEF o
  <2>3. GateKept(o, x) /\ WorkKept(o, x)
    BY <2>2, SameGateKept
  <2>4. p - 1 \in Pulses /\ p = (p - 1) + 1
    BY <1>1, <2>1 DEF ObjectOK
  <2>5. clock[p] = p
    BY <2>1, <2>4 DEF OrderInv, TogetherInv
  <2>6. Awaited => report.OrderedPendingCount # 0
    <3>1. Awaited => Told(object[p - 1])
      BY <2>1, <2>4 DEF OrderInv, WaitInv
    <3> QED
      BY <2>1, <2>4, <3>1 DEF Told, HasReport
  <2> HIDE DEF report
  <2>7. MessageKept(m)
    BY <1>2, <2>5, <2>6, ReportKept
  <2>8. clock[p] >= p
    BY <1>1, <2>5
  <2> HIDE DEF m
  <2> QED
    BY <1>2, <2>1, <2>3, <2>7, <2>8, OrderObject
<1> QED
  BY <1>3, <1>4, <1>5, <1>6 DEF ObjectStep

(* GetOrCreate finds the object or creates a closed one. *)
LEMMA CreatedGate ==
    ASSUME ExecutorInv, NEW p \in Pulses
    PROVE  /\ GetOrCreate(p) \in ObjectType
           /\ GateKept(GetOrCreate(p), object[p]) /\ WorkKept(GetOrCreate(p), object[p])
<1> DEFINE o == GetOrCreate(p)
           x == object[p]
<1>1. /\ o \in ObjectType
      /\ o.phase = IF x.phase = "none" THEN "getState" ELSE x.phase
      /\ o.report = x.report /\ o.execute = x.execute /\ o.state = x.state
      /\ o.known = x.known /\ o.prevPending = x.prevPending
  BY GetOrCreateFacts
<1> HIDE DEF o
<1>2. GateKept(o, x) /\ WorkKept(o, x)
  BY <1>1 DEF GateKept, WorkKept, Told, Shut, InProcess
<1> QED
  BY <1>1, <1>2 DEF o

(* stepGetObject of a method *)
LEMMA GetObjectOrder ==
    ASSUME ExecutorInv, OrderInv, RepeatedSoon, NEW t \in Tasks, StepGetObject(t)
    PROVE  OrderInv'
<1> DEFINE p == SlotOf[t]
           o == GetOrCreate(p)
           tk == Goto(t, "waitObjectReady")
<1>1. TypeOK /\ task[t] \in TaskType /\ p \in Pulses /\ p \in Nat /\ Call[t] \notin Constructors
  BY TypeFacts, PulseFacts DEF ExecutorInv, RepeatedSoon
<1>2. GateKept(o, object[p]) /\ WorkKept(o, object[p])
  BY <1>1, CreatedGate
<1>3. object' = [object EXCEPT ![p] = o]
  BY <1>1 DEF StepGetObject
<1>4. /\ clock' = clock /\ msgs' = msgs /\ task' = [task EXCEPT ![t] = tk]
      /\ NodeOf(t) = p
  BY DEF StepGetObject, Step, Present, NodeOf
<1>5. tk.active = task[t].active /\ tk.pc = "waitObjectReady"
  BY <1>1 DEF Goto, TaskType
<1> HIDE DEF tk, o
<1>6. RunKept(t, tk)
  BY <1>5, MoveRun DEF OwnSteps
<1>7. NodeOf(t) >= p
  BY <1>1, <1>4
<1> QED
  BY <1>2, <1>3, <1>4, <1>6, <1>7, OrderTask

(* SMVStateReport and the creation of an object by a handler.  While a     *)
(* call is awaited every report counts it.                                 *)
LEMMA ReportOrder ==
    ASSUME ExecutorInv, OrderInv, NEW m \in msgs,
           ReceiveStateReport(m) \/ CreateForDelegated(m)
    PROVE  OrderInv'
<1> DEFINE p == m.to
           x == object[p]
           c == GetOrCreate(p)
           o == ApplyReport(c, m.report)
<1>1. TypeOK /\ p \in Pulses /\ x \in ObjectType /\ p \in Nat
  BY TypeFacts DEF ExecutorInv, TypeOK, MessageType
<1>2. c \in ObjectType /\ GateKept(c, x) /\ WorkKept(c, x)
  BY <1>1, CreatedGate
<1> HIDE DEF c
<1>3. /\ clock' = clock /\ task' = task /\ (\A n \in msgs' : n \in msgs) /\ clock[p] = p
      /\ \/ object' = object
         \/ /\ object' = [object EXCEPT ![p] = o]
            /\ m.type = "VStateReport" /\ Validate(m.report, p)
         \/ object' = [object EXCEPT ![p] = c]
  BY DEF ReceiveStateReport, CreateForDelegated, c, Present
<1>4. m.type = "VStateReport" /\ Validate(m.report, p) => GateKept(o, x) /\ WorkKept(o, x)
  <2> SUFFICES ASSUME m.type = "VStateReport", Validate(m.report, p)
               PROVE  GateKept(o, x) /\ WorkKept(o, x)
    OBVIOUS
  <2>1. m.report \in VStateReport
    BY <1>1 DEF TypeOK, MessageType
  <2>2. /\ o.known = c.known /\ o.execute = c.execute /\ o.report = c.report
        /\ c.phase \in {"publish", "finalize", "sent"} => o.phase = c.phase
        /\ o.prevPending = [f \in Flags |->
                    (IF f = Tolerable THEN m.report.OrderedPendingCount
                                      ELSE m.report.UnorderedPendingCount) % 256]
    BY <1>2 DEF ApplyReport, ObjectType
  <2>3. o.prevPending[Tolerable] = m.report.OrderedPendingCount % 256
    BY <2>2, CallFacts
  <2>4. Awaited => o.prevPending[Tolerable] # 0
    <3>1. Awaited => m.report.OrderedPendingCount # 0
      BY DEF OrderInv, WaitInv, Harmless
    <3>2. m.report.OrderedPendingCount % 256 = 0 => m.report.OrderedPendingCount = 0
      BY <2>1, ValidReport
    <3> QED
      BY <2>3, <3>1, <3>2
  <2> HIDE DEF o
  <2> QED
    BY <1>2, <2>2, <2>4 DEF GateKept, WorkKept, Told, Shut, InProcess
<1> HIDE DEF o
<1>5. CASE object' = object
  BY <1>3, <1>5, OrderKept
<1> QED
  BY <1>1, <1>2, <1>3, <1>4, <1>5, OrderObject

(* SMVDelegatedCallRequest *)
LEMMA DelegatedCallRequestOrder ==
    ASSUME ExecutorInv, OrderInv, NEW m \in msgs, ReceiveDelegatedCallRequest(m)
    PROVE  OrderInv'
<1> DEFINE q == m.to
           t == m.task
           r == Call[t]
           x == object[q]
           o == RegisterPending(x, r)
           tk == [task[t] EXCEPT !.granted = q]
<1>1. /\ TypeOK /\ q \in Pulses /\ t \in Tasks /\ q \in Nat
  BY PulseFacts DEF ExecutorInv, TypeOK, MessageType, ReceiveDelegatedCallRequest
<1>2. /\ x \in ObjectType /\ task[t] \in TaskType
      /\ \A u \in Tasks : Call[u] \in Requests
      /\ TaskOK(task[t], NodeOf(t), SlotOf[t])
  BY <1>1, TypeFacts, CallFacts DEF ExecutorInv, LocalInv, TaskInv
<1>3. /\ clock' = clock /\ (\A n \in msgs' : n \in msgs) /\ clock[q] = q
      /\ object' = object \/ object' = [object EXCEPT ![q] = o]
      /\ task' = task \/ (task[t].pc = "getToken" /\ task' = [task EXCEPT ![t] = tk])
  BY <1>1, <1>2 DEF ReceiveDelegatedCallRequest, TypeOK, At, Present
<1>4. \A u \in Tasks : task'[u] = task[u] \/ RunKept(u, task'[u])
  <2>1. CASE task' = task
    BY <2>1
  <2>2. CASE task[t].pc = "getToken" /\ task' = [task EXCEPT ![t] = tk]
    <3>1. tk.active = task[t].active
      BY <1>2 DEF TaskType
    <3> HIDE DEF tk
    <3>2. RunKept(t, tk)
      BY <1>1, <1>2, <2>2, <3>1, MoveRun DEF TaskOK, Holds
    <3> QED
      BY <1>1, <2>2, <3>2 DEF TypeOK
  <2> QED
    BY <1>3, <2>1, <2>2
<1> HIDE DEF tk
<1>5. \A p \in Pulses : \/ object'[p] = object[p]
                        \/ p = q /\ object'[p] = o
  BY <1>1, <1>3 DEF TypeOK
<1>6. GateKept(o, x) /\ WorkKept(o, x)
  <2>1. SameGate(o, x)
    BY <1>2 DEF RegisterPending, ObjectType, SameGate
  <2> QED
    BY <2>1, SameGateKept
<1> HIDE DEF o
<1> QED
  BY <1>1, <1>2, <1>3, <1>4, <1>5, <1>6, OrderKept DEF WorkKept

(* SMVDelegatedRequestFinished.  The paths are released by the end of an   *)
(* ordered call only, and there is no such message while one is awaited.   *)
LEMMA DelegatedRequestFinishedOrder ==
    ASSUME ExecutorInv, OrderInv, NEW m \in msgs, ReceiveDelegatedRequestFinished(m)
    PROVE  OrderInv'
<1> DEFINE q == m.to
           t == m.task
           r == Call[t]
           f == CallFlag[r]
           x == object[q]
           dirty == IF m.latest.has THEN m.latest ELSE x.dirty
           state == IF x.state # "Empty" THEN x.state
                    ELSE IF m.latest.has THEN "HasState"
                    ELSE IF f = Tolerable /\ r \in Constructors THEN "Missing"
                    ELSE x.state
           o1 == [x EXCEPT !.dirty = dirty]
           o2 == [o1 EXCEPT !.state = state]
           o3 == [o2 EXCEPT !.pending[f] = PendingFinish(@, r)]
           o4 == ReleasePaths(o3)
           same(o) == /\ o.known = x.known /\ o.report = x.report /\ o.phase = x.phase
                      /\ o.prevPending = x.prevPending
                      /\ o.state = "Unknown" <=> x.state = "Unknown"
<1>1. /\ TypeOK /\ q \in Pulses /\ t \in Tasks /\ m.type = "VDelegatedRequestFinished" /\ q \in Nat
  BY PulseFacts DEF ExecutorInv, TypeOK, MessageType, ReceiveDelegatedRequestFinished
<1>2. /\ x \in ObjectType /\ r \in Requests /\ f \in Flags
      /\ ObjectOK(x, q, clock[q])
  BY <1>1, TypeFacts, CallFacts DEF ExecutorInv, LocalInv, ObjectInv
<1>3. SetLatestState(x, m.latest) = o1 /\ o1.state = x.state
  BY <1>2 DEF SetLatestState, ObjectType
<1>4. DOMAIN x = DOMAIN NewObject("none")
  BY <1>2 DEF ObjectType, NewObject
<1>5. same(o1) /\ o1.execute = x.execute /\ o1.pending = x.pending /\ DOMAIN o1 = DOMAIN NewObject("none")
  <2> HIDE DEF dirty
  <2> QED
    BY <1>4 DEF NewObject
<1>6. same(o2) /\ o2.execute = x.execute /\ o2.pending = x.pending /\ DOMAIN o2 = DOMAIN NewObject("none")
  <2>1. state = "Unknown" <=> x.state = "Unknown"
    OBVIOUS
  <2> HIDE DEF o1, state
  <2> QED
    BY <1>5, <2>1 DEF NewObject
<1>7. same(o3) /\ o3.execute = x.execute /\ DOMAIN o3 = DOMAIN NewObject("none")
  <2> HIDE DEF o2
  <2> QED
    BY <1>6 DEF NewObject
<1>8. same(o4)
  <2> HIDE DEF o3
  <2> QED
    BY <1>7 DEF NewObject, ReleasePaths
<1>9. /\ clock' = clock /\ task' = task /\ (\A n \in msgs' : n \in msgs) /\ clock[q] = q
      /\ \/ object' = [object EXCEPT ![q] = o1] \/ object' = [object EXCEPT ![q] = o2]
         \/ object' = [object EXCEPT ![q] = o3]
         \/ Exist(o2.pending[f], r) /\ f = Tolerable /\ object' = [object EXCEPT ![q] = o4]
  BY <1>3 DEF ReceiveDelegatedRequestFinished, Present
<1> HIDE DEF o1, o2, o3, o4
<1>10. ASSUME NEW o, object' = [object EXCEPT ![q] = o], same(o), o.execute = x.execute \/ ~ Awaited
       PROVE  OrderInv'
  <2>1. GateKept(o, x) /\ WorkKept(o, x)
    BY <1>10 DEF GateKept, WorkKept, Told, Shut, InProcess
  <2>2. clock[q] >= q
    BY <1>1, <1>9
  <2> QED
    BY <1>1, <1>9, <1>10, <2>1, <2>2, OrderObject
<1>11. Exist(o2.pending[f], r) /\ f = Tolerable => ~ Awaited
  <2> SUFFICES ASSUME Exist(x.pending[f], r), f = Tolerable PROVE ~ Awaited
    BY <1>6
  <2>1. IsOrdered(t)
    BY <1>2 DEF ObjectOK, Exist, IsOrdered
  <2> QED
    BY <1>1, <2>1 DEF OrderInv, WaitInv, Harmless
<1> HIDE DEF same
<1> QED
  BY <1>5, <1>6, <1>7, <1>8, <1>9, <1>10, <1>11

(* stepDeduplicate: only the first machine of a request passes, and nobody *)
(* holds a request that is not in the list.                                *)
LEMMA DeduplicateOrder ==
    ASSUME ExecutorInv, OnceInv, UseInv, OrderInv, NEW t \in Tasks, StepDeduplicate(t)
    PROVE  OrderInv'
<1> DEFINE p == SlotOf[t]
           r == Call[t]
           f == FlagOf[r]
           x == object[p]
           list == WorkingAdd(x.known[f], r)
           o == [x EXCEPT !.known[f] = list]
<1>1. TypeOK /\ task[t].pc = "deduplicate" /\ clock' = clock /\ msgs' = msgs
  BY DEF ExecutorInv, StepDeduplicate, Step, At
<1>2. /\ NodeOf(t) = p /\ p \in Pulses /\ x \in ObjectType /\ p \in Nat /\ clock[p] = p
      /\ task[t] \in TaskType /\ r \in Requests /\ f \in Flags
  BY <1>1, EarlyNode, PulseFacts DEF EarlySteps, NodeOf
<1>3. object' = [object EXCEPT ![p] = o]
  <2>1. object' = [object EXCEPT ![p].known[f] = list]
    BY DEF StepDeduplicate, ObjectOf
  <2> HIDE DEF list
  <2> QED
    BY <1>1, <1>2, <2>1
<1>4. /\ x.known[f] \in ListType /\ x.known[f].requests \in [Requests -> RequestState]
      /\ list.requests = IF CanAdd(x.known[f], r)
                         THEN [x.known[f].requests EXCEPT ![r] = "Started"]
                         ELSE x.known[f].requests
  <2>1. x.known[f] \in ListType
    BY <1>2 DEF ObjectType
  <2> QED
    BY <1>2, <2>1, MethodsSetState DEF ListType
<1> HIDE DEF list
<1>5. /\ o.state = x.state /\ o.phase = x.phase /\ o.report = x.report
      /\ o.execute = x.execute /\ o.prevPending = x.prevPending
      /\ o.known = [x.known EXCEPT ![f] = list] /\ x.known \in [Flags -> ListType]
  BY <1>2 DEF ObjectType
<1> HIDE DEF o
<1>6. GateKept(o, x)
  BY <1>5 DEF GateKept, Told, Shut
<1>7. WorkKept(o, x)
  <2> SUFFICES ASSUME NEW q \in Requests, InProcess(x, q) PROVE InProcess(o, q)
    BY DEF WorkKept
  <2>1. FlagOf[q] \in Flags
    BY CallFacts
  <2>2. CASE FlagOf[q] = f
    <3>1. o.known[f] = list
      BY <1>2, <1>5
    <3>2. x.known[f].requests[q] = "Processing"
      BY <2>2 DEF InProcess
    <3>3. list.requests[q] = "Processing"
      BY <1>2, <1>4, <3>2 DEF CanAdd
    <3> QED
      BY <2>2, <3>1, <3>3 DEF InProcess
  <2>3. CASE FlagOf[q] # f
    BY <1>2, <1>5, <2>1, <2>3 DEF InProcess
  <2> QED
    BY <2>2, <2>3
<1>8. clock[p] >= p /\ NodeOf(t) >= p
  BY <1>2
<1>9. \/ \E y : \E pc \in Ended : task' = [task EXCEPT ![t] = EndTask(y, pc)]
      \/ /\ CanAdd(x.known[f], r)
         /\ \/ task' = [task EXCEPT ![t] = Goto(t, "takeLock")]
            \/ \E b : task' = [task EXCEPT ![t] = [Goto(t, "waitFindCall") EXCEPT !.settled = b]]
  <2>1. DeduplicationAction(t) \in {"ContinueExecute", "Stop", "NotImplemented",
                                    "DeduplicateThroughPreviousExecutor"}
    BY DEF DeduplicationAction
  <2>2. "deduplicated" \in Ended /\ "dead" \in Ended
    BY DEF Ended
  <2> QED
    BY <2>1, <2>2 DEF StepDeduplicate, Step, ObjectOf
<1>10. CASE \E y : \E pc \in Ended : task' = [task EXCEPT ![t] = EndTask(y, pc)]
  BY <1>1, <1>3, <1>6, <1>7, <1>8, <1>10, EndRun, OrderTask
<1>11. ASSUME CanAdd(x.known[f], r), NEW tk, task' = [task EXCEPT ![t] = tk],
              tk.active = task[t].active
       PROVE  OrderInv'
  <2>1. task'[t] = tk /\ \A u \in Tasks : u # t => task'[u] = task[u]
    BY <1>1, <1>11 DEF TypeOK
  <2>2. \A u \in Tasks : task'[u].active => task[u].active
    BY <1>11, <2>1
  <2>3. RunsInv' /\ TogetherInv' /\ WaitInv' /\ OneActive'
    <3>1. object'[p] = o /\ \A q \in Pulses : q # p => object'[q] = object[q]
      BY <1>1, <1>2, <1>3 DEF TypeOK
    <3>2. \A u \in Tasks : Call[u] \in Requests
      BY CallFacts
    <3> QED
      BY <1>1, <1>2, <1>6, <1>7, <1>8, <2>2, <3>1, <3>2, RunStep DEF WorkKept
  <2>4. \A u \in Tasks : u # t /\ Holds(task[u]) => ~ (Call[u] = r /\ SlotOf[u] = p)
    <3> SUFFICES ASSUME NEW u \in Tasks, u # t, Holds(task[u]), Call[u] = r, SlotOf[u] = p
                 PROVE  FALSE
      OBVIOUS
    <3>1. NodeOf(u) = p /\ ~ Noted(x, r) /\ TaskOK(task[u], NodeOf(u), SlotOf[u])
      BY <1>2, <1>11 DEF NodeOf, Noted, CanAdd, ExecutorInv, LocalInv, TaskInv
    <3>2. ~ Owns(task[u])
      BY <3>1 DEF OnceInv, NotedInv
    <3>3. ~ task[u].active
      BY <3>2 DEF UseInv, StaticInv, MachineInv, Owns
    <3>4. task[u].pc \in {"sendCallResult", "finishRequest"} /\ task[u].negotiated
      BY <3>2, <3>3 DEF Holds, Owns
    <3>5. ~ task[u].migrated
      BY <3>1, <3>3, <3>4 DEF TaskOK, Ended
    <3>6. Listed(x, r)
      BY <3>4, <3>5 DEF ExecutorInv, LocalInv, KnownInv, Started
    <3> QED
      BY <3>1, <3>6 DEF Listed, Noted
  <2>5. HolderInv'
    BY <2>1, <2>4 DEF OrderInv, HolderInv, Holds
  <2> QED
    BY <2>3, <2>5 DEF OrderInv
<1>12. CASE /\ CanAdd(x.known[f], r)
            /\ task' = [task EXCEPT ![t] = Goto(t, "takeLock")]
  <2> DEFINE tk == Goto(t, "takeLock")
  <2>1. tk.active = task[t].active
    BY <1>2 DEF Goto, TaskType
  <2> HIDE DEF tk
  <2> QED
    BY <1>11, <1>12, <2>1 DEF tk
<1>13. ASSUME CanAdd(x.known[f], r), NEW b,
              task' = [task EXCEPT ![t] = [Goto(t, "waitFindCall") EXCEPT !.settled = b]]
       PROVE  OrderInv'
  <2> DEFINE tk == [Goto(t, "waitFindCall") EXCEPT !.settled = b]
  <2>1. tk.active = task[t].active
    BY <1>2 DEF Goto, TaskType
  <2> HIDE DEF tk
  <2> QED
    BY <1>11, <1>13, <2>1 DEF tk
<1> QED
  BY <1>9, <1>10, <1>12, <1>13

(* stepStartRequestProcessing: the gate is open, so no call is awaited,    *)
(* and the lock of this executor is held by this call alone.               *)
LEMMA StartOrder ==
    ASSUME ExecutorInv, OrderInv, NEW t \in Tasks, StepStartRequestProcessing(t)
    PROVE  OrderInv'
<1> DEFINE p == SlotOf[t]
           r == Call[t]
           f == FlagOf[r]
           x == object[p]
           ok == CanSetActive(x.known[f], r)
           deactivated == IsDeactivated(x)
           panic == ~ ok \/ (~ deactivated /\ ~ x.dirty.has)
           list == WorkingSetActive(x.known[f], r)
           o == [x EXCEPT !.known[f] = list, !.results[r] = "empty"]
           run == [Goto(t, "execute") EXCEPT !.active = TRUE, !.ran = TRUE, !.base = x.dirty.memory]
           refuse == [Goto(t, "sendCallResult") EXCEPT !.outcome = "error"]
<1>1. TypeOK /\ task[t].pc = "start" /\ clock' = clock /\ msgs' = msgs
  BY DEF ExecutorInv, StepStartRequestProcessing, Step, At
<1>2. /\ NodeOf(t) = p /\ p \in Pulses /\ x \in ObjectType /\ p \in Nat /\ clock[p] = p
      /\ task[t] \in TaskType /\ r \in Requests /\ f \in Flags
      /\ TaskOK(task[t], NodeOf(t), p)
  BY <1>1, EarlyNode, PulseFacts DEF EarlySteps, NodeOf, ExecutorInv, LocalInv, TaskInv
<1>3. /\ object' = IF ok THEN [object EXCEPT ![p] = KnownSetActive(x, r)] ELSE object
      /\ task' = [task EXCEPT ![t] = IF panic THEN EndTask(task[t], "dead")
                                     ELSE IF deactivated THEN refuse ELSE run]
  BY <1>1, <1>2 DEF StepStartRequestProcessing, Step, ObjectOf, TypeOK
<1>4. KnownSetActive(x, r) = o
  BY <1>2 DEF KnownSetActive, ObjectType
<1>5. /\ x.known[f].requests \in [Requests -> RequestState]
      /\ list.requests = IF ok THEN [x.known[f].requests EXCEPT ![r] = "Processing"]
                         ELSE x.known[f].requests
  <2>1. x.known[f] \in ListType
    BY <1>2 DEF ObjectType
  <2> QED
    BY <1>2, <2>1, MethodsSetState DEF ListType
<1> HIDE DEF list
<1>6. /\ o.state = x.state /\ o.phase = x.phase /\ o.report = x.report
      /\ o.execute = x.execute /\ o.prevPending = x.prevPending
      /\ o.known = [x.known EXCEPT ![f] = list] /\ x.known \in [Flags -> ListType]
  BY <1>2 DEF ObjectType
<1>7. refuse.active = task[t].active
  BY <1>2 DEF Goto, TaskType
<1>8. Holds(task[t])
  BY <1>1 DEF Holds, OwnSteps
<1> HIDE DEF o, ok, panic, deactivated, run, refuse
<1>9. GateKept(o, x)
  BY <1>6 DEF GateKept, Told, Shut
<1>10. WorkKept(o, x) /\ (ok => InProcess(o, r))
  <2>0. o.known[f] = list /\ \A g \in Flags : g # f => o.known[g] = x.known[g]
    BY <1>2, <1>6
  <2>1. ASSUME NEW q \in Requests, InProcess(x, q) PROVE InProcess(o, q)
    <3>1. FlagOf[q] \in Flags
      BY CallFacts
    <3>2. CASE FlagOf[q] = f
      <4>1. x.known[f].requests[q] = "Processing"
        BY <2>1, <3>2 DEF InProcess
      <4>2. list.requests[q] = "Processing"
        BY <1>2, <1>5, <4>1
      <4> QED
        BY <2>0, <3>2, <4>2 DEF InProcess
    <3>3. CASE FlagOf[q] # f
      BY <2>0, <2>1, <3>1, <3>3 DEF InProcess
    <3> QED
      BY <3>2, <3>3
  <2>2. ok => InProcess(o, r)
    BY <1>2, <1>5, <2>0 DEF InProcess
  <2> QED
    BY <2>1, <2>2 DEF WorkKept
<1>11. clock[p] >= p /\ NodeOf(t) >= p
  BY <1>2
<1>12. object' = object \/ object' = [object EXCEPT ![p] = o]
  BY <1>3, <1>4
<1>13. CASE panic
  <2>1. RunKept(t, EndTask(task[t], "dead"))
    BY EndRun DEF Ended
  <2> QED
    BY <1>1, <1>3, <1>9, <1>10, <1>11, <1>12, <1>13, <2>1, OrderTask
<1>14. CASE ~ panic /\ deactivated
  <2>1. RunKept(t, refuse)
    BY <1>7, <1>8, MoveRun
  <2> QED
    BY <1>1, <1>3, <1>9, <1>10, <1>11, <1>12, <1>14, <2>1, OrderTask
<1>15. CASE ~ panic /\ ~ deactivated
  <2>1. /\ ok /\ task' = [task EXCEPT ![t] = run] /\ object' = [object EXCEPT ![p] = o]
    BY <1>3, <1>4, <1>15 DEF panic
  <2>2. /\ task'[t] = run /\ \A u \in Tasks : u # t => task'[u] = task[u]
        /\ object'[p] = o /\ \A q \in Pulses : q # p => object'[q] = object[q]
    BY <1>1, <1>2, <2>1 DEF TypeOK
  <2>3. \A u \in Tasks : NodeOf(u)' = NodeOf(u) /\ SlotOf[u] \in Pulses /\ SlotOf[u] \in Nat
                         /\ NodeOf(u) = p
    <3>1. \A u \in Tasks : NodeOf(u)' = NodeOf(u) /\ SlotOf[u] \in Pulses /\ SlotOf[u] \in Nat
      BY <1>1, PulseFacts DEF NodeOf
    <3>2. \A u \in Tasks : NodeOf(u) = NodeOf(t)
      BY <1>2, <3>1 DEF OrderInv, TogetherInv, NodeOf
    <3> QED
      BY <1>2, <3>1, <3>2
  <2>4. TogetherInv' /\ WaitInv'
    <3>1. \A u \in Tasks : TakenOn(u)' => TakenOn(u)
      BY <1>2, <2>2, <2>3 DEF TakenOn, IsOrdered
    <3>2. \A q \in Pulses : \/ object'[q] = object[q]
                            \/ clock[q] >= q /\ clock[q] \in Nat /\ q \in Nat
                               /\ GateKept(object'[q], object[q])
      BY <1>2, <1>9, <1>11, <2>2
    <3> QED
      BY <1>1, <3>1, <3>2, GateStep
  <2>5. HolderInv'
    BY <1>8, <2>2 DEF OrderInv, HolderInv, Holds
  <2>6. ASSUME NEW u \in Tasks, u # t, IsOrdered(t), IsOrdered(u), task[u].active
        PROVE  FALSE
    <3>1. TaskOK(task[u], NodeOf(u), SlotOf[u]) /\ task[u].lock /\ task[t].lock
      BY <1>1, <1>2, <2>6 DEF TaskOK, ExecutorInv, LocalInv, TaskInv
    <3>2. SlotOf[u] # p /\ x.execute[Tolerable]
      BY <1>2, <2>6, <3>1 DEF ExecutorInv, LocalInv, LockInv
    <3>3. SlotOf[u] < NodeOf(u)
      BY <1>2, <2>3, <2>6, <3>1, <3>2 DEF TaskOK
    <3>4. Awaited
      BY <2>6, <3>3 DEF Awaited, TakenOn
    <3>5. Shut(x)
      BY <1>2, <3>4 DEF OrderInv, WaitInv
    <3> QED
      BY <3>2, <3>5 DEF Shut
  <2>7. OneActive'
    <3> SUFFICES ASSUME NEW u \in Tasks, NEW v \in Tasks, IsOrdered(u), IsOrdered(v),
                        task'[u].active, task'[v].active
                 PROVE  u = v
      BY DEF OneActive, IsOrdered
    <3>1. CASE u # t /\ v # t
      BY <2>2, <3>1 DEF OrderInv, OneActive
    <3>2. CASE u = t \/ v = t
      BY <2>2, <2>6, <3>2
    <3> QED
      BY <3>1, <3>2
  <2>8. RunsInv'
    <3> SUFFICES ASSUME NEW u \in Tasks, task'[u].active, NodeOf(u) = SlotOf[u]
                 PROVE  InProcess(object'[SlotOf[u]], Call[u])
      BY <2>3 DEF RunsInv, InProcess
    <3>1. CASE u = t
      BY <1>10, <2>1, <2>2, <3>1
    <3>2. CASE u # t
      <4>1. InProcess(object[SlotOf[u]], Call[u]) /\ Call[u] \in Requests
        BY <2>2, <3>2, CallFacts DEF OrderInv, RunsInv
      <4> QED
        BY <1>10, <2>2, <2>3, <4>1 DEF WorkKept
    <3> QED
      BY <3>1, <3>2
  <2> QED
    BY <2>4, <2>5, <2>7, <2>8 DEF OrderInv
<1> QED
  BY <1>13, <1>14, <1>15

(* stepFinishRequest: the machine takes its own request out of the list. *)
LEMMA FinishRequestOrder ==
    ASSUME ExecutorInv, OnceInv, UseInv, OrderInv, NEW t \in Tasks, StepFinishRequest(t)
    PROVE  OrderInv'
<1> DEFINE p == SlotOf[t]
           r == Call[t]
           x == object[p]
           f == IF task[t].negotiated THEN FlagOf[r] ELSE CallFlag[r]
           finishes == ~ task[t].migrated /\ CanFinish(x.known[f], r)
           panic == finishes /\ x.results[r] = "none"
           list == WorkingFinish(x.known[f], r)
           result == IF panic THEN x.results[r] ELSE "result"
           o == [x EXCEPT !.known[f] = list, !.results[r] = result]
<1>1. /\ TypeOK /\ task[t] \in TaskType /\ p \in Pulses /\ x \in ObjectType
      /\ r \in Requests /\ f \in Flags /\ clock' = clock /\ msgs' = msgs
      /\ task[t].pc = "finishRequest" /\ p \in Nat /\ TableOK(x, p)
      /\ TaskOK(task[t], NodeOf(t), p)
  BY TypeFacts, PulseFacts, CallFacts
     DEF ExecutorInv, StepFinishRequest, Step, At, UseInv, StaticInv, TablesInv, LocalInv, TaskInv
<1>2. /\ object' = IF ~ finishes THEN object
                   ELSE [object EXCEPT ![p].known[f] = list, ![p].results[r] = result]
      /\ task' = [task EXCEPT ![t] = IF task[t].migrated THEN Goto(t, "callSummary")
                                     ELSE EndTask(task[t], IF panic THEN "dead" ELSE "done")]
  BY <1>1 DEF StepFinishRequest, Step, ObjectOf, TypeOK
<1>3. ~ task[t].migrated => \E pc \in Ended : task' = [task EXCEPT ![t] = EndTask(task[t], pc)]
  BY <1>2 DEF Ended
<1>4. CASE ~ finishes
  <2>1. CASE task[t].migrated
    <3> DEFINE tk == Goto(t, "callSummary")
    <3>1. tk.active = task[t].active /\ tk.pc = "callSummary"
      BY <1>1 DEF Goto, TaskType
    <3>2. task' = [task EXCEPT ![t] = tk]
      BY <1>2, <2>1
    <3> HIDE DEF tk
    <3>3. RunKept(t, tk)
      BY <3>1, MoveRun DEF OwnSteps
    <3> HIDE DEF finishes
    <3> QED
      BY <1>1, <1>2, <1>4, <3>2, <3>3, OrderTask
  <2>2. CASE ~ task[t].migrated
    <3> HIDE DEF finishes
    <3> QED
      BY <1>1, <1>2, <1>3, <1>4, <2>2, EndRun, OrderTask
  <2> QED
    BY <2>1, <2>2
<1>5. CASE finishes
  <2>1. Entered(x.known[f], r) /\ f = FlagOf[r] /\ ~ NoKnown(x)
    <3>1. Entered(x.known[f], r)
      BY <1>5 DEF CanFinish, Entered
    <3> HIDE DEF f
    <3> QED
      BY <1>1, <3>1 DEF TableOK, NoKnown
  <2>2. NodeOf(t) = p /\ clock[p] = p
    BY <1>1, <1>5 DEF TaskOK, Ended, NodeOf
  <2>3. task[t].negotiated
    <3> SUFFICES ASSUME ~ task[t].negotiated PROVE FALSE
      OBVIOUS
    <3>1. f = CallFlag[r] /\ FailsEarly(task[t])
      BY <1>1 DEF FailsEarly
    <3>2. ~ NegotiationFails(r)
      BY <2>1, <3>1 DEF NegotiationFails, FlagOf, Tolerable, Intolerable
    <3>3. x.state = "Missing"
      BY <3>1, <3>2 DEF UseInv, StaticInv, MachineInv
    <3>4. Live(p)
      BY <1>1, <2>2 DEF Live
    <3> QED
      BY <1>1, <2>1, <3>3, <3>4 DEF UseInv, StaticInv, UnusedInv
  <2>4. Holds(task[t])
    BY <1>1, <2>3 DEF Holds
  <2>5. /\ x.known[f].requests \in [Requests -> RequestState]
        /\ \A q \in Requests : q # r => list.requests[q] = x.known[f].requests[q]
    <3>1. x.known[f] \in ListType
      BY <1>1 DEF ObjectType
    <3>2. list.requests = IF CanFinish(x.known[f], r)
                          THEN [x.known[f].requests EXCEPT ![r] = "Finished"]
                          ELSE x.known[f].requests
      BY <1>1, <3>1, MethodsSetState
    <3>3. x.known[f].requests \in [Requests -> RequestState]
      BY <3>1 DEF ListType
    <3> HIDE DEF list, f
    <3> QED
      BY <1>1, <3>2, <3>3
  <2>6. PICK pc \in Ended : task' = [task EXCEPT ![t] = EndTask(task[t], pc)]
    BY <1>3, <1>5
  <2> HIDE DEF result, finishes, list
  <2>7. object' = [object EXCEPT ![p] = o]
    <3> HIDE DEF f
    <3> QED
      BY <1>1, <1>2, <1>5
  <2> HIDE DEF f
  <2>8. /\ o.state = x.state /\ o.phase = x.phase /\ o.report = x.report
        /\ o.execute = x.execute /\ o.prevPending = x.prevPending
        /\ o.known[f] = list /\ \A g \in Flags : g # f => o.known[g] = x.known[g]
    BY <1>1 DEF ObjectType
  <2> HIDE DEF o
  <2>9. GateKept(o, x)
    BY <2>8 DEF GateKept, Told, Shut
  <2>10. ASSUME NEW q \in Requests, q # r, InProcess(x, q) PROVE InProcess(o, q)
    <3>1. FlagOf[q] \in Flags
      BY CallFacts
    <3> QED
      BY <2>5, <2>8, <2>10, <3>1 DEF InProcess
  <2>11. /\ task'[t] = EndTask(task[t], pc) /\ \A u \in Tasks : u # t => task'[u] = task[u]
         /\ object'[p] = o /\ \A q \in Pulses : q # p => object'[q] = object[q]
    BY <1>1, <2>6, <2>7 DEF TypeOK
  <2>12. ~ task'[t].active /\ RunKept(t, task'[t])
    <3>1. ~ EndTask(task[t], pc).active
      BY DEF EndTask, IdleTask
    <3> QED
      BY <2>11, <3>1, EndRun
  <2>13. ASSUME NEW u \in Tasks, SlotOf[u] = p, task'[u].active, InProcess(x, Call[u])
         PROVE  InProcess(o, Call[u])
    <3>1. u # t /\ Holds(task[u])
      BY <2>11, <2>12, <2>13 DEF Holds
    <3>2. Call[u] # r
      BY <2>4, <2>13, <3>1 DEF OrderInv, HolderInv
    <3> QED
      BY <2>10, <2>13, <3>2, CallFacts
  <2>14. clock[p] >= p /\ clock[p] \in Nat
    BY <1>1, <2>2
  <2> QED
    BY <1>1, <2>9, <2>11, <2>12, <2>13, <2>14, OrderKept
<1> QED
  BY <1>4, <1>5

(* A delegated call tells the executor of its end: if it is ordered, no    *)
(* other ordered call is active.                                           *)
LEMMA DelegatedEndsOrder ==
    ASSUME ExecutorInv, OrderInv, NEW t \in Tasks, task[t].active,
           NEW x, NEW pc \in Ended, NEW latest,
           clock' = clock, object' = object, task' = [task EXCEPT ![t] = EndTask(x, pc)],
           msgs' = msgs \cup Posted({DelegatedRequestFinished(NodeOf(t), t, latest)})
    PROVE  OrderInv'
<1> DEFINE m == DelegatedRequestFinished(NodeOf(t), t, latest)
<1>1. TypeOK /\ NodeOf(t) \in Pulses /\ SlotOf[t] \in Pulses
  BY TypeFacts, PulseFacts DEF ExecutorInv
<1>2. m.type = "VDelegatedRequestFinished" /\ m.task = t /\ m.to = NodeOf(t)
  BY DEF DelegatedRequestFinished
<1>3. \A n \in msgs' : n \in msgs \/ n = m
  BY DEF Posted
<1> HIDE DEF m
<1>4. task'[t] = EndTask(x, pc) /\ \A u \in Tasks : u # t => task'[u] = task[u]
  BY <1>1 DEF TypeOK
<1>5. RunKept(t, task'[t]) /\ ~ task'[t].active
  <2>1. ~ EndTask(x, pc).active
    BY DEF EndTask, IdleTask
  <2> QED
    BY <1>4, <2>1, EndRun
<1>6. MessageKept(m)
  <2>1. m.to \in Pulses /\ m.to = clock[m.to]
    BY <1>1, <1>2 DEF NodeOf, OrderInv, TogetherInv
  <2>2. ASSUME Awaited', IsOrdered(t) PROVE FALSE
    <3>1. PICK u \in Tasks : IsOrdered(u) /\ task'[u].active
      BY <2>2 DEF Awaited, TakenOn, IsOrdered
    <3>2. u # t /\ task[u].active
      BY <1>4, <1>5, <3>1
    <3> QED
      BY <2>2, <3>1, <3>2 DEF OrderInv, OneActive
  <2> QED
    BY <1>2, <2>1, <2>2 DEF MessageKept, Harmless
<1> QED
  BY <1>3, <1>4, <1>5, <1>6, OrderKept

(* stepSendDelegatedRequestFinished, stepGetDelegationToken *)
LEMMA DelegatedOrder ==
    ASSUME ExecutorInv, OrderInv, NEW t \in Tasks,
           StepSendDelegatedRequestFinished(t) \/ StepDelegationToken(t)
    PROVE  OrderInv'
<1>1. /\ task[t] \in TaskType /\ TaskOK(task[t], NodeOf(t), SlotOf[t]) /\ TypeOK
      /\ task[t].sent \in Nat
  BY TypeFacts DEF ExecutorInv, LocalInv, TaskInv, TaskType
<1>2. clock' = clock /\ object' = object /\ task[t].pc \in {"sendFinished", "getToken"}
  BY DEF StepSendDelegatedRequestFinished, StepDelegationToken, Step, At
<1>3. task[t].active
  BY <1>1, <1>2 DEF TaskOK, Ended
<1>4. CASE StepSendDelegatedRequestFinished(t)
  <2>1. /\ task' = [task EXCEPT ![t] = EndTask(task[t], "done")] /\ "done" \in Ended
        /\ msgs' = msgs \cup Posted({DelegatedRequestFinished(NodeOf(t), t, task[t].new)})
    BY <1>4 DEF StepSendDelegatedRequestFinished, Step, NodeOf, Ended
  <2> QED
    BY <1>2, <1>3, <2>1, DelegatedEndsOrder
<1>5. CASE StepDelegationToken(t)
  <2> DEFINE tk == [task[t] EXCEPT !.pc = task[t].resume, !.resume = "idle",
                                   !.granted = UnknownPulse]
             again == [tk EXCEPT !.sent = task[t].sent + 1]
  <2>1. tk.active = task[t].active /\ tk.sent = task[t].sent /\ tk \in TaskType
    <3>1. task[t].resume \in TaskStep
      BY <1>1 DEF TaskType
    <3> QED
      BY <1>1, <3>1 DEF TaskType, TaskStep
  <2> HIDE DEF tk
  <2>2. again.active = task[t].active
    BY <2>1 DEF TaskType
  <2> HIDE DEF again
  <2>3. ASSUME NEW new \in {tk, again}, msgs' = msgs, task' = [task EXCEPT ![t] = new]
        PROVE  OrderInv'
    <3>1. new.active = task[t].active
      BY <2>1, <2>2
    <3>2. RunKept(t, new)
      BY <1>3, <3>1, MoveRun DEF Holds
    <3> QED
      BY <1>2, <2>3, <3>2, OrderTask
  <2>4. CASE task[t].sent >= MaxOutgoingSendCount
    <3>1. task[t].sent # 0
      BY <1>1, <2>4, RequestKindsAssumption
    <3>2. /\ task' = [task EXCEPT ![t] = EndTask(tk, "dead")] /\ "dead" \in Ended
          /\ msgs' = msgs \cup Posted({DelegatedRequestFinished(NodeOf(t), t, NoDescriptor)})
      BY <1>5, <2>1, <2>4, <3>1 DEF StepDelegationToken, Step, NodeOf, Ended, tk
    <3> QED
      BY <1>2, <1>3, <3>2, DelegatedEndsOrder
  <2>5. CASE ~ (task[t].sent >= MaxOutgoingSendCount)
    <3>1. msgs' = msgs
      BY <1>5, <2>1, <2>5 DEF StepDelegationToken, tk
    <3>2. task' = [task EXCEPT ![t] = tk] \/ task' = [task EXCEPT ![t] = again]
      BY <1>5, <2>1, <2>5 DEF StepDelegationToken, Step, tk, again
    <3> QED
      BY <2>3, <3>1, <3>2
  <2> QED
    BY <2>4, <2>5
<1> QED
  BY <1>4, <1>5

LEMMA ActiveCounted ==
    ASSUME NEW list \in ListType, ListConsistent(list), NEW r \in Requests,
           list.requests[r] = "Processing"
    PROVE  list.countActive # 0
<1>1. r \in Active(list) /\ IsFiniteSet(Active(list))
  BY ActiveFinite DEF Active
<1>2. Cardinality(Active(list)) # 0
  BY <1>1, FS_EmptySet
<1> QED
  BY <1>2 DEF ListConsistent, CountsActive

(* The pulse change: the report of the executor counts an ordered call     *)
(* that goes on, as a call of its own or as a pending one, and the next    *)
(* executor begins with a closed gate.                                     *)
LEMMA AdvanceCounts ==
    ASSUME ExecutorInv, OnceInv, UseInv, OrderInv, NEW old \in Pulses,
           clock[old] = old, NEW t \in Tasks, IsOrdered(t), Hot(t), task[t].active,
           NodeOf(t) = old, SlotOf[t] <= old
    PROVE  Told(MigrateObject(object[old]))
<1> DEFINE x == object[old]
           pending == x.pending[Tolerable]
           known == x.known[Tolerable]
<1>1. /\ old \in Nat /\ SlotOf[t] \in Nat /\ SlotOf[t] \in Pulses /\ Call[t] \in Requests
      /\ x \in ObjectType /\ ObjectOK(x, old, old) /\ TableOK(x, old) /\ Live(old)
  BY PulseFacts, TypeFacts, CallFacts
     DEF ExecutorInv, LocalInv, ObjectInv, UseInv, StaticInv, TablesInv, Live
<1>2. /\ pending \in ListType /\ known \in ListType /\ ListConsistent(pending)
      /\ ListConsistent(known)
  BY <1>1, CallFacts DEF ObjectType, TableOK
<1>3. pending.countActive \in Nat /\ known.countActive \in Nat
  BY <1>2, ConsistentCount
<1>4. x.state # "Unknown" /\ (pending.countActive # 0 \/ known.countActive # 0)
  <2>1. CASE SlotOf[t] = old
    <3>1. InProcess(x, Call[t])
      BY <2>1 DEF OrderInv, RunsInv
    <3>2. known.requests[Call[t]] = "Processing"
      BY <3>1 DEF InProcess, IsOrdered
    <3>3. x.state # "Unknown"
      BY <2>1 DEF UseInv, StaticInv, MachineInv, OnceInv, RanInv
    <3> QED
      BY <1>1, <1>2, <3>2, <3>3, ActiveCounted
  <2>2. CASE SlotOf[t] # old
    <3>1. NodeOf(t) > SlotOf[t]
      BY <1>1, <2>2
    <3>2. pending.requests[Call[t]] = "Processing"
      BY <1>1, <3>1 DEF ExecutorInv, CoreInv, PendingInv
    <3>3. x.state = "Unknown" => pending = NewList
      BY <1>1 DEF ObjectOK
    <3>4. NewList.requests[Call[t]] = "Unknown"
      BY <1>1 DEF NewList
    <3> QED
      BY <1>1, <1>2, <3>2, <3>3, <3>4, ActiveCounted
  <2> QED
    BY <2>1, <2>2
<1>5. /\ MigrateObject(x).phase = "publish"
      /\ MigrateObject(x).report.OrderedPendingCount = pending.countActive + known.countActive
  BY <1>1, <1>4, MigrateObjectFacts
<1> HIDE DEF pending, known
<1>6. pending.countActive + known.countActive # 0
  BY <1>3, <1>4
<1> QED
  BY <1>5, <1>6 DEF Told

LEMMA AdvanceOrder ==
    ASSUME ExecutorInv, OnceInv, UseInv, OrderInv, NEW old \in Pulses, ~ Skewed,
           AdvancePulse(Pulses, old)
    PROVE  OrderInv'
<1>0. Pulses \in ChangeTogether
  BY DEF ChangeTogether
<1>1. /\ old \in Nat /\ old + 1 \in Pulses
      /\ \A n \in Pulses : n \in Nat /\ clock[n] = old /\ clock'[n] = old + 1
      /\ \A n \in Pulses : n > old => object'[n] = object[n]
      /\ object'[old] = MigrateObject(object[old])
  BY <1>0, AdvanceFacts, PulseFacts
<1>2. \A t \in Tasks : /\ NodeOf(t) = old /\ NodeOf(t)' = old + 1
                       /\ SlotOf[t] \in Nat /\ SlotOf[t] \in Pulses
                       /\ task'[t] = MigrateTask(task[t])
                       /\ TaskOK(task'[t], old + 1, SlotOf[t])
                       /\ task'[t].active => task[t].active /\ Hot(t) /\ task'[t].pc = "getToken"
  <2>1. \A t \in Tasks : SlotOf[t] \in Nat /\ SlotOf[t] \in Pulses
    BY PulseFacts, TypeFacts DEF ExecutorInv
  <2> QED
    BY <1>0, <2>1, AdvanceFacts
<1>3. \A m \in msgs' : m.type = "VDelegatedCallRequest" /\ m.to = old + 1
  <2> SUFFICES ASSUME NEW m \in msgs' PROVE m.type = "VDelegatedCallRequest" /\ m.to = old + 1
    OBVIOUS
  <2>1. ~ (m \in msgs /\ ~ (m.to = old))
    BY <1>1 DEF OrderInv, TogetherInv
  <2>2. PICK t \in Tasks : m = DelegatedCallRequest(old + 1, t)
    BY <2>1 DEF AdvancePulse, Posted
  <2> QED
    BY <2>2 DEF DelegatedCallRequest
<1>4. TogetherInv'
  <2>1. \A p \in Pulses : clock'[p] < p => object'[p].phase = "none"
    <3> SUFFICES ASSUME NEW p \in Pulses, clock'[p] < p PROVE object'[p].phase = "none"
      OBVIOUS
    <3>1. p \in Nat /\ p > old /\ clock[p] < p
      BY <1>1
    <3> QED
      BY <1>1, <3>1 DEF OrderInv, TogetherInv
  <2> QED
    BY <1>1, <1>3, <2>1 DEF TogetherInv
<1>5. ASSUME NEW t \in Tasks, Holds(task'[t]) PROVE Holds(task[t])
  <2> DEFINE x == task[t]
  <2>1. x.pc \in Ended \cup {"idle"} => MigrateTask(x) = x
    BY DEF MigrateTask, Asks, Ended
  <2>2. Asks(x) => x.active
    BY DEF Asks
  <2>3. ASSUME x.pc \notin Ended \cup {"idle"}, ~ Asks(x) PROVE FALSE
    <3>1. PICK pc \in {"dead", "stopped"} : MigrateTask(x) = EndTask(x, pc)
      BY <2>3 DEF MigrateTask
    <3>2. EndTask(x, pc).pc = pc /\ ~ EndTask(x, pc).active
      BY DEF EndTask, IdleTask
    <3> QED
      BY <1>2, <1>5, <3>1, <3>2 DEF Holds, OwnSteps
  <2> QED
    BY <1>2, <1>5, <2>1, <2>2, <2>3 DEF Holds
<1>6. HolderInv'
  BY <1>5 DEF HolderInv, OrderInv, Holds
<1>7. RunsInv'
  <2> SUFFICES ASSUME NEW t \in Tasks, task'[t].active, NodeOf(t)' = SlotOf[t] PROVE FALSE
    BY DEF RunsInv
  <2>1. task'[t].pc = "getToken" /\ TaskOK(task'[t], old + 1, SlotOf[t])
    BY <1>2
  <2>2. old + 1 > SlotOf[t]
    BY <2>1 DEF TaskOK
  <2> QED
    BY <1>1, <1>2, <2>2
<1>8. OneActive'
  BY <1>2 DEF OneActive, OrderInv, IsOrdered
<1>9. WaitInv'
  <2> SUFFICES ASSUME NEW t \in Tasks, TakenOn(t)'
               PROVE  /\ \A p \in Pulses : clock'[p] = p => Shut(object'[p])
                      /\ \A p \in Pulses : clock'[p] = p + 1 => Told(object'[p])
                      /\ \A m \in msgs' : Harmless(m)
    BY DEF WaitInv, Awaited, Shut, Told, Harmless, IsOrdered
  <2>1. /\ IsOrdered(t) /\ task[t].active /\ Hot(t) /\ NodeOf(t) = old /\ SlotOf[t] <= old
    BY <1>1, <1>2 DEF TakenOn, IsOrdered
  <2>2. \A m \in msgs' : Harmless(m)
    BY <1>3 DEF Harmless
  <2>3. Told(object'[old])
    BY <1>1, <2>1, AdvanceCounts
  <2>4. Shut(object'[old + 1])
    <3>1. clock[old + 1] < old + 1 /\ old + 1 > old
      BY <1>1
    <3>2. object'[old + 1] = NewObject("none")
      BY <1>1, <3>1 DEF OrderInv, TogetherInv, ExecutorInv, LocalInv, ObjectInv, ObjectOK
    <3> QED
      BY <3>2, CallFacts DEF Shut, NewObject
  <2>5. \A p \in Pulses : /\ clock'[p] = p => p = old + 1
                          /\ clock'[p] = p + 1 => p = old
    BY <1>1
  <2> QED
    BY <2>2, <2>3, <2>4, <2>5
<1> QED
  BY <1>4, <1>6, <1>7, <1>8, <1>9 DEF OrderInv

(* At a handover the executor that has left counts its ordered call. *)
LEMMA InitOrder == ASSUME RepeatedSoon PROVE Init => OrderInv
<1> SUFFICES ASSUME Init PROVE OrderInv
  OBVIOUS
<1>1. PICK h \in Handovers : TakenOver(h)
  BY DEF Init
<1> DEFINE s == h.pulse
           missing == h.report.Status = "Missing"
           none == NewObject(IF missing THEN "gone" ELSE "sent")
           summary == [r \in Requests |-> IF r \in h.finished THEN "result"
                                          ELSE IF \E t \in h.running : Call[t] = r THEN "empty"
                                          ELSE "none"]
           left == [none EXCEPT !.report = h.report, !.summary = summary]
           run == [IdleTask EXCEPT !.pc = "getToken", !.resume = "execute",
                      !.lock = TRUE, !.active = TRUE, !.ran = TRUE,
                      !.migrated = TRUE, !.negotiated = TRUE,
                      !.base = h.report.ProvidedContent.memory]
<1>2. s \in Pulses /\ s \in Nat /\ h.running \subseteq {t \in Tasks : SlotOf[t] = s}
  BY HandoversAssumption, PulseFacts
<1>3. /\ clock = [n \in Pulses |-> s + 1]
      /\ object = [q \in Pulses |-> IF q = s THEN left ELSE NewObject("none")]
      /\ task = [t \in Tasks |-> IF t \in h.running THEN run ELSE IdleTask]
      /\ msgs = {DelegatedCallRequest(s + 1, t) : t \in h.running}
                \cup (IF missing THEN {} ELSE {StateReportTo(s + 1, h.report)})
  BY <1>1 DEF TakenOver
<1>4. left.phase = (IF missing THEN "gone" ELSE "sent") /\ left.report = h.report
  BY DEF NewObject
<1> HIDE DEF left
<1>5. \A t \in Tasks : Holds(task[t]) \/ task[t].active => t \in h.running
  <2>1. ~ Holds(IdleTask) /\ ~ IdleTask.active
    BY DEF Holds, IdleTask, OwnSteps
  <2> HIDE DEF run
  <2> QED
    BY <1>3, <2>1
<1>6. \A m \in msgs : m.to = s + 1 /\ \/ m.type = "VDelegatedCallRequest"
                                      \/ m.type = "VStateReport" /\ m.report = h.report
  <2>1. \A t \in h.running : /\ DelegatedCallRequest(s + 1, t).to = s + 1
                             /\ DelegatedCallRequest(s + 1, t).type = "VDelegatedCallRequest"
    BY DEF DelegatedCallRequest
  <2>2. /\ StateReportTo(s + 1, h.report).type = "VStateReport"
        /\ StateReportTo(s + 1, h.report).to = s + 1
        /\ StateReportTo(s + 1, h.report).report = h.report
    BY DEF StateReportTo
  <2>3. \A m \in msgs : \/ m = StateReportTo(s + 1, h.report)
                        \/ \E t \in h.running : m = DelegatedCallRequest(s + 1, t)
    BY <1>3
  <2> QED
    BY <2>1, <2>2, <2>3
<1>7. HolderInv
  BY <1>5, HandoversAssumption DEF HolderInv
<1>8. OneActive
  <2>1. \A t, u \in h.running : IsOrdered(t) /\ IsOrdered(u) => t = u
    BY HandoversAssumption DEF IsOrdered, FlagOf
  <2> QED
    BY <1>5, <2>1 DEF OneActive
<1>9. \A t \in Tasks : task[t].active => NodeOf(t) = s + 1 /\ SlotOf[t] = s
  BY <1>2, <1>3, <1>5 DEF NodeOf
<1>10. RunsInv
  BY <1>2, <1>9 DEF RunsInv
<1>11. TogetherInv
  <2>1. \A p \in Pulses : p \in Nat /\ (p # s => object[p] = NewObject("none"))
    BY <1>3, PulseFacts
  <2>2. NewObject("none").phase = "none"
    BY DEF NewObject
  <2>3. \A p \in Pulses : clock[p] < p => object[p].phase = "none"
    BY <1>2, <1>3, <2>1, <2>2
  <2> QED
    BY <1>3, <1>6, <2>3 DEF TogetherInv
<1>12. WaitInv
  <2> SUFFICES ASSUME NEW t \in Tasks, TakenOn(t)
               PROVE  /\ \A p \in Pulses : clock[p] = p => Shut(object[p])
                      /\ \A p \in Pulses : clock[p] = p + 1 => Told(object[p])
                      /\ \A m \in msgs : Harmless(m)
    BY DEF WaitInv, Awaited
  <2>1. t \in h.running /\ MethodFlag[Call[t]] = Tolerable /\ Call[t] \notin Constructors
    BY <1>5 DEF TakenOn, IsOrdered, FlagOf, RepeatedSoon
  <2>2. ~ missing /\ h.report.OrderedPendingCount # 0
    BY <2>1, HandoversAssumption
  <2>3. \A m \in msgs : Harmless(m)
    BY <1>6, <2>2 DEF Harmless
  <2>4. Told(left)
    BY <1>4, <2>2 DEF Told
  <2>5. Shut(NewObject("none"))
    BY CallFacts DEF Shut, NewObject
  <2>6. \A p \in Pulses : /\ p \in Nat
                          /\ clock[p] = p => object[p] = NewObject("none")
                          /\ clock[p] = p + 1 => object[p] = left
    BY <1>2, <1>3, PulseFacts
  <2> QED
    BY <2>3, <2>4, <2>5, <2>6
<1> QED
  BY <1>7, <1>8, <1>10, <1>11, <1>12 DEF OrderInv

LEMMA NextOrder ==
    ASSUME ExecutorInv, OnceInv, UseInv, OrderInv, RepeatedSoon, ~ Skewed, [Next]_vars
    PROVE  OrderInv'
<1>1. ASSUME NEW t \in Tasks, TaskStepOf(t) PROVE OrderInv'
  BY <1>1, WaitObjectReadyOrder, DeduplicateOrder, OwnStepsOrder, StartOrder, ActingOrder,
     SaveNewObjectOrder, FinishRequestOrder, PublishDataCallSummaryOrder, DelegatedOrder
     DEF TaskStepOf
<1>2. CASE PulseChange
  <2>1. PICK old \in Pulses : AdvancePulse(Pulses, old)
    BY <1>2 DEF PulseChange, ChangeTogether
  <2> QED
    BY <2>1, AdvanceOrder
<1>3. CASE Receive
  BY <1>3, ReportOrder, DelegatedCallRequestOrder, DelegatedRequestFinishedOrder DEF Receive
<1>4. CASE UNCHANGED vars
  <2>1. clock' = clock /\ object' = object /\ task' = task /\ msgs' = msgs
    BY <1>4 DEF vars
  <2> QED
    BY <2>1, OrderKept
<1>5. ASSUME NEW p \in Pulses, ObjectStep(p) PROVE OrderInv'
  BY <1>5, ObjectStepsOrder
<1>6. ASSUME NEW t \in Tasks, StepGetObject(t) PROVE OrderInv'
  BY <1>6, GetObjectOrder
<1> QED
  BY <1>1, <1>2, <1>3, <1>4, <1>5, <1>6 DEF Next

(* At most one ordered call is in its contract code, whatever the nodes    *)
(* do, when they change the pulse together and the calls are methods that  *)
(* are repeated soon.  A call that waits for its token counts as one that  *)
(* runs: the executor that has no token to give yet lets nobody else in.   *)
(* Nothing is asked of the length of a pulse (Timely).                     *)
THEOREM OneOrderedRuns == (RepeatedSoon /\ ~ Skewed) => (Spec => []OrderedExclusion)
<1> SUFFICES ASSUME RepeatedSoon, ~ Skewed PROVE Spec => []OrderedExclusion
  OBVIOUS
<1>1. OnceInv /\ ExecutorInv /\ [Next]_vars => OnceInv'
  BY NextOnce
<1>2. OnceInv /\ ExecutorInv /\ UseInv /\ [Next]_vars => UseInv'
  BY NextUse
<1>3. OnceInv /\ ExecutorInv /\ UseInv /\ OrderInv /\ [Next]_vars => OrderInv'
  BY NextOrder
<1>4. Init => UseInv
  BY InitUse
<1>5. Init => OrderInv
  BY InitOrder
<1>6. OrderInv => OrderedExclusion
  BY InvOrdered DEF OrderInv
<1> QED
  BY <1>1, <1>2, <1>3, <1>4, <1>5, <1>6, InitOnce, ExecutorInvariant, PTL DEF Spec

-----------------------------------------------------------------------------
(***************************************************************************)
(* The next executor accepts the report of an object that nobody           *)
(* deactivates (Plain).                                                    *)
(*                                                                         *)
(* An object is missing or has a descriptor.  A missing one has no calls:  *)
(* a method fails on it before it is listed, and a request for a token is  *)
(* refused, because a report that says Missing names no earliest pulse.    *)
(* So the report of a missing object is empty, and the report of one with  *)
(* a state says what its consistent tables say (ReadyReportAccepted).      *)
(***************************************************************************)
ReportPlain(report, p) ==
    /\ Validate(report, p)
    /\ report.Status \in {"Ready", "Missing"}
    /\ ~ report.ProvidedContent.deactivated
    /\ report.Status = "Ready" => report.ProvidedContent.has

(* No call deactivates the object, which is no longer or not yet under     *)
(* construction, and there are fewer requests than a report can count.     *)
Plain == /\ \A r \in Requests : "deactivate" \notin OutcomesOf[r]
         /\ \A h \in Handovers : ReportPlain(h.report, h.pulse + 1)
         /\ 2 * Cardinality(Requests) < MaxPendingCount

NoPending(o) == \A f \in Flags, r \in Requests : ~ Entered(o.pending[f], r)
ObjectPlain(o) ==
    /\ o.state \in {"Unknown", "Missing", "HasState"}
    /\ ~ o.dirty.deactivated
    /\ IF o.state = "HasState" THEN o.dirty.has ELSE ~ o.dirty.has /\ NoPending(o)
    /\ o.state = "Missing" => \A f \in Flags : o.oldestPending[f] = UnknownPulse
TaskPlain(t, tk) ==
    /\ tk.outcome # "deactivate"
    /\ ~ tk.new.deactivated
    /\ tk.outcome = "change" \/ tk.new.has => IsOrdered(t)
    /\ tk.pc # "lifeline"

(* The message m, of which o is the object at its receiver *)
MessagePlain(m, o) ==
    /\ m.type = "VStateReport" => ReportPlain(m.report, m.to)
    /\ m.type = "VDelegatedRequestFinished" =>
          /\ ~ m.latest.deactivated
          /\ m.latest.has /\ Live(m.to) => o.state = "HasState"

Left(o) == o.phase \in {"publish", "finalize", "sent"}
PlainInv ==
    /\ \A p \in Pulses : Live(p) => ObjectPlain(object[p])
    /\ \A p \in Pulses : Left(object[p]) => ReportPlain(object[p].report, p + 1)
    /\ \A t \in Tasks : TaskPlain(t, task[t])
    /\ \A m \in msgs : MessagePlain(m, object[m.to])

(* The report of an executor that has left its pulse is one of these. *)
LEMMA InvAccepted == PlainInv => ReportAccepted
BY DEF PlainInv, ReportAccepted, HasLeft, Left, ReportPlain

(* What most steps do to the object x of pulse p, which becomes o *)
KeepsPlain(p, o, x) ==
    /\ Live(p) => ObjectPlain(o) /\ (x.state = "HasState" => o.state = "HasState")
    /\ Left(o) => ReportPlain(o.report, p + 1)

LEMMA PlainKept ==
    ASSUME TypeOK, PlainInv, clock' = clock,
           \A t \in Tasks : task'[t] = task[t] \/ TaskPlain(t, task'[t]),
           \A p \in Pulses : object'[p] = object[p] \/ KeepsPlain(p, object'[p], object[p]),
           \A m \in msgs' : m \in msgs \/ MessagePlain(m, object'[m.to])
    PROVE  PlainInv'
<1>1. \A p \in Pulses : Live(p)' <=> Live(p)
  BY DEF Live
<1>2. \A p \in Pulses : /\ Live(p) => /\ ObjectPlain(object'[p])
                                      /\ object[p].state = "HasState" => object'[p].state = "HasState"
                        /\ Left(object'[p]) => ReportPlain(object'[p].report, p + 1)
  BY DEF PlainInv, KeepsPlain
<1>3. \A t \in Tasks : TaskPlain(t, task'[t])
  BY DEF PlainInv
<1>4. ASSUME NEW m \in msgs' PROVE MessagePlain(m, object'[m.to])
  <2>1. CASE m \in msgs
    <3>1. m.to \in Pulses /\ MessagePlain(m, object[m.to])
      BY <2>1 DEF PlainInv, TypeOK, MessageType
    <3> QED
      BY <1>2, <3>1 DEF MessagePlain
  <2> QED
    BY <1>4, <2>1
<1>5. \A p \in Pulses : ObjectPlain(object[p])' <=> ObjectPlain(object'[p])
  BY DEF ObjectPlain, NoPending, Entered
<1>6. \A m \in msgs' : MessagePlain(m, object'[m.to]) => MessagePlain(m, object[m.to])'
  BY DEF MessagePlain, Live, ReportPlain
<1> QED
  BY <1>1, <1>2, <1>3, <1>4, <1>5, <1>6 DEF PlainInv, Left, ReportPlain, TaskPlain, IsOrdered

LEMMA PlainTask ==
    ASSUME TypeOK, PlainInv, clock' = clock, msgs' = msgs, NEW t \in Tasks, NEW tk,
           task' = [task EXCEPT ![t] = tk], TaskPlain(t, tk),
           \/ object' = object
           \/ \E o : /\ object' = [object EXCEPT ![SlotOf[t]] = o]
                     /\ KeepsPlain(SlotOf[t], o, object[SlotOf[t]])
    PROVE  PlainInv'
<1>1. task'[t] = tk /\ \A u \in Tasks : u # t => task'[u] = task[u]
  BY DEF TypeOK
<1>2. SlotOf[t] \in Pulses
  BY PulseFacts
<1>3. \A p \in Pulses : object'[p] = object[p] \/ KeepsPlain(p, object'[p], object[p])
  BY <1>2 DEF TypeOK
<1> QED
  BY <1>1, <1>3, PlainKept

LEMMA PlainObject ==
    ASSUME TypeOK, PlainInv, clock' = clock, task' = task, NEW p \in Pulses, NEW o,
           object' = [object EXCEPT ![p] = o], KeepsPlain(p, o, object[p]),
           \A m \in msgs' : m \in msgs \/ MessagePlain(m, object'[m.to])
    PROVE  PlainInv'
<1>1. object'[p] = o /\ \A q \in Pulses : q # p => object'[q] = object[q]
  BY DEF TypeOK
<1> QED
  BY <1>1, PlainKept

(* An object that changes in nothing that matters here *)
SamePlain(o, x) ==
    /\ o.state = x.state /\ o.dirty = x.dirty /\ o.pending = x.pending
    /\ o.oldestPending = x.oldestPending /\ o.report = x.report
    /\ Left(o) => Left(x)

LEMMA SamePlainKept ==
    ASSUME PlainInv, NEW p \in Pulses, NEW o, SamePlain(o, object[p])
    PROVE  KeepsPlain(p, o, object[p])
BY DEF PlainInv, SamePlain, KeepsPlain, ObjectPlain, NoPending

LEMMA EndPlain ==
    ASSUME PlainInv, NEW t \in Tasks, NEW x, x.outcome = task[t].outcome, NEW pc \in Ended
    PROVE  TaskPlain(t, EndTask(x, pc))
<1>1. /\ EndTask(x, pc).pc = pc /\ EndTask(x, pc).outcome = x.outcome
      /\ EndTask(x, pc).new = NoDescriptor
  BY DEF EndTask, IdleTask
<1>2. pc # "lifeline" /\ ~ NoDescriptor.has /\ ~ NoDescriptor.deactivated
  BY DEF Ended, NoDescriptor
<1> QED
  BY <1>1, <1>2 DEF PlainInv, TaskPlain

LEMMA MovePlain ==
    ASSUME PlainInv, NEW t \in Tasks, NEW tk, tk.outcome \in {task[t].outcome, "error"},
           tk.new = task[t].new, tk.pc # "lifeline"
    PROVE  TaskPlain(t, tk)
BY DEF PlainInv, TaskPlain

(* stepWaitObjectReady, stepWaitPendingConstructorFinished *)
LEMMA WaitObjectReadyPlain ==
    ASSUME TypeOK, PlainInv, NEW t \in Tasks,
           StepWaitObjectReady(t) \/ StepWaitPendingConstructorFinished(t)
    PROVE  PlainInv'
<1>1. task[t] \in TaskType
  BY TypeFacts
<1>2. clock' = clock /\ object' = object /\ msgs' = msgs
  BY DEF StepWaitObjectReady, StepWaitPendingConstructorFinished
<1>4. PICK tk : /\ task' = [task EXCEPT ![t] = tk]
                /\ \/ tk = EndTask(task[t], "dead")
                   \/ tk = [task[t] EXCEPT !.pc = "sendCallResult", !.outcome = "error"]
                   \/ tk = [task[t] EXCEPT !.pc = "waitConstructor"]
                   \/ tk = [task[t] EXCEPT !.pc = "deduplicate", !.negotiated = TRUE]
  <2>1. /\ [Goto(t, "sendCallResult") EXCEPT !.outcome = "error"]
              = [task[t] EXCEPT !.pc = "sendCallResult", !.outcome = "error"]
        /\ Goto(t, "waitConstructor") = [task[t] EXCEPT !.pc = "waitConstructor"]
        /\ [Goto(t, "deduplicate") EXCEPT !.negotiated = TRUE]
              = [task[t] EXCEPT !.pc = "deduplicate", !.negotiated = TRUE]
    BY <1>1 DEF Goto
  <2> QED
    BY <2>1 DEF StepWaitObjectReady, StepWaitPendingConstructorFinished, Step,
                StepIsolationNegotiation
<1>5. CASE tk = EndTask(task[t], "dead")
  BY <1>2, <1>4, <1>5, EndPlain, PlainTask DEF Ended
<1>6. CASE tk # EndTask(task[t], "dead")
  <2>1. tk.outcome \in {task[t].outcome, "error"} /\ tk.new = task[t].new /\ tk.pc # "lifeline"
    BY <1>1, <1>4, <1>6 DEF TaskType
  <2>2. TaskPlain(t, tk)
    BY <2>1, MovePlain
  <2> QED
    BY <1>2, <1>4, <2>2, PlainTask
<1> QED
  BY <1>5, <1>6

(* SMVFindCallRequest, stepProcessFindCallResponse, stepTakeLock,          *)
(* stepRegisterObjectLifelineAfter: no constructor is called.              *)
LEMMA OwnStepsPlain ==
    ASSUME TypeOK, PlainInv, RepeatedSoon, NEW t \in Tasks,
           \/ AnswerFindCall(t) \/ StepProcessFindCallResponse(t) \/ StepTakeLock(t)
           \/ StepRegisterObjectLifelineAfter(t)
    PROVE  PlainInv'
<1>1. task[t] \in TaskType
  BY TypeFacts
<1>2. ASSUME NEW tk, task' = [task EXCEPT ![t] = tk], tk.outcome = task[t].outcome,
             tk.new = task[t].new, tk.pc # "lifeline", clock' = clock, object' = object,
             msgs' = msgs
      PROVE  PlainInv'
  <2>1. TaskPlain(t, tk)
    BY <1>2, MovePlain
  <2> QED
    BY <1>2, <2>1, PlainTask
<1>3. CASE AnswerFindCall(t)
  <2>1. PICK find : task' = [task EXCEPT ![t] = [task[t] EXCEPT !.find = find]]
    BY <1>3 DEF AnswerFindCall, Step
  <2> DEFINE tk == [task[t] EXCEPT !.find = find]
  <2>2. task[t].pc = "waitFindCall" /\ clock' = clock /\ object' = object /\ msgs' = msgs
    BY <1>3 DEF AnswerFindCall, At
  <2>3. tk.outcome = task[t].outcome /\ tk.new = task[t].new /\ tk.pc # "lifeline"
    BY <1>1, <2>2 DEF TaskType
  <2> HIDE DEF tk
  <2> QED
    BY <1>2, <2>1, <2>2, <2>3 DEF tk
<1>4. CASE StepProcessFindCallResponse(t)
  <2>1. /\ task[t].find \in {"result", "running", "notFound"} /\ object' = object
        /\ clock' = clock /\ msgs' = msgs
    BY <1>1, <1>4 DEF StepProcessFindCallResponse, TaskType
  <2>2. \/ \E pc \in {"dead", "deduplicated"} : task' = [task EXCEPT ![t] = EndTask(task[t], pc)]
        \/ task' = [task EXCEPT ![t] = EndTask([task[t] EXCEPT !.answer = "resent"],
                                               "deduplicated")]
        \/ task' = [task EXCEPT ![t] = Goto(t, "takeLock")]
    BY <2>1, <1>4 DEF StepProcessFindCallResponse, Step
  <2>3. /\ "dead" \in Ended /\ "deduplicated" \in Ended
        /\ [task[t] EXCEPT !.answer = "resent"].outcome = task[t].outcome
    BY <1>1 DEF Ended, TaskType
  <2>4. CASE task' = [task EXCEPT ![t] = Goto(t, "takeLock")]
    <3> DEFINE tk == Goto(t, "takeLock")
    <3>1. tk.outcome = task[t].outcome /\ tk.new = task[t].new /\ tk.pc # "lifeline"
      BY <1>1 DEF Goto, TaskType
    <3> HIDE DEF tk
    <3> QED
      BY <1>2, <2>1, <2>4, <3>1 DEF tk
  <2> QED
    BY <2>1, <2>2, <2>3, <2>4, EndPlain, PlainTask
<1>5. CASE StepTakeLock(t)
  <2> DEFINE tk == [Goto(t, "start") EXCEPT !.lock = TRUE]
  <2>1. Call[t] \notin Constructors
    BY DEF RepeatedSoon
  <2>2. task' = [task EXCEPT ![t] = tk] /\ clock' = clock /\ object' = object /\ msgs' = msgs
    BY <1>5, <2>1 DEF StepTakeLock, Step
  <2>3. tk.outcome = task[t].outcome /\ tk.new = task[t].new /\ tk.pc # "lifeline"
    BY <1>1 DEF Goto, TaskType
  <2> HIDE DEF tk
  <2> QED
    BY <1>2, <2>2, <2>3
<1>6. CASE StepRegisterObjectLifelineAfter(t)
  BY <1>6 DEF StepRegisterObjectLifelineAfter, Step, At, PlainInv, TaskPlain
<1> QED
  BY <1>3, <1>4, <1>5, <1>6

(* The steps of a call in its contract code: only an ordered one changes   *)
(* the object, and none deactivates it.                                    *)
LEMMA ActingPlain ==
    ASSUME TypeOK, PlainInv, Plain, NEW t \in Tasks,
           \/ StepSendOutgoing(t) \/ StepExecuteContinue(t) \/ StepExecuteDecideNextStep(t)
           \/ StepSendCallResult(t)
    PROVE  PlainInv'
<1>1. task[t] \in TaskType
  BY TypeFacts
<1>2. clock' = clock /\ object' = object /\ msgs' = msgs
  BY DEF StepSendOutgoing, StepExecuteContinue, StepExecuteDecideNextStep, StepSendCallResult
<1>3. ASSUME NEW tk, task' = [task EXCEPT ![t] = tk], TaskPlain(t, tk)
      PROVE  PlainInv'
  BY <1>2, <1>3, PlainTask
<1>5. CASE StepSendOutgoing(t)
  <2> DEFINE tk == [task[t] EXCEPT !.sent = 1]
  <2>1. task' = [task EXCEPT ![t] = tk] /\ task[t].pc = "execute"
    BY <1>5 DEF StepSendOutgoing, Step, At
  <2>2. tk.outcome = task[t].outcome /\ tk.new = task[t].new /\ tk.pc = "execute"
    BY <1>1, <2>1 DEF TaskType
  <2> HIDE DEF tk
  <2>3. TaskPlain(t, tk)
    BY <2>2, MovePlain
  <2> QED
    BY <1>3, <2>1, <2>3
<1>6. CASE StepExecuteContinue(t)
  <2> DEFINE tk == [task[t] EXCEPT !.sent = 0, !.called = TRUE]
  <2>1. task' = [task EXCEPT ![t] = tk] /\ task[t].pc = "execute"
    BY <1>6 DEF StepExecuteContinue, Step, At
  <2>2. tk.outcome = task[t].outcome /\ tk.new = task[t].new /\ tk.pc = "execute"
    BY <1>1, <2>1 DEF TaskType
  <2> HIDE DEF tk
  <2>3. TaskPlain(t, tk)
    BY <2>2, MovePlain
  <2> QED
    BY <1>3, <2>1, <2>3
<1>7. CASE StepExecuteDecideNextStep(t)
  <2>1. PICK outcome \in OutcomesOf[Call[t]] :
           \/ task' = [task EXCEPT ![t] = [Goto(t, "sendCallResult") EXCEPT !.outcome = "error"]]
           \/ /\ FlagOf[Call[t]] # Intolerable \/ outcome = "none"
              /\ task' = [task EXCEPT ![t] = [Goto(t, "saveNewObject") EXCEPT !.outcome = outcome]]
    BY <1>7 DEF StepExecuteDecideNextStep, Step
  <2> DEFINE fails == [Goto(t, "sendCallResult") EXCEPT !.outcome = "error"]
             saves == [Goto(t, "saveNewObject") EXCEPT !.outcome = outcome]
  <2>2. /\ fails.outcome = "error" /\ fails.new = task[t].new /\ fails.pc = "sendCallResult"
        /\ saves.outcome = outcome /\ saves.new = task[t].new /\ saves.pc = "saveNewObject"
    BY <1>1 DEF Goto, TaskType
  <2>3. Call[t] \in Requests /\ FlagOf[Call[t]] \in Flags /\ outcome # "deactivate"
    BY CallFacts DEF Plain
  <2>4. task' = [task EXCEPT ![t] = fails]
        \/ ((FlagOf[Call[t]] # Intolerable \/ outcome = "none") /\ task' = [task EXCEPT ![t] = saves])
    BY <2>1
  <2> HIDE DEF fails, saves
  <2>5. TaskPlain(t, fails)
    BY <2>2, MovePlain
  <2>6. FlagOf[Call[t]] # Intolerable \/ outcome = "none" => TaskPlain(t, saves)
    BY <2>2, <2>3 DEF PlainInv, TaskPlain, IsOrdered, Flags
  <2> QED
    BY <1>3, <2>4, <2>5, <2>6
<1>8. CASE StepSendCallResult(t)
  <2>1. PICK answer : task' = [task EXCEPT ![t] = [Goto(t, "finishRequest") EXCEPT !.answer = answer]]
    BY <1>8 DEF StepSendCallResult, Step
  <2> DEFINE tk == [Goto(t, "finishRequest") EXCEPT !.answer = answer]
  <2>2. tk.outcome = task[t].outcome /\ tk.new = task[t].new /\ tk.pc = "finishRequest"
    BY <1>1 DEF Goto, TaskType
  <2> HIDE DEF tk
  <2>3. TaskPlain(t, tk)
    BY <2>2, MovePlain
  <2> QED
    BY <1>3, <2>1, <2>3 DEF tk
<1> QED
  BY <1>5, <1>6, <1>7, <1>8

(* stepSaveNewObject: the object of a call that runs here has a state.     *)
LEMMA SaveNewObjectPlain ==
    ASSUME ExecutorInv, OnceInv, UseInv, PlainInv, NEW t \in Tasks, StepSaveNewObject(t)
    PROVE  PlainInv'
<1> DEFINE p == SlotOf[t]
           x == object[p]
           tk == task[t]
           new == IF tk.outcome = "none" THEN NoDescriptor
                  ELSE NewDescriptor(tk.base \cup {Call[t]}, FALSE)
           done == [Goto(t, "sendCallResult") EXCEPT !.new = new]
           saved == [x EXCEPT !.dirty = new, !.state = "HasState"]
<1>1. /\ TypeOK /\ tk \in TaskType /\ p \in Pulses /\ x \in ObjectType
      /\ TaskOK(tk, NodeOf(t), p) /\ p \in Nat /\ TaskPlain(t, tk)
  BY TypeFacts, PulseFacts DEF ExecutorInv, LocalInv, TaskInv, PlainInv
<1>2. clock' = clock /\ msgs' = msgs /\ tk.pc = "saveNewObject"
  BY DEF StepSaveNewObject, Step, At
<1>3. tk.active /\ NodeOf(t) >= p
  BY <1>1, <1>2, LateNode DEF TaskOK, Ended
<1>4. ~ tk.migrated => x.state \in {"Missing", "HasState"}
  <2>1. tk.ran
    BY <1>3 DEF UseInv, StaticInv, MachineInv
  <2>2. ~ tk.migrated => NodeOf(t) = p
    BY <1>1, <1>3 DEF TaskOK
  <2>3. NodeOf(t) = p => Live(p)
    BY <1>1 DEF Live, NodeOf
  <2> QED
    BY <1>1, <2>1, <2>2, <2>3 DEF OnceInv, RanInv, PlainInv, ObjectPlain
<1>5. tk.outcome \in {"none", "change"}
  BY <1>1, <1>2 DEF TaskPlain, TaskOK, TaskType, Outcome
<1>6. ~ new.deactivated /\ (new.has => tk.outcome = "change")
  BY <1>5 DEF NoDescriptor, NewDescriptor
<1>7. /\ task' = [task EXCEPT ![t] = done]
      /\ object' = object \/ (new.has /\ object' = [object EXCEPT ![p] = saved])
  BY <1>1, <1>4, <1>5 DEF StepSaveNewObject, Step, ObjectOf, SaveDescriptor, TypeOK
<1> HIDE DEF new
<1>8. done.outcome = tk.outcome /\ done.new = new /\ done.pc = "sendCallResult"
  BY <1>1 DEF Goto, TaskType
<1>9. /\ saved.dirty = new /\ saved.state = "HasState" /\ saved.phase = x.phase
      /\ saved.report = x.report
  BY <1>1 DEF ObjectType
<1> HIDE DEF done, saved
<1>10. TaskPlain(t, done)
  BY <1>1, <1>6, <1>8 DEF TaskPlain
<1>11. new.has => KeepsPlain(p, saved, x)
  BY <1>1, <1>6, <1>9 DEF KeepsPlain, ObjectPlain, Left, PlainInv
<1> QED
  BY <1>1, <1>2, <1>7, <1>10, <1>11, PlainTask

(* stepDeduplicate, stepStartRequestProcessing, stepFinishRequest,         *)
(* stepPublishDataCallSummary: they change the working table or the        *)
(* summary of the object.                                                  *)
LEMMA TablePlain ==
    ASSUME TypeOK, PlainInv, NEW t \in Tasks, NEW tk, TaskPlain(t, tk),
           clock' = clock, msgs' = msgs, task' = [task EXCEPT ![t] = tk],
           \/ object' = object
           \/ \E o : object' = [object EXCEPT ![SlotOf[t]] = o] /\ SamePlain(o, object[SlotOf[t]])
    PROVE  PlainInv'
<1>1. SlotOf[t] \in Pulses
  BY PulseFacts
<1> QED
  BY <1>1, SamePlainKept, PlainTask

LEMMA DeduplicatePlain ==
    ASSUME TypeOK, PlainInv, NEW t \in Tasks, StepDeduplicate(t)
    PROVE  PlainInv'
<1> DEFINE p == SlotOf[t]
           f == FlagOf[Call[t]]
           x == object[p]
           list == WorkingAdd(x.known[f], Call[t])
           o == [x EXCEPT !.known[f] = list]
<1>1. /\ task[t] \in TaskType /\ p \in Pulses /\ x \in ObjectType
      /\ clock' = clock /\ msgs' = msgs
  BY TypeFacts, PulseFacts DEF StepDeduplicate
<1>2. object' = [object EXCEPT ![p] = o]
  <2>1. object' = [object EXCEPT ![p].known[f] = list]
    BY DEF StepDeduplicate, ObjectOf
  <2> HIDE DEF list
  <2> QED
    BY <1>1, <2>1
<1> HIDE DEF list
<1>3. SamePlain(o, x)
  BY <1>1 DEF ObjectType, SamePlain, Left
<1> HIDE DEF o
<1>4. \/ \E pc \in Ended : task' = [task EXCEPT ![t] = EndTask(task[t], pc)]
      \/ task' = [task EXCEPT ![t] = EndTask([task[t] EXCEPT !.answer = "resent"], "deduplicated")]
      \/ task' = [task EXCEPT ![t] = Goto(t, "takeLock")]
      \/ \E b : task' = [task EXCEPT ![t] = [Goto(t, "waitFindCall") EXCEPT !.settled = b]]
  <2>1. DeduplicationAction(t) \in {"ContinueExecute", "Stop", "NotImplemented",
                                    "DeduplicateThroughPreviousExecutor"}
    BY DEF DeduplicationAction
  <2>2. "deduplicated" \in Ended /\ "dead" \in Ended
    BY DEF Ended
  <2> QED
    BY <2>1, <2>2 DEF StepDeduplicate, Step, ObjectOf
<1>5. ASSUME NEW b PROVE TaskPlain(t, [Goto(t, "waitFindCall") EXCEPT !.settled = b])
  <2> DEFINE tk == [Goto(t, "waitFindCall") EXCEPT !.settled = b]
  <2>1. tk.outcome = task[t].outcome /\ tk.new = task[t].new /\ tk.pc = "waitFindCall"
    BY <1>1 DEF Goto, TaskType
  <2> HIDE DEF tk
  <2>2. TaskPlain(t, tk)
    BY <2>1, MovePlain
  <2> QED
    BY <2>2 DEF tk
<1>6. TaskPlain(t, Goto(t, "takeLock"))
  <2> DEFINE tk == Goto(t, "takeLock")
  <2>1. tk.outcome = task[t].outcome /\ tk.new = task[t].new /\ tk.pc = "takeLock"
    BY <1>1 DEF Goto, TaskType
  <2> HIDE DEF tk
  <2>2. TaskPlain(t, tk)
    BY <2>1, MovePlain
  <2> QED
    BY <2>2 DEF tk
<1>7. TaskPlain(t, EndTask([task[t] EXCEPT !.answer = "resent"], "deduplicated"))
  <2>1. [task[t] EXCEPT !.answer = "resent"].outcome = task[t].outcome /\ "deduplicated" \in Ended
    BY <1>1 DEF TaskType, Ended
  <2> QED
    BY <2>1, EndPlain
<1>8. \A pc \in Ended : TaskPlain(t, EndTask(task[t], pc))
  BY EndPlain
<1>9. PICK tk : task' = [task EXCEPT ![t] = tk] /\ TaskPlain(t, tk)
  BY <1>4, <1>5, <1>6, <1>7, <1>8
<1> QED
  BY <1>1, <1>2, <1>3, <1>9, TablePlain

LEMMA StartPlain ==
    ASSUME TypeOK, PlainInv, NEW t \in Tasks, StepStartRequestProcessing(t)
    PROVE  PlainInv'
<1> DEFINE p == SlotOf[t]
           r == Call[t]
           f == FlagOf[r]
           x == object[p]
           list == WorkingSetActive(x.known[f], r)
           o == [x EXCEPT !.known[f] = list, !.results[r] = "empty"]
           fails == [Goto(t, "sendCallResult") EXCEPT !.outcome = "error"]
           runs == [Goto(t, "execute") EXCEPT !.active = TRUE, !.ran = TRUE,
                                              !.base = x.dirty.memory]
<1>1. /\ task[t] \in TaskType /\ p \in Pulses /\ x \in ObjectType
      /\ clock' = clock /\ msgs' = msgs
  BY TypeFacts, PulseFacts DEF StepStartRequestProcessing
<1>2. /\ object' = object \/ object' = [object EXCEPT ![p] = o]
      /\ \/ task' = [task EXCEPT ![t] = EndTask(task[t], "dead")]
         \/ task' = [task EXCEPT ![t] = fails]
         \/ task' = [task EXCEPT ![t] = runs]
  BY <1>1 DEF StepStartRequestProcessing, Step, ObjectOf, KnownSetActive, TypeOK
<1> HIDE DEF list
<1>3. SamePlain(o, x)
  BY <1>1 DEF ObjectType, SamePlain, Left
<1>4. /\ fails.outcome = "error" /\ fails.new = task[t].new /\ fails.pc = "sendCallResult"
      /\ runs.outcome = task[t].outcome /\ runs.new = task[t].new /\ runs.pc = "execute"
  BY <1>1 DEF Goto, TaskType
<1> HIDE DEF o, fails, runs
<1>5. TaskPlain(t, fails) /\ TaskPlain(t, runs)
  BY <1>4, MovePlain
<1>6. TaskPlain(t, EndTask(task[t], "dead"))
  BY EndPlain DEF Ended
<1> QED
  BY <1>1, <1>2, <1>3, <1>5, <1>6, TablePlain

LEMMA FinishRequestPlain ==
    ASSUME TypeOK, PlainInv, NEW t \in Tasks, StepFinishRequest(t)
    PROVE  PlainInv'
<1> DEFINE p == SlotOf[t]
           r == Call[t]
           x == object[p]
           f == IF task[t].negotiated THEN FlagOf[r] ELSE CallFlag[r]
           finishes == ~ task[t].migrated /\ CanFinish(x.known[f], r)
           panic == finishes /\ x.results[r] = "none"
           list == WorkingFinish(x.known[f], r)
           result == IF panic THEN x.results[r] ELSE "result"
           o == [x EXCEPT !.known[f] = list, !.results[r] = result]
           tk == Goto(t, "callSummary")
<1>1. /\ task[t] \in TaskType /\ p \in Pulses /\ x \in ObjectType
      /\ r \in Requests /\ f \in Flags /\ clock' = clock /\ msgs' = msgs
  BY TypeFacts, PulseFacts, CallFacts DEF StepFinishRequest
<1>2. /\ object' = IF ~ finishes THEN object
                   ELSE [object EXCEPT ![p].known[f] = list, ![p].results[r] = result]
      /\ task' = [task EXCEPT ![t] = IF task[t].migrated THEN tk
                                     ELSE EndTask(task[t], IF panic THEN "dead" ELSE "done")]
  BY <1>1 DEF StepFinishRequest, Step, ObjectOf, TypeOK
<1>3. \/ task' = [task EXCEPT ![t] = tk]
      \/ \E pc \in Ended : task' = [task EXCEPT ![t] = EndTask(task[t], pc)]
  BY <1>2 DEF Ended
<1> HIDE DEF list, result, f, finishes, panic
<1>4. object' = object \/ object' = [object EXCEPT ![p] = o]
  BY <1>1, <1>2 DEF TypeOK
<1>5. SamePlain(o, x)
  BY <1>1 DEF ObjectType, SamePlain, Left
<1>6. tk.outcome = task[t].outcome /\ tk.new = task[t].new /\ tk.pc = "callSummary"
  BY <1>1 DEF Goto, TaskType
<1> HIDE DEF o, tk
<1>7. TaskPlain(t, tk)
  BY <1>6, MovePlain
<1>8. \A pc \in Ended : TaskPlain(t, EndTask(task[t], pc))
  BY EndPlain
<1>9. PICK y : task' = [task EXCEPT ![t] = y] /\ TaskPlain(t, y)
  BY <1>3, <1>7, <1>8
<1> QED
  BY <1>1, <1>4, <1>5, <1>9, TablePlain

LEMMA PublishDataCallSummaryPlain ==
    ASSUME TypeOK, PlainInv, NEW t \in Tasks, StepPublishDataCallSummary(t)
    PROVE  PlainInv'
<1> DEFINE p == SlotOf[t]
           r == Call[t]
           x == object[p]
           o == [x EXCEPT !.summary[r] = "result"]
           tk == Goto(t, "sendFinished")
<1>1. /\ task[t] \in TaskType /\ p \in Pulses /\ x \in ObjectType
      /\ clock' = clock /\ msgs' = msgs
  BY TypeFacts, PulseFacts DEF StepPublishDataCallSummary
<1>2. /\ object' = object \/ object' = [object EXCEPT ![p].summary[r] = "result"]
      /\ \/ task' = [task EXCEPT ![t] = EndTask(task[t], "dead")]
         \/ task' = [task EXCEPT ![t] = tk]
  BY DEF StepPublishDataCallSummary, Step
<1>3. object' = object \/ object' = [object EXCEPT ![p] = o]
  BY <1>1, <1>2
<1>4. SamePlain(o, x)
  BY <1>1 DEF ObjectType, SamePlain, Left
<1>5. tk.outcome = task[t].outcome /\ tk.new = task[t].new /\ tk.pc = "sendFinished"
  BY <1>1 DEF Goto, TaskType
<1> HIDE DEF o, tk
<1>6. TaskPlain(t, tk)
  BY <1>5, MovePlain
<1>7. TaskPlain(t, EndTask(task[t], "dead"))
  BY EndPlain DEF Ended
<1> QED
  BY <1>1, <1>2, <1>3, <1>4, <1>6, <1>7, TablePlain

(* The end of a delegated call.  One that brings a new state is ordered,   *)
(* the executor that gave the token has it in its list, and a list that is *)
(* not empty belongs to an object with a state.                            *)
LEMMA DelegatedEndsPlain ==
    ASSUME ExecutorInv, PlainInv, NEW t \in Tasks, NEW x, NEW pc \in Ended, NEW latest,
           x.outcome = task[t].outcome, ~ latest.deactivated,
           latest.has => IsOrdered(t) /\ Hot(t) /\ NodeOf(t) > SlotOf[t],
           clock' = clock, object' = object, task' = [task EXCEPT ![t] = EndTask(x, pc)],
           msgs' = msgs \cup Posted({DelegatedRequestFinished(NodeOf(t), t, latest)})
    PROVE  PlainInv'
<1> DEFINE m == DelegatedRequestFinished(NodeOf(t), t, latest)
           o == object[NodeOf(t)]
<1>1. TypeOK /\ NodeOf(t) \in Pulses /\ SlotOf[t] \in Pulses /\ Call[t] \in Requests
  BY TypeFacts, PulseFacts, CallFacts DEF ExecutorInv
<1>2. /\ m.type = "VDelegatedRequestFinished" /\ m.task = t /\ m.to = NodeOf(t)
      /\ m.latest = latest
  BY DEF DelegatedRequestFinished
<1>3. \A n \in msgs' : n \in msgs \/ n = m
  BY DEF Posted
<1> HIDE DEF m
<1>4. task'[t] = EndTask(x, pc) /\ \A u \in Tasks : u # t => task'[u] = task[u]
  BY <1>1 DEF TypeOK
<1>5. TaskPlain(t, task'[t])
  BY <1>4, EndPlain
<1>6. MessagePlain(m, object'[m.to])
  <2>1. ASSUME latest.has, Live(NodeOf(t)) PROVE o.state = "HasState"
    <3>1. o.pending[Tolerable].requests[Call[t]] = "Processing"
      BY <2>1 DEF ExecutorInv, CoreInv, PendingInv
    <3>2. ~ NoPending(o)
      BY <1>1, <3>1, CallFacts DEF NoPending, Entered
    <3> QED
      BY <1>1, <2>1, <3>2 DEF PlainInv, ObjectPlain
  <2> QED
    BY <1>2, <2>1 DEF MessagePlain
<1> QED
  BY <1>1, <1>3, <1>4, <1>5, <1>6, PlainKept

(* stepSendDelegatedRequestFinished, stepGetDelegationToken *)
LEMMA DelegatedPlain ==
    ASSUME ExecutorInv, PlainInv, NEW t \in Tasks,
           StepSendDelegatedRequestFinished(t) \/ StepDelegationToken(t)
    PROVE  PlainInv'
<1>1. /\ task[t] \in TaskType /\ TaskOK(task[t], NodeOf(t), SlotOf[t]) /\ TypeOK
      /\ task[t].sent \in Nat /\ TaskPlain(t, task[t])
  BY TypeFacts DEF ExecutorInv, LocalInv, TaskInv, TaskType, PlainInv
<1>2. clock' = clock /\ object' = object
  BY DEF StepSendDelegatedRequestFinished, StepDelegationToken
<1>3. CASE StepSendDelegatedRequestFinished(t)
  <2>1. /\ task' = [task EXCEPT ![t] = EndTask(task[t], "done")] /\ "done" \in Ended
        /\ msgs' = msgs \cup Posted({DelegatedRequestFinished(NodeOf(t), t, task[t].new)})
        /\ task[t].pc = "sendFinished"
    BY <1>3 DEF StepSendDelegatedRequestFinished, Step, NodeOf, Ended, At
  <2>2. Hot(t) /\ NodeOf(t) > SlotOf[t]
    BY <1>1, <2>1 DEF TaskOK, Hot, CanAct, Ended
  <2>3. ~ task[t].new.deactivated /\ (task[t].new.has => IsOrdered(t))
    BY <1>1 DEF TaskPlain
  <2> QED
    BY <1>2, <2>1, <2>2, <2>3, DelegatedEndsPlain
<1>4. CASE StepDelegationToken(t)
  <2> DEFINE tk == [task[t] EXCEPT !.pc = task[t].resume, !.resume = "idle",
                                   !.granted = UnknownPulse]
             again == [tk EXCEPT !.sent = task[t].sent + 1]
  <2>0. task[t].resume # "lifeline" /\ task[t].resume \in TaskStep
    <3>1. task[t].pc = "getToken"
      BY <1>4 DEF StepDelegationToken, Step, At
    <3> QED
      BY <1>1, <3>1 DEF TaskOK, ActingSteps, TaskType
  <2>1. /\ tk.sent = task[t].sent /\ tk \in TaskType /\ tk.outcome = task[t].outcome
        /\ tk.new = task[t].new /\ tk.pc = task[t].resume
    BY <1>1, <2>0 DEF TaskType, TaskStep
  <2> HIDE DEF tk
  <2>2. again.outcome = tk.outcome /\ again.new = tk.new /\ again.pc = tk.pc
    BY <2>1 DEF TaskType
  <2> HIDE DEF again
  <2>3. TaskPlain(t, tk) /\ TaskPlain(t, again)
    BY <2>0, <2>1, <2>2, MovePlain
  <2>4. CASE task[t].sent >= MaxOutgoingSendCount
    <3>1. task[t].sent # 0
      BY <1>1, <2>4, RequestKindsAssumption
    <3>2. /\ task' = [task EXCEPT ![t] = EndTask(tk, "dead")] /\ "dead" \in Ended
          /\ msgs' = msgs \cup Posted({DelegatedRequestFinished(NodeOf(t), t, NoDescriptor)})
      BY <1>4, <2>1, <2>4, <3>1 DEF StepDelegationToken, Step, NodeOf, Ended, tk
    <3>3. ~ NoDescriptor.has /\ ~ NoDescriptor.deactivated
      BY DEF NoDescriptor
    <3> QED
      BY <1>2, <2>1, <3>2, <3>3, DelegatedEndsPlain
  <2>5. CASE ~ (task[t].sent >= MaxOutgoingSendCount)
    <3>1. msgs' = msgs
      BY <1>4, <2>1, <2>5 DEF StepDelegationToken, tk
    <3>2. task' = [task EXCEPT ![t] = tk] \/ task' = [task EXCEPT ![t] = again]
      BY <1>4, <2>1, <2>5 DEF StepDelegationToken, Step, tk, again
    <3> QED
      BY <1>1, <1>2, <2>3, <3>1, <3>2, PlainTask
  <2> QED
    BY <2>4, <2>5
<1> QED
  BY <1>3, <1>4

LEMMA MissingPlain == \A p : ReportPlain(MissingReport, p)
BY DEF ReportPlain, MissingReport, Validate, ValidMissingOrInactive, NoContent, NoDescriptor

(* The steps of SMObject *)
LEMMA ObjectStepsPlain ==
    ASSUME ExecutorInv, PlainInv, NEW p \in Pulses, ObjectStep(p)
    PROVE  PlainInv'
<1> DEFINE x == object[p]
<1>1. TypeOK /\ x \in ObjectType /\ ObjectOK(x, p, clock[p]) /\ p \in Nat /\ clock[p] \in Nat
  BY TypeFacts DEF ExecutorInv, LocalInv, ObjectInv
<1>2. clock' = clock /\ task' = task
  BY DEF ObjectStep, StepGetState, StepWaitState, StepPublishCallSummary, StepSendVStateReport,
         AnswerStateRequest
<1>3. CASE StepGetState(p) \/ StepWaitState(p)
  <2>1. PICK o : /\ object' = [object EXCEPT ![p] = o]
                 /\ \/ o = GotState(x)
                    \/ o = [x EXCEPT !.phase = "waitState", !.asked = TRUE]
                    \/ o = [x EXCEPT !.phase = "asleep"]
    BY <1>1, <1>3 DEF StepGetState, StepWaitState, TypeOK
  <2>2. SamePlain(o, x)
    <3>1. CASE o = GotState(x)
      <4>1. /\ o.state = x.state /\ o.dirty = x.dirty /\ o.pending = x.pending
            /\ o.oldestPending = x.oldestPending /\ o.report = x.report /\ o.phase = "working"
        BY <1>1, <3>1 DEF GotState, OpenPaths, ObjectType
      <4> QED
        BY <4>1 DEF SamePlain, Left
    <3>2. CASE \/ o = [x EXCEPT !.phase = "waitState", !.asked = TRUE]
               \/ o = [x EXCEPT !.phase = "asleep"]
      <4>1. /\ o.state = x.state /\ o.dirty = x.dirty /\ o.pending = x.pending
            /\ o.oldestPending = x.oldestPending /\ o.report = x.report
            /\ o.phase \in {"waitState", "asleep"}
        BY <1>1, <3>2 DEF ObjectType
      <4> QED
        BY <4>1 DEF SamePlain, Left
    <3> QED
      BY <2>1, <3>1, <3>2
  <2>3. msgs' = msgs
    BY <1>3 DEF StepGetState, StepWaitState
  <2> QED
    BY <1>1, <1>2, <2>1, <2>2, <2>3, SamePlainKept, PlainObject
<1>4. CASE StepPublishCallSummary(p)
  <2> DEFINE o == [x EXCEPT !.phase = "finalize", !.summary = x.results]
  <2>1. object' = [object EXCEPT ![p] = o] /\ msgs' = msgs /\ x.phase = "publish"
    BY <1>1, <1>4 DEF StepPublishCallSummary
  <2>2. SamePlain(o, x)
    BY <1>1, <2>1 DEF ObjectType, SamePlain, Left
  <2> HIDE DEF o
  <2> QED
    BY <1>1, <1>2, <2>1, <2>2, SamePlainKept, PlainObject
<1>5. CASE StepSendVStateReport(p)
  <2> DEFINE o == [x EXCEPT !.phase = "sent"]
             m == StateReportTo(clock[p], x.report)
  <2>1. /\ object' = [object EXCEPT ![p] = o] /\ x.phase = "finalize"
        /\ \A n \in msgs' : n \in msgs \/ n = m
    BY <1>1, <1>5 DEF StepSendVStateReport, Posted
  <2>2. SamePlain(o, x)
    BY <1>1, <2>1 DEF ObjectType, SamePlain, Left
  <2> HIDE DEF o
  <2>3. clock[p] = p + 1
    BY <1>1, <2>1 DEF ObjectOK
  <2>4. ReportPlain(x.report, clock[p])
    BY <2>1, <2>3 DEF PlainInv, Left
  <2>5. m.type = "VStateReport" /\ m.to = clock[p] /\ m.report = x.report
    BY DEF StateReportTo
  <2> HIDE DEF m
  <2>6. MessagePlain(m, object'[m.to])
    BY <2>4, <2>5 DEF MessagePlain
  <2> QED
    BY <1>1, <1>2, <2>1, <2>2, <2>6, SamePlainKept, PlainObject
<1>6. CASE AnswerStateRequest(p)
  <2> DEFINE o == [x EXCEPT !.asked = FALSE]
             report == IF HasReport(p - 1) THEN object[p - 1].report ELSE MissingReport
             m == StateReportTo(p, report)
  <2>1. /\ object' = [object EXCEPT ![p] = o] /\ x.asked
        /\ \A n \in msgs' : n \in msgs \/ n = m
    BY <1>1, <1>6 DEF AnswerStateRequest, Posted
  <2>2. SamePlain(o, x)
    BY <1>1, <2>1 DEF ObjectType, SamePlain, Left
  <2> HIDE DEF o
  <2>3. p - 1 \in Pulses /\ p = (p - 1) + 1
    BY <1>1, <2>1 DEF ObjectOK
  <2>4. ReportPlain(report, p)
    <3>1. CASE HasReport(p - 1)
      <4>1. Left(object[p - 1]) /\ report = object[p - 1].report
        BY <3>1 DEF HasReport, Left
      <4> HIDE DEF report
      <4>2. ReportPlain(object[p - 1].report, (p - 1) + 1)
        BY <2>3, <4>1 DEF PlainInv
      <4> QED
        BY <2>3, <4>1, <4>2
    <3>2. CASE ~ HasReport(p - 1)
      BY <3>2, MissingPlain
    <3> QED
      BY <3>1, <3>2
  <2> HIDE DEF report
  <2>5. m.type = "VStateReport" /\ m.to = p /\ m.report = report
    BY DEF StateReportTo
  <2> HIDE DEF m
  <2>6. MessagePlain(m, object'[m.to])
    BY <2>4, <2>5 DEF MessagePlain
  <2> QED
    BY <1>1, <1>2, <2>1, <2>2, <2>6, SamePlainKept, PlainObject
<1> QED
  BY <1>3, <1>4, <1>5, <1>6 DEF ObjectStep

LEMMA CreatedPlain ==
    ASSUME ExecutorInv, NEW p \in Pulses
    PROVE  GetOrCreate(p) \in ObjectType /\ SamePlain(GetOrCreate(p), object[p])
<1> DEFINE o == GetOrCreate(p)
           x == object[p]
<1>1. /\ o \in ObjectType
      /\ o.phase = IF x.phase = "none" THEN "getState" ELSE x.phase
      /\ o.report = x.report /\ o.state = x.state
      /\ o.pending = x.pending /\ o.oldestPending = x.oldestPending
  BY GetOrCreateFacts
<1>2. o.dirty = x.dirty
  <2>1. x.phase = "none" => x = NewObject("none")
    BY DEF ExecutorInv, LocalInv, ObjectInv, ObjectOK
  <2> QED
    BY <2>1 DEF GetOrCreate, NewObject
<1> HIDE DEF o
<1> QED
  BY <1>1, <1>2 DEF SamePlain, Left, o

(* stepGetObject of a method *)
LEMMA GetObjectPlain ==
    ASSUME ExecutorInv, PlainInv, RepeatedSoon, NEW t \in Tasks, StepGetObject(t)
    PROVE  PlainInv'
<1> DEFINE p == SlotOf[t]
           o == GetOrCreate(p)
           tk == Goto(t, "waitObjectReady")
<1>1. TypeOK /\ task[t] \in TaskType /\ p \in Pulses /\ Call[t] \notin Constructors
  BY TypeFacts, PulseFacts DEF ExecutorInv, RepeatedSoon
<1>2. SamePlain(o, object[p])
  BY <1>1, CreatedPlain
<1>3. /\ object' = [object EXCEPT ![p] = o]
      /\ clock' = clock /\ msgs' = msgs /\ task' = [task EXCEPT ![t] = tk]
  BY <1>1 DEF StepGetObject, Step
<1>4. tk.outcome = task[t].outcome /\ tk.new = task[t].new /\ tk.pc = "waitObjectReady"
  BY <1>1 DEF Goto, TaskType
<1> HIDE DEF tk, o
<1>5. TaskPlain(t, tk)
  BY <1>4, MovePlain
<1> QED
  BY <1>1, <1>2, <1>3, <1>5, TablePlain

(* SMVStateReport and the creation of an object by a handler.  A report    *)
(* that says Missing brings nothing and names no pulse.                    *)
LEMMA ReceiveReportPlain ==
    ASSUME ExecutorInv, PlainInv, NEW m \in msgs,
           ReceiveStateReport(m) \/ CreateForDelegated(m)
    PROVE  PlainInv'
<1> DEFINE p == m.to
           x == object[p]
           c == GetOrCreate(p)
           o == ApplyReport(c, m.report)
           content == m.report.ProvidedContent
<1>1. TypeOK /\ p \in Pulses /\ x \in ObjectType /\ p \in Nat
  BY TypeFacts DEF ExecutorInv, TypeOK, MessageType
<1>2. c \in ObjectType /\ SamePlain(c, x)
  BY <1>1, CreatedPlain
<1> HIDE DEF c
<1>3. /\ clock' = clock /\ task' = task /\ (\A n \in msgs' : n \in msgs) /\ clock[p] = p
      /\ \/ object' = object
         \/ /\ object' = [object EXCEPT ![p] = o]
            /\ m.type = "VStateReport" /\ c.state = "Unknown"
         \/ object' = [object EXCEPT ![p] = c]
  BY DEF ReceiveStateReport, CreateForDelegated, c, Present
<1>4. m.type = "VStateReport" /\ c.state = "Unknown" => KeepsPlain(p, o, x)
  <2> SUFFICES ASSUME m.type = "VStateReport", c.state = "Unknown"
               PROVE  KeepsPlain(p, o, x)
    OBVIOUS
  <2>1. ReportPlain(m.report, p)
    BY DEF PlainInv, MessagePlain
  <2>2. Live(p) /\ x.state = "Unknown"
    BY <1>1, <1>2, <1>3 DEF Live, SamePlain
  <2>3. ~ x.dirty.deactivated /\ ~ x.dirty.has /\ NoPending(x)
    BY <1>1, <2>2 DEF PlainInv, ObjectPlain
  <2>4. /\ o.state = StateOfStatus(m.report.Status)
        /\ o.dirty = IF content.has THEN content ELSE c.dirty
        /\ o.pending = c.pending /\ o.report = c.report
        /\ o.phase = IF c.phase = "asleep" THEN "waitState" ELSE c.phase
        /\ o.oldestPending = [f \in Flags |->
                    IF f = Tolerable THEN m.report.OrderedPendingEarliestPulse
                                     ELSE m.report.UnorderedPendingEarliestPulse]
    BY <1>2 DEF ApplyReport, ObjectType
  <2> HIDE DEF o
  <2>5. Left(o) => ReportPlain(o.report, p + 1)
    BY <1>1, <1>2, <2>4 DEF Left, SamePlain, PlainInv
  <2>6. NoPending(o)
    BY <1>2, <2>3, <2>4 DEF NoPending, SamePlain
  <2>7. CASE m.report.Status = "Ready"
    <3>1. o.state = "HasState" /\ o.dirty = content /\ content.has /\ ~ content.deactivated
      BY <2>1, <2>4, <2>7 DEF ReportPlain, StateOfStatus
    <3> QED
      BY <2>5, <3>1 DEF KeepsPlain, ObjectPlain
  <2>8. CASE m.report.Status = "Missing"
    <3>1. /\ ~ content.has /\ m.report.OrderedPendingEarliestPulse = UnknownPulse
          /\ m.report.UnorderedPendingEarliestPulse = UnknownPulse
      BY <2>1, <2>8 DEF ReportPlain, Validate, ValidMissingOrInactive, NoContent
    <3>2. o.state = "Missing" /\ o.dirty = x.dirty
      BY <1>2, <2>4, <2>8, <3>1 DEF StateOfStatus, SamePlain
    <3>3. \A f \in Flags : o.oldestPending[f] = UnknownPulse
      BY <2>4, <3>1
    <3> QED
      BY <2>2, <2>3, <2>5, <2>6, <3>2, <3>3 DEF KeepsPlain, ObjectPlain
  <2> QED
    BY <2>1, <2>7, <2>8 DEF ReportPlain
<1>5. KeepsPlain(p, c, x)
  BY <1>1, <1>2, SamePlainKept
<1> HIDE DEF o
<1>6. CASE object' = object
  BY <1>1, <1>3, <1>6, PlainKept
<1> QED
  BY <1>1, <1>3, <1>4, <1>5, <1>6, PlainObject

(* SMVDelegatedCallRequest: a missing object gives no token.               *)
LEMMA DelegatedCallRequestPlain ==
    ASSUME ExecutorInv, PlainInv, NEW m \in msgs, ReceiveDelegatedCallRequest(m)
    PROVE  PlainInv'
<1> DEFINE q == m.to
           t == m.task
           r == Call[t]
           x == object[q]
           o == RegisterPending(x, r)
           tk == [task[t] EXCEPT !.granted = q]
<1>1. /\ TypeOK /\ q \in Pulses /\ t \in Tasks /\ q \in Nat
  BY PulseFacts DEF ExecutorInv, TypeOK, MessageType, ReceiveDelegatedCallRequest
<1>2. /\ x \in ObjectType /\ task[t] \in TaskType /\ r \in Requests /\ FlagOf[r] \in Flags
      /\ ObjectOK(x, q, clock[q])
  BY <1>1, TypeFacts, CallFacts DEF ExecutorInv, LocalInv, ObjectInv
<1>3. /\ clock' = clock /\ (\A n \in msgs' : n \in msgs) /\ clock[q] = q /\ x.ReadyToWork
      /\ \/ object' = object
         \/ /\ object' = [object EXCEPT ![q] = o]
            /\ x.oldestPending[FlagOf[r]] # UnknownPulse
      /\ task' = task \/ (task[t].pc = "getToken" /\ task' = [task EXCEPT ![t] = tk])
  BY <1>1, <1>2 DEF ReceiveDelegatedCallRequest, TypeOK, At, Present
<1>4. \A u \in Tasks : task'[u] = task[u] \/ TaskPlain(u, task'[u])
  <2>1. CASE task' = task
    BY <2>1
  <2>2. CASE task[t].pc = "getToken" /\ task' = [task EXCEPT ![t] = tk]
    <3>1. tk.outcome = task[t].outcome /\ tk.new = task[t].new /\ tk.pc = "getToken"
      BY <1>2, <2>2 DEF TaskType
    <3> HIDE DEF tk
    <3>2. TaskPlain(t, tk)
      BY <1>1, <3>1, MovePlain
    <3> QED
      BY <1>1, <2>2, <3>2 DEF TypeOK
  <2> QED
    BY <1>3, <2>1, <2>2
<1> HIDE DEF tk
<1>5. \A p \in Pulses : object'[p] = object[p] \/ KeepsPlain(p, object'[p], object[p])
  <2>1. ASSUME x.oldestPending[FlagOf[r]] # UnknownPulse PROVE KeepsPlain(q, o, x)
    <3>1. Live(q) /\ ObjectPlain(x)
      BY <1>1, <1>3 DEF Live, PlainInv
    <3>2. x.state = "HasState"
      BY <1>2, <1>3, <2>1, <3>1 DEF ObjectPlain, ObjectOK
    <3>3. o.state = x.state /\ o.dirty = x.dirty /\ o.phase = x.phase /\ o.report = x.report
      BY <1>2 DEF RegisterPending, ObjectType
    <3> HIDE DEF o
    <3> QED
      BY <1>1, <3>1, <3>2, <3>3 DEF KeepsPlain, ObjectPlain, Left, PlainInv
  <2> HIDE DEF o
  <2> QED
    BY <1>1, <1>3, <2>1 DEF TypeOK
<1> QED
  BY <1>1, <1>3, <1>4, <1>5, PlainKept

(* SMVDelegatedRequestFinished: an object without a state has no call to   *)
(* finish, and gets no state from one.                                     *)
LEMMA DelegatedRequestFinishedPlain ==
    ASSUME ExecutorInv, PlainInv, NEW m \in msgs, ReceiveDelegatedRequestFinished(m)
    PROVE  PlainInv'
<1> DEFINE q == m.to
           r == Call[m.task]
           f == CallFlag[r]
           x == object[q]
           dirty == IF m.latest.has THEN m.latest ELSE x.dirty
           state == IF x.state # "Empty" THEN x.state
                    ELSE IF m.latest.has THEN "HasState"
                    ELSE IF f = Tolerable /\ r \in Constructors THEN "Missing"
                    ELSE x.state
           o1 == [x EXCEPT !.dirty = dirty]
           o2 == [o1 EXCEPT !.state = state]
           o3 == [o2 EXCEPT !.pending[f] = PendingFinish(@, r)]
           o4 == ReleasePaths(o3)
           same(o) == /\ o.state = x.state /\ o.dirty = dirty /\ o.report = x.report
                      /\ o.phase = x.phase /\ o.oldestPending = x.oldestPending
<1>1. /\ TypeOK /\ q \in Pulses /\ m.task \in Tasks /\ m.type = "VDelegatedRequestFinished"
      /\ q \in Nat
  BY PulseFacts DEF ExecutorInv, TypeOK, MessageType, ReceiveDelegatedRequestFinished
<1>2. /\ x \in ObjectType /\ r \in Requests /\ f \in Flags
      /\ ObjectOK(x, q, clock[q])
  BY <1>1, TypeFacts, CallFacts DEF ExecutorInv, LocalInv, ObjectInv
<1>3. SetLatestState(x, m.latest) = o1 /\ o1.state = x.state
  BY <1>2 DEF SetLatestState, ObjectType
<1>4. DOMAIN x = DOMAIN NewObject("none")
  BY <1>2 DEF ObjectType, NewObject
<1>5. /\ clock' = clock /\ task' = task /\ (\A n \in msgs' : n \in msgs) /\ clock[q] = q
      /\ x.ReadyToWork
      /\ \/ object' = [object EXCEPT ![q] = o1] \/ object' = [object EXCEPT ![q] = o2]
         \/ /\ Exist(o2.pending[f], r)
            /\ object' = [object EXCEPT ![q] = o3] \/ object' = [object EXCEPT ![q] = o4]
  BY <1>3 DEF ReceiveDelegatedRequestFinished, Present
<1>6. /\ Live(q) /\ ObjectPlain(x) /\ x.state \in {"Missing", "HasState"}
      /\ ~ m.latest.deactivated /\ (m.latest.has => x.state = "HasState")
  <2>1. Live(q) /\ ObjectPlain(x)
    BY <1>1, <1>5 DEF Live, PlainInv
  <2>2. MessagePlain(m, x)
    BY DEF PlainInv
  <2> QED
    BY <1>1, <1>2, <1>5, <2>1, <2>2 DEF ObjectPlain, MessagePlain, ObjectOK
<1>7. state = x.state
  BY <1>6
<1> HIDE DEF dirty, state
<1>8. same(o1) /\ o1.pending = x.pending /\ DOMAIN o1 = DOMAIN NewObject("none")
  BY <1>4 DEF NewObject
<1>9. same(o2) /\ o2.pending = x.pending /\ DOMAIN o2 = DOMAIN NewObject("none")
  <2> HIDE DEF o1
  <2> QED
    BY <1>7, <1>8 DEF NewObject
<1>10. same(o3) /\ DOMAIN o3 = DOMAIN NewObject("none")
  <2> HIDE DEF o2
  <2> QED
    BY <1>9 DEF NewObject
<1>11. same(o4)
  <2> HIDE DEF o3
  <2> QED
    BY <1>10 DEF NewObject, ReleasePaths
<1> HIDE DEF o1, o2, o3, o4
<1>12. ASSUME NEW o, same(o), o.pending = x.pending \/ x.state = "HasState"
       PROVE  KeepsPlain(q, o, x)
  <2>1. ~ dirty.deactivated /\ (IF x.state = "HasState" THEN dirty.has ELSE ~ dirty.has)
    BY <1>6 DEF dirty, ObjectPlain
  <2>2. ObjectPlain(o)
    BY <1>6, <1>12, <2>1 DEF ObjectPlain, NoPending
  <2> QED
    BY <1>1, <1>12, <2>2 DEF KeepsPlain, PlainInv, Left
<1>13. Exist(o2.pending[f], r) => x.state = "HasState"
  BY <1>2, <1>6, <1>9 DEF ObjectPlain, NoPending, Entered, Exist
<1> HIDE DEF same
<1>14. PICK o : object' = [object EXCEPT ![q] = o] /\ KeepsPlain(q, o, x)
  BY <1>5, <1>8, <1>9, <1>10, <1>11, <1>12, <1>13
<1> QED
  BY <1>1, <1>5, <1>14, PlainObject

(* The report of SMObject.migrate *)
LEMMA MigratedPlain ==
    ASSUME Plain, NEW p \in Pulses, NEW x \in ObjectType, ObjectPlain(x), TableOK(x, p),
           x.state \in {"Unknown", "Missing"} => NoKnown(x)
    PROVE  Left(MigrateObject(x)) => ReportPlain(MigrateObject(x).report, p + 1)
<1>1. CASE x.state = "Unknown"
  BY <1>1 DEF MigrateObject, Dropped, NewObject, Left
<1>2. CASE x.state # "Unknown"
  <2> DEFINE report == BuildStateReport(x)
  <2>1. MigrateObject(x).report = report
    <3>1. [x EXCEPT !.state = x.state] = x
      BY DEF ObjectType
    <3>2. MigrateObject(x) = [x EXCEPT !.phase = "publish", !.report = report, !.asked = FALSE]
      BY <1>2, <3>1 DEF MigrateObject, ObjectPlain
    <3> HIDE DEF report
    <3> QED
      BY <3>2 DEF ObjectType
  <2>2. /\ \A f \in Flags : /\ x.known[f] \in ListType /\ ListConsistent(x.known[f])
                            /\ x.pending[f] \in ListType /\ ListConsistent(x.pending[f])
        /\ p \in Nat
    BY PulseFacts DEF ObjectType, TableOK
  <2>3. CASE x.state = "HasState"
    <3>1. ASSUME NEW f \in Flags
          PROVE  /\ \A r \in RunningCalls(x, f) : ObjectPulse <= PulseOf[r] /\ PulseOf[r] <= p
                 /\ PendingCount(x, f) < MaxPendingCount
      <4>1. \A r \in RunningCalls(x, f) : /\ r \in Requests
                                          /\ Entered(x.known[f], r) \/ Entered(x.pending[f], r)
        BY DEF RunningCalls, Active, Entered
      <4>2. \A r \in RunningCalls(x, f) : ObjectPulse <= PulseOf[r] /\ PulseOf[r] <= p
        BY <4>1, ObjectAgeAssumption DEF TableOK
      <4>3. ASSUME NEW list \in ListType, ListConsistent(list)
            PROVE  list.countActive \in Nat /\ list.countActive <= Cardinality(Requests)
        <5>1. Active(list) \subseteq Requests /\ IsFiniteSet(Requests)
          BY RequestsAssumption DEF Active
        <5>2. Cardinality(Active(list)) <= Cardinality(Requests)
          BY <5>1, FS_Subset
        <5> QED
          BY <4>3, <5>2, CountOfList DEF ListConsistent, CountsActive
      <4>4. /\ x.known[f].countActive \in Nat /\ x.known[f].countActive <= Cardinality(Requests)
            /\ x.pending[f].countActive \in Nat /\ x.pending[f].countActive <= Cardinality(Requests)
        BY <2>2, <4>3
      <4>5. Cardinality(Requests) \in Nat
        BY RequestsAssumption, FS_CardinalityType
      <4>6. PendingCount(x, f) < MaxPendingCount
        BY <4>4, <4>5 DEF PendingCount, Plain, MaxPendingCount
      <4> QED
        BY <4>2, <4>6
    <3>2. Reportable(x, p)
      BY <2>2, <3>1 DEF Reportable
    <3>3. Validate(report, p + 1)
      BY <2>2, <2>3, <3>2, ReadyReportAccepted
    <3>4. report.Status = "Ready" /\ report.ProvidedContent = x.dirty
      BY <2>3 DEF BuildStateReport, ReportStatus
    <3> HIDE DEF report
    <3> QED
      BY <2>1, <2>3, <3>3, <3>4 DEF ReportPlain, ObjectPlain
  <2>4. CASE x.state = "Missing"
    <3>1. ASSUME NEW f \in Flags
          PROVE  PendingCount(x, f) = 0 /\ GetEarliestPulse(x, f) = UnknownPulse
      <4>1. Active(x.known[f]) = {} /\ Active(x.pending[f]) = {}
        BY <2>4 DEF NoKnown, ObjectPlain, NoPending, Entered, Active
      <4>2. x.known[f].countActive = 0 /\ x.pending[f].countActive = 0
        BY <2>2, <4>1, CountOfList
      <4>3. GetEarliestPulse(x, f) = UnknownPulse
        BY <2>2, <4>1, EarliestOfQueue DEF RunningCalls
      <4> QED
        BY <4>2, <4>3 DEF PendingCount
    <3>2. Tolerable \in Flags /\ Intolerable \in Flags
      BY DEF Flags
    <3>3. /\ report.Status = "Missing" /\ report.ProvidedContent = x.dirty
          /\ report.OrderedPendingCount = 0 /\ report.UnorderedPendingCount = 0
          /\ report.OrderedPendingEarliestPulse = UnknownPulse
          /\ report.UnorderedPendingEarliestPulse = UnknownPulse
          /\ report.LatestDirtyState => x.dirty.has
      BY <2>4, <3>1, <3>2 DEF BuildStateReport, ReportStatus
    <3> HIDE DEF report
    <3>4. ~ x.dirty.has /\ ~ x.dirty.deactivated
      BY <2>4 DEF ObjectPlain
    <3> QED
      BY <2>1, <3>3, <3>4 DEF ReportPlain, Validate, ValidMissingOrInactive, NoContent
  <2> QED
    BY <1>2, <2>3, <2>4 DEF ObjectPlain
<1> QED
  BY <1>1, <1>2

LEMMA AdvancePlain ==
    ASSUME ExecutorInv, UseInv, PlainInv, Plain,
           NEW N \in ChangeTogether, NEW old \in Pulses, AdvancePulse(N, old)
    PROVE  PlainInv'
<1>1. /\ N \subseteq Pulses /\ old \in Nat /\ TypeOK
      /\ \A n \in Pulses : /\ clock[n] \in Nat
                           /\ n \in N => clock[n] = old /\ clock'[n] = old + 1
                           /\ n \notin N => clock'[n] = clock[n]
      /\ \A n \in Pulses : n \notin N \/ n > old => object'[n] = object[n]
      /\ \A n \in N : n < old => object'[n] = Dropped(object[n])
      /\ old \in N => object'[old] = MigrateObject(object[old])
  BY AdvanceFacts DEF ExecutorInv
<1>2. \A n \in Pulses : n \in Nat /\ object[n] \in ObjectType
  BY <1>1, TypeFacts
<1>3. \A n \in Pulses : Live(n)' => Live(n) /\ object'[n] = object[n]
  <2> SUFFICES ASSUME NEW n \in Pulses, clock'[n] <= n
               PROVE  clock[n] <= n /\ object'[n] = object[n]
    BY DEF Live
  <2> QED
    BY <1>1, <1>2
<1>4. \A n \in Pulses : Live(n)' => ObjectPlain(object'[n])
  BY <1>3 DEF PlainInv
<1>5. ASSUME NEW n \in Pulses, Left(object'[n]) PROVE ReportPlain(object'[n].report, n + 1)
  <2>1. CASE object'[n] = object[n]
    BY <1>5, <2>1 DEF PlainInv
  <2>2. CASE object'[n] = Dropped(object[n])
    BY <1>5, <2>2 DEF Dropped, NewObject, Left
  <2>3. CASE n = old /\ old \in N /\ object'[n] = MigrateObject(object[n])
    <3>1. Live(n)
      BY <1>1, <1>2, <2>3 DEF Live
    <3>2. /\ ObjectPlain(object[n]) /\ TableOK(object[n], n)
          /\ object[n].state \in {"Unknown", "Missing"} => NoKnown(object[n])
      BY <3>1 DEF PlainInv, UseInv, StaticInv, TablesInv, UnusedInv
    <3> QED
      BY <1>2, <1>5, <2>3, <3>2, MigratedPlain
  <2> QED
    BY <1>1, <1>2, <2>1, <2>2, <2>3
<1>6. ASSUME NEW t \in Tasks PROVE TaskPlain(t, task'[t])
  <2>1. TaskPlain(t, task[t]) /\ task[t] \in TaskType
    BY <1>1, TypeFacts DEF PlainInv
  <2> DEFINE tk == [task[t] EXCEPT !.pc = "getToken", !.resume = task[t].pc, !.migrated = TRUE]
  <2>2. \/ task'[t] = task[t]
        \/ task'[t] = tk
        \/ \E pc \in Ended : task'[t] = EndTask(task[t], pc)
    <3>1. task'[t] = task[t] \/ task'[t] = MigrateTask(task[t])
      BY DEF AdvancePulse
    <3>2. \/ MigrateTask(task[t]) = task[t] \/ MigrateTask(task[t]) = tk
          \/ \E pc \in Ended : MigrateTask(task[t]) = EndTask(task[t], pc)
      <4>1. "dead" \in Ended /\ "stopped" \in Ended
        BY DEF Ended
      <4> QED
        BY <4>1 DEF MigrateTask
    <3> QED
      BY <3>1, <3>2
  <2>3. tk.outcome = task[t].outcome /\ tk.new = task[t].new /\ tk.pc = "getToken"
    BY <2>1 DEF TaskType
  <2> HIDE DEF tk
  <2>4. TaskPlain(t, tk)
    BY <2>3, MovePlain
  <2> QED
    BY <2>1, <2>2, <2>4, EndPlain
<1>7. ASSUME NEW m \in msgs'
      PROVE  /\ m.type = "VStateReport" => ReportPlain(m.report, m.to)
             /\ m.type = "VDelegatedRequestFinished" =>
                   /\ ~ m.latest.deactivated
                   /\ m.latest.has /\ Live(m.to)' => object'[m.to].state = "HasState"
  <2>1. CASE m \in msgs
    <3>1. m.to \in Pulses /\ MessagePlain(m, object[m.to])
      BY <1>1, <2>1 DEF PlainInv, TypeOK, MessageType
    <3>2. Live(m.to)' => Live(m.to) /\ object'[m.to] = object[m.to]
      BY <1>3, <3>1
    <3> QED
      BY <3>1, <3>2 DEF MessagePlain
  <2>2. CASE m \notin msgs
    <3>1. PICK t : m = DelegatedCallRequest(old + 1, t)
      BY <2>2, AdvanceFacts
    <3> QED
      BY <3>1 DEF DelegatedCallRequest
  <2> QED
    BY <2>1, <2>2
<1>8. \A n \in Pulses : ObjectPlain(object[n])' <=> ObjectPlain(object'[n])
  BY DEF ObjectPlain, NoPending, Entered
<1>9. \A m \in msgs' : MessagePlain(m, object[m.to])'
  BY <1>7 DEF MessagePlain, ReportPlain
<1> QED
  BY <1>4, <1>5, <1>6, <1>8, <1>9 DEF PlainInv, Left, ReportPlain, TaskPlain, IsOrdered

(* At a handover the other executors know nothing of the object yet.       *)
LEMMA InitPlain == ASSUME Plain PROVE Init => PlainInv
<1> SUFFICES ASSUME Init PROVE PlainInv
  OBVIOUS
<1>1. PICK h \in Handovers : TakenOver(h)
  BY DEF Init
<1> DEFINE s == h.pulse
           missing == h.report.Status = "Missing"
           none == NewObject(IF missing THEN "gone" ELSE "sent")
           summary == [r \in Requests |-> IF r \in h.finished THEN "result"
                                          ELSE IF \E t \in h.running : Call[t] = r THEN "empty"
                                          ELSE "none"]
           left == [none EXCEPT !.report = h.report, !.summary = summary]
           run == [IdleTask EXCEPT !.pc = "getToken", !.resume = "execute",
                      !.lock = TRUE, !.active = TRUE, !.ran = TRUE,
                      !.migrated = TRUE, !.negotiated = TRUE,
                      !.base = h.report.ProvidedContent.memory]
<1>2. s \in Pulses /\ s \in Nat /\ ReportPlain(h.report, s + 1)
  BY HandoversAssumption, PulseFacts DEF Plain
<1>3. /\ clock = [n \in Pulses |-> s + 1]
      /\ object = [q \in Pulses |-> IF q = s THEN left ELSE NewObject("none")]
      /\ task = [t \in Tasks |-> IF t \in h.running THEN run ELSE IdleTask]
      /\ msgs = {DelegatedCallRequest(s + 1, t) : t \in h.running}
                \cup (IF missing THEN {} ELSE {StateReportTo(s + 1, h.report)})
  BY <1>1 DEF TakenOver
<1>4. left.report = h.report
  BY DEF NewObject
<1> HIDE DEF left
<1>5. /\ run.outcome = "none" /\ run.new = NoDescriptor /\ run.pc = "getToken"
      /\ IdleTask.outcome = "none" /\ IdleTask.new = NoDescriptor /\ IdleTask.pc = "idle"
  BY DEF IdleTask
<1> HIDE DEF run
<1>6. \A t \in Tasks : TaskPlain(t, task[t])
  <2>1. ~ NoDescriptor.has /\ ~ NoDescriptor.deactivated
    BY DEF NoDescriptor
  <2> QED
    BY <1>3, <1>5, <2>1 DEF TaskPlain
<1>7. ObjectPlain(NewObject("none")) /\ ~ Left(NewObject("none"))
  <2> DEFINE o == NewObject("none")
  <2>1. /\ o.state = "Unknown" /\ o.dirty = NoDescriptor /\ o.phase = "none"
        /\ o.pending = [f \in Flags |-> NewList]
    BY DEF NewObject
  <2> HIDE DEF o
  <2>2. NoPending(o)
    BY <2>1 DEF NoPending, Entered, NewList
  <2>3. ObjectPlain(o) /\ ~ Left(o)
    BY <2>1, <2>2 DEF ObjectPlain, NoDescriptor, Left
  <2> QED
    BY <2>3 DEF o
<1>8. \A p \in Pulses : p \in Nat /\ (IF p = s THEN object[p] = left ELSE object[p] = NewObject("none"))
  BY <1>3, PulseFacts
<1>9. \A p \in Pulses : Live(p) => ObjectPlain(object[p])
  BY <1>2, <1>3, <1>7, <1>8 DEF Live
<1>10. \A p \in Pulses : Left(object[p]) => ReportPlain(object[p].report, p + 1)
  BY <1>2, <1>4, <1>7, <1>8
<1>11. \A m \in msgs : MessagePlain(m, object[m.to])
  <2>1. \A t : DelegatedCallRequest(s + 1, t).type = "VDelegatedCallRequest"
    BY DEF DelegatedCallRequest
  <2>2. /\ StateReportTo(s + 1, h.report).type = "VStateReport"
        /\ StateReportTo(s + 1, h.report).to = s + 1
        /\ StateReportTo(s + 1, h.report).report = h.report
    BY DEF StateReportTo
  <2>3. \A m \in msgs : \/ m = StateReportTo(s + 1, h.report)
                        \/ \E t \in h.running : m = DelegatedCallRequest(s + 1, t)
    BY <1>3
  <2>4. \A m \in msgs : \/ m.type = "VDelegatedCallRequest"
                        \/ m.type = "VStateReport" /\ m.to = s + 1 /\ m.report = h.report
    BY <2>1, <2>2, <2>3
  <2> QED
    BY <1>2, <2>4 DEF MessagePlain
<1> QED
  BY <1>6, <1>9, <1>10, <1>11 DEF PlainInv

LEMMA NextPlain ==
    ASSUME ExecutorInv, OnceInv, UseInv, PlainInv, RepeatedSoon, Plain, [Next]_vars
    PROVE  PlainInv'
<1>0. TypeOK
  BY DEF ExecutorInv
<1>1. ASSUME NEW t \in Tasks, TaskStepOf(t) PROVE PlainInv'
  BY <1>0, <1>1, WaitObjectReadyPlain, DeduplicatePlain, OwnStepsPlain, StartPlain, ActingPlain,
     SaveNewObjectPlain, FinishRequestPlain, PublishDataCallSummaryPlain, DelegatedPlain
     DEF TaskStepOf
<1>2. CASE PulseChange
  BY <1>2, AdvancePlain DEF PulseChange
<1>3. CASE Receive
  BY <1>3, ReceiveReportPlain, DelegatedCallRequestPlain, DelegatedRequestFinishedPlain
     DEF Receive
<1>4. CASE UNCHANGED vars
  <2>1. clock' = clock /\ object' = object /\ task' = task /\ msgs' = msgs
    BY <1>4 DEF vars
  <2> QED
    BY <1>0, <2>1, PlainKept
<1>5. ASSUME NEW p \in Pulses, ObjectStep(p) PROVE PlainInv'
  BY <1>5, ObjectStepsPlain
<1>6. ASSUME NEW t \in Tasks, StepGetObject(t) PROVE PlainInv'
  BY <1>6, GetObjectPlain
<1> QED
  BY <1>1, <1>2, <1>3, <1>4, <1>5, <1>6 DEF Next

(* The report that SMObject.migrate builds passes the validation of the    *)
(* next executor, whatever calls are left running, when the calls are      *)
(* methods that are repeated soon and none of them deactivates the object. *)
(* Nodes may disagree on the pulse, and messages may be late.              *)
THEOREM ReportsAccepted == (RepeatedSoon /\ Plain) => (Spec => []ReportAccepted)
<1> SUFFICES ASSUME RepeatedSoon, Plain PROVE Spec => []ReportAccepted
  OBVIOUS
<1>1. OnceInv /\ ExecutorInv /\ [Next]_vars => OnceInv'
  BY NextOnce
<1>2. OnceInv /\ ExecutorInv /\ UseInv /\ [Next]_vars => UseInv'
  BY NextUse
<1>3. OnceInv /\ ExecutorInv /\ UseInv /\ PlainInv /\ [Next]_vars => PlainInv'
  BY NextPlain
<1>4. Init => OnceInv /\ UseInv /\ PlainInv
  BY InitOnce, InitUse, InitPlain
<1>5. PlainInv => ReportAccepted
  BY InvAccepted
<1> QED
  BY <1>1, <1>2, <1>3, <1>4, <1>5, ExecutorInvariant, PTL DEF Spec

-----------------------------------------------------------------------------
(***************************************************************************)
(* No machine panics, when all nodes change the pulse together, messages   *)
(* arrive within their pulse, the calls are methods that are repeated      *)
(* soon, none deactivates the object, and a call that comes as an ordered  *)
(* one is one.                                                             *)
(*                                                                         *)
(* A call that passed the deduplication is started in the working list,    *)
(* and one that runs has an empty result, here or in the summary of its    *)
(* executor, until its machine enters the result (OwnInv).                 *)
(*                                                                         *)
(* A call that goes on in the next pulse gets its token, or is about to    *)
(* ask for it (TokenInv), and the executor will not refuse it: the one     *)
(* before has counted it, and named a pulse that is not younger            *)
(* (CountInv).  It will not miss the request either: an executor that      *)
(* waits for the state has asked for it, or a report is on its way         *)
(* (PhaseInv).  So a token is noted when its call ends (HotInv).           *)
(***************************************************************************)

(* A call that has not entered its result *)
Unpublished(tk) == tk.active /\ tk.pc # "sendFinished" /\ tk.resume # "sendFinished"

(* The machine tk of task t, whose object is o *)
Begun(tk, o, r) == tk.pc \in OwnSteps => o.known[FlagOf[r]].requests[r] = "Started"
Open(t, tk, o) ==
    Unpublished(tk) =>
        /\ NodeOf(t) = SlotOf[t] => o.results[Call[t]] = "empty"
        /\ NodeOf(t) = SlotOf[t] + 1 =>
              /\ o.phase = "publish" => o.results[Call[t]] = "empty"
              /\ o.phase \in {"finalize", "sent"} => o.summary[Call[t]] = "empty"
Agreed(t, tk) == tk.negotiated => ~ NegotiationFails(Call[t])
OwnInv == \A t \in Tasks : /\ Begun(task[t], object[SlotOf[t]], Call[t])
                           /\ Open(t, task[t], object[SlotOf[t]])
                           /\ Agreed(t, task[t])

(* A call that goes on after its pulse *)
Taken(t) == task[t].active /\ SlotOf[t] < NodeOf(t)

(* The calls that the present executor has noted as pending, or will *)
DueCall(r) == \/ \E t \in Tasks : Taken(t) /\ Call[t] = r
              \/ \E p \in Pulses : clock[p] = p /\ Entered(object[p].pending[FlagOf[r]], r)
Due(f) == {r \in Requests : FlagOf[r] = f /\ DueCall(r)}

(* A count and an earliest pulse that have a place for the calls S *)
Covers(count, earliest, S) ==
    /\ count \in Nat /\ Cardinality(S) <= count
    /\ \A r \in S : earliest # UnknownPulse /\ earliest <= PulseOf[r]
ReportCovers(report, ordered, unordered) ==
    /\ Covers(report.OrderedPendingCount, report.OrderedPendingEarliestPulse, ordered)
    /\ Covers(report.UnorderedPendingCount, report.UnorderedPendingEarliestPulse, unordered)
DueIn(report) == ReportCovers(report, Due(Tolerable), Due(Intolerable))
ObjectCovers(o) == \A f \in Flags : Covers(o.prevPending[f], o.oldestPending[f], Due(f))
CountInv ==
    /\ \A p \in Pulses : clock[p] = p /\ object[p].state # "Unknown" => ObjectCovers(object[p])
    /\ \A p \in Pulses : clock[p] = p + 1 =>
          \/ \A f \in Flags : Due(f) = {}
          \/ Left(object[p]) /\ DueIn(object[p].report)
    /\ \A m \in msgs : m.type = "VStateReport" => DueIn(m.report)

HotInv == \A t \in Tasks : Taken(t) /\ Hot(t) =>
              object[NodeOf(t)].pending[FlagOf[Call[t]]].requests[Call[t]] = "Processing"

EndNoted(m, o) == Entered(o.pending[CallFlag[Call[m.task]]], Call[m.task])
TokenInv ==
    /\ \A t \in Tasks : Taken(t) /\ ~ Hot(t) => Requested(t)
    /\ \A m \in msgs : m.type = "VDelegatedCallRequest" => Taken(m.task) /\ ~ Hot(m.task)
    /\ \A m \in msgs : m.type = "VDelegatedRequestFinished" => EndNoted(m, object[m.to])

PhaseOK(o, ms) ==
    /\ o.phase \in {"none", "getState", "waitState", "asleep", "working"}
    /\ o.phase = "working" => o.ReadyToWork
    /\ o.phase = "asleep" => o.state = "Unknown"
    /\ o.phase \in {"waitState", "asleep"} /\ o.state = "Unknown"
          => o.asked \/ \E m \in ms : m.type = "VStateReport"
PhaseInv == \A p \in Pulses : clock[p] = p => PhaseOK(object[p], msgs)

HandInv == CountInv /\ HotInv /\ TokenInv /\ PhaseInv
PanicInv == OwnInv /\ HandInv /\ NoPanic

(* What most steps do to the machine of task t and to an object x of pulse *)
(* p *)
Calm(t, tk) ==
    SlotOf[t] < NodeOf(t) => /\ task[t].active => Hot(t)
                             /\ tk.active => task[t].active /\ CanAct(tk)
HoldsOn(t, tk) ==
    /\ tk.pc \in OwnSteps => task[t].pc \in OwnSteps
    /\ Unpublished(tk) => Unpublished(task[t])
    /\ Agreed(t, tk)
Steady(t, tk) == HoldsOn(t, tk) /\ Calm(t, tk)
SameRecord(o, x) == /\ o.known = x.known /\ o.results = x.results /\ o.summary = x.summary
                    /\ Left(o) => \/ o.phase = x.phase
                                  \/ o.phase = "sent" /\ x.phase = "finalize"
Quota(o, x) == /\ \/ o.state = "Unknown"
                  \/ /\ x.state # "Unknown" /\ o.prevPending = x.prevPending
                     /\ o.oldestPending = x.oldestPending
                  \/ ObjectCovers(o)
               /\ Left(x) => Left(o) /\ o.report = x.report
SameHand(p, o, x) == /\ o.pending = x.pending
                     /\ Quota(o, x)
                     /\ clock[p] = p => PhaseOK(o, msgs')
NewsKept(m) == /\ m.to \in Pulses
               /\ \/ m.type = "VStateReport" /\ DueIn(m.report)
                  \/ m.type = "VDelegatedRequestFinished" /\ EndNoted(m, object[m.to])

LEMMA OwnStep ==
    ASSUME OwnInv, clock' = clock,
           \A t \in Tasks : /\ Begun(task'[t], object'[SlotOf[t]], Call[t])
                            /\ Open(t, task'[t], object'[SlotOf[t]])
                            /\ Agreed(t, task'[t])
    PROVE  OwnInv'
<1>1. \A t \in Tasks : /\ Begun(task[t], object[SlotOf[t]], Call[t])'
                       /\ Open(t, task[t], object[SlotOf[t]])'
                       /\ Agreed(t, task[t])'
  BY DEF Begun, Open, Unpublished, NodeOf, Agreed
<1> QED
  BY <1>1 DEF OwnInv

LEMMA OwnKept ==
    ASSUME TypeOK, OwnInv, clock' = clock,
           \A t \in Tasks : task'[t] = task[t] \/ HoldsOn(t, task'[t]),
           \A p \in Pulses : object'[p] = object[p] \/ SameRecord(object'[p], object[p])
    PROVE  OwnInv'
<1> SUFFICES ASSUME NEW t \in Tasks
             PROVE  /\ Begun(task'[t], object'[SlotOf[t]], Call[t])
                    /\ Open(t, task'[t], object'[SlotOf[t]])
                    /\ Agreed(t, task'[t])
  BY OwnStep
<1> DEFINE p == SlotOf[t]
<1>1. p \in Pulses /\ Begun(task[t], object[p], Call[t]) /\ Open(t, task[t], object[p])
      /\ Agreed(t, task[t])
  BY PulseFacts DEF OwnInv
<1>2. Begun(task'[t], object[p], Call[t]) /\ Open(t, task'[t], object[p])
  BY <1>1 DEF Begun, Open, HoldsOn
<1>3. object'[p] = object[p] \/ SameRecord(object'[p], object[p])
  BY <1>1
<1>4. Agreed(t, task'[t])
  BY <1>1 DEF HoldsOn
<1> QED
  BY <1>2, <1>3, <1>4 DEF Begun, Open, SameRecord, Left

(* A place for more calls is one for fewer. *)
LEMMA CoversLess ==
    ASSUME NEW count, NEW earliest, NEW S, NEW T, S \subseteq Requests, T \subseteq S,
           Covers(count, earliest, S)
    PROVE  Covers(count, earliest, T)
<1>1. IsFiniteSet(S)
  BY RequestsAssumption, FS_Subset
<1>2. IsFiniteSet(T) /\ Cardinality(T) <= Cardinality(S)
  BY <1>1, FS_Subset
<1>3. Cardinality(T) \in Nat /\ Cardinality(S) \in Nat
  BY <1>1, <1>2, FS_CardinalityType
<1> QED
  BY <1>2, <1>3 DEF Covers

LEMMA DueLess ==
    ASSUME \A f \in Flags : Due(f)' \subseteq Due(f)
    PROVE  /\ \A report : DueIn(report) => ReportCovers(report, Due(Tolerable)', Due(Intolerable)')
           /\ \A o : ObjectCovers(o) =>
                 \A f \in Flags : Covers(o.prevPending[f], o.oldestPending[f], Due(f)')
<1>1. \A f \in Flags : Due(f) \subseteq Requests
  BY DEF Due
<1>2. \A f \in Flags : \A c, e : Covers(c, e, Due(f)) => Covers(c, e, Due(f)')
  BY <1>1, CoversLess
<1> QED
  BY <1>2, CallFacts DEF DueIn, ReportCovers, ObjectCovers

(* The calls that are due get fewer. *)
LEMMA CountStep ==
    ASSUME CountInv, clock' = clock, \A f \in Flags : Due(f)' \subseteq Due(f),
           \A p \in Pulses : object'[p] = object[p] \/ Quota(object'[p], object[p]),
           \A m \in msgs' : m.type = "VStateReport" => m \in msgs \/ DueIn(m.report)
    PROVE  CountInv'
<1>1. \A report : DueIn(report) => ReportCovers(report, Due(Tolerable)', Due(Intolerable)')
  BY DueLess
<1>2. \A o : ObjectCovers(o) =>
         \A f \in Flags : Covers(o.prevPending[f], o.oldestPending[f], Due(f)')
  BY DueLess
<1>3. ASSUME NEW p \in Pulses, clock[p] = p, object'[p].state # "Unknown"
      PROVE  \A f \in Flags : Covers(object'[p].prevPending[f], object'[p].oldestPending[f], Due(f)')
  <2>1. \/ ObjectCovers(object'[p])
        \/ /\ object[p].state # "Unknown" /\ object'[p].prevPending = object[p].prevPending
           /\ object'[p].oldestPending = object[p].oldestPending
    BY <1>3 DEF Quota
  <2>2. CASE ObjectCovers(object'[p])
    BY <2>2, <1>2
  <2>3. CASE /\ object[p].state # "Unknown" /\ object'[p].prevPending = object[p].prevPending
             /\ object'[p].oldestPending = object[p].oldestPending
    <3>1. ObjectCovers(object[p])
      BY <1>3, <2>3 DEF CountInv
    <3>2. \A f \in Flags : Covers(object[p].prevPending[f], object[p].oldestPending[f], Due(f)')
      BY <1>2, <3>1
    <3> QED
      BY <2>3, <3>2
  <2> QED
    BY <2>1, <2>2, <2>3
<1>4. ASSUME NEW p \in Pulses, clock[p] = p + 1
      PROVE  \/ \A f \in Flags : Due(f)' = {}
             \/ /\ Left(object'[p])
                /\ ReportCovers(object'[p].report, Due(Tolerable)', Due(Intolerable)')
  <2>1. \/ \A f \in Flags : Due(f) = {}
        \/ Left(object[p]) /\ DueIn(object[p].report)
    BY <1>4 DEF CountInv
  <2>2. Left(object[p]) => Left(object'[p]) /\ object'[p].report = object[p].report
    BY DEF Quota
  <2> QED
    BY <2>1, <2>2, <1>1
<1>5. \A m \in msgs' : m.type = "VStateReport"
         => ReportCovers(m.report, Due(Tolerable)', Due(Intolerable)')
  BY <1>1 DEF CountInv
<1>6. /\ \A o : (\A f \in Flags : Covers(o.prevPending[f], o.oldestPending[f], Due(f)'))
                   => ObjectCovers(o)'
      /\ \A report : ReportCovers(report, Due(Tolerable)', Due(Intolerable)') => DueIn(report)'
  BY DEF ObjectCovers, DueIn, Covers, ReportCovers
<1> QED
  BY <1>3, <1>4, <1>5, <1>6 DEF CountInv, Left

(* Nobody asks for or gets a token, and no message is taken. *)
LEMMA HandKept ==
    ASSUME TypeOK, OrderInv, HandInv, clock' = clock, msgs \subseteq msgs',
           \A t \in Tasks : task'[t] = task[t] \/ Calm(t, task'[t]),
           \A p \in Pulses : object'[p] = object[p] \/ SameHand(p, object'[p], object[p]),
           \A m \in msgs' : m \in msgs \/ NewsKept(m)
    PROVE  HandInv'
<1>1. \A t \in Tasks : /\ NodeOf(t)' = NodeOf(t)
                       /\ Taken(t)' => Taken(t)
                       /\ Taken(t) /\ ~ Hot(t) => task'[t] = task[t]
                       /\ Taken(t)' /\ Hot(t)' => Hot(t)
                       /\ Taken(t)' /\ ~ Hot(t)' => ~ Hot(t)
  BY DEF NodeOf, Taken, Hot, Calm, CanAct
<1>2. \A p \in Pulses : object'[p].pending = object[p].pending
  BY DEF SameHand
<1>3. \A f \in Flags : Due(f)' \subseteq Due(f)
  BY <1>1, <1>2 DEF Due, DueCall, Entered
<1>4. CountInv'
  <2>1. \A p \in Pulses : object'[p] = object[p] \/ Quota(object'[p], object[p])
    BY DEF SameHand
  <2>2. \A m \in msgs' : m.type = "VStateReport" => m \in msgs \/ DueIn(m.report)
    BY DEF NewsKept
  <2> QED
    BY <1>3, <2>1, <2>2, CountStep DEF HandInv
<1>5. HotInv'
  <2> SUFFICES ASSUME NEW t \in Tasks, Taken(t)', Hot(t)'
               PROVE  object'[NodeOf(t)].pending[FlagOf[Call[t]]].requests[Call[t]] = "Processing"
    BY <1>1 DEF HotInv
  <2>1. Taken(t) /\ Hot(t) /\ NodeOf(t) \in Pulses
    BY <1>1, TypeFacts
  <2> QED
    BY <1>2, <2>1 DEF HandInv, HotInv
<1>6. TokenInv'
  <2>1. ASSUME NEW t \in Tasks, Taken(t)', ~ Hot(t)' PROVE Requested(t)'
    <3>1. Requested(t)
      BY <1>1, <2>1 DEF HandInv, TokenInv
    <3> QED
      BY <1>1, <3>1 DEF Requested
  <2>2. ASSUME NEW m \in msgs', m.type = "VDelegatedCallRequest"
        PROVE  Taken(m.task)' /\ ~ Hot(m.task)'
    <3>1. m \in msgs /\ m.task \in Tasks
      BY <2>2 DEF NewsKept, TypeOK, MessageType
    <3>2. Taken(m.task) /\ ~ Hot(m.task)
      BY <2>2, <3>1 DEF HandInv, TokenInv
    <3> QED
      BY <1>1, <3>1, <3>2 DEF Taken, Hot
  <2>3. ASSUME NEW m \in msgs', m.type = "VDelegatedRequestFinished"
        PROVE  EndNoted(m, object'[m.to])
    <3>1. EndNoted(m, object[m.to])
      BY <2>3 DEF NewsKept, HandInv, TokenInv
    <3>2. m.to \in Pulses
      BY DEF NewsKept, TypeOK, MessageType
    <3> QED
      BY <3>1, <3>2, <1>2 DEF EndNoted
  <2> QED
    BY <2>1, <2>2, <2>3 DEF TokenInv, EndNoted, Entered
<1>7. PhaseInv'
  <2> SUFFICES ASSUME NEW p \in Pulses, clock[p] = p PROVE PhaseOK(object'[p], msgs')
    BY DEF PhaseInv, PhaseOK
  <2>1. PhaseOK(object[p], msgs)
    BY DEF HandInv, PhaseInv
  <2>2. CASE object'[p] = object[p]
    BY <2>1, <2>2 DEF PhaseOK
  <2> QED
    BY <2>2 DEF SameHand
<1> QED
  BY <1>4, <1>5, <1>6, <1>7 DEF HandInv

LEMMA PanicTask ==
    ASSUME TypeOK, OrderInv, PanicInv, clock' = clock, msgs' = msgs, panics' = panics,
           NEW t \in Tasks, NEW tk, task' = [task EXCEPT ![t] = tk], Steady(t, tk),
           \/ object' = object
           \/ \E o : /\ object' = [object EXCEPT ![SlotOf[t]] = o]
                     /\ SameRecord(o, object[SlotOf[t]])
                     /\ SameHand(SlotOf[t], o, object[SlotOf[t]])
    PROVE  PanicInv'
<1>1. task'[t] = tk /\ \A u \in Tasks : u # t => task'[u] = task[u]
  BY DEF TypeOK
<1>2. \A p \in Pulses : object'[p] = object[p]
          \/ (SameRecord(object'[p], object[p]) /\ SameHand(p, object'[p], object[p]))
  BY PulseFacts DEF TypeOK
<1>3. OwnInv'
  BY <1>1, <1>2, OwnKept DEF PanicInv, Steady
<1>4. HandInv'
  BY <1>1, <1>2, HandKept DEF PanicInv, Steady
<1> QED
  BY <1>3, <1>4 DEF PanicInv, NoPanic

LEMMA PanicObject ==
    ASSUME TypeOK, OrderInv, PanicInv, clock' = clock, task' = task, panics' = panics,
           msgs \subseteq msgs', NEW p \in Pulses, NEW o, object' = [object EXCEPT ![p] = o],
           SameRecord(o, object[p]), SameHand(p, o, object[p]),
           \A m \in msgs' : m \in msgs \/ NewsKept(m)
    PROVE  PanicInv'
<1>1. \A q \in Pulses : object'[q] = object[q]
          \/ (SameRecord(object'[q], object[q]) /\ SameHand(q, object'[q], object[q]))
  BY DEF TypeOK
<1>2. OwnInv'
  BY <1>1, OwnKept DEF PanicInv
<1>3. HandInv'
  BY <1>1, HandKept DEF PanicInv
<1> QED
  BY <1>2, <1>3 DEF PanicInv, NoPanic

(* A machine may stop, and one that goes on holds what it held. *)
LEMMA EndSteady ==
    ASSUME NEW t \in Tasks, task[t].pc # "getToken" \/ task[t].granted # UnknownPulse,
           NEW x, NEW pc \in Ended
    PROVE  Steady(t, EndTask(x, pc))
<1>1. /\ ~ EndTask(x, pc).active /\ EndTask(x, pc).pc = pc /\ ~ EndTask(x, pc).negotiated
  BY DEF EndTask, IdleTask
<1>2. pc \notin OwnSteps
  BY DEF Ended, OwnSteps
<1> QED
  BY <1>1, <1>2 DEF Steady, HoldsOn, Calm, Unpublished, Agreed, Hot, CanAct

LEMMA MoveSteady ==
    ASSUME OwnInv, NEW t \in Tasks, NEW tk, task[t].pc # "getToken", tk.pc # "getToken",
           tk.pc \in OwnSteps => task[t].pc \in OwnSteps,
           tk.active = task[t].active, tk.resume = task[t].resume,
           tk.negotiated => task[t].negotiated \/ ~ NegotiationFails(Call[t]),
           task[t].pc = "sendFinished" => tk.pc = "sendFinished"
    PROVE  Steady(t, tk)
<1>1. Agreed(t, task[t])
  BY DEF OwnInv
<1> QED
  BY <1>1 DEF Steady, HoldsOn, Calm, Unpublished, Agreed, Hot, CanAct

(* A call that waits no longer finds an object with a descriptor. *)
LEMMA ReadyState ==
    ASSUME ExecutorInv, OnceInv, UseInv, PlainInv, NEW t \in Tasks, task[t].pc \in ReadySteps
    PROVE  /\ object[SlotOf[t]].state = "HasState" /\ object[SlotOf[t]].dirty.has
           /\ ~ object[SlotOf[t]].dirty.deactivated
<1>1. task[t].pc \in EarlySteps
  BY DEF ReadySteps, OwnSteps, EarlySteps
<1>2. SlotOf[t] \in Pulses /\ SlotOf[t] \in Nat /\ clock[SlotOf[t]] = SlotOf[t]
  BY <1>1, EarlyNode, PulseFacts DEF NodeOf
<1>3. Live(SlotOf[t])
  BY <1>2 DEF Live
<1>4. ObjectPlain(object[SlotOf[t]])
  BY <1>2, <1>3 DEF PlainInv
<1>5. object[SlotOf[t]].state \notin {"Unknown", "Missing"}
  BY DEF OnceInv, ReadyInv, UseInv, StaticInv, MachineInv
<1> QED
  BY <1>4, <1>5 DEF ObjectPlain

(* stepWaitObjectReady, stepWaitPendingConstructorFinished: an object that *)
(* is ready and not missing has a descriptor.                              *)
LEMMA WaitObjectReadyPanic ==
    ASSUME ExecutorInv, OnceInv, UseInv, OrderInv, PlainInv, PanicInv, NEW t \in Tasks,
           StepWaitObjectReady(t) \/ StepWaitPendingConstructorFinished(t)
    PROVE  PanicInv'
<1>1. TypeOK /\ task[t] \in TaskType /\ OwnInv
  BY TypeFacts DEF ExecutorInv, PanicInv
<1>2. clock' = clock /\ object' = object /\ msgs' = msgs
  BY DEF StepWaitObjectReady, StepWaitPendingConstructorFinished
<1>3. task[t].pc \in {"waitObjectReady", "waitConstructor"}
  BY DEF StepWaitObjectReady, StepWaitPendingConstructorFinished, Step, At
<1>4. \/ StepWaitObjectReady(t) /\ Call[t] \notin Constructors /\ object[SlotOf[t]].state = "Missing"
      \/ ~ ClassifyPanics(t)
  <2>1. CASE StepWaitObjectReady(t)
    <3>1. object[SlotOf[t]].ReadyToWork /\ task[t].pc = "waitObjectReady"
      BY <2>1 DEF StepWaitObjectReady, ObjectOf, Step, At
    <3>2. SlotOf[t] \in Pulses /\ SlotOf[t] \in Nat /\ clock[SlotOf[t]] = SlotOf[t]
      BY <3>1, EarlyNode, PulseFacts DEF NodeOf, EarlySteps
    <3>3. Live(SlotOf[t])
      BY <3>2 DEF Live
    <3>4. ObjectPlain(object[SlotOf[t]])
      BY <3>2, <3>3 DEF PlainInv
    <3>5. object[SlotOf[t]].state # "Unknown"
      BY <3>1, <3>2 DEF ExecutorInv, LocalInv, ObjectInv, ObjectOK
    <3> QED
      BY <2>1, <3>4, <3>5 DEF ObjectPlain, ClassifyPanics, ObjectOf
  <2>2. CASE StepWaitPendingConstructorFinished(t)
    <3>1. task[t].pc = "waitConstructor"
      BY <2>2 DEF StepWaitPendingConstructorFinished, Step, At
    <3>2. object[SlotOf[t]].dirty.has
      BY <3>1, ReadyState DEF ReadySteps
    <3> QED
      BY <3>2 DEF ClassifyPanics, ObjectOf
  <2> QED
    BY <2>1, <2>2
<1>5. panics' = panics
  BY <1>4 DEF StepWaitObjectReady, StepWaitPendingConstructorFinished, ObjectOf
<1>6. PICK tk : /\ task' = [task EXCEPT ![t] = tk]
                /\ \/ tk = [task[t] EXCEPT !.pc = "sendCallResult", !.outcome = "error"]
                   \/ tk = [task[t] EXCEPT !.pc = "waitConstructor"]
                   \/ /\ tk = [task[t] EXCEPT !.pc = "deduplicate", !.negotiated = TRUE]
                      /\ ~ NegotiationFails(Call[t])
  <2>1. /\ [Goto(t, "sendCallResult") EXCEPT !.outcome = "error"]
              = [task[t] EXCEPT !.pc = "sendCallResult", !.outcome = "error"]
        /\ Goto(t, "waitConstructor") = [task[t] EXCEPT !.pc = "waitConstructor"]
        /\ [Goto(t, "deduplicate") EXCEPT !.negotiated = TRUE]
              = [task[t] EXCEPT !.pc = "deduplicate", !.negotiated = TRUE]
    BY <1>1 DEF Goto
  <2> QED
    BY <1>4, <2>1 DEF StepWaitObjectReady, StepWaitPendingConstructorFinished, Step,
                StepIsolationNegotiation, ObjectOf
<1>7. /\ tk.pc \in {"sendCallResult", "waitConstructor", "deduplicate"}
      /\ tk.active = task[t].active /\ tk.resume = task[t].resume
      /\ tk.negotiated => task[t].negotiated \/ ~ NegotiationFails(Call[t])
  BY <1>1, <1>6 DEF TaskType
<1>8. Steady(t, tk)
  BY <1>1, <1>3, <1>7, MoveSteady DEF OwnSteps
<1> QED
  BY <1>1, <1>2, <1>5, <1>6, <1>8, PanicTask

(* SMVFindCallRequest, stepProcessFindCallResponse, stepTakeLock,          *)
(* stepRegisterObjectLifelineAfter: only a constructor panics.             *)
LEMMA OwnStepsPanic ==
    ASSUME ExecutorInv, OnceInv, UseInv, OrderInv, PlainInv, PanicInv, RepeatedSoon,
           NEW t \in Tasks,
           \/ AnswerFindCall(t) \/ StepProcessFindCallResponse(t) \/ StepTakeLock(t)
           \/ StepRegisterObjectLifelineAfter(t)
    PROVE  PanicInv'
<1>1. TypeOK /\ task[t] \in TaskType /\ OwnInv
  BY TypeFacts DEF ExecutorInv, PanicInv
<1>2. ASSUME NEW tk, task' = [task EXCEPT ![t] = tk], tk.active = task[t].active,
             tk.resume = task[t].resume, tk.negotiated = task[t].negotiated,
             task[t].pc \in OwnSteps, tk.pc \in OwnSteps, clock' = clock, object' = object,
             msgs' = msgs, panics' = panics
      PROVE  PanicInv'
  <2>1. Steady(t, tk)
    BY <1>1, <1>2, MoveSteady DEF OwnSteps
  <2> QED
    BY <1>1, <1>2, <2>1, PanicTask
<1>3. CASE AnswerFindCall(t)
  <2>1. PICK find : task' = [task EXCEPT ![t] = [task[t] EXCEPT !.find = find]]
    BY <1>3 DEF AnswerFindCall, Step
  <2> DEFINE tk == [task[t] EXCEPT !.find = find]
  <2>2. /\ task[t].pc = "waitFindCall" /\ clock' = clock /\ object' = object /\ msgs' = msgs
        /\ panics' = panics
    BY <1>3 DEF AnswerFindCall, At
  <2>3. /\ tk.pc = "waitFindCall" /\ tk.active = task[t].active /\ tk.resume = task[t].resume
        /\ tk.negotiated = task[t].negotiated
    BY <1>1, <2>2 DEF TaskType
  <2> HIDE DEF tk
  <2> QED
    BY <1>2, <2>1, <2>2, <2>3 DEF tk, OwnSteps
<1>4. CASE StepProcessFindCallResponse(t)
  <2>1. Call[t] \notin Constructors
    BY DEF RepeatedSoon
  <2>2. /\ task[t].find \in {"result", "running", "notFound"} /\ object' = object
        /\ clock' = clock /\ msgs' = msgs /\ panics' = panics /\ task[t].pc = "waitFindCall"
    BY <1>1, <1>4, <2>1 DEF StepProcessFindCallResponse, TaskType, Step, At
  <2>3. \/ \E x : task' = [task EXCEPT ![t] = EndTask(x, "deduplicated")]
        \/ task' = [task EXCEPT ![t] = Goto(t, "takeLock")]
    BY <2>1, <2>2, <1>4 DEF StepProcessFindCallResponse, Step
  <2>4. CASE task' = [task EXCEPT ![t] = Goto(t, "takeLock")]
    <3> DEFINE tk == Goto(t, "takeLock")
    <3>1. /\ tk.pc = "takeLock" /\ tk.active = task[t].active /\ tk.resume = task[t].resume
          /\ tk.negotiated = task[t].negotiated
      BY <1>1 DEF Goto, TaskType
    <3> HIDE DEF tk
    <3> QED
      BY <1>2, <2>2, <2>4, <3>1 DEF tk, OwnSteps
  <2>5. ASSUME NEW x, task' = [task EXCEPT ![t] = EndTask(x, "deduplicated")]
        PROVE  PanicInv'
    <3>1. Steady(t, EndTask(x, "deduplicated"))
      BY <2>2, EndSteady DEF Ended
    <3> QED
      BY <1>1, <2>2, <2>5, <3>1, PanicTask
  <2> QED
    BY <2>3, <2>4, <2>5
<1>5. CASE StepTakeLock(t)
  <2> DEFINE tk == [Goto(t, "start") EXCEPT !.lock = TRUE]
  <2>1. Call[t] \notin Constructors
    BY DEF RepeatedSoon
  <2>2. /\ task' = [task EXCEPT ![t] = tk] /\ clock' = clock /\ object' = object /\ msgs' = msgs
        /\ panics' = panics /\ task[t].pc = "takeLock"
    BY <1>5, <2>1 DEF StepTakeLock, Step, At
  <2>3. /\ tk.pc = "start" /\ tk.active = task[t].active /\ tk.resume = task[t].resume
        /\ tk.negotiated = task[t].negotiated
    BY <1>1 DEF Goto, TaskType
  <2> HIDE DEF tk
  <2> QED
    BY <1>2, <2>2, <2>3 DEF OwnSteps
<1>6. CASE StepRegisterObjectLifelineAfter(t)
  BY <1>6 DEF StepRegisterObjectLifelineAfter, Step, At, PlainInv, TaskPlain
<1> QED
  BY <1>3, <1>4, <1>5, <1>6

(* The steps of a call in its contract code *)
LEMMA ActingPanic ==
    ASSUME ExecutorInv, OrderInv, PanicInv, NEW t \in Tasks,
           \/ StepSendOutgoing(t) \/ StepExecuteContinue(t) \/ StepExecuteDecideNextStep(t)
           \/ StepSendCallResult(t)
    PROVE  PanicInv'
<1>1. TypeOK /\ task[t] \in TaskType /\ OwnInv
  BY TypeFacts DEF ExecutorInv, PanicInv
<1>2. clock' = clock /\ object' = object /\ msgs' = msgs /\ panics' = panics
  BY DEF StepSendOutgoing, StepExecuteContinue, StepExecuteDecideNextStep, StepSendCallResult
<1>3. ASSUME NEW tk, task' = [task EXCEPT ![t] = tk], tk.active = task[t].active,
             tk.resume = task[t].resume, tk.negotiated = task[t].negotiated,
             task[t].pc \in {"execute", "sendCallResult"},
             tk.pc \in {"execute", "saveNewObject", "sendCallResult", "finishRequest"}
      PROVE  PanicInv'
  <2>1. Steady(t, tk)
    BY <1>1, <1>3, MoveSteady DEF OwnSteps
  <2> QED
    BY <1>1, <1>2, <1>3, <2>1, PanicTask
<1>5. CASE StepSendOutgoing(t)
  <2> DEFINE tk == [task[t] EXCEPT !.sent = 1]
  <2>1. task' = [task EXCEPT ![t] = tk] /\ task[t].pc = "execute"
    BY <1>5 DEF StepSendOutgoing, Step, At
  <2>2. /\ tk.pc = "execute" /\ tk.active = task[t].active /\ tk.resume = task[t].resume
        /\ tk.negotiated = task[t].negotiated
    BY <1>1, <2>1 DEF TaskType
  <2> HIDE DEF tk
  <2> QED
    BY <1>3, <2>1, <2>2
<1>6. CASE StepExecuteContinue(t)
  <2> DEFINE tk == [task[t] EXCEPT !.sent = 0, !.called = TRUE]
  <2>1. task' = [task EXCEPT ![t] = tk] /\ task[t].pc = "execute"
    BY <1>6 DEF StepExecuteContinue, Step, At
  <2>2. /\ tk.pc = "execute" /\ tk.active = task[t].active /\ tk.resume = task[t].resume
        /\ tk.negotiated = task[t].negotiated
    BY <1>1, <2>1 DEF TaskType
  <2> HIDE DEF tk
  <2> QED
    BY <1>3, <2>1, <2>2
<1>7. CASE StepExecuteDecideNextStep(t)
  <2>1. PICK pc \in {"sendCallResult", "saveNewObject"}, outcome \in Outcome \cup OutcomesOf[Call[t]] :
           /\ task' = [task EXCEPT ![t] = [Goto(t, pc) EXCEPT !.outcome = outcome]]
           /\ task[t].pc = "execute"
    BY <1>7 DEF StepExecuteDecideNextStep, Step, At, Outcome
  <2> DEFINE tk == [Goto(t, pc) EXCEPT !.outcome = outcome]
  <2>2. /\ tk.pc = pc /\ tk.active = task[t].active /\ tk.resume = task[t].resume
        /\ tk.negotiated = task[t].negotiated
    BY <1>1 DEF Goto, TaskType
  <2> HIDE DEF tk
  <2> QED
    BY <1>3, <2>1, <2>2 DEF tk
<1>8. CASE StepSendCallResult(t)
  <2>1. PICK answer : /\ task' = [task EXCEPT ![t] = [Goto(t, "finishRequest") EXCEPT !.answer = answer]]
                      /\ task[t].pc = "sendCallResult"
    BY <1>8 DEF StepSendCallResult, Step, At
  <2> DEFINE tk == [Goto(t, "finishRequest") EXCEPT !.answer = answer]
  <2>2. /\ tk.pc = "finishRequest" /\ tk.active = task[t].active /\ tk.resume = task[t].resume
        /\ tk.negotiated = task[t].negotiated
    BY <1>1 DEF Goto, TaskType
  <2> HIDE DEF tk
  <2> QED
    BY <1>3, <2>1, <2>2 DEF tk
<1> QED
  BY <1>5, <1>6, <1>7, <1>8

(* An object that changes in nothing that matters here *)
SameWait(o, x) ==
    /\ o.known = x.known /\ o.results = x.results /\ o.summary = x.summary
    /\ o.pending = x.pending /\ o.prevPending = x.prevPending
    /\ o.oldestPending = x.oldestPending /\ o.report = x.report
    /\ o.phase = x.phase /\ o.ReadyToWork = x.ReadyToWork /\ o.asked = x.asked
    /\ o.state = x.state \/ (x.state # "Unknown" /\ o.state # "Unknown")

LEMMA SameWaitKept ==
    ASSUME PanicInv, msgs \subseteq msgs', NEW p \in Pulses, NEW o, SameWait(o, object[p])
    PROVE  SameRecord(o, object[p]) /\ SameHand(p, o, object[p])
<1>1. clock[p] = p => PhaseOK(object[p], msgs)
  BY DEF PanicInv, HandInv, PhaseInv
<1>2. PhaseOK(object[p], msgs) => PhaseOK(o, msgs')
  BY DEF PhaseOK, SameWait
<1>3. SameRecord(o, object[p]) /\ Quota(o, object[p])
  BY DEF SameWait, SameRecord, Quota, Left
<1> QED
  BY <1>1, <1>2, <1>3 DEF SameWait, SameHand

(* stepSaveNewObject: the object of a call that runs here has a state.     *)
LEMMA SaveNewObjectPanic ==
    ASSUME ExecutorInv, OnceInv, UseInv, OrderInv, PlainInv, PanicInv, NEW t \in Tasks,
           StepSaveNewObject(t)
    PROVE  PanicInv'
<1> DEFINE p == SlotOf[t]
           x == object[p]
           tk == task[t]
           new == IF tk.outcome = "none" THEN NoDescriptor
                  ELSE NewDescriptor(tk.base \cup {Call[t]}, FALSE)
           done == [Goto(t, "sendCallResult") EXCEPT !.new = new]
           saved == [x EXCEPT !.dirty = new, !.state = "HasState"]
<1>1. /\ TypeOK /\ tk \in TaskType /\ p \in Pulses /\ x \in ObjectType
      /\ TaskOK(tk, NodeOf(t), p) /\ p \in Nat /\ TaskPlain(t, tk) /\ OwnInv
  BY TypeFacts, PulseFacts DEF ExecutorInv, LocalInv, TaskInv, PlainInv, PanicInv
<1>2. clock' = clock /\ msgs' = msgs /\ tk.pc = "saveNewObject"
  BY DEF StepSaveNewObject, Step, At
<1>3. tk.active /\ NodeOf(t) >= p
  BY <1>1, <1>2, LateNode DEF TaskOK, Ended
<1>4. ~ tk.migrated => x.state \in {"Missing", "HasState"}
  <2>1. tk.ran
    BY <1>3 DEF UseInv, StaticInv, MachineInv
  <2>2. ~ tk.migrated => NodeOf(t) = p
    BY <1>1, <1>3 DEF TaskOK
  <2>3. NodeOf(t) = p => Live(p)
    BY <1>1 DEF Live, NodeOf
  <2> QED
    BY <1>1, <2>1, <2>2, <2>3 DEF OnceInv, RanInv, PlainInv, ObjectPlain
<1>5. tk.outcome \in {"none", "change"}
  BY <1>1, <1>2 DEF TaskPlain, TaskOK, TaskType, Outcome
<1>7. /\ task' = [task EXCEPT ![t] = done] /\ panics' = panics
      /\ object' = object \/ (x.state # "Unknown" /\ object' = [object EXCEPT ![p] = saved])
  BY <1>1, <1>4, <1>5 DEF StepSaveNewObject, Step, ObjectOf, SaveDescriptor, TypeOK
<1> HIDE DEF new
<1>8. /\ done.pc = "sendCallResult" /\ done.active = tk.active /\ done.resume = tk.resume
      /\ done.negotiated = tk.negotiated
  BY <1>1 DEF Goto, TaskType
<1>9. x.state # "Unknown" => SameWait(saved, x)
  BY <1>1 DEF ObjectType, SameWait
<1> HIDE DEF done, saved
<1>10. Steady(t, done)
  BY <1>1, <1>2, <1>8, MoveSteady DEF OwnSteps
<1>11. x.state # "Unknown" => SameRecord(saved, x) /\ SameHand(p, saved, x)
  BY <1>1, <1>2, <1>9, SameWaitKept
<1> QED
  BY <1>1, <1>2, <1>7, <1>10, <1>11, PanicTask

(* The machine t changes what the record o of its executor says of its own *)
(* call, which no other machine holds.                                     *)
OwnRecord(o, x, r) ==
    /\ o.phase = x.phase
    /\ \A q \in Requests : q # r => /\ o.known[FlagOf[q]].requests[q] = x.known[FlagOf[q]].requests[q]
                                    /\ o.results[q] = x.results[q]
                                    /\ o.summary[q] = x.summary[q]

LEMMA PanicRecord ==
    ASSUME TypeOK, OrderInv, PanicInv, clock' = clock, msgs' = msgs, panics' = panics,
           NEW t \in Tasks, NEW tk, NEW o, task' = [task EXCEPT ![t] = tk],
           object' = [object EXCEPT ![SlotOf[t]] = o],
           Begun(tk, o, Call[t]), Open(t, tk, o), Agreed(t, tk), Calm(t, tk),
           OwnRecord(o, object[SlotOf[t]], Call[t]),
           SameHand(SlotOf[t], o, object[SlotOf[t]]),
           \A u \in Tasks : u # t /\ Holds(task[u]) => ~ (Call[u] = Call[t] /\ SlotOf[u] = SlotOf[t])
    PROVE  PanicInv'
<1>0. SlotOf[t] \in Pulses /\ \A u \in Tasks : SlotOf[u] \in Pulses /\ Call[u] \in Requests
  BY PulseFacts, CallFacts
<1>1. task'[t] = tk /\ \A u \in Tasks : u # t => task'[u] = task[u]
  BY DEF TypeOK
<1>2. object'[SlotOf[t]] = o /\ \A p \in Pulses : p # SlotOf[t] => object'[p] = object[p]
  BY <1>0 DEF TypeOK
<1>3. OwnInv'
  <2> SUFFICES ASSUME NEW u \in Tasks
               PROVE  /\ Begun(task'[u], object'[SlotOf[u]], Call[u])
                      /\ Open(u, task'[u], object'[SlotOf[u]])
                      /\ Agreed(u, task'[u])
    BY OwnStep DEF PanicInv
  <2>1. CASE u = t
    BY <1>1, <1>2, <2>1
  <2>2. CASE u # t
    <3>1. /\ Begun(task[u], object[SlotOf[u]], Call[u]) /\ Open(u, task[u], object[SlotOf[u]])
          /\ Agreed(u, task[u]) /\ task'[u] = task[u]
      BY <1>1, <2>2 DEF PanicInv, OwnInv
    <3>2. CASE SlotOf[u] # SlotOf[t]
      BY <1>0, <1>2, <3>1, <3>2
    <3>3. CASE SlotOf[u] = SlotOf[t] /\ Call[u] # Call[t]
      BY <1>0, <1>2, <3>1, <3>3 DEF OwnRecord, Begun, Open
    <3>4. CASE SlotOf[u] = SlotOf[t] /\ Call[u] = Call[t]
      <4>1. task[u].pc \notin OwnSteps /\ ~ Unpublished(task[u])
        BY <2>2, <3>4 DEF Holds, Unpublished
      <4> QED
        BY <3>1, <4>1 DEF Begun, Open
    <3> QED
      BY <3>2, <3>3, <3>4
  <2> QED
    BY <2>1, <2>2
<1>4. HandInv'
  BY <1>1, <1>2, HandKept DEF PanicInv
<1> QED
  BY <1>3, <1>4 DEF PanicInv, NoPanic

(* stepDeduplicate: a request that is new to the list gets started; only   *)
(* a constructor panics.                                                   *)
LEMMA DeduplicatePanic ==
    ASSUME ExecutorInv, OnceInv, UseInv, OrderInv, PanicInv, RepeatedSoon,
           NEW t \in Tasks, StepDeduplicate(t)
    PROVE  PanicInv'
<1> DEFINE p == SlotOf[t]
           r == Call[t]
           f == FlagOf[r]
           x == object[p]
           list == WorkingAdd(x.known[f], r)
           o == [x EXCEPT !.known[f] = list]
<1>1. TypeOK /\ task[t].pc = "deduplicate" /\ clock' = clock /\ msgs' = msgs
  BY DEF ExecutorInv, StepDeduplicate, Step, At
<1>2. /\ NodeOf(t) = p /\ p \in Pulses /\ x \in ObjectType /\ p \in Nat /\ clock[p] = p
      /\ task[t] \in TaskType /\ r \in Requests /\ f \in Flags /\ r \notin Constructors
  BY <1>1, EarlyNode, PulseFacts DEF EarlySteps, NodeOf, RepeatedSoon
<1>3. object' = [object EXCEPT ![p] = o]
  <2>1. object' = [object EXCEPT ![p].known[f] = list]
    BY DEF StepDeduplicate, ObjectOf
  <2> HIDE DEF list
  <2> QED
    BY <1>1, <1>2, <2>1
<1>4. /\ x.known[f] \in ListType /\ x.known[f].requests \in [Requests -> RequestState]
      /\ list.requests = IF CanAdd(x.known[f], r)
                         THEN [x.known[f].requests EXCEPT ![r] = "Started"]
                         ELSE x.known[f].requests
  <2>1. x.known[f] \in ListType
    BY <1>2 DEF ObjectType
  <2> QED
    BY <1>2, <2>1, MethodsSetState DEF ListType
<1> HIDE DEF list
<1>5. /\ o.results = x.results /\ o.summary = x.summary /\ o.phase = x.phase
      /\ o.state = x.state /\ o.pending = x.pending /\ o.report = x.report
      /\ o.prevPending = x.prevPending /\ o.oldestPending = x.oldestPending
      /\ o.ReadyToWork = x.ReadyToWork /\ o.asked = x.asked
      /\ o.known = [x.known EXCEPT ![f] = list] /\ x.known \in [Flags -> ListType]
  BY <1>2 DEF ObjectType
<1> HIDE DEF o
<1>6. o.known[f] = list /\ \A g \in Flags : g # f => o.known[g] = x.known[g]
  BY <1>2, <1>5
<1>7. SameHand(p, o, x)
  <2>1. PhaseOK(x, msgs) => PhaseOK(o, msgs')
    BY <1>1, <1>5 DEF PhaseOK
  <2>2. PhaseOK(x, msgs)
    BY <1>2 DEF PanicInv, HandInv, PhaseInv
  <2> QED
    BY <1>5, <2>1, <2>2 DEF SameHand, Quota, Left
<1>8. OwnRecord(o, x, r)
  <2>1. ASSUME NEW q \in Requests, q # r
        PROVE  o.known[FlagOf[q]].requests[q] = x.known[FlagOf[q]].requests[q]
    <3>1. FlagOf[q] \in Flags
      BY CallFacts
    <3> QED
      BY <1>2, <1>4, <1>6, <2>1, <3>1
  <2> QED
    BY <1>5, <2>1 DEF OwnRecord
<1>9. DeduplicationAction(t) \in {"ContinueExecute", "Stop", "DeduplicateThroughPreviousExecutor"}
  BY <1>2 DEF DeduplicationAction
<1>10. /\ panics' = panics
       /\ \/ \E y : task' = [task EXCEPT ![t] = EndTask(y, "deduplicated")]
          \/ /\ CanAdd(x.known[f], r)
             /\ \/ task' = [task EXCEPT ![t] = Goto(t, "takeLock")]
                \/ \E b : task' = [task EXCEPT ![t] = [Goto(t, "waitFindCall") EXCEPT !.settled = b]]
  BY <1>9 DEF StepDeduplicate, Step, ObjectOf
<1>11. CASE \E y : task' = [task EXCEPT ![t] = EndTask(y, "deduplicated")]
  <2>1. PICK y : task' = [task EXCEPT ![t] = EndTask(y, "deduplicated")]
    BY <1>11
  <2>2. Steady(t, EndTask(y, "deduplicated"))
    BY <1>1, EndSteady DEF Ended
  <2> DEFINE tk == EndTask(y, "deduplicated")
  <2>3. task'[t] = tk /\ \A u \in Tasks : u # t => task'[u] = task[u]
    BY <1>1, <2>1 DEF TypeOK
  <2>4. object'[p] = o /\ \A q \in Pulses : q # p => object'[q] = object[q]
    BY <1>1, <1>2, <1>3 DEF TypeOK
  <2>5. HandInv'
    BY <1>1, <1>7, <2>2, <2>3, <2>4, HandKept DEF PanicInv, Steady
  <2> HIDE DEF tk
  <2>6. OwnInv'
    <3> SUFFICES ASSUME NEW u \in Tasks
                 PROVE  /\ Begun(task'[u], object'[SlotOf[u]], Call[u])
                        /\ Open(u, task'[u], object'[SlotOf[u]])
                        /\ Agreed(u, task'[u])
      BY <1>1, OwnStep DEF PanicInv
    <3>1. /\ Begun(task[u], object[SlotOf[u]], Call[u]) /\ Open(u, task[u], object[SlotOf[u]])
          /\ Agreed(u, task[u]) /\ SlotOf[u] \in Pulses /\ Call[u] \in Requests
      BY PulseFacts, CallFacts DEF PanicInv, OwnInv
    <3>2. Begun(task'[u], object[SlotOf[u]], Call[u]) /\ Open(u, task'[u], object[SlotOf[u]])
          /\ Agreed(u, task'[u])
      BY <2>2, <2>3, <3>1 DEF Steady, HoldsOn, Begun, Open, tk
    <3>3. CASE SlotOf[u] # p
      BY <2>4, <3>1, <3>2, <3>3
    <3>4. CASE SlotOf[u] = p
      <4>1. Open(u, task'[u], o)
        BY <1>5, <3>2, <3>4 DEF Open
      <4>2. ASSUME task'[u].pc \in OwnSteps PROVE o.known[FlagOf[Call[u]]].requests[Call[u]] = "Started"
        <5>1. x.known[FlagOf[Call[u]]].requests[Call[u]] = "Started" /\ FlagOf[Call[u]] \in Flags
          BY <3>1, <3>2, <3>4, <4>2, CallFacts DEF Begun
        <5> QED
          BY <1>2, <1>4, <1>6, <3>1, <5>1 DEF CanAdd
      <4> QED
        BY <2>4, <3>2, <3>4, <4>1, <4>2 DEF Begun
    <3> QED
      BY <3>3, <3>4
  <2> QED
    BY <1>10, <2>5, <2>6 DEF PanicInv, NoPanic
<1>12. ASSUME CanAdd(x.known[f], r), NEW tk, task' = [task EXCEPT ![t] = tk],
              tk.active = task[t].active, tk.resume = task[t].resume,
              tk.negotiated = task[t].negotiated
       PROVE  PanicInv'
  <2>1. Begun(tk, o, r)
    BY <1>2, <1>4, <1>6, <1>12 DEF Begun
  <2>2. ~ task[t].active
    BY <1>1 DEF ExecutorInv, LocalInv, TaskInv, TaskOK, ActingSteps
  <2>3. Open(t, tk, o) /\ Agreed(t, tk) /\ Calm(t, tk)
    BY <1>2, <1>12, <2>2 DEF Open, Unpublished, Agreed, Calm, PanicInv, OwnInv
  <2>4. \A u \in Tasks : u # t /\ Holds(task[u]) => ~ (Call[u] = r /\ SlotOf[u] = p)
    <3> SUFFICES ASSUME NEW u \in Tasks, u # t, Holds(task[u]), Call[u] = r, SlotOf[u] = p
                 PROVE  FALSE
      OBVIOUS
    <3>1. NodeOf(u) = p /\ ~ Noted(x, r) /\ TaskOK(task[u], NodeOf(u), SlotOf[u])
      BY <1>2, <1>12 DEF NodeOf, Noted, CanAdd, ExecutorInv, LocalInv, TaskInv
    <3>2. ~ Owns(task[u])
      BY <3>1 DEF OnceInv, NotedInv
    <3>3. ~ task[u].active
      BY <3>2 DEF UseInv, StaticInv, MachineInv, Owns
    <3>4. task[u].pc \in {"sendCallResult", "finishRequest"} /\ task[u].negotiated
      BY <3>2, <3>3 DEF Holds, Owns
    <3>5. ~ task[u].migrated
      BY <3>1, <3>3, <3>4 DEF TaskOK, Ended
    <3>6. Listed(x, r)
      BY <3>4, <3>5 DEF ExecutorInv, LocalInv, KnownInv, Started
    <3> QED
      BY <3>1, <3>6 DEF Listed, Noted
  <2> QED
    BY <1>1, <1>3, <1>7, <1>8, <1>10, <1>12, <2>1, <2>3, <2>4, PanicRecord
<1>13. CASE /\ CanAdd(x.known[f], r)
            /\ task' = [task EXCEPT ![t] = Goto(t, "takeLock")]
  <2> DEFINE tk == Goto(t, "takeLock")
  <2>1. /\ tk.active = task[t].active /\ tk.resume = task[t].resume
        /\ tk.negotiated = task[t].negotiated
    BY <1>2 DEF Goto, TaskType
  <2> HIDE DEF tk
  <2> QED
    BY <1>12, <1>13, <2>1 DEF tk
<1>14. ASSUME CanAdd(x.known[f], r), NEW b,
              task' = [task EXCEPT ![t] = [Goto(t, "waitFindCall") EXCEPT !.settled = b]]
       PROVE  PanicInv'
  <2> DEFINE tk == [Goto(t, "waitFindCall") EXCEPT !.settled = b]
  <2>1. /\ tk.active = task[t].active /\ tk.resume = task[t].resume
        /\ tk.negotiated = task[t].negotiated
    BY <1>2 DEF Goto, TaskType
  <2> HIDE DEF tk
  <2> QED
    BY <1>12, <1>14, <2>1 DEF tk
<1> QED
  BY <1>10, <1>11, <1>13, <1>14

(* stepStartRequestProcessing: the request is started and the object has a *)
(* descriptor.                                                             *)
LEMMA StartPanic ==
    ASSUME ExecutorInv, OnceInv, UseInv, OrderInv, PlainInv, PanicInv,
           NEW t \in Tasks, StepStartRequestProcessing(t)
    PROVE  PanicInv'
<1> DEFINE p == SlotOf[t]
           r == Call[t]
           f == FlagOf[r]
           x == object[p]
           list == WorkingSetActive(x.known[f], r)
           o == [x EXCEPT !.known[f] = list, !.results[r] = "empty"]
           run == [Goto(t, "execute") EXCEPT !.active = TRUE, !.ran = TRUE, !.base = x.dirty.memory]
<1>1. TypeOK /\ task[t].pc = "start" /\ clock' = clock /\ msgs' = msgs
  BY DEF ExecutorInv, StepStartRequestProcessing, Step, At
<1>2. /\ NodeOf(t) = p /\ p \in Pulses /\ x \in ObjectType /\ p \in Nat /\ clock[p] = p
      /\ task[t] \in TaskType /\ r \in Requests /\ f \in Flags
  BY <1>1, EarlyNode, PulseFacts DEF EarlySteps, NodeOf
<1>3. CanSetActive(x.known[f], r)
  BY <1>1 DEF PanicInv, OwnInv, Begun, OwnSteps, CanSetActive
<1>4. x.dirty.has /\ ~ IsDeactivated(x)
  BY <1>1, ReadyState DEF ReadySteps, OwnSteps, IsDeactivated
<1>5. /\ object' = [object EXCEPT ![p] = KnownSetActive(x, r)]
      /\ task' = [task EXCEPT ![t] = run] /\ panics' = panics
  BY <1>1, <1>2, <1>3, <1>4 DEF StepStartRequestProcessing, Step, ObjectOf, TypeOK
<1>6. KnownSetActive(x, r) = o
  BY <1>2 DEF KnownSetActive, ObjectType
<1>7. /\ x.known[f].requests \in [Requests -> RequestState]
      /\ list.requests = [x.known[f].requests EXCEPT ![r] = "Processing"]
  <2>1. x.known[f] \in ListType
    BY <1>2 DEF ObjectType
  <2> QED
    BY <1>2, <1>3, <2>1, MethodsSetState DEF ListType
<1> HIDE DEF list
<1>8. /\ o.results = [x.results EXCEPT ![r] = "empty"] /\ o.summary = x.summary
      /\ x.results \in [Requests -> CallSummary] /\ o.phase = x.phase
      /\ o.state = x.state /\ o.pending = x.pending /\ o.report = x.report
      /\ o.prevPending = x.prevPending /\ o.oldestPending = x.oldestPending
      /\ o.ReadyToWork = x.ReadyToWork /\ o.asked = x.asked
      /\ o.known = [x.known EXCEPT ![f] = list] /\ x.known \in [Flags -> ListType]
  BY <1>2 DEF ObjectType
<1>9. run.pc = "execute" /\ run.negotiated = task[t].negotiated
  BY <1>2 DEF Goto, TaskType
<1> HIDE DEF o, run
<1>10. /\ o.known[f] = list /\ \A g \in Flags : g # f => o.known[g] = x.known[g]
       /\ o.results[r] = "empty" /\ \A q \in Requests : q # r => o.results[q] = x.results[q]
  BY <1>2, <1>8
<1>11. SameHand(p, o, x)
  <2>1. PhaseOK(x, msgs) => PhaseOK(o, msgs')
    BY <1>1, <1>8 DEF PhaseOK
  <2>2. PhaseOK(x, msgs)
    BY <1>2 DEF PanicInv, HandInv, PhaseInv
  <2> QED
    BY <1>8, <2>1, <2>2 DEF SameHand, Quota, Left
<1>12. OwnRecord(o, x, r)
  <2>1. ASSUME NEW q \in Requests, q # r
        PROVE  o.known[FlagOf[q]].requests[q] = x.known[FlagOf[q]].requests[q]
    <3>1. FlagOf[q] \in Flags
      BY CallFacts
    <3> QED
      BY <1>2, <1>7, <1>10, <2>1, <3>1
  <2> QED
    BY <1>8, <1>10, <2>1 DEF OwnRecord
<1>13. Begun(run, o, r) /\ Open(t, run, o) /\ Agreed(t, run) /\ Calm(t, run)
  <2>1. Begun(run, o, r)
    BY <1>9 DEF Begun, OwnSteps
  <2>2. Open(t, run, o)
    BY <1>2, <1>10 DEF Open
  <2>3. Agreed(t, run) /\ Calm(t, run)
    BY <1>2, <1>9 DEF Agreed, Calm, PanicInv, OwnInv
  <2> QED
    BY <2>1, <2>2, <2>3
<1>14. \A u \in Tasks : u # t /\ Holds(task[u]) => ~ (Call[u] = r /\ SlotOf[u] = p)
  <2>1. Holds(task[t])
    BY <1>1 DEF Holds, OwnSteps
  <2> QED
    BY <2>1 DEF OrderInv, HolderInv
<1>15. object' = [object EXCEPT ![p] = o]
  BY <1>5, <1>6
<1> QED
  BY <1>1, <1>5, <1>11, <1>12, <1>13, <1>14, <1>15, PanicRecord

(* stepFinishRequest: the machine finishes only its own request, which has *)
(* a result.                                                               *)
LEMMA FinishRequestPanic ==
    ASSUME ExecutorInv, OnceInv, UseInv, OrderInv, PanicInv, NEW t \in Tasks, StepFinishRequest(t)
    PROVE  PanicInv'
<1> DEFINE p == SlotOf[t]
           r == Call[t]
           x == object[p]
           f == IF task[t].negotiated THEN FlagOf[r] ELSE CallFlag[r]
           finishes == ~ task[t].migrated /\ CanFinish(x.known[f], r)
           panic == finishes /\ x.results[r] = "none"
           list == WorkingFinish(x.known[f], r)
           o == [x EXCEPT !.known[f] = list, !.results[r] = "result"]
<1>1. /\ TypeOK /\ task[t] \in TaskType /\ p \in Pulses /\ x \in ObjectType
      /\ r \in Requests /\ f \in Flags /\ clock' = clock /\ msgs' = msgs
      /\ task[t].pc = "finishRequest" /\ p \in Nat /\ TableOK(x, p)
      /\ TaskOK(task[t], NodeOf(t), p)
  BY TypeFacts, PulseFacts, CallFacts
     DEF ExecutorInv, StepFinishRequest, Step, At, UseInv, StaticInv, TablesInv, LocalInv, TaskInv
<1>2. /\ object' = IF ~ finishes THEN object
                   ELSE [object EXCEPT ![p].known[f] = list,
                                       ![p].results[r] = IF panic THEN x.results[r] ELSE "result"]
      /\ task' = [task EXCEPT ![t] = IF task[t].migrated THEN Goto(t, "callSummary")
                                     ELSE EndTask(task[t], IF panic THEN "dead" ELSE "done")]
      /\ ~ panic => panics' = panics
  BY <1>1 DEF StepFinishRequest, Step, ObjectOf, TypeOK
<1>3. CASE task[t].migrated
  <2> DEFINE tk == Goto(t, "callSummary")
  <2>1. /\ tk.active = task[t].active /\ tk.pc = "callSummary" /\ tk.resume = task[t].resume
        /\ tk.negotiated = task[t].negotiated
    BY <1>1 DEF Goto, TaskType
  <2>2. task' = [task EXCEPT ![t] = tk] /\ object' = object /\ panics' = panics
    BY <1>2, <1>3
  <2> HIDE DEF tk
  <2>3. Steady(t, tk)
    BY <1>1, <2>1, MoveSteady DEF OwnSteps, PanicInv
  <2> QED
    BY <1>1, <2>2, <2>3, PanicTask
<1>4. CASE ~ task[t].migrated /\ ~ finishes
  <2>1. task' = [task EXCEPT ![t] = EndTask(task[t], "done")] /\ object' = object /\ panics' = panics
    BY <1>2, <1>4
  <2>2. Steady(t, EndTask(task[t], "done"))
    BY <1>1, EndSteady DEF Ended
  <2> QED
    BY <1>1, <2>1, <2>2, PanicTask
<1>5. CASE finishes
  <2>1. Entered(x.known[f], r) /\ f = FlagOf[r] /\ ~ NoKnown(x)
    <3>1. Entered(x.known[f], r)
      BY <1>5 DEF CanFinish, Entered
    <3> HIDE DEF f
    <3> QED
      BY <1>1, <3>1 DEF TableOK, NoKnown
  <2>2. NodeOf(t) = p /\ clock[p] = p
    BY <1>1, <1>5 DEF TaskOK, Ended, NodeOf
  <2>3. task[t].negotiated
    <3> SUFFICES ASSUME ~ task[t].negotiated PROVE FALSE
      OBVIOUS
    <3>1. f = CallFlag[r] /\ FailsEarly(task[t])
      BY <1>1 DEF FailsEarly
    <3>2. ~ NegotiationFails(r)
      BY <2>1, <3>1 DEF NegotiationFails, FlagOf, Tolerable, Intolerable
    <3>3. x.state = "Missing"
      BY <3>1, <3>2 DEF UseInv, StaticInv, MachineInv
    <3>4. Live(p)
      BY <1>1, <2>2 DEF Live
    <3> QED
      BY <1>1, <2>1, <3>3, <3>4 DEF UseInv, StaticInv, UnusedInv
  <2>4. Holds(task[t])
    BY <1>1, <2>3 DEF Holds
  <2>5. ~ panic
    <3>1. Listed(x, r)
      BY <1>1, <1>5, <2>3 DEF ExecutorInv, LocalInv, KnownInv, Started
    <3> QED
      BY <1>1, <3>1 DEF TableOK
  <2>6. /\ x.known[f].requests \in [Requests -> RequestState]
        /\ \A q \in Requests : q # r => list.requests[q] = x.known[f].requests[q]
    <3>1. x.known[f] \in ListType
      BY <1>1 DEF ObjectType
    <3>2. list.requests = IF CanFinish(x.known[f], r)
                          THEN [x.known[f].requests EXCEPT ![r] = "Finished"]
                          ELSE x.known[f].requests
      BY <1>1, <3>1, MethodsSetState
    <3>3. x.known[f].requests \in [Requests -> RequestState]
      BY <3>1 DEF ListType
    <3> HIDE DEF list, f
    <3> QED
      BY <1>1, <3>2, <3>3
  <2>7. ~ task[t].migrated
    BY <1>5
  <2> HIDE DEF panic, finishes, list
  <2>8. /\ task' = [task EXCEPT ![t] = EndTask(task[t], "done")] /\ panics' = panics
        /\ object' = [object EXCEPT ![p] = o]
    <3> HIDE DEF f
    <3> QED
      BY <1>1, <1>2, <1>5, <2>5, <2>7
  <2> HIDE DEF f
  <2>9. /\ o.summary = x.summary /\ o.phase = x.phase
        /\ o.state = x.state /\ o.pending = x.pending /\ o.report = x.report
        /\ o.prevPending = x.prevPending /\ o.oldestPending = x.oldestPending
        /\ o.ReadyToWork = x.ReadyToWork /\ o.asked = x.asked
        /\ o.known[f] = list /\ \A g \in Flags : g # f => o.known[g] = x.known[g]
        /\ \A q \in Requests : q # r => o.results[q] = x.results[q]
    BY <1>1 DEF ObjectType
  <2> HIDE DEF o
  <2>10. SameHand(p, o, x)
    <3>1. PhaseOK(x, msgs) => PhaseOK(o, msgs')
      BY <1>1, <2>9 DEF PhaseOK
    <3>2. PhaseOK(x, msgs)
      BY <1>1, <2>2 DEF PanicInv, HandInv, PhaseInv
    <3> QED
      BY <2>9, <3>1, <3>2 DEF SameHand, Quota, Left
  <2>11. OwnRecord(o, x, r)
    <3>1. ASSUME NEW q \in Requests, q # r
          PROVE  o.known[FlagOf[q]].requests[q] = x.known[FlagOf[q]].requests[q]
      <4>1. FlagOf[q] \in Flags
        BY CallFacts
      <4> QED
        BY <1>1, <2>6, <2>9, <3>1, <4>1
    <3> QED
      BY <2>9, <3>1 DEF OwnRecord
  <2> DEFINE tk == EndTask(task[t], "done")
  <2>12. /\ ~ tk.active /\ tk.pc = "done" /\ ~ tk.negotiated
    BY DEF EndTask, IdleTask
  <2> HIDE DEF tk
  <2>13. Begun(tk, o, r) /\ Open(t, tk, o) /\ Agreed(t, tk)
    BY <2>12 DEF Begun, Open, Agreed, Unpublished, OwnSteps
  <2>14. Calm(t, tk)
    BY <1>1, <2>2 DEF Calm
  <2>15. \A u \in Tasks : u # t /\ Holds(task[u]) => ~ (Call[u] = r /\ SlotOf[u] = p)
    BY <2>4 DEF OrderInv, HolderInv
  <2> QED
    BY <1>1, <2>8, <2>10, <2>11, <2>13, <2>14, <2>15, PanicRecord DEF tk
<1> QED
  BY <1>3, <1>4, <1>5

(* stepPublishDataCallSummary: the summary has an empty entry for the call *)
(* that goes on.                                                           *)
LEMMA PublishDataCallSummaryPanic ==
    ASSUME ExecutorInv, OrderInv, PanicInv, NEW t \in Tasks, StepPublishDataCallSummary(t)
    PROVE  PanicInv'
<1> DEFINE p == SlotOf[t]
           r == Call[t]
           x == object[p]
           o == [x EXCEPT !.summary[r] = "result"]
           tk == Goto(t, "sendFinished")
<1>1. /\ TypeOK /\ task[t] \in TaskType /\ p \in Pulses /\ x \in ObjectType /\ r \in Requests
      /\ clock' = clock /\ msgs' = msgs /\ task[t].pc = "callSummary" /\ p \in Nat
      /\ TaskOK(task[t], NodeOf(t), p)
  BY TypeFacts, PulseFacts, CallFacts
     DEF ExecutorInv, StepPublishDataCallSummary, Step, At, LocalInv, TaskInv
<1>2. task[t].active /\ task[t].resume = "idle"
  BY <1>1 DEF TaskOK
<1>3. HasSummary(p) => x.summary[r] = "empty"
  <2>1. Unpublished(task[t])
    BY <1>1, <1>2 DEF Unpublished
  <2> QED
    BY <2>1 DEF PanicInv, OwnInv, Open, HasSummary, NodeOf
<1>4. /\ task' = [task EXCEPT ![t] = tk] /\ panics' = panics
      /\ object' = IF HasSummary(p) THEN [object EXCEPT ![p] = o] ELSE object
  BY <1>1, <1>3 DEF StepPublishDataCallSummary, Step, TypeOK
<1>5. /\ tk.active /\ tk.pc = "sendFinished" /\ tk.resume = task[t].resume
      /\ tk.negotiated = task[t].negotiated
  BY <1>1, <1>2 DEF Goto, TaskType
<1>6. /\ o.known = x.known /\ o.results = x.results /\ o.phase = x.phase
      /\ o.state = x.state /\ o.pending = x.pending /\ o.report = x.report
      /\ o.prevPending = x.prevPending /\ o.oldestPending = x.oldestPending
      /\ \A q \in Requests : q # r => o.summary[q] = x.summary[q]
  BY <1>1 DEF ObjectType
<1> HIDE DEF o, tk
<1>7. Steady(t, tk)
  BY <1>1, <1>2, <1>5, MoveSteady DEF OwnSteps, PanicInv
<1>8. CASE HasSummary(p)
  <2>1. clock[p] # p
    BY <1>1, <1>8 DEF HasSummary
  <2>2. OwnRecord(o, x, r) /\ SameHand(p, o, x)
    BY <1>6, <2>1 DEF OwnRecord, SameHand, Quota, Left
  <2>3. Begun(tk, o, r) /\ Open(t, tk, o) /\ Agreed(t, tk) /\ Calm(t, tk)
    BY <1>5, <1>7 DEF Begun, Open, Unpublished, OwnSteps, Steady, HoldsOn
  <2>4. \A u \in Tasks : u # t /\ Holds(task[u]) => ~ (Call[u] = r /\ SlotOf[u] = p)
    BY <1>2 DEF OrderInv, HolderInv, Holds
  <2>5. object' = [object EXCEPT ![p] = o]
    BY <1>4, <1>8
  <2> QED
    BY <1>1, <1>4, <2>2, <2>3, <2>4, <2>5, PanicRecord
<1>9. CASE ~ HasSummary(p)
  BY <1>1, <1>4, <1>7, <1>9, PanicTask
<1> QED
  BY <1>8, <1>9

(* GetOrCreate finds the object or creates one that waits for its state. *)
CreatedOf(c, x) ==
    /\ c.phase = IF x.phase = "none" THEN "getState" ELSE x.phase
    /\ c.known = x.known /\ c.results = x.results /\ c.summary = x.summary
    /\ c.pending = x.pending /\ c.prevPending = x.prevPending
    /\ c.oldestPending = x.oldestPending /\ c.report = x.report
    /\ c.ReadyToWork = x.ReadyToWork /\ c.asked = x.asked /\ c.state = x.state

LEMMA CreatedRecord ==
    ASSUME ExecutorInv, NEW p \in Pulses
    PROVE  GetOrCreate(p) \in ObjectType /\ CreatedOf(GetOrCreate(p), object[p])
<1> DEFINE o == GetOrCreate(p)
           x == object[p]
<1>1. /\ o \in ObjectType /\ o.phase = IF x.phase = "none" THEN "getState" ELSE x.phase
      /\ o.asked = x.asked /\ o.report = x.report /\ o.ReadyToWork = x.ReadyToWork
      /\ o.state = x.state /\ o.known = x.known
      /\ o.pending = x.pending /\ o.oldestPending = x.oldestPending
      /\ o.prevPending = x.prevPending
  BY GetOrCreateFacts
<1>2. o.results = x.results /\ o.summary = x.summary
  <2>1. CASE x.phase = "none"
    <3>1. x = NewObject("none")
      BY <2>1 DEF ExecutorInv, LocalInv, ObjectInv, ObjectOK
    <3>2. o = NewObject("getState")
      BY <2>1 DEF GetOrCreate
    <3>3. /\ NewObject("none").results = NewObject("getState").results
          /\ NewObject("none").summary = NewObject("getState").summary
      BY DEF NewObject
    <3> QED
      BY <3>1, <3>2, <3>3
  <2>2. CASE x.phase # "none"
    BY <2>2 DEF GetOrCreate
  <2> QED
    BY <2>1, <2>2
<1> QED
  BY <1>1, <1>2 DEF CreatedOf

LEMMA CreatedKept ==
    ASSUME PanicInv, msgs \subseteq msgs', NEW p \in Pulses, NEW c, CreatedOf(c, object[p])
    PROVE  SameRecord(c, object[p]) /\ SameHand(p, c, object[p])
<1>1. clock[p] = p => PhaseOK(object[p], msgs)
  BY DEF PanicInv, HandInv, PhaseInv
<1>2. PhaseOK(object[p], msgs) => PhaseOK(c, msgs')
  BY DEF PhaseOK, CreatedOf
<1>3. SameRecord(c, object[p]) /\ Quota(c, object[p])
  BY DEF CreatedOf, SameRecord, Quota, Left
<1> QED
  BY <1>1, <1>2, <1>3 DEF CreatedOf, SameHand

(* stepGetObject of a method *)
LEMMA GetObjectPanic ==
    ASSUME ExecutorInv, OrderInv, PanicInv, RepeatedSoon, NEW t \in Tasks, StepGetObject(t)
    PROVE  PanicInv'
<1> DEFINE p == SlotOf[t]
           o == GetOrCreate(p)
           tk == Goto(t, "waitObjectReady")
<1>1. TypeOK /\ task[t] \in TaskType /\ p \in Pulses /\ p \in Nat /\ Call[t] \notin Constructors
  BY TypeFacts, PulseFacts DEF ExecutorInv, RepeatedSoon
<1>2. CreatedOf(o, object[p])
  BY <1>1, CreatedRecord
<1>3. object' = [object EXCEPT ![p] = o]
  BY <1>1 DEF StepGetObject
<1>4. /\ clock' = clock /\ msgs' = msgs /\ task' = [task EXCEPT ![t] = tk] /\ panics' = panics
      /\ task[t].pc = "idle"
  BY DEF StepGetObject, Step, At
<1>5. /\ tk.active = task[t].active /\ tk.pc = "waitObjectReady" /\ tk.resume = task[t].resume
      /\ tk.negotiated = task[t].negotiated
  BY <1>1 DEF Goto, TaskType
<1> HIDE DEF tk, o
<1>6. Steady(t, tk)
  BY <1>4, <1>5, MoveSteady DEF OwnSteps, PanicInv
<1>7. SameRecord(o, object[p]) /\ SameHand(p, o, object[p])
  BY <1>1, <1>2, <1>4, CreatedKept
<1> QED
  BY <1>1, <1>3, <1>4, <1>6, <1>7, PanicTask

(* The creation of an object by a handler *)
LEMMA CreateForDelegatedPanic ==
    ASSUME ExecutorInv, OrderInv, PanicInv, NEW m \in msgs, CreateForDelegated(m)
    PROVE  PanicInv'
<1> DEFINE p == m.to
           o == GetOrCreate(p)
<1>1. TypeOK /\ p \in Pulses
  BY DEF ExecutorInv, TypeOK, MessageType
<1>2. /\ clock' = clock /\ msgs' = msgs /\ task' = task /\ panics' = panics
      /\ object' = [object EXCEPT ![p] = o]
  BY DEF CreateForDelegated
<1>3. CreatedOf(o, object[p])
  BY <1>1, CreatedRecord
<1> HIDE DEF o
<1>4. SameRecord(o, object[p]) /\ SameHand(p, o, object[p])
  BY <1>1, <1>2, <1>3, CreatedKept
<1> QED
  BY <1>1, <1>2, <1>4, PanicObject

(* Any plain report has a place for no calls. *)
LEMMA PlainCounts ==
    ASSUME NEW report \in VStateReport, NEW p, ReportPlain(report, p)
    PROVE  /\ report.OrderedPendingCount \in 0 .. 126
           /\ report.UnorderedPendingCount \in 0 .. 126
<1>1. report.OrderedPendingCount \in Int /\ report.UnorderedPendingCount \in Int
  BY DEF VStateReport
<1>2. CASE report.Status = "Ready"
  BY <1>1, <1>2 DEF ReportPlain, Validate, ValidPendings, MaxPendingCount
<1>3. CASE report.Status = "Missing"
  BY <1>1, <1>3 DEF ReportPlain, Validate, ValidMissingOrInactive
<1> QED
  BY <1>2, <1>3 DEF ReportPlain

LEMMA DueNone ==
    ASSUME NEW report \in VStateReport, NEW p, ReportPlain(report, p),
           \A f \in Flags : Due(f) = {}
    PROVE  DueIn(report)
<1>1. report.OrderedPendingCount \in Nat /\ report.UnorderedPendingCount \in Nat
  BY PlainCounts
<1>2. Due(Tolerable) = {} /\ Due(Intolerable) = {}
  BY CallFacts
<1>3. Cardinality({}) = 0
  BY FS_EmptySet
<1> QED
  BY <1>1, <1>2, <1>3 DEF DueIn, ReportCovers, Covers

(* A report that is sent to the present executor *)
LEMMA NewsOfReport ==
    ASSUME NEW q \in Pulses, NEW report, DueIn(report)
    PROVE  NewsKept(StateReportTo(q, report))
<1> DEFINE m == StateReportTo(q, report)
<1>1. m.to = q /\ m.type = "VStateReport" /\ m.report = report
  BY DEF StateReportTo
<1> HIDE DEF m
<1> QED
  BY <1>1 DEF NewsKept, m

(* The report that the executor before pulse p answers with, if it has one *)
LEMMA AnswerDue ==
    ASSUME ExecutorInv, PlainInv, PanicInv, NEW p \in Pulses, clock[p] = p + 1
    PROVE  DueIn(IF Left(object[p]) THEN object[p].report ELSE MissingReport)
<1> DEFINE report == IF Left(object[p]) THEN object[p].report ELSE MissingReport
<1>1. \/ \A f \in Flags : Due(f) = {}
      \/ Left(object[p]) /\ DueIn(object[p].report)
  BY DEF PanicInv, HandInv, CountInv
<1>2. report \in VStateReport /\ ReportPlain(report, p + 1)
  <2>1. object[p] \in ObjectType
    BY TypeFacts DEF ExecutorInv
  <2>2. CASE Left(object[p])
    BY <2>1, <2>2 DEF ObjectType, PlainInv
  <2>3. CASE ~ Left(object[p])
    <3>1. MissingReport \in VStateReport
      BY DEF VStateReport, MissingReport, StateStatus, Descriptor, NoDescriptor
    <3>2. ReportPlain(MissingReport, p + 1)
      BY DEF ReportPlain, MissingReport, Validate, ValidMissingOrInactive, NoContent, NoDescriptor
    <3> QED
      BY <2>3, <3>1, <3>2
  <2> QED
    BY <2>2, <2>3
<1>3. CASE \A f \in Flags : Due(f) = {}
  BY <1>2, <1>3, DueNone
<1>4. CASE Left(object[p]) /\ DueIn(object[p].report)
  BY <1>4
<1> QED
  BY <1>1, <1>3, <1>4

(* The steps of SMObject: it asks before it waits, and every report that   *)
(* goes to the present executor counts what is due.                        *)
LEMMA ObjectStepsPanic ==
    ASSUME ExecutorInv, OrderInv, PlainInv, PanicInv, NEW p \in Pulses, ObjectStep(p)
    PROVE  PanicInv'
<1> DEFINE x == object[p]
<1>1. TypeOK /\ x \in ObjectType /\ ObjectOK(x, p, clock[p]) /\ p \in Nat /\ clock[p] \in Nat
  BY TypeFacts DEF ExecutorInv, LocalInv, ObjectInv
<1>2. clock' = clock /\ task' = task /\ panics' = panics
  BY DEF ObjectStep, StepGetState, StepWaitState, StepPublishCallSummary, StepSendVStateReport,
         AnswerStateRequest
<1>3. CASE StepGetState(p) \/ StepWaitState(p)
  <2>0. msgs' = msgs /\ clock[p] = p /\ x.phase \in {"getState", "waitState"}
    BY <1>3 DEF StepGetState, StepWaitState, Present
  <2>1. PICK o : /\ object' = [object EXCEPT ![p] = o]
                 /\ \/ o = GotState(x) /\ x.state # "Unknown"
                    \/ o = [x EXCEPT !.phase = "waitState", !.asked = TRUE]
                    \/ /\ o = [x EXCEPT !.phase = "asleep"]
                       /\ x.phase = "waitState" /\ x.state = "Unknown"
    BY <1>1, <1>3 DEF StepGetState, StepWaitState, TypeOK
  <2>2. PhaseOK(x, msgs)
    BY <2>0 DEF PanicInv, HandInv, PhaseInv
  <2>3. /\ o.known = x.known /\ o.state = x.state /\ o.prevPending = x.prevPending
        /\ o.results = x.results /\ o.summary = x.summary /\ o.pending = x.pending
        /\ o.oldestPending = x.oldestPending /\ o.report = x.report
        /\ \/ o.phase = "working" /\ o.ReadyToWork
           \/ o.phase = "waitState" /\ o.asked
           \/ /\ o.phase = "asleep" /\ x.phase = "waitState" /\ o.asked = x.asked
              /\ x.state = "Unknown"
    <3>1. CASE o = GotState(x) /\ x.state # "Unknown"
      BY <1>1, <3>1 DEF GotState, OpenPaths, ObjectType
    <3>2. CASE o = [x EXCEPT !.phase = "waitState", !.asked = TRUE]
      BY <1>1, <3>2 DEF ObjectType
    <3>3. CASE /\ o = [x EXCEPT !.phase = "asleep"]
               /\ x.phase = "waitState" /\ x.state = "Unknown"
      BY <1>1, <3>3 DEF ObjectType
    <3> QED
      BY <2>1, <3>1, <3>2, <3>3
  <2>4. SameRecord(o, x)
    BY <2>3 DEF SameRecord, Left
  <2>5. PhaseOK(o, msgs')
    BY <2>0, <2>2, <2>3 DEF PhaseOK
  <2>6. SameHand(p, o, x)
    BY <2>0, <2>3, <2>5 DEF SameHand, Quota, Left
  <2> QED
    BY <1>1, <1>2, <2>0, <2>1, <2>4, <2>6, PanicObject
<1>4. CASE StepPublishCallSummary(p)
  <2> DEFINE o == [x EXCEPT !.phase = "finalize", !.summary = x.results]
  <2>1. object' = [object EXCEPT ![p] = o] /\ msgs' = msgs /\ x.phase = "publish"
    BY <1>1, <1>4 DEF StepPublishCallSummary
  <2>2. /\ o.known = x.known /\ o.state = x.state /\ o.prevPending = x.prevPending
        /\ o.results = x.results /\ o.summary = x.results /\ o.pending = x.pending
        /\ o.oldestPending = x.oldestPending /\ o.report = x.report /\ o.phase = "finalize"
    BY <1>1 DEF ObjectType
  <2> HIDE DEF o
  <2>3. clock[p] = p + 1 /\ clock[p] # p
    BY <1>1, <2>1 DEF ObjectOK
  <2>4. SameHand(p, o, x)
    BY <2>2, <2>3 DEF SameHand, Quota, Left
  <2>5. object'[p] = o /\ \A q \in Pulses : q # p => object'[q] = object[q]
    BY <1>1, <2>1 DEF TypeOK
  <2>6. HandInv'
    BY <1>1, <1>2, <2>1, <2>4, <2>5, HandKept DEF PanicInv
  <2>7. OwnInv'
    <3> SUFFICES ASSUME NEW u \in Tasks
                 PROVE  /\ Begun(task'[u], object'[SlotOf[u]], Call[u])
                        /\ Open(u, task'[u], object'[SlotOf[u]])
                        /\ Agreed(u, task'[u])
      BY <1>2, OwnStep DEF PanicInv
    <3>1. /\ Begun(task[u], object[SlotOf[u]], Call[u]) /\ Open(u, task[u], object[SlotOf[u]])
          /\ Agreed(u, task[u]) /\ SlotOf[u] \in Pulses /\ task'[u] = task[u]
      BY <1>2, PulseFacts DEF PanicInv, OwnInv
    <3>2. CASE SlotOf[u] # p
      BY <2>5, <3>1, <3>2
    <3>3. CASE SlotOf[u] = p
      BY <2>1, <2>2, <2>5, <3>1, <3>3 DEF Begun, Open
    <3> QED
      BY <3>2, <3>3
  <2> QED
    BY <1>2, <2>6, <2>7 DEF PanicInv, NoPanic
<1>5. CASE StepSendVStateReport(p)
  <2> DEFINE o == [x EXCEPT !.phase = "sent"]
             m == StateReportTo(clock[p], x.report)
  <2>1. /\ object' = [object EXCEPT ![p] = o] /\ x.phase = "finalize" /\ msgs \subseteq msgs'
        /\ \A n \in msgs' : n \in msgs \/ n = m
    BY <1>1, <1>5 DEF StepSendVStateReport, Posted
  <2>2. /\ o.known = x.known /\ o.state = x.state /\ o.prevPending = x.prevPending
        /\ o.results = x.results /\ o.summary = x.summary /\ o.pending = x.pending
        /\ o.oldestPending = x.oldestPending /\ o.report = x.report /\ o.phase = "sent"
    BY <1>1 DEF ObjectType
  <2> HIDE DEF o
  <2>3. clock[p] = p + 1 /\ clock[p] # p /\ clock[p] \in Pulses
    BY <1>1, <2>1, TypeFacts DEF ObjectOK
  <2>4. SameRecord(o, x) /\ SameHand(p, o, x)
    BY <2>1, <2>2, <2>3 DEF SameRecord, SameHand, Quota, Left
  <2>5. Left(x)
    BY <2>1 DEF Left
  <2>6. NewsKept(m)
    BY <2>3, <2>5, AnswerDue, NewsOfReport
  <2> HIDE DEF m
  <2> QED
    BY <1>1, <1>2, <2>1, <2>4, <2>6, PanicObject
<1>6. CASE AnswerStateRequest(p)
  <2> DEFINE o == [x EXCEPT !.asked = FALSE]
             report == IF Left(object[p - 1]) THEN object[p - 1].report ELSE MissingReport
             m == StateReportTo(p, report)
  <2>1. p - 1 \in Pulses /\ p = (p - 1) + 1 /\ clock[p - 1] = p
    BY <1>1, <1>6 DEF AnswerStateRequest, ObjectOK
  <2>2. clock[p] = p
    BY <2>1 DEF OrderInv, TogetherInv
  <2>3. HasReport(p - 1) <=> Left(object[p - 1])
    BY <2>1 DEF HasReport, Left
  <2>4. m.to = p /\ m.type = "VStateReport"
    BY DEF StateReportTo
  <2>5. /\ object' = [object EXCEPT ![p] = o] /\ msgs' = msgs \cup Posted({m})
    BY <1>1, <1>6, <2>3 DEF AnswerStateRequest
  <2>6. m \in Posted({m}) /\ \A n \in Posted({m}) : n = m
    BY <1>1, <2>2, <2>4 DEF Posted
  <2>7. DueIn(report)
    BY <2>1, AnswerDue
  <2>8. NewsKept(m)
    <3> HIDE DEF report
    <3> QED
      BY <2>7, NewsOfReport
  <2>9. /\ o.known = x.known /\ o.state = x.state /\ o.prevPending = x.prevPending
        /\ o.results = x.results /\ o.summary = x.summary /\ o.pending = x.pending
        /\ o.oldestPending = x.oldestPending /\ o.report = x.report /\ o.phase = x.phase
        /\ o.ReadyToWork = x.ReadyToWork
    BY <1>1 DEF ObjectType
  <2> HIDE DEF o, m
  <2>10. SameRecord(o, x) /\ SameHand(p, o, x)
    <3>1. PhaseOK(x, msgs)
      BY <2>2 DEF PanicInv, HandInv, PhaseInv
    <3>2. PhaseOK(o, msgs')
      BY <2>4, <2>5, <2>6, <2>9, <3>1 DEF PhaseOK
    <3> QED
      BY <2>9, <3>2 DEF SameRecord, SameHand, Quota, Left
  <2> QED
    BY <1>1, <1>2, <2>5, <2>6, <2>8, <2>10, PanicObject
<1> QED
  BY <1>3, <1>4, <1>5, <1>6 DEF ObjectStep

(* A call that asks for the ordered queue is one of an ordered method. *)
FlagsAgree == \A r \in Requests : CallFlag[r] = Tolerable => MethodFlag[r] = Tolerable

LEMMA AgreedFlag ==
    ASSUME FlagsAgree, OwnInv, NEW t \in Tasks, task[t].negotiated
    PROVE  CallFlag[Call[t]] = FlagOf[Call[t]]
<1>1. Call[t] \in Requests /\ CallFlag[Call[t]] \in Flags /\ FlagOf[Call[t]] \in Flags
  BY CallFacts
<1>2. ~ NegotiationFails(Call[t])
  BY DEF OwnInv, Agreed
<1> QED
  BY <1>1, <1>2 DEF FlagsAgree, NegotiationFails, FlagOf, Flags

(* A delegated call that ends is in the table of the executor it tells. *)
LEMMA DelegatedEndsPanic ==
    ASSUME ExecutorInv, OrderInv, PanicInv, FlagsAgree, NEW t \in Tasks, Taken(t), Hot(t),
           NEW x, NEW pc \in Ended, NEW latest, clock' = clock, object' = object,
           panics' = panics, task' = [task EXCEPT ![t] = EndTask(x, pc)],
           msgs' = msgs \cup Posted({DelegatedRequestFinished(NodeOf(t), t, latest)})
    PROVE  PanicInv'
<1> DEFINE m == DelegatedRequestFinished(NodeOf(t), t, latest)
<1>1. /\ TypeOK /\ NodeOf(t) \in Pulses /\ OwnInv /\ HandInv
      /\ TaskOK(task[t], NodeOf(t), SlotOf[t])
  BY TypeFacts DEF ExecutorInv, PanicInv, LocalInv, TaskInv
<1>2. m.type = "VDelegatedRequestFinished" /\ m.task = t /\ m.to = NodeOf(t)
  BY DEF DelegatedRequestFinished
<1>3. msgs \subseteq msgs' /\ \A n \in msgs' : n \in msgs \/ n = m
  BY DEF Posted
<1> HIDE DEF m
<1>4. EndNoted(m, object[m.to])
  <2>1. object[NodeOf(t)].pending[FlagOf[Call[t]]].requests[Call[t]] = "Processing"
    BY <1>1 DEF HandInv, HotInv
  <2>2. task[t].negotiated
    BY <1>1 DEF Taken, TaskOK
  <2>3. CallFlag[Call[t]] = FlagOf[Call[t]]
    BY <1>1, <2>2, AgreedFlag
  <2> QED
    BY <1>2, <2>1, <2>3 DEF EndNoted, Entered
<1>5. NewsKept(m)
  BY <1>1, <1>2, <1>4 DEF NewsKept
<1>6. Steady(t, EndTask(x, pc))
  BY EndSteady DEF Hot, CanAct
<1>7. task'[t] = EndTask(x, pc) /\ \A u \in Tasks : u # t => task'[u] = task[u]
  BY <1>1 DEF TypeOK
<1>8. OwnInv'
  BY <1>1, <1>6, <1>7, OwnKept DEF Steady
<1>9. HandInv'
  BY <1>1, <1>3, <1>5, <1>6, <1>7, HandKept DEF Steady
<1> QED
  BY <1>8, <1>9 DEF PanicInv, NoPanic

(* stepSendDelegatedRequestFinished, stepGetDelegationToken *)
LEMMA DelegatedPanic ==
    ASSUME ExecutorInv, OrderInv, PanicInv, FlagsAgree, NEW t \in Tasks,
           StepSendDelegatedRequestFinished(t) \/ StepDelegationToken(t)
    PROVE  PanicInv'
<1>1. /\ task[t] \in TaskType /\ TaskOK(task[t], NodeOf(t), SlotOf[t]) /\ TypeOK
      /\ task[t].sent \in Nat /\ NodeOf(t) \in Nat /\ SlotOf[t] \in Nat
  BY TypeFacts DEF ExecutorInv, LocalInv, TaskInv, TaskType
<1>2. /\ clock' = clock /\ object' = object /\ panics' = panics
      /\ task[t].pc \in {"sendFinished", "getToken"}
      /\ task[t].pc = "getToken" => task[t].granted # UnknownPulse
  BY DEF StepSendDelegatedRequestFinished, StepDelegationToken, Step, At
<1>3. task[t].active /\ task[t].migrated
  BY <1>1, <1>2 DEF TaskOK, Ended
<1>4. Taken(t) /\ Hot(t)
  BY <1>1, <1>2, <1>3 DEF Taken, Hot, CanAct, TaskOK
<1>5. CASE StepSendDelegatedRequestFinished(t)
  <2>1. /\ task' = [task EXCEPT ![t] = EndTask(task[t], "done")] /\ "done" \in Ended
        /\ msgs' = msgs \cup Posted({DelegatedRequestFinished(NodeOf(t), t, task[t].new)})
    BY <1>5 DEF StepSendDelegatedRequestFinished, Step, NodeOf, Ended
  <2> QED
    BY <1>2, <1>4, <2>1, DelegatedEndsPanic
<1>6. CASE StepDelegationToken(t)
  <2> DEFINE tk == [task[t] EXCEPT !.pc = task[t].resume, !.resume = "idle",
                                   !.granted = UnknownPulse]
             again == [tk EXCEPT !.sent = task[t].sent + 1]
  <2>0. task[t].pc = "getToken" /\ task[t].resume \in ActingSteps
    BY <1>1, <1>6 DEF StepDelegationToken, Step, At, TaskOK
  <2>1. /\ tk.active = task[t].active /\ tk.sent = task[t].sent /\ tk \in TaskType
        /\ tk.pc = task[t].resume /\ tk.negotiated = task[t].negotiated
    <3>1. task[t].resume \in TaskStep
      BY <1>1 DEF TaskType
    <3> QED
      BY <1>1, <3>1 DEF TaskType, TaskStep
  <2> HIDE DEF tk
  <2>2. /\ again.active = tk.active /\ again.pc = tk.pc /\ again.negotiated = tk.negotiated
    BY <2>1 DEF TaskType
  <2> HIDE DEF again
  <2>3. ASSUME NEW new \in {tk, again}, msgs' = msgs, task' = [task EXCEPT ![t] = new]
        PROVE  PanicInv'
    <3>1. /\ new.active /\ new.pc = task[t].resume /\ new.negotiated = task[t].negotiated
      BY <1>3, <2>1, <2>2
    <3>2. new.pc \notin OwnSteps \cup {"getToken"}
      BY <2>0, <3>1 DEF ActingSteps, OwnSteps
    <3>3. Agreed(t, new)
      BY <3>1 DEF PanicInv, OwnInv, Agreed
    <3>4. Steady(t, new)
      BY <1>3, <1>4, <2>0, <3>1, <3>2, <3>3 DEF Steady, HoldsOn, Calm, Unpublished, CanAct
    <3> QED
      BY <1>1, <1>2, <2>3, <3>4, PanicTask
  <2>4. CASE task[t].sent >= MaxOutgoingSendCount
    <3>1. task[t].sent # 0
      BY <1>1, <2>4, RequestKindsAssumption
    <3>2. /\ task' = [task EXCEPT ![t] = EndTask(tk, "dead")] /\ "dead" \in Ended
          /\ msgs' = msgs \cup Posted({DelegatedRequestFinished(NodeOf(t), t, NoDescriptor)})
      BY <1>6, <2>1, <2>4, <3>1 DEF StepDelegationToken, Step, NodeOf, Ended, tk
    <3> QED
      BY <1>2, <1>4, <3>2, DelegatedEndsPanic
  <2>5. CASE ~ (task[t].sent >= MaxOutgoingSendCount)
    <3>1. msgs' = msgs
      BY <1>6, <2>1, <2>5 DEF StepDelegationToken, tk
    <3>2. task' = [task EXCEPT ![t] = tk] \/ task' = [task EXCEPT ![t] = again]
      BY <1>6, <2>1, <2>5 DEF StepDelegationToken, Step, tk, again
    <3> QED
      BY <2>3, <3>1, <3>2
  <2> QED
    BY <2>4, <2>5
<1> QED
  BY <1>5, <1>6

(* The present executor p takes a message m.  No other executor waits for  *)
(* messages.                                                               *)
LEMMA TakeMessage ==
    ASSUME TypeOK, OrderInv, HandInv, clock' = clock, NEW p \in Pulses, clock[p] = p, NEW o,
           object' = [object EXCEPT ![p] = o], PhaseOK(o, msgs')
    PROVE  PhaseInv'
<1>1. \A q \in Pulses : clock[q] = q => q = p
  BY DEF OrderInv, TogetherInv
<1>2. object'[p] = o
  BY DEF TypeOK
<1> QED
  BY <1>1, <1>2 DEF PhaseInv, PhaseOK

(* SMVStateReport: the report is accepted, and what it says of the pending *)
(* calls has a place for those that are due.                               *)
LEMMA ReceiveStateReportPanic ==
    ASSUME ExecutorInv, OrderInv, PlainInv, PanicInv, NEW m \in msgs, ReceiveStateReport(m)
    PROVE  PanicInv'
<1> DEFINE p == m.to
           x == object[p]
           c == GetOrCreate(p)
           o == IF c.state = "Unknown" THEN ApplyReport(c, m.report) ELSE c
<1>1. /\ TypeOK /\ p \in Pulses /\ x \in ObjectType /\ p \in Nat /\ OwnInv /\ HandInv /\ CountInv
      /\ m.type = "VStateReport" /\ m.report \in VStateReport /\ clock[p] = p
  BY TypeFacts
     DEF ExecutorInv, TypeOK, MessageType, ReceiveStateReport, PanicInv, HandInv, Present
<1>2. ReportPlain(m.report, p)
  BY <1>1 DEF PlainInv, MessagePlain
<1>3. /\ clock' = clock /\ task' = task /\ panics' = panics /\ msgs' = msgs \ {m}
      /\ object' = [object EXCEPT ![p] = o]
  BY <1>2 DEF ReceiveStateReport, ReportPlain
<1>4. c \in ObjectType /\ CreatedOf(c, x)
  BY <1>1, CreatedRecord
<1>5. PhaseOK(x, msgs)
  BY <1>1 DEF HandInv, PhaseInv
<1> HIDE DEF c
<1>6. /\ o.known = x.known /\ o.results = x.results /\ o.summary = x.summary
      /\ o.pending = x.pending /\ o.report = x.report /\ o.ReadyToWork = x.ReadyToWork
      /\ o.state # "Unknown" /\ o.phase \in {"none", "getState", "waitState", "working"}
      /\ o.phase = "working" => x.phase = "working"
  <2>1. CASE c.state = "Unknown"
    <3>1. /\ o.known = c.known /\ o.results = c.results /\ o.summary = c.summary
          /\ o.pending = c.pending /\ o.report = c.report /\ o.ReadyToWork = c.ReadyToWork
          /\ o.state = StateOfStatus(m.report.Status)
          /\ o.phase = IF c.phase = "asleep" THEN "waitState" ELSE c.phase
      BY <1>4, <2>1 DEF ApplyReport, ObjectType
    <3>2. StateOfStatus(m.report.Status) # "Unknown"
      BY <1>2 DEF ReportPlain, StateOfStatus
    <3> HIDE DEF o
    <3> QED
      BY <1>4, <1>5, <3>1, <3>2 DEF CreatedOf, PhaseOK
  <2>2. CASE c.state # "Unknown"
    <3>1. x.state # "Unknown" /\ o = c
      BY <1>4, <2>2 DEF CreatedOf
    <3> HIDE DEF o
    <3> QED
      BY <1>4, <1>5, <3>1 DEF CreatedOf, PhaseOK
  <2> QED
    BY <2>1, <2>2
<1>7. \/ ObjectCovers(o)
      \/ /\ x.state # "Unknown" /\ o.prevPending = x.prevPending
         /\ o.oldestPending = x.oldestPending
  <2>1. CASE c.state = "Unknown"
    <3>1. /\ o.prevPending = [f \in Flags |->
                    (IF f = Tolerable THEN m.report.OrderedPendingCount
                                      ELSE m.report.UnorderedPendingCount) % 256]
          /\ o.oldestPending = [f \in Flags |->
                    IF f = Tolerable THEN m.report.OrderedPendingEarliestPulse
                                     ELSE m.report.UnorderedPendingEarliestPulse]
      BY <1>4, <2>1 DEF ApplyReport, ObjectType
    <3>2. /\ m.report.OrderedPendingCount \in 0 .. 126
          /\ m.report.UnorderedPendingCount \in 0 .. 126
      BY <1>1, <1>2, PlainCounts
    <3>3. /\ m.report.OrderedPendingCount % 256 = m.report.OrderedPendingCount
          /\ m.report.UnorderedPendingCount % 256 = m.report.UnorderedPendingCount
      BY <3>2
    <3> HIDE DEF o
    <3>4. /\ o.prevPending[Tolerable] = m.report.OrderedPendingCount
          /\ o.prevPending[Intolerable] = m.report.UnorderedPendingCount
          /\ o.oldestPending[Tolerable] = m.report.OrderedPendingEarliestPulse
          /\ o.oldestPending[Intolerable] = m.report.UnorderedPendingEarliestPulse
      BY <3>1, <3>3 DEF Flags, Tolerable, Intolerable
    <3>5. DueIn(m.report)
      BY <1>1 DEF CountInv
    <3> QED
      BY <3>4, <3>5 DEF ObjectCovers, DueIn, ReportCovers, Flags
  <2>2. CASE c.state # "Unknown"
    BY <1>4, <2>2 DEF CreatedOf
  <2> QED
    BY <2>1, <2>2
<1> HIDE DEF o
<1>8. object'[p] = o /\ \A q \in Pulses : q # p => object'[q] = object[q]
  BY <1>1, <1>3 DEF TypeOK
<1>9. OwnInv'
  <2>1. SameRecord(o, x)
    BY <1>6 DEF SameRecord, Left
  <2>2. \A q \in Pulses : object'[q] = object[q] \/ SameRecord(object'[q], object[q])
    BY <1>8, <2>1
  <2> QED
    BY <1>1, <1>3, <2>2, OwnKept
<1>10. CountInv'
  <2>1. \A q \in Pulses : object'[q] = object[q] \/ Quota(object'[q], object[q])
    <3>1. ~ Left(x)
      BY <1>5 DEF PhaseOK, Left
    <3>2. Quota(o, x)
      BY <1>7, <3>1 DEF Quota
    <3> QED
      BY <1>8, <3>2
  <2>2. \A f \in Flags : Due(f)' \subseteq Due(f)
    BY <1>3, <1>6, <1>8 DEF Due, DueCall, Taken, NodeOf, Entered
  <2> QED
    BY <1>1, <1>3, <2>1, <2>2, CountStep
<1>11. \A q \in Pulses : object'[q].pending = object[q].pending
  BY <1>6, <1>8
<1>12. HotInv'
  <2> SUFFICES ASSUME NEW u \in Tasks, Taken(u)', Hot(u)'
               PROVE  object'[NodeOf(u)].pending[FlagOf[Call[u]]].requests[Call[u]] = "Processing"
    BY <1>3 DEF HotInv, NodeOf
  <2>1. Taken(u) /\ Hot(u) /\ NodeOf(u) \in Pulses
    BY <1>1, <1>3, TypeFacts DEF Taken, Hot, NodeOf
  <2> QED
    BY <1>1, <1>11, <2>1 DEF HandInv, HotInv
<1>13. TokenInv'
  <2>1. \A u \in Tasks : Taken(u)' /\ ~ Hot(u)' => Requested(u)'
    <3> SUFFICES ASSUME NEW u \in Tasks, Taken(u)', ~ Hot(u)' PROVE Requested(u)'
      OBVIOUS
    <3>1. Requested(u)
      BY <1>1, <1>3 DEF HandInv, TokenInv, Taken, Hot, NodeOf
    <3>2. DelegatedCallRequest(NodeOf(u), u) # m
      BY <1>1 DEF DelegatedCallRequest
    <3> QED
      BY <1>3, <3>1, <3>2 DEF Requested, NodeOf
  <2>2. \A n \in msgs' : n.type = "VDelegatedCallRequest" => Taken(n.task)' /\ ~ Hot(n.task)'
    BY <1>1, <1>3 DEF HandInv, TokenInv, Taken, Hot, NodeOf
  <2>3. \A n \in msgs' : n.type = "VDelegatedRequestFinished" => EndNoted(n, object'[n.to])
    <3> SUFFICES ASSUME NEW n \in msgs', n.type = "VDelegatedRequestFinished"
                 PROVE  EndNoted(n, object'[n.to])
      OBVIOUS
    <3>1. EndNoted(n, object[n.to]) /\ n.to \in Pulses
      BY <1>1, <1>3 DEF HandInv, TokenInv, TypeOK, MessageType
    <3> QED
      BY <1>11, <3>1 DEF EndNoted
  <2> QED
    BY <2>1, <2>2, <2>3 DEF TokenInv, EndNoted, Entered
<1>14. PhaseInv'
  <2>1. PhaseOK(o, msgs')
    BY <1>5, <1>6 DEF PhaseOK
  <2> QED
    BY <1>1, <1>3, <2>1, TakeMessage
<1> QED
  BY <1>3, <1>9, <1>10, <1>12, <1>13, <1>14 DEF PanicInv, HandInv, NoPanic

(* SMVDelegatedCallRequest: the request is never refused.  The executor    *)
(* knows of the calls that are due, of which this is one, and its table    *)
(* has a place for it.                                                     *)
LEMMA CallRequestAccepted ==
    ASSUME ExecutorInv, OrderInv, PanicInv, NEW q \in Pulses, clock[q] = q, object[q].ReadyToWork,
           NEW t \in Tasks, Taken(t)
    PROVE  LET r == Call[t]
               f == FlagOf[r]
               o == object[q]
           IN  /\ o.oldestPending[f] # UnknownPulse /\ ~ (PulseOf[r] < o.oldestPending[f])
               /\ Count(o.pending[f]) = o.prevPending[f] => Exist(o.pending[f], r)
<1> DEFINE r == Call[t]
           f == FlagOf[r]
           o == object[q]
           entered == {s \in Requests : o.pending[f].requests[s] # "Unknown"}
<1>1. /\ TypeOK /\ o \in ObjectType /\ r \in Requests /\ f \in Flags /\ ObjectOK(o, q, clock[q])
      /\ CountInv /\ PulseOf[r] \in Nat
  BY TypeFacts, CallFacts, PulsesAssumption
     DEF ExecutorInv, LocalInv, ObjectInv, PanicInv, HandInv
<1>2. Covers(o.prevPending[f], o.oldestPending[f], Due(f))
  <2>1. o.state # "Unknown"
    BY <1>1 DEF ObjectOK
  <2> QED
    BY <1>1, <2>1 DEF CountInv, ObjectCovers
<1>3. r \in Due(f)
  BY <1>1 DEF Due, DueCall
<1>4. entered \subseteq Due(f)
  BY <1>1 DEF ObjectOK, Due, DueCall, Entered
<1>5. o.oldestPending[f] # UnknownPulse /\ ~ (PulseOf[r] < o.oldestPending[f])
  <2>1. o.oldestPending[f] # UnknownPulse /\ o.oldestPending[f] <= PulseOf[r]
    BY <1>2, <1>3 DEF Covers
  <2>2. o.oldestPending[f] \in Nat
    BY <1>1, <2>1, PulseFacts DEF ObjectType
  <2> QED
    BY <1>1, <2>1, <2>2
<1>6. ASSUME Count(o.pending[f]) = o.prevPending[f], ~ Exist(o.pending[f], r) PROVE FALSE
  <2>1. r \notin entered
    BY <1>6 DEF Exist
  <2>2. Due(f) \subseteq Requests
    BY DEF Due
  <2> HIDE DEF entered
  <2>3. IsFiniteSet(Due(f)) /\ IsFiniteSet(entered)
    BY <1>4, <2>2, RequestsAssumption, FS_Subset
  <2>4. /\ IsFiniteSet(entered \cup {r})
        /\ Cardinality(entered \cup {r}) = Cardinality(entered) + 1
    BY <2>1, <2>3, FS_AddElement
  <2>5. entered \cup {r} \subseteq Due(f)
    BY <1>3, <1>4
  <2>6. Cardinality(entered \cup {r}) <= Cardinality(Due(f))
    BY <2>3, <2>5, FS_Subset
  <2>7. Cardinality(entered) \in Nat /\ Cardinality(Due(f)) \in Nat
    BY <2>3, FS_CardinalityType
  <2>8. Cardinality(entered) = o.prevPending[f]
    BY <1>6 DEF Count, entered
  <2>9. Cardinality(Due(f)) <= o.prevPending[f]
    BY <1>2 DEF Covers
  <2> QED
    BY <2>4, <2>6, <2>7, <2>8, <2>9
<1> QED
  BY <1>5, <1>6

LEMMA DelegatedCallRequestPanic ==
    ASSUME ExecutorInv, OnceInv, UseInv, OrderInv, PanicInv, RepeatedSoon,
           NEW m \in msgs, ReceiveDelegatedCallRequest(m)
    PROVE  PanicInv'
<1> DEFINE q == m.to
           t == m.task
           r == Call[t]
           f == FlagOf[r]
           x == object[q]
           list == PendingAdd(x.pending[f], r)
           o == [x EXCEPT !.pending[f] = list]
           tk == [task[t] EXCEPT !.granted = q]
<1>1. /\ TypeOK /\ q \in Pulses /\ t \in Tasks /\ q \in Nat /\ m.type = "VDelegatedCallRequest"
      /\ clock[q] = q /\ x.ReadyToWork
  BY PulseFacts DEF ExecutorInv, TypeOK, MessageType, ReceiveDelegatedCallRequest, Present
<1>2. /\ x \in ObjectType /\ task[t] \in TaskType /\ r \in Requests /\ f \in Flags
      /\ TaskOK(task[t], NodeOf(t), SlotOf[t]) /\ OwnInv /\ HandInv /\ TableOK(x, q)
      /\ q \in Nat \ {0}
  BY <1>1, TypeFacts, CallFacts, PulseFacts
     DEF ExecutorInv, LocalInv, TaskInv, PanicInv, UseInv, StaticInv, TablesInv
<1>3. Taken(t) /\ ~ Hot(t)
  BY <1>1, <1>2 DEF HandInv, TokenInv
<1>4. task[t].active /\ task[t].pc = "getToken" /\ NodeOf(t) = q
  <2>1. task[t].active /\ task[t].pc = "getToken"
    BY <1>3 DEF Taken, Hot, CanAct
  <2>2. SlotOf[t] \in Pulses
    BY <1>1, PulseFacts
  <2>3. NodeOf(t) = q
    BY <2>2 DEF OrderInv, TogetherInv, NodeOf
  <2> QED
    BY <2>1, <2>3
<1>5. /\ x.oldestPending[f] # UnknownPulse /\ ~ (PulseOf[r] < x.oldestPending[f])
      /\ Count(x.pending[f]) = x.prevPending[f] => Exist(x.pending[f], r)
  BY <1>1, <1>3, CallRequestAccepted
<1>6. /\ clock' = clock /\ panics' = panics /\ msgs' = msgs \ {m}
      /\ object' = [object EXCEPT ![q] = RegisterPending(x, r)]
      /\ task' = [task EXCEPT ![t] = tk]
  BY <1>1, <1>2, <1>4, <1>5 DEF ReceiveDelegatedCallRequest, TypeOK, At, NodeOf
<1>7. RegisterPending(x, r) = o
  BY <1>2 DEF RegisterPending, ObjectType
<1>8. /\ x.pending[f] \in ListType /\ x.pending[f].requests \in [Requests -> RequestState]
      /\ list.requests = IF Exist(x.pending[f], r) THEN x.pending[f].requests
                         ELSE [x.pending[f].requests EXCEPT ![r] = "Processing"]
  <2>1. x.pending[f] \in ListType
    BY <1>2 DEF ObjectType
  <2> QED
    BY <1>2, <2>1, MethodsSetState DEF ListType
<1> HIDE DEF list
<1>9. /\ o.known = x.known /\ o.results = x.results /\ o.summary = x.summary
      /\ o.phase = x.phase /\ o.state = x.state /\ o.report = x.report
      /\ o.prevPending = x.prevPending /\ o.oldestPending = x.oldestPending
      /\ o.ReadyToWork = x.ReadyToWork /\ o.asked = x.asked
      /\ o.pending = [x.pending EXCEPT ![f] = list] /\ x.pending \in [Flags -> ListType]
  BY <1>2 DEF ObjectType
<1>10. /\ tk.pc = task[t].pc /\ tk.resume = task[t].resume /\ tk.active = task[t].active
       /\ tk.negotiated = task[t].negotiated /\ tk.granted = q
  BY <1>2 DEF TaskType
<1> HIDE DEF o, tk
<1>11. o.pending[f] = list /\ \A g \in Flags : g # f => o.pending[g] = x.pending[g]
  BY <1>2, <1>9
<1>12. object'[q] = o /\ \A p \in Pulses : p # q => object'[p] = object[p]
  BY <1>1, <1>6, <1>7 DEF TypeOK
<1>13. task'[t] = tk /\ \A u \in Tasks : u # t => task'[u] = task[u]
  BY <1>1, <1>6 DEF TypeOK
<1>14. list.requests[r] = "Processing"
  <2>1. CASE ~ Exist(x.pending[f], r)
    BY <1>2, <1>8, <2>1
  <2>2. CASE Exist(x.pending[f], r)
    <3>1. x.pending[f].requests[r] # "Started" /\ x.pending[f].requests[r] # "Unknown"
      BY <1>2, <2>2 DEF TableOK, Exist, Entered
    <3>2. ASSUME x.pending[f].requests[r] = "Finished" PROVE FALSE
      <4>1. PICK u \in Tasks : Call[u] = r /\ EndedRun(u)
        BY <1>1, <1>2, <3>2 DEF UseInv, EndsInv, DoneInv
      <4>2. AtMostOnce
        BY SoonRunOnce, InvMethodsOnce
      <4>3. task[t].ran
        BY <1>1, <1>4 DEF UseInv, StaticInv, MachineInv
      <4>4. u = t
        BY <1>1, <4>1, <4>2, <4>3 DEF AtMostOnce, EndedRun
      <4> QED
        BY <1>4, <4>1, <4>4 DEF EndedRun, Ended
    <3>3. x.pending[f].requests[r] \in RequestState
      BY <1>2, <1>8
    <3> QED
      BY <1>8, <2>2, <3>1, <3>2, <3>3 DEF RequestState
  <2> QED
    BY <2>1, <2>2
<1>15. \A g \in Flags, s \in Requests :
          /\ Entered(o.pending[g], s) => Entered(x.pending[g], s) \/ (s = r /\ g = f)
          /\ Entered(x.pending[g], s) => Entered(o.pending[g], s)
          /\ x.pending[g].requests[s] = "Processing" => o.pending[g].requests[s] = "Processing"
  <2> SUFFICES ASSUME NEW g \in Flags, NEW s \in Requests
               PROVE  /\ Entered(o.pending[g], s) => Entered(x.pending[g], s) \/ (s = r /\ g = f)
                      /\ Entered(x.pending[g], s) => Entered(o.pending[g], s)
                      /\ x.pending[g].requests[s] = "Processing"
                            => o.pending[g].requests[s] = "Processing"
    OBVIOUS
  <2>1. CASE g # f
    BY <1>11, <2>1
  <2>2. CASE g = f /\ s = r
    BY <1>11, <1>14, <2>2 DEF Entered
  <2>3. CASE g = f /\ s # r
    <3>1. list.requests[s] = x.pending[f].requests[s]
      BY <1>2, <1>8, <2>3
    <3> QED
      BY <1>11, <2>3, <3>1 DEF Entered
  <2> QED
    BY <2>1, <2>2, <2>3
<1>16. \A u \in Tasks : /\ NodeOf(u)' = NodeOf(u) /\ (Taken(u)' <=> Taken(u))
                        /\ u # t => (Hot(u)' <=> Hot(u))
  BY <1>6, <1>10, <1>13 DEF NodeOf, Taken, Hot
<1>17. OwnInv'
  <2>1. SameRecord(o, x)
    BY <1>9 DEF SameRecord
  <2>2. Agreed(t, task[t])
    BY <1>1, <1>2 DEF OwnInv
  <2>3. HoldsOn(t, tk)
    BY <1>10, <2>2 DEF HoldsOn, Unpublished, Agreed
  <2> QED
    BY <1>1, <1>2, <1>6, <1>7, <1>12, <1>13, <2>1, <2>3, OwnKept
<1>18. CountInv'
  <2>1. Quota(o, x)
    BY <1>9 DEF Quota, Left
  <2>2. \A g \in Flags : Due(g)' \subseteq Due(g)
    <3> SUFFICES ASSUME NEW g \in Flags, NEW s \in Requests, FlagOf[s] = g, DueCall(s)'
                 PROVE  DueCall(s)
      BY DEF Due
    <3>1. CASE \E u \in Tasks : Taken(u)' /\ Call[u] = s
      BY <1>16, <3>1 DEF DueCall
    <3>2. CASE \E p \in Pulses : clock[p] = p /\ Entered(object'[p].pending[FlagOf[s]], s)
      <4>1. PICK p \in Pulses : clock[p] = p /\ Entered(object'[p].pending[FlagOf[s]], s)
        BY <3>2
      <4>2. CASE p # q
        BY <1>12, <4>1, <4>2 DEF DueCall
      <4>3. CASE p = q
        <5>1. Entered(x.pending[g], s) \/ s = r
          BY <1>12, <1>15, <4>1, <4>3
        <5>2. CASE s = r
          BY <1>1, <1>3, <5>2 DEF DueCall
        <5>3. CASE Entered(x.pending[g], s)
          BY <1>1, <5>3 DEF DueCall
        <5> QED
          BY <5>1, <5>2, <5>3
      <4> QED
        BY <4>2, <4>3
    <3> QED
      BY <1>6, <3>1, <3>2 DEF DueCall, Entered
  <2> QED
    BY <1>2, <1>6, <1>12, <2>1, <2>2, CountStep DEF HandInv
<1>19. HotInv'
  <2> SUFFICES ASSUME NEW u \in Tasks, Taken(u)', Hot(u)'
               PROVE  object'[NodeOf(u)].pending[FlagOf[Call[u]]].requests[Call[u]] = "Processing"
    BY <1>16 DEF HotInv
  <2>1. CASE u = t
    BY <1>4, <1>11, <1>12, <1>14, <2>1
  <2>2. CASE u # t
    <3>1. /\ object[NodeOf(u)].pending[FlagOf[Call[u]]].requests[Call[u]] = "Processing"
          /\ NodeOf(u) \in Pulses /\ Call[u] \in Requests /\ FlagOf[Call[u]] \in Flags
      BY <1>1, <1>2, <1>16, <2>2, TypeFacts, CallFacts DEF HandInv, HotInv
    <3> QED
      BY <1>12, <1>15, <3>1
  <2> QED
    BY <2>1, <2>2
<1>20. TokenInv'
  <2>1. \A u \in Tasks : Taken(u)' /\ ~ Hot(u)' => Requested(u)'
    <3> SUFFICES ASSUME NEW u \in Tasks, Taken(u)', ~ Hot(u)' PROVE Requested(u)'
      OBVIOUS
    <3>1. Hot(t)'
      <4>1. tk.granted # UnknownPulse /\ tk.active
        BY <1>2, <1>4, <1>10 DEF UnknownPulse
      <4> QED
        BY <1>13, <4>1 DEF Hot, CanAct
    <3>2. u # t
      BY <3>1
    <3>3. Requested(u)
      BY <1>2, <1>16, <3>2 DEF HandInv, TokenInv
    <3>4. DelegatedCallRequest(NodeOf(u), u).task = u
      BY DEF DelegatedCallRequest
    <3> QED
      BY <1>6, <1>16, <3>2, <3>3, <3>4 DEF Requested
  <2>2. ASSUME NEW n \in msgs', n.type = "VDelegatedCallRequest"
        PROVE  Taken(n.task)' /\ ~ Hot(n.task)'
    <3>1. n \in msgs /\ n # m /\ n.task \in Tasks
      BY <1>1, <1>6, <2>2 DEF TypeOK, MessageType
    <3>2. n.task # t
      <4>1. n.to = q
        <5>1. n.to = clock[q]
          BY <1>1, <3>1 DEF OrderInv, TogetherInv
        <5> QED
          BY <1>1, <5>1
      <4>2. n.task = t => n = m
        <5>1. /\ n \in [type : {"VDelegatedCallRequest"}, to : Pulses, task : Tasks]
              /\ m \in [type : {"VDelegatedCallRequest"}, to : Pulses, task : Tasks]
          BY <1>1, <2>2, <3>1 DEF TypeOK, MessageType
        <5> QED
          BY <4>1, <5>1
      <4> QED
        BY <3>1, <4>2
    <3>3. Taken(n.task) /\ ~ Hot(n.task)
      BY <1>2, <2>2, <3>1 DEF HandInv, TokenInv
    <3> QED
      BY <1>16, <3>1, <3>2, <3>3
  <2>3. ASSUME NEW n \in msgs', n.type = "VDelegatedRequestFinished"
        PROVE  EndNoted(n, object'[n.to])
    <3>1. EndNoted(n, object[n.to]) /\ n.to \in Pulses /\ n.task \in Tasks
      BY <1>1, <1>2, <1>6, <2>3 DEF HandInv, TokenInv, TypeOK, MessageType
    <3>2. Call[n.task] \in Requests /\ CallFlag[Call[n.task]] \in Flags
      BY <3>1, CallFacts
    <3> QED
      BY <1>12, <1>15, <3>1, <3>2 DEF EndNoted
  <2> QED
    BY <2>1, <2>2, <2>3 DEF TokenInv, EndNoted, Entered
<1>21. PhaseInv'
  <2>1. PhaseOK(x, msgs)
    BY <1>1, <1>2 DEF HandInv, PhaseInv
  <2>2. PhaseOK(o, msgs')
    BY <1>1, <1>6, <1>9, <2>1 DEF PhaseOK
  <2> QED
    BY <1>1, <1>2, <1>6, <1>7, <2>2, TakeMessage
<1> QED
  BY <1>6, <1>17, <1>18, <1>19, <1>20, <1>21 DEF PanicInv, HandInv, NoPanic

(* SMVDelegatedRequestFinished: the call is in the table, its object has a *)
(* state, and its machine is not one that still holds a token.             *)
LEMMA DelegatedRequestFinishedPanic ==
    ASSUME ExecutorInv, OnceInv, UseInv, OrderInv, PlainInv, PanicInv, RepeatedSoon,
           NEW m \in msgs, ReceiveDelegatedRequestFinished(m)
    PROVE  PanicInv'
<1> DEFINE q == m.to
           t == m.task
           r == Call[t]
           f == CallFlag[r]
           x == object[q]
           list == PendingFinish(x.pending[f], r)
           dirty == IF m.latest.has THEN m.latest ELSE x.dirty
           o1 == [x EXCEPT !.dirty = dirty]
           o3 == [o1 EXCEPT !.pending[f] = list]
           o4 == ReleasePaths(o3)
           same(o) == /\ o.known = x.known /\ o.results = x.results /\ o.summary = x.summary
                      /\ o.phase = x.phase /\ o.state = x.state /\ o.report = x.report
                      /\ o.prevPending = x.prevPending /\ o.oldestPending = x.oldestPending
                      /\ o.ReadyToWork = x.ReadyToWork /\ o.asked = x.asked
<1>1. /\ TypeOK /\ q \in Pulses /\ t \in Tasks /\ q \in Nat
      /\ m.type = "VDelegatedRequestFinished" /\ clock[q] = q /\ x.ReadyToWork
  BY PulseFacts DEF ExecutorInv, TypeOK, MessageType, ReceiveDelegatedRequestFinished, Present
<1>2. /\ x \in ObjectType /\ r \in Requests /\ f \in Flags /\ OwnInv /\ HandInv
      /\ ObjectOK(x, q, clock[q])
  BY <1>1, TypeFacts, CallFacts DEF ExecutorInv, LocalInv, ObjectInv, PanicInv
<1>3. Exist(x.pending[f], r)
  BY <1>1, <1>2 DEF HandInv, TokenInv, EndNoted, Entered, Exist
<1>4. /\ x.state \in {"Missing", "HasState"} /\ (m.latest.has => x.state = "HasState")
  <2>1. Live(q) /\ ObjectPlain(x)
    BY <1>1 DEF Live, PlainInv
  <2>2. MessagePlain(m, x)
    BY DEF PlainInv
  <2> QED
    BY <1>1, <1>2, <2>1, <2>2 DEF ObjectPlain, MessagePlain, ObjectOK
<1>5. SetLatestState(x, m.latest) = o1 /\ o1.state = x.state /\ o1.pending = x.pending
      /\ [o1 EXCEPT !.state = x.state] = o1
  BY <1>2 DEF SetLatestState, ObjectType
<1>6. /\ clock' = clock /\ task' = task /\ panics' = panics /\ msgs' = msgs \ {m}
      /\ object' = [object EXCEPT ![q] = o3] \/ object' = [object EXCEPT ![q] = o4]
  <2> DEFINE y3 == [o1 EXCEPT !.pending[f] = PendingFinish(@, r)]
             badState == m.latest.has /\ o1.state \notin {"Empty", "HasState"}
             o2 == [o1 EXCEPT !.state =
                      IF @ # "Empty" THEN @
                      ELSE IF m.latest.has THEN "HasState"
                      ELSE IF f = Tolerable /\ r \in Constructors THEN "Missing"
                      ELSE @]
             signal == /\ f = Tolerable
                       /\ y3.pending[f].countActive = 0
                       /\ y3.signal
  <2>1. o1.state # "Empty" /\ ~ badState
    BY <1>4, <1>5
  <2>2. y3 = o3
    <3> HIDE DEF o1
    <3> QED
      BY <1>5
  <2> HIDE DEF o1
  <2>3. o2 = o1
    BY <1>5, <2>1
  <2>4. Exist(o2.pending[f], r)
    BY <1>3, <1>5, <2>3
  <2>5. object' = [object EXCEPT ![q] = IF signal THEN ReleasePaths(y3) ELSE y3] /\ panics' = panics
    <3> HIDE DEF badState
    <3>1. /\ object' = [object EXCEPT ![q] =
                 IF badState THEN o1
                 ELSE IF ~ Exist(o2.pending[f], r) THEN o2
                 ELSE LET z3 == [o2 EXCEPT !.pending[f] = PendingFinish(@, r)]
                          sig == /\ f = Tolerable
                                 /\ z3.pending[f].countActive = 0
                                 /\ z3.signal
                      IN  IF sig THEN ReleasePaths(z3) ELSE z3]
          /\ panics' = IF badState THEN panics \cup {"updateObjectState"}
                       ELSE IF ~ Exist(o2.pending[f], r) THEN panics \cup {"notRegistered"}
                       ELSE panics
      BY <1>5 DEF ReceiveDelegatedRequestFinished, badState
    <3> HIDE DEF o2
    <3> QED
      BY <2>1, <2>3, <2>4, <3>1
  <2>6. clock' = clock /\ task' = task /\ msgs' = msgs \ {m}
    BY DEF ReceiveDelegatedRequestFinished
  <2> HIDE DEF signal, y3, o3
  <2> QED
    BY <2>2, <2>5, <2>6
<1>7. DOMAIN x = DOMAIN NewObject("none")
  BY <1>2 DEF ObjectType, NewObject
<1>8. /\ x.pending \in [Flags -> ListType] /\ x.pending[f] \in ListType
      /\ x.pending[f].requests \in [Requests -> RequestState]
      /\ list.requests = [x.pending[f].requests EXCEPT ![r] = "Finished"]
  <2>1. x.pending \in [Flags -> ListType] /\ x.pending[f] \in ListType
    BY <1>2 DEF ObjectType
  <2> QED
    BY <1>2, <1>3, <2>1, MethodsSetState DEF ListType
<1> HIDE DEF list, dirty
<1>9. same(o1) /\ DOMAIN o1 = DOMAIN NewObject("none")
  BY <1>7 DEF NewObject
<1>10. same(o3) /\ DOMAIN o3 = DOMAIN NewObject("none") /\ o3.pending = [x.pending EXCEPT ![f] = list]
  <2> HIDE DEF o1
  <2> QED
    BY <1>5, <1>9 DEF NewObject
<1>11. same(o4) /\ o4.pending = o3.pending
  <2> HIDE DEF o3
  <2> QED
    BY <1>10 DEF NewObject, ReleasePaths
<1> HIDE DEF o1, o3, o4
<1>12. PICK o : /\ object' = [object EXCEPT ![q] = o]
                /\ same(o) /\ o.pending = [x.pending EXCEPT ![f] = list]
  BY <1>6, <1>10, <1>11
<1>13. object'[q] = o /\ \A p \in Pulses : p # q => object'[p] = object[p]
  BY <1>1, <1>12 DEF TypeOK
<1>14. \A g \in Flags, s \in Requests :
          /\ Entered(o.pending[g], s) <=> Entered(x.pending[g], s)
          /\ s # r => o.pending[g].requests[s] = x.pending[g].requests[s]
  <2> SUFFICES ASSUME NEW g \in Flags, NEW s \in Requests
               PROVE  /\ Entered(o.pending[g], s) <=> Entered(x.pending[g], s)
                      /\ s # r => o.pending[g].requests[s] = x.pending[g].requests[s]
    OBVIOUS
  <2>1. CASE g # f
    BY <1>8, <1>12, <2>1
  <2>2. CASE g = f
    <3>1. o.pending[g].requests = [x.pending[f].requests EXCEPT ![r] = "Finished"]
      BY <1>8, <1>12, <2>2
    <3> QED
      BY <1>3, <1>8, <2>2, <3>1 DEF Entered, Exist
  <2> QED
    BY <2>1, <2>2
<1>15. OwnInv'
  <2>1. SameRecord(o, x)
    BY <1>12 DEF SameRecord
  <2> QED
    BY <1>1, <1>2, <1>6, <1>13, <2>1, OwnKept
<1>16. CountInv'
  <2>1. Quota(o, x)
    BY <1>4, <1>12 DEF Quota, Left
  <2>2. \A g \in Flags : Due(g)' \subseteq Due(g)
    <3> SUFFICES ASSUME NEW s \in Requests, DueCall(s)' PROVE DueCall(s)
      BY DEF Due
    <3>1. FlagOf[s] \in Flags
      BY CallFacts
    <3>2. \A p \in Pulses : Entered(object'[p].pending[FlagOf[s]], s)
                               => Entered(object[p].pending[FlagOf[s]], s)
      BY <1>13, <1>14, <3>1
    <3> QED
      BY <1>6, <3>2 DEF DueCall, Taken, NodeOf, Entered
  <2>3. \A n \in msgs' : n \in msgs
    BY <1>6
  <2> QED
    BY <1>2, <1>6, <1>13, <2>1, <2>2, <2>3, CountStep DEF HandInv
<1>17. HotInv'
  <2> SUFFICES ASSUME NEW u \in Tasks, Taken(u), Hot(u)
               PROVE  object'[NodeOf(u)].pending[FlagOf[Call[u]]].requests[Call[u]] = "Processing"
    BY <1>6 DEF HotInv, Taken, Hot, NodeOf
  <2>1. /\ object[NodeOf(u)].pending[FlagOf[Call[u]]].requests[Call[u]] = "Processing"
        /\ NodeOf(u) \in Pulses /\ Call[u] \in Requests /\ FlagOf[Call[u]] \in Flags
    BY <1>1, <1>2, TypeFacts, CallFacts DEF HandInv, HotInv
  <2>2. Call[u] # r
    <3> SUFFICES ASSUME Call[u] = r PROVE FALSE
      OBVIOUS
    <3>1. EndedRun(t) /\ AtMostOnce
      BY <1>1, SoonRunOnce, InvMethodsOnce DEF UseInv, EndsInv, FinishedInv
    <3>2. task[u].ran /\ task[u].active
      BY DEF Taken, UseInv, StaticInv, MachineInv
    <3>3. u = t
      BY <1>1, <3>1, <3>2 DEF AtMostOnce, EndedRun
    <3>4. task[u].pc \notin Ended
      BY <3>2 DEF ExecutorInv, LocalInv, TaskInv, TaskOK, ActingSteps, Ended
    <3> QED
      BY <3>1, <3>3, <3>4 DEF EndedRun
  <2>3. o.pending[FlagOf[Call[u]]].requests[Call[u]] = x.pending[FlagOf[Call[u]]].requests[Call[u]]
    BY <1>14, <2>1, <2>2
  <2> QED
    BY <1>13, <2>1, <2>3
<1>18. TokenInv'
  <2>1. \A u \in Tasks : Taken(u)' /\ ~ Hot(u)' => Requested(u)'
    <3> SUFFICES ASSUME NEW u \in Tasks, Taken(u)', ~ Hot(u)' PROVE Requested(u)'
      OBVIOUS
    <3>1. Requested(u)
      BY <1>2, <1>6 DEF HandInv, TokenInv, Taken, Hot, NodeOf
    <3>2. DelegatedCallRequest(NodeOf(u), u) # m
      BY <1>1 DEF DelegatedCallRequest
    <3> QED
      BY <1>6, <3>1, <3>2 DEF Requested, NodeOf
  <2>2. \A n \in msgs' : n.type = "VDelegatedCallRequest" => Taken(n.task)' /\ ~ Hot(n.task)'
    BY <1>2, <1>6 DEF HandInv, TokenInv, Taken, Hot, NodeOf
  <2>3. ASSUME NEW n \in msgs', n.type = "VDelegatedRequestFinished"
        PROVE  EndNoted(n, object'[n.to])
    <3>1. EndNoted(n, object[n.to]) /\ n.to \in Pulses /\ n.task \in Tasks
      BY <1>1, <1>2, <1>6, <2>3 DEF HandInv, TokenInv, TypeOK, MessageType
    <3>2. Call[n.task] \in Requests /\ CallFlag[Call[n.task]] \in Flags
      BY <3>1, CallFacts
    <3> QED
      BY <1>13, <1>14, <3>1, <3>2 DEF EndNoted
  <2> QED
    BY <2>1, <2>2, <2>3 DEF TokenInv, EndNoted, Entered
<1>19. PhaseInv'
  <2>1. PhaseOK(x, msgs)
    BY <1>1, <1>2 DEF HandInv, PhaseInv
  <2>2. PhaseOK(o, msgs')
    BY <1>1, <1>6, <1>12, <2>1 DEF PhaseOK
  <2> QED
    BY <1>1, <1>2, <1>6, <1>12, <2>2, TakeMessage
<1> QED
  BY <1>6, <1>15, <1>16, <1>17, <1>18, <1>19 DEF PanicInv, HandInv, NoPanic

(* What the report of BuildStateReport says of a queue has a place for the *)
(* calls that run in it: the two tables are counted one by one, and the    *)
(* earlier of their pulses is named.                                       *)
LEMMA QueueCovers ==
    ASSUME NEW x, NEW f \in Flags,
           x.known[f] \in ListType, ListConsistent(x.known[f]),
           x.pending[f] \in ListType, ListConsistent(x.pending[f])
    PROVE  Covers(PendingCount(x, f), GetEarliestPulse(x, f), RunningCalls(x, f))
<1> DEFINE known == x.known[f]
           pending == x.pending[f]
<1>1. /\ known.countActive \in Nat /\ known.countActive = Cardinality(Active(known))
      /\ pending.countActive \in Nat /\ pending.countActive = Cardinality(Active(pending))
  BY CountOfList DEF ListConsistent, CountsActive
<1>2. IsFiniteSet(Active(known)) /\ IsFiniteSet(Active(pending))
  BY RequestsAssumption, FS_Subset DEF Active
<1>3. /\ PendingCount(x, f) \in Nat
      /\ Cardinality(RunningCalls(x, f)) <= PendingCount(x, f)
  <2>1. Cardinality(Active(known) \cup Active(pending))
            = Cardinality(Active(known)) + Cardinality(Active(pending))
                - Cardinality(Active(known) \cap Active(pending))
    BY <1>2, FS_Union
  <2>2. IsFiniteSet(Active(known) \cap Active(pending))
    BY <1>2, FS_Subset
  <2>3. Cardinality(Active(known) \cap Active(pending)) \in Nat
    BY <2>2, FS_CardinalityType
  <2>4. Cardinality(RunningCalls(x, f)) = known.countActive + pending.countActive
                                   - Cardinality(Active(known) \cap Active(pending))
    BY <1>1, <2>1 DEF RunningCalls
  <2>5. PendingCount(x, f) = pending.countActive + known.countActive
    BY DEF PendingCount
  <2> HIDE DEF known, pending
  <2> QED
    BY <1>1, <2>3, <2>4, <2>5
<1>4. /\ known.earliestActivePulse \in Nat
      /\ known.earliestActivePulse = UnknownPulse <=> Active(known) = {}
      /\ \A r \in Active(known) : known.earliestActivePulse <= PulseOf[r]
  BY EarliestOfList DEF ListConsistent, EarliestIsLeast
<1>5. /\ pending.earliestActivePulse \in Nat
      /\ pending.earliestActivePulse = UnknownPulse <=> Active(pending) = {}
      /\ \A r \in Active(pending) : pending.earliestActivePulse <= PulseOf[r]
  BY EarliestOfList DEF ListConsistent, EarliestIsLeast
<1>6. ASSUME NEW r \in RunningCalls(x, f)
      PROVE  GetEarliestPulse(x, f) # UnknownPulse /\ GetEarliestPulse(x, f) <= PulseOf[r]
  <2>1. PulseOf[r] \in Nat /\ (r \in Active(known) \/ r \in Active(pending))
    BY PulsesAssumption DEF RunningCalls, Active
  <2>2. GetEarliestPulse(x, f)
          = IF \/ known.earliestActivePulse = UnknownPulse
               \/ /\ pending.earliestActivePulse # UnknownPulse
                  /\ pending.earliestActivePulse < known.earliestActivePulse
            THEN pending.earliestActivePulse ELSE known.earliestActivePulse
    BY DEF GetEarliestPulse
  <2> HIDE DEF known, pending
  <2>3. CASE r \in Active(known)
    BY <1>4, <1>5, <2>1, <2>2, <2>3
  <2>4. CASE r \in Active(pending)
    BY <1>4, <1>5, <2>1, <2>2, <2>4
  <2> QED
    BY <2>1, <2>3, <2>4
<1> QED
  BY <1>3, <1>6 DEF Covers

(* When the messages of a pulse have arrived, every call has its token.    *)
LEMMA TokensGiven ==
    ASSUME ExecutorInv, OrderInv, PanicInv, NEW old \in Pulses, old \in Nat,
           \A n \in Pulses : clock[n] = old, HandoverDone(old), NEW t \in Tasks
    PROVE  task[t].pc # "getToken"
<1> SUFFICES ASSUME task[t].pc = "getToken" PROVE FALSE
  OBVIOUS
<1> DEFINE x == object[old]
           n == DelegatedCallRequest(old, t)
<1>1. /\ TypeOK /\ HandInv /\ TaskOK(task[t], NodeOf(t), SlotOf[t]) /\ SlotOf[t] \in Pulses
      /\ NodeOf(t) \in Nat /\ SlotOf[t] \in Nat /\ ObjectOK(x, old, clock[old])
  BY TypeFacts, PulseFacts DEF ExecutorInv, PanicInv, LocalInv, TaskInv, ObjectInv
<1>2. NodeOf(t) = old
  BY <1>1 DEF NodeOf
<1>3. Taken(t)
  BY <1>1 DEF Taken, TaskOK
<1>4. task[t].granted = UnknownPulse
  BY <1>1 DEF HandoverDone
<1>5. n \in msgs
  BY <1>1, <1>2, <1>3, <1>4 DEF HandInv, TokenInv, Hot, CanAct, Requested
<1>6. n.to = old
  BY DEF DelegatedCallRequest
<1>7. ~ Deliverable(n)
  BY <1>5, <1>6 DEF HandoverDone
<1>8. x.phase # "none" /\ ~ x.ReadyToWork
  BY <1>6, <1>7 DEF Deliverable
<1>9. PhaseOK(x, msgs)
  BY <1>1 DEF HandInv, PhaseInv
<1>10. x.phase \notin {"getState", "waitState"} /\ ~ (x.asked /\ AnswerComing(old))
  BY DEF HandoverDone
<1>11. x.asked \/ \E m \in msgs : m.type = "VStateReport"
  BY <1>8, <1>9, <1>10 DEF PhaseOK
<1>12. ~ x.asked
  <2> SUFFICES ASSUME x.asked PROVE FALSE
    OBVIOUS
  <2>1. old - 1 \in Pulses
    BY <1>1 DEF ObjectOK
  <2>2. clock[old - 1] = old /\ clock[old] = old
    BY <2>1
  <2>3. AnswerComing(old)
    BY <2>2 DEF AnswerComing
  <2> QED
    BY <1>10, <2>3
<1>13. PICK m \in msgs : m.type = "VStateReport"
  BY <1>11, <1>12
<1>14. m.to = old
  <2>1. m.to = clock[old]
    BY DEF OrderInv, TogetherInv
  <2> QED
    BY <2>1
<1> QED
  BY <1>13, <1>14 DEF HandoverDone, Deliverable

(* The pulse change: the report of the executor has a place for every call *)
(* that goes on, as a call of its own or as a pending one.                 *)
LEMMA AdvanceCovers ==
    ASSUME ExecutorInv, UseInv, OrderInv, PlainInv, PanicInv, NEW old \in Pulses, clock[old] = old,
           NEW ordered, NEW unordered,
           ordered \subseteq RunningCalls(object[old], Tolerable),
           unordered \subseteq RunningCalls(object[old], Intolerable)
    PROVE  \/ ordered = {} /\ unordered = {}
           \/ /\ Left(MigrateObject(object[old]))
              /\ ReportCovers(MigrateObject(object[old]).report, ordered, unordered)
<1> DEFINE x == object[old]
           report == BuildStateReport(x)
<1>1. /\ x \in ObjectType /\ TableOK(x, old) /\ old \in Nat
  BY PulseFacts, TypeFacts DEF ExecutorInv, UseInv, StaticInv, TablesInv
<1>2. Live(old) /\ ObjectPlain(x)
  BY <1>1 DEF Live, PlainInv
<1>3. CASE x.state = "Unknown"
  <2>1. NoKnown(x) /\ NoPending(x)
    BY <1>2, <1>3 DEF UseInv, StaticInv, UnusedInv, ObjectPlain
  <2>2. \A f \in Flags : RunningCalls(x, f) = {}
    BY <2>1 DEF RunningCalls, Active, NoKnown, NoPending, Entered
  <2> QED
    BY <2>2, CallFacts
<1>4. CASE x.state # "Unknown"
  <2>1. MigrateObject(x).phase = "publish" /\ MigrateObject(x).report = report
    <3>1. [x EXCEPT !.state = x.state] = x
      BY <1>1 DEF ObjectType
    <3>2. MigrateObject(x) = [x EXCEPT !.phase = "publish", !.report = report, !.asked = FALSE]
      BY <1>2, <1>4, <3>1 DEF MigrateObject, ObjectPlain
    <3> HIDE DEF report
    <3> QED
      BY <1>1, <3>2 DEF ObjectType
  <2>2. ASSUME NEW f \in Flags, NEW S, S \subseteq RunningCalls(x, f)
        PROVE  Covers(PendingCount(x, f), GetEarliestPulse(x, f), S)
    <3>1. /\ x.known[f] \in ListType /\ ListConsistent(x.known[f])
          /\ x.pending[f] \in ListType /\ ListConsistent(x.pending[f])
      BY <1>1 DEF ObjectType, TableOK
    <3>2. Covers(PendingCount(x, f), GetEarliestPulse(x, f), RunningCalls(x, f))
      BY <3>1, QueueCovers
    <3>3. RunningCalls(x, f) \subseteq Requests
      BY DEF RunningCalls, Active
    <3> QED
      BY <2>2, <3>2, <3>3, CoversLess
  <2>3. /\ report.OrderedPendingCount = PendingCount(x, Tolerable)
        /\ report.OrderedPendingEarliestPulse = GetEarliestPulse(x, Tolerable)
        /\ report.UnorderedPendingCount = PendingCount(x, Intolerable)
        /\ report.UnorderedPendingEarliestPulse = GetEarliestPulse(x, Intolerable)
    BY DEF BuildStateReport
  <2> HIDE DEF report
  <2>4. ReportCovers(report, ordered, unordered)
    BY <2>2, <2>3, CallFacts DEF ReportCovers
  <2> QED
    BY <2>1, <2>4 DEF Left
<1> QED
  BY <1>3, <1>4

(* A machine over the pulse change *)
LEMMA MigrateTaskCases ==
    ASSUME NEW tk \in TaskType
    PROVE  LET new == MigrateTask(tk) IN
           /\ ~ Asks(tk) => \/ new = tk /\ tk.pc \in Ended \cup {"idle"}
                            \/ ~ new.active /\ ~ new.negotiated /\ new.pc \in Ended
           /\ Asks(tk) => /\ new.active = tk.active /\ new.negotiated = tk.negotiated
                          /\ new.pc = "getToken" /\ new.resume = tk.pc
<1>1. CASE tk.pc \in Ended \cup {"idle"}
  <2>1. MigrateTask(tk) = tk
    BY <1>1 DEF MigrateTask, Asks, Ended
  <2>2. ~ Asks(tk)
    BY <1>1 DEF Asks
  <2> QED
    BY <1>1, <2>1, <2>2
<1>2. CASE Asks(tk)
  <2>1. tk.pc \notin Ended \cup {"idle"}
    BY <1>2 DEF Asks
  <2>2. MigrateTask(tk) = [tk EXCEPT !.pc = "getToken", !.resume = tk.pc, !.migrated = TRUE]
    BY <1>2, <2>1 DEF MigrateTask, Asks, Ended
  <2> QED
    BY <1>2, <2>2 DEF TaskType
<1>3. CASE tk.pc \notin Ended \cup {"idle"} /\ ~ Asks(tk)
  <2>1. PICK pc \in {"dead", "stopped"} : MigrateTask(tk) = EndTask(tk, pc)
    BY <1>3 DEF MigrateTask
  <2>2. EndTask(tk, pc).pc = pc /\ ~ EndTask(tk, pc).active /\ ~ EndTask(tk, pc).negotiated
    BY DEF EndTask, IdleTask
  <2> QED
    BY <1>3, <2>1, <2>2 DEF Ended
<1> QED
  BY <1>1, <1>2, <1>3

LEMMA AdvancePanic ==
    ASSUME ExecutorInv, OnceInv, UseInv, OrderInv, PlainInv, PanicInv, RepeatedSoon, ~ Skewed,
           Timely, NEW old \in Pulses, AdvancePulse(Pulses, old)
    PROVE  PanicInv'
<1>0. Pulses \in ChangeTogether
  BY DEF ChangeTogether
<1>1. /\ old \in Nat /\ old + 1 \in Pulses /\ TypeOK /\ OwnInv /\ HandInv
      /\ \A n \in Pulses : n \in Nat /\ clock[n] = old /\ clock'[n] = old + 1
      /\ \A n \in Pulses : n > old => object'[n] = object[n]
      /\ object'[old] = MigrateObject(object[old])
  BY <1>0, AdvanceFacts, PulseFacts DEF ExecutorInv, PanicInv
<1>2. \A t \in Tasks : /\ NodeOf(t) = old /\ NodeOf(t)' = old + 1
                       /\ SlotOf[t] \in Nat /\ SlotOf[t] \in Pulses
                       /\ task'[t] = MigrateTask(task[t]) /\ task[t] \in TaskType
                       /\ TaskOK(task'[t], old + 1, SlotOf[t])
                       /\ TaskOK(task[t], old, SlotOf[t])
                       /\ ~ Hot(t)'
                       /\ task'[t].active => task[t].active /\ Hot(t) /\ task'[t].pc = "getToken"
  <2>1. \A t \in Tasks : /\ SlotOf[t] \in Nat /\ SlotOf[t] \in Pulses
                         /\ TaskOK(task[t], NodeOf(t), SlotOf[t]) /\ task[t] \in TaskType
    BY PulseFacts, TypeFacts DEF ExecutorInv, LocalInv, TaskInv
  <2> QED
    BY <1>0, <2>1, AdvanceFacts
<1>3. \A t \in Tasks : task[t].pc # "getToken"
  <2>1. HandoverDone(old)
    BY DEF AdvancePulse
  <2> QED
    BY <1>1, <2>1, TokensGiven
<1>4. panics' = panics
  BY <1>3 DEF AdvancePulse
<1>5. \A t \in Tasks : /\ task'[t].active <=> Asks(task[t])
                       /\ Asks(task[t]) => /\ task[t].active /\ task'[t].pc = "getToken"
                                           /\ task'[t].resume = task[t].pc
                                           /\ SlotOf[t] <= old
                       /\ task'[t].negotiated => task[t].negotiated
                       /\ task'[t].pc \notin OwnSteps
  <2> SUFFICES ASSUME NEW t \in Tasks
               PROVE  /\ task'[t].active <=> Asks(task[t])
                      /\ Asks(task[t]) => /\ task[t].active /\ task'[t].pc = "getToken"
                                          /\ task'[t].resume = task[t].pc
                                          /\ SlotOf[t] <= old
                      /\ task'[t].negotiated => task[t].negotiated
                      /\ task'[t].pc \notin OwnSteps
    OBVIOUS
  <2>1. CASE Asks(task[t])
    <3>1. /\ task[t].active /\ task'[t].active /\ task'[t].negotiated = task[t].negotiated
          /\ task'[t].pc = "getToken" /\ task'[t].resume = task[t].pc
      BY <1>2, <2>1, MigrateTaskCases DEF Asks
    <3>2. SlotOf[t] <= old
      BY <1>1, <1>2, <3>1 DEF TaskOK
    <3> QED
      BY <2>1, <3>1, <3>2 DEF OwnSteps
  <2>2. CASE ~ Asks(task[t])
    <3>1. \/ task'[t] = task[t] /\ task[t].pc \in Ended \cup {"idle"}
          \/ ~ task'[t].active /\ ~ task'[t].negotiated /\ task'[t].pc \in Ended
      BY <1>2, <2>2, MigrateTaskCases
    <3>2. task[t].pc \in Ended \cup {"idle"} => ~ task[t].active
      BY <1>2 DEF TaskOK, ActingSteps, Ended
    <3> QED
      BY <2>2, <3>1, <3>2 DEF OwnSteps, Ended
  <2> QED
    BY <2>1, <2>2
<1>6. /\ \A m \in msgs' : \E t \in Tasks : m = DelegatedCallRequest(old + 1, t) /\ Asks(task[t])
      /\ \A t \in Tasks : Asks(task[t]) => DelegatedCallRequest(old + 1, t) \in msgs'
  <2> DEFINE new == {DelegatedCallRequest(old + 1, t) : t \in {u \in Tasks : Asks(task[u])}}
  <2>1. \A m \in msgs : m.to = old
    BY <1>1 DEF OrderInv, TogetherInv
  <2>2. \A m \in new : m.to = old + 1
    BY DEF DelegatedCallRequest
  <2>3. clock[old + 1] <= old + 1
    <3>1. clock[old + 1] = old
      BY <1>1
    <3> QED
      BY <1>1, <3>1
  <2>4. Posted(new) = new
    BY <2>2, <2>3 DEF Posted
  <2>5. {t \in Tasks : SlotOf[t] \in Pulses} = Tasks
    BY <1>2
  <2>6. {u \in {t \in Tasks : SlotOf[t] \in Pulses} : Asks(task[u])} = {u \in Tasks : Asks(task[u])}
    BY <2>5
  <2>7. msgs' = {m \in msgs : ~ (m.to = old /\ old \in Pulses)} \cup Posted(new)
    BY <2>6 DEF AdvancePulse
  <2>8. msgs' = new
    BY <2>1, <2>4, <2>7
  <2> QED
    BY <2>8
<1>7. object'[old + 1] = NewObject("none")
  <2>1. clock[old + 1] < old + 1 /\ old + 1 > old
    BY <1>1
  <2> QED
    BY <1>1, <2>1 DEF OrderInv, TogetherInv, ExecutorInv, LocalInv, ObjectInv, ObjectOK
<1>8. \A p \in Pulses : /\ clock'[p] = p => p = old + 1
                        /\ clock'[p] = p + 1 => p = old
  BY <1>1
<1>9. \A t \in Tasks : Taken(t)' <=> Asks(task[t])
  <2> SUFFICES ASSUME NEW t \in Tasks PROVE Taken(t)' <=> Asks(task[t])
    OBVIOUS
  <2>1. SlotOf[t] <= old => SlotOf[t] < old + 1
    BY <1>1, <1>2
  <2> QED
    BY <1>2, <1>5, <2>1 DEF Taken
<1>10. \A f \in Flags : Due(f)' \subseteq RunningCalls(object[old], f)
  <2> SUFFICES ASSUME NEW r \in Requests, DueCall(r)'
               PROVE  r \in RunningCalls(object[old], FlagOf[r])
    BY DEF Due
  <2>1. FlagOf[r] \in Flags
    BY CallFacts
  <2>2. ~ \E p \in Pulses : clock'[p] = p /\ Entered(object'[p].pending[FlagOf[r]], r)
    <3>1. ~ Entered(NewObject("none").pending[FlagOf[r]], r)
      BY <2>1 DEF NewObject, NewList, Entered
    <3> QED
      BY <1>7, <1>8, <3>1 DEF Entered
  <2>3. PICK t \in Tasks : Taken(t)' /\ Call[t] = r
    BY <2>2 DEF DueCall, Entered
  <2>4. Asks(task[t]) /\ task[t].active /\ Hot(t) /\ NodeOf(t) = old /\ SlotOf[t] <= old
    BY <1>2, <1>5, <1>9, <2>3
  <2>5. CASE SlotOf[t] = old
    <3>1. InProcess(object[old], r)
      BY <2>3, <2>4, <2>5 DEF OrderInv, RunsInv
    <3> QED
      BY <3>1 DEF InProcess, RunningCalls, Active
  <2>6. CASE SlotOf[t] # old
    <3>1. Taken(t)
      BY <1>1, <1>2, <2>4, <2>6 DEF Taken
    <3>2. object[old].pending[FlagOf[r]].requests[r] = "Processing"
      BY <1>1, <2>3, <2>4, <3>1 DEF HandInv, HotInv
    <3> QED
      BY <3>2 DEF RunningCalls, Active
  <2> QED
    BY <2>5, <2>6
<1>11. OwnInv'
  <2> SUFFICES ASSUME NEW t \in Tasks
               PROVE  Begun(task[t], object[SlotOf[t]], Call[t])' /\ Open(t, task[t], object[SlotOf[t]])'
                      /\ Agreed(t, task[t])'
    BY DEF OwnInv
  <2>1. Begun(task[t], object[SlotOf[t]], Call[t])'
    BY <1>5 DEF Begun
  <2>2. Agreed(t, task[t])'
    BY <1>1, <1>5 DEF OwnInv, Agreed, NegotiationFails
  <2>3. ASSUME Unpublished(task'[t])
        PROVE  /\ old + 1 # SlotOf[t]
               /\ old + 1 = SlotOf[t] + 1 =>
                     /\ object'[SlotOf[t]].phase \notin {"finalize", "sent"}
                     /\ object'[SlotOf[t]].phase = "publish" => object'[SlotOf[t]].results[Call[t]] = "empty"
    <3>1. Asks(task[t]) /\ task[t].active /\ task'[t].resume = task[t].pc /\ SlotOf[t] <= old
      BY <1>5, <2>3 DEF Unpublished
    <3>2. task[t].pc # "sendFinished" /\ task[t].resume # "sendFinished"
      BY <1>2, <1>3, <2>3, <3>1 DEF Unpublished, TaskOK
    <3>3. Unpublished(task[t])
      BY <3>1, <3>2 DEF Unpublished
    <3>4. ASSUME SlotOf[t] = old
          PROVE  /\ object'[old].phase \notin {"finalize", "sent"}
                 /\ object'[old].phase = "publish" => object'[old].results[Call[t]] = "empty"
      <4>1. object[old].results[Call[t]] = "empty"
        BY <1>1, <1>2, <3>3, <3>4 DEF OwnInv, Open
      <4>2. /\ MigrateObject(object[old]).phase \in {"publish", "gone"}
            /\ MigrateObject(object[old]).results = object[old].results
        <5>1. object[old] \in ObjectType
          BY <1>1, TypeFacts
        <5>2. /\ Dropped(object[old]).phase = "gone" /\ Dropped(object[old]).results = object[old].results
          BY DEF Dropped, NewObject
        <5> DEFINE settled == [object[old] EXCEPT !.state =
                                  IF object[old].dirty.deactivated THEN "Inactive" ELSE @]
                   report == BuildStateReport(settled)
                   moved == [settled EXCEPT !.phase = "publish", !.report = report, !.asked = FALSE]
        <5>3. /\ settled.results = object[old].results
              /\ DOMAIN settled = DOMAIN object[old]
          BY <5>1 DEF ObjectType
        <5>4. DOMAIN object[old] = DOMAIN NewObject("none")
          BY <5>1 DEF ObjectType, NewObject
        <5>5. MigrateObject(object[old]) = IF object[old].state = "Unknown" THEN Dropped(object[old])
                                           ELSE moved
          BY DEF MigrateObject
        <5> HIDE DEF settled, report
        <5>6. moved.phase = "publish" /\ moved.results = object[old].results
          BY <5>3, <5>4 DEF NewObject
        <5> HIDE DEF moved
        <5> QED
          BY <5>2, <5>5, <5>6
      <4> QED
        BY <1>1, <4>1, <4>2
    <3> QED
      BY <1>1, <1>2, <3>1, <3>4
  <2>4. Open(t, task[t], object[SlotOf[t]])'
    BY <1>2, <2>3 DEF Open, Unpublished
  <2> QED
    BY <2>1, <2>2, <2>4
<1>12. CountInv'
  <2>1. \A p \in Pulses : clock'[p] = p => object'[p].state = "Unknown"
    BY <1>7, <1>8 DEF NewObject
  <2>2. \/ Due(Tolerable)' = {} /\ Due(Intolerable)' = {}
        \/ /\ Left(object'[old])
           /\ ReportCovers(object'[old].report, Due(Tolerable)', Due(Intolerable)')
    BY <1>1, <1>10, AdvanceCovers, CallFacts
  <2>3. \A m \in msgs' : m.type # "VStateReport"
    BY <1>6 DEF DelegatedCallRequest
  <2>4. \A f \in Flags : f = Tolerable \/ f = Intolerable
    BY DEF Flags
  <2>5. \/ \A f \in Flags : Due(f)' = {}
        \/ Left(object[old])' /\ DueIn(object[old].report)'
    BY <2>2, <2>4 DEF Left, DueIn, ReportCovers, Covers
  <2>6. \A p \in Pulses : clock'[p] = p + 1 =>
           \/ \A f \in Flags : Due(f)' = {}
           \/ Left(object[p])' /\ DueIn(object[p].report)'
    BY <1>8, <2>5
  <2> QED
    BY <2>1, <2>3, <2>6 DEF CountInv
<1>13. HotInv'
  BY <1>2 DEF HotInv
<1>14. TokenInv'
  <2>1. \A t \in Tasks : Taken(t)' /\ ~ Hot(t)' => Requested(t)'
    BY <1>2, <1>6, <1>9 DEF Requested
  <2>2. \A m \in msgs' : Taken(m.task)' /\ ~ Hot(m.task)' /\ m.type = "VDelegatedCallRequest"
    BY <1>2, <1>6, <1>9 DEF DelegatedCallRequest
  <2> QED
    BY <2>1, <2>2 DEF TokenInv
<1>15. PhaseInv'
  <2>1. NewObject("none").phase = "none"
    BY DEF NewObject
  <2>2. PhaseOK(NewObject("none"), msgs')
    BY <2>1 DEF PhaseOK
  <2> QED
    BY <1>7, <1>8, <2>2 DEF PhaseInv, PhaseOK
<1> QED
  BY <1>4, <1>11, <1>12, <1>13, <1>14, <1>15 DEF PanicInv, HandInv, NoPanic

(* What the first executor leaves is what the pulse change leaves: its     *)
(* report counts its running calls, and these have no result yet and have  *)
(* agreed on their queue.                                                  *)
RunningIn(h, f) == {Call[t] : t \in {u \in h.running : FlagOf[Call[u]] = f}}
Counted == \A h \in Handovers :
              /\ ReportCovers(h.report, RunningIn(h, Tolerable), RunningIn(h, Intolerable))
              /\ \A t \in h.running : Call[t] \notin h.finished /\ ~ NegotiationFails(Call[t])

LEMMA InitPanic == ASSUME RepeatedSoon, Counted PROVE Init => PanicInv
<1> SUFFICES ASSUME Init PROVE PanicInv
  OBVIOUS
<1>1. PICK h \in Handovers : TakenOver(h)
  BY DEF Init
<1> DEFINE s == h.pulse
           missing == h.report.Status = "Missing"
           none == NewObject(IF missing THEN "gone" ELSE "sent")
           summary == [r \in Requests |-> IF r \in h.finished THEN "result"
                                          ELSE IF \E t \in h.running : Call[t] = r THEN "empty"
                                          ELSE "none"]
           left == [none EXCEPT !.report = h.report, !.summary = summary]
           run == [IdleTask EXCEPT !.pc = "getToken", !.resume = "execute",
                      !.lock = TRUE, !.active = TRUE, !.ran = TRUE,
                      !.migrated = TRUE, !.negotiated = TRUE,
                      !.base = h.report.ProvidedContent.memory]
<1>2. s \in Pulses /\ s \in Nat /\ h.running \subseteq {t \in Tasks : SlotOf[t] = s}
  BY HandoversAssumption, PulseFacts
<1>3. /\ clock = [n \in Pulses |-> s + 1]
      /\ object = [q \in Pulses |-> IF q = s THEN left ELSE NewObject("none")]
      /\ task = [t \in Tasks |-> IF t \in h.running THEN run ELSE IdleTask]
      /\ msgs = {DelegatedCallRequest(s + 1, t) : t \in h.running}
                \cup (IF missing THEN {} ELSE {StateReportTo(s + 1, h.report)})
  BY <1>1 DEF TakenOver
<1>4. /\ left.phase = (IF missing THEN "gone" ELSE "sent") /\ left.report = h.report
      /\ left.summary = summary
  BY DEF NewObject
<1>5. /\ run.pc = "getToken" /\ run.resume = "execute" /\ run.active /\ run.granted = UnknownPulse
      /\ IdleTask.pc = "idle" /\ ~ IdleTask.active /\ ~ IdleTask.negotiated
  BY DEF IdleTask
<1> HIDE DEF left, run
<1>6. /\ ReportCovers(h.report, RunningIn(h, Tolerable), RunningIn(h, Intolerable))
      /\ \A t \in h.running : Call[t] \notin h.finished /\ ~ NegotiationFails(Call[t])
  BY DEF Counted
<1>7. missing => h.running = {}
  <2>1. missing => {Call[t] : t \in h.running} \subseteq Constructors
    BY HandoversAssumption
  <2>2. \A t \in h.running : Call[t] \notin Constructors
    BY <1>2 DEF RepeatedSoon
  <2> QED
    BY <2>1, <2>2
<1>8. \A p \in Pulses : /\ p \in Nat /\ clock[p] = s + 1
                        /\ clock[p] = p => object[p] = NewObject("none")
                        /\ clock[p] = p + 1 => p = s
  BY <1>2, <1>3, PulseFacts
<1>9. object[s] = left
  BY <1>2, <1>3
<1>10. \A t \in Tasks : /\ NodeOf(t) = s + 1 /\ SlotOf[t] \in Pulses /\ SlotOf[t] \in Nat
                        /\ IF t \in h.running THEN task[t] = run /\ SlotOf[t] = s
                                              ELSE task[t] = IdleTask
  BY <1>2, <1>3, PulseFacts DEF NodeOf
<1>11. \A t \in Tasks : ~ Hot(t) /\ (Taken(t) <=> t \in h.running)
  BY <1>2, <1>5, <1>10 DEF Hot, CanAct, Taken
<1>12. OwnInv
  <2> SUFFICES ASSUME NEW t \in Tasks
               PROVE  /\ Begun(task[t], object[SlotOf[t]], Call[t])
                      /\ Open(t, task[t], object[SlotOf[t]])
                      /\ Agreed(t, task[t])
    BY DEF OwnInv
  <2>1. Begun(task[t], object[SlotOf[t]], Call[t])
    BY <1>5, <1>10 DEF Begun, OwnSteps
  <2>2. Agreed(t, task[t])
    BY <1>5, <1>6, <1>10 DEF Agreed
  <2>3. CASE t \notin h.running
    BY <1>5, <1>10, <2>1, <2>2, <2>3 DEF Open, Unpublished
  <2>4. CASE t \in h.running
    <3>1. summary[Call[t]] = "empty"
      BY <1>6, <2>4, CallFacts
    <3>2. NodeOf(t) # SlotOf[t] /\ object[SlotOf[t]] = left
      BY <1>2, <1>9, <1>10, <2>4
    <3>3. left.phase # "publish" /\ left.summary[Call[t]] = "empty"
      BY <1>4, <3>1
    <3> QED
      BY <2>1, <2>2, <3>2, <3>3 DEF Open
  <2> QED
    BY <2>3, <2>4
<1>13. \A f \in Flags : Due(f) \subseteq RunningIn(h, f)
  <2> SUFFICES ASSUME NEW r \in Requests, DueCall(r) PROVE r \in RunningIn(h, FlagOf[r])
    BY DEF Due
  <2>1. ~ Entered(NewObject("none").pending[FlagOf[r]], r)
    BY CallFacts DEF NewObject, NewList, Entered
  <2>2. PICK t \in Tasks : Taken(t) /\ Call[t] = r
    BY <1>8, <2>1 DEF DueCall
  <2> QED
    BY <1>11, <2>2 DEF RunningIn
<1>14. DueIn(h.report)
  <2>1. \A f \in Flags : RunningIn(h, f) \subseteq Requests
    BY <1>2, CallFacts DEF RunningIn
  <2> QED
    BY <1>6, <1>13, <2>1, CoversLess, CallFacts DEF ReportCovers, DueIn
<1>15. \A m \in msgs : \/ \E t \in h.running : m = DelegatedCallRequest(s + 1, t)
                       \/ m.type = "VStateReport" /\ m.report = h.report
  <2>1. /\ StateReportTo(s + 1, h.report).type = "VStateReport"
        /\ StateReportTo(s + 1, h.report).report = h.report
    BY DEF StateReportTo
  <2> QED
    BY <1>3, <2>1
<1>16. \A t : /\ DelegatedCallRequest(s + 1, t).type = "VDelegatedCallRequest"
              /\ DelegatedCallRequest(s + 1, t).task = t
  BY DEF DelegatedCallRequest
<1>17. CountInv
  <2>1. NewObject("none").state = "Unknown"
    BY DEF NewObject
  <2>2. \A p \in Pulses : clock[p] = p => object[p].state = "Unknown"
    BY <1>8, <2>1
  <2>3. missing => \A f \in Flags : Due(f) = {}
    BY <1>7, <1>13 DEF RunningIn
  <2>4. ~ missing => Left(left) /\ DueIn(left.report)
    BY <1>4, <1>14 DEF Left
  <2>5. \A p \in Pulses : clock[p] = p + 1 => \/ \A f \in Flags : Due(f) = {}
                                              \/ Left(object[p]) /\ DueIn(object[p].report)
    BY <1>8, <1>9, <2>3, <2>4
  <2>6. \A m \in msgs : m.type = "VStateReport" => DueIn(m.report)
    BY <1>14, <1>15, <1>16
  <2> QED
    BY <2>2, <2>5, <2>6 DEF CountInv
<1>18. HotInv
  BY <1>11 DEF HotInv
<1>19. TokenInv
  <2>1. \A t \in Tasks : Taken(t) => Requested(t)
    BY <1>3, <1>10, <1>11 DEF Requested
  <2>2. \A m \in msgs : /\ m.type = "VDelegatedCallRequest" => Taken(m.task) /\ ~ Hot(m.task)
                        /\ m.type # "VDelegatedRequestFinished"
    BY <1>2, <1>11, <1>15, <1>16
  <2> QED
    BY <2>1, <2>2 DEF TokenInv
<1>20. PhaseInv
  <2>1. NewObject("none").phase = "none"
    BY DEF NewObject
  <2> QED
    BY <1>8, <2>1 DEF PhaseInv, PhaseOK
<1>21. NoPanic
  BY DEF Init, NoPanic
<1> QED
  BY <1>12, <1>17, <1>18, <1>19, <1>20, <1>21 DEF PanicInv, HandInv

LEMMA NextPanic ==
    ASSUME ExecutorInv, OnceInv, UseInv, OrderInv, PlainInv, PanicInv, RepeatedSoon, ~ Skewed,
           Timely, FlagsAgree, [Next]_vars
    PROVE  PanicInv'
<1>0. TypeOK
  BY DEF ExecutorInv
<1>1. ASSUME NEW t \in Tasks, TaskStepOf(t) PROVE PanicInv'
  BY <1>1, WaitObjectReadyPanic, DeduplicatePanic, OwnStepsPanic, StartPanic, ActingPanic,
     SaveNewObjectPanic, FinishRequestPanic, PublishDataCallSummaryPanic, DelegatedPanic
     DEF TaskStepOf
<1>2. CASE PulseChange
  <2>1. PICK old \in Pulses : AdvancePulse(Pulses, old)
    BY <1>2 DEF PulseChange, ChangeTogether
  <2> QED
    BY <2>1, AdvancePanic
<1>3. CASE Receive
  BY <1>3, ReceiveStateReportPanic, CreateForDelegatedPanic, DelegatedCallRequestPanic,
     DelegatedRequestFinishedPanic DEF Receive
<1>4. CASE UNCHANGED vars
  <2>1. clock' = clock /\ object' = object /\ task' = task /\ msgs' = msgs /\ panics' = panics
    BY <1>4 DEF vars
  <2>2. OwnInv'
    BY <1>0, <2>1, OwnKept DEF PanicInv
  <2>3. HandInv'
    BY <1>0, <2>1, HandKept DEF PanicInv
  <2> QED
    BY <2>1, <2>2, <2>3 DEF PanicInv, NoPanic
<1>5. ASSUME NEW p \in Pulses, ObjectStep(p) PROVE PanicInv'
  BY <1>5, ObjectStepsPanic
<1>6. ASSUME NEW t \in Tasks, StepGetObject(t) PROVE PanicInv'
  BY <1>6, GetObjectPanic
<1> QED
  BY <1>1, <1>2, <1>3, <1>4, <1>5, <1>6 DEF Next

(* No machine runs into a panic or a failed assertion: no descriptor is    *)
(* missing where one is read, no request is started or finished out of     *)
(* order, no call ends that its executor does not know of, and no call     *)
(* still waits for its token when the pulse changes.  The nodes change the *)
(* pulse together and messages arrive within their pulse; the calls are    *)
(* methods that are repeated soon, none deactivates the object, and one    *)
(* that asks for the ordered queue belongs there.                          *)
THEOREM NoMachinePanics ==
    (RepeatedSoon /\ ~ Skewed /\ Timely /\ Plain /\ FlagsAgree /\ Counted) => (Spec => []NoPanic)
<1> SUFFICES ASSUME RepeatedSoon, ~ Skewed, Timely, Plain, FlagsAgree, Counted
             PROVE  Spec => []NoPanic
  OBVIOUS
<1>1. OnceInv /\ ExecutorInv /\ [Next]_vars => OnceInv'
  BY NextOnce
<1>2. OnceInv /\ ExecutorInv /\ UseInv /\ [Next]_vars => UseInv'
  BY NextUse
<1>3. OnceInv /\ ExecutorInv /\ UseInv /\ OrderInv /\ [Next]_vars => OrderInv'
  BY NextOrder
<1>4. OnceInv /\ ExecutorInv /\ UseInv /\ PlainInv /\ [Next]_vars => PlainInv'
  BY NextPlain
<1>5. OnceInv /\ ExecutorInv /\ UseInv /\ OrderInv /\ PlainInv /\ PanicInv /\ [Next]_vars => PanicInv'
  BY NextPanic
<1>6. Init => OnceInv /\ UseInv /\ OrderInv /\ PlainInv /\ PanicInv
  BY InitOnce, InitUse, InitOrder, InitPlain, InitPanic
<1>7. PanicInv => NoPanic
  BY DEF PanicInv
<1> QED
  BY <1>1, <1>2, <1>3, <1>4, <1>5, <1>6, <1>7, ExecutorInvariant, PTL DEF Spec


-----------------------------------------------------------------------------
(***************************************************************************)
(* No change is lost: an ordered call starts on a memory that holds every  *)
(* change whose result was sent before, under the conditions of            *)
(* NoMachinePanics.                                                        *)
(*                                                                         *)
(* A change that was answered is in the memory of the present executor, or *)
(* in every report that may still set that memory (Kept), or it is still   *)
(* to come: the call that made it goes on after its pulse, or its last     *)
(* message is on its way (Coming).  While it is to come, the executor is   *)
(* closed to ordered calls (WaitInv, EndInv).                              *)
(***************************************************************************)

(* The step that a machine is in, or goes on with when its token comes *)
StepOf(tk) == IF tk.pc = "getToken" THEN tk.resume ELSE tk.pc

(* The call has told its caller that it has changed the object. *)
Changed(tk) == tk.answer = "ok" /\ tk.outcome = "change"

(* What the machine tk of the call r has come to *)
TaskNews(tk, r) ==
    /\ tk.answer = "ok" => StepOf(tk) \in {"finishRequest", "callSummary", "sendFinished"} \cup Ended
    /\ StepOf(tk) \in EarlySteps \cup {"idle", "execute"} => tk.outcome = "none"
    /\ tk.active /\ tk.outcome = "change" /\ StepOf(tk) # "saveNewObject"
          => tk.new.has /\ tk.new.memory = tk.base \cup {r}
    /\ tk.new.has => tk.active /\ tk.outcome = "change" /\ StepOf(tk) # "saveNewObject"
    /\ ~ tk.active /\ tk.pc \in {"sendCallResult", "finishRequest"} => tk.outcome = "error"
    /\ tk.sent > 0 => StepOf(tk) = "execute" /\ r \in Callers /\ ~ tk.called
NewsInv == \A t \in Tasks : TaskNews(task[t], Call[t])

(* A report of an ordered call's end *)
IsEnd(m) == m.type = "VDelegatedRequestFinished" /\ IsOrdered(m.task)
EndInv == /\ \A m \in msgs : IsEnd(m) => Shut(object[m.to])
          /\ \A m, n \in msgs : IsEnd(m) /\ IsEnd(n) => m = n

BaseInv == \A t \in Tasks : IsOrdered(t) /\ task[t].active => Answered \subseteq task[t].base \cup {Call[t]}
SavedInv == \A t \in Tasks : task[t].new.has /\ ~ task[t].migrated
                                 => Call[t] \in object[SlotOf[t]].dirty.memory
LatestInv == \A m \in msgs : m.type = "VDelegatedRequestFinished" /\ m.latest.has
                                 => IsOrdered(m.task) /\ Answered \subseteq m.latest.memory

(* The change of r is still to come to the present executor. *)
Coming(r) == \/ \E t \in Tasks : Taken(t) /\ Changed(task[t]) /\ Call[t] = r
             \/ \E m \in msgs : /\ m.type = "VDelegatedRequestFinished" /\ m.latest.has
                                /\ r \in m.latest.memory
Says(report, r) == report.Status = "Ready" => r \in report.ProvidedContent.memory
InReports(r) == /\ \A m \in msgs : m.type = "VStateReport" => Says(m.report, r)
                /\ \A p \in Pulses : clock[p] = p + 1 /\ Left(object[p]) => Says(object[p].report, r)
InObject(o, r) == o.state = "HasState" => r \in o.dirty.memory
Kept(r) == \A p \in Pulses : clock[p] = p =>
              /\ InObject(object[p], r)
              /\ object[p].state = "Unknown" => InReports(r)
KeptInv == \A r \in Answered : Coming(r) \/ Kept(r)
MemoryInv == NewsInv /\ EndInv /\ BaseInv /\ SavedInv /\ LatestInv /\ KeptInv

(* What most steps do to the machine of task t, and to an object x of      *)
(* pulse p, which becomes o                                                *)
Bases(t, tk) == IsOrdered(t) /\ tk.active => \/ task[t].active /\ tk.base = task[t].base
                                             \/ Answered \subseteq tk.base
SavedHere(tk) == tk.new.has /\ ~ tk.migrated
Carries(t, tk) == Taken(t) /\ Changed(task[t]) => tk.active /\ Changed(tk)
NewsKeeps(t, tk) == /\ TaskNews(tk, Call[t])
                    /\ Changed(tk) => Changed(task[t])
                    /\ Bases(t, tk)
BaseKept(t, tk) == /\ NewsKeeps(t, tk)
                   /\ SavedHere(tk) => \/ SavedHere(task[t])
                                       \/ Call[t] \in object'[SlotOf[t]].dirty.memory
AllSaved(p, o) == \A u \in Tasks : SlotOf[u] = p /\ SavedHere(task'[u]) => Call[u] \in o.dirty.memory
DirtyKept(p, o, x) == /\ o.dirty = x.dirty \/ AllSaved(p, o)
                      /\ (\E m \in msgs' : IsEnd(m)) => (Shut(x) => Shut(o))
MemoryKept(p, o, x) == /\ clock[p] = p => /\ o.state = x.state
                                          /\ o.dirty = x.dirty \/ Answered \subseteq o.dirty.memory
                       /\ clock[p] = p + 1 /\ Left(o) => Left(x) /\ o.report = x.report
Repeats(report) == \/ report.Status # "Ready"
                   \/ \E p \in Pulses : clock[p] = p + 1 /\ Left(object[p]) /\ object[p].report = report

LEMMA AnsweredLess ==
    ASSUME \A t \in Tasks : Changed(task'[t]) => Changed(task[t])
    PROVE  Answered' \subseteq Answered
BY DEF Answered, Changed

LEMMA TasksKept ==
    ASSUME MemoryInv, TypeOK,
           \A t \in Tasks : task'[t] = task[t] \/ BaseKept(t, task'[t]),
           \A p \in Pulses : object'[p] = object[p] \/ DirtyKept(p, object'[p], object[p])
    PROVE  NewsInv' /\ BaseInv' /\ SavedInv' /\ Answered' \subseteq Answered
<1>1. NewsInv /\ BaseInv /\ SavedInv
  BY DEF MemoryInv
<1>2. Answered' \subseteq Answered
  BY AnsweredLess DEF BaseKept, NewsKeeps
<1>3. \A t \in Tasks : TaskNews(task'[t], Call[t])
  BY <1>1 DEF NewsInv, BaseKept, NewsKeeps
<1>4. NewsInv'
  BY <1>3 DEF NewsInv, TaskNews, StepOf
<1>5. BaseInv'
  <2> SUFFICES ASSUME NEW t \in Tasks, IsOrdered(t), task'[t].active
               PROVE  Answered' \subseteq task'[t].base \cup {Call[t]}
    BY DEF BaseInv, IsOrdered
  <2>1. \/ task[t].active /\ task'[t].base = task[t].base
        \/ Answered \subseteq task'[t].base
    BY DEF BaseKept, NewsKeeps, Bases
  <2> QED
    BY <1>1, <1>2, <2>1 DEF BaseInv
<1>6. SavedInv'
  <2> SUFFICES ASSUME NEW t \in Tasks, SavedHere(task'[t])
               PROVE  Call[t] \in object'[SlotOf[t]].dirty.memory
    BY DEF SavedInv, SavedHere
  <2> DEFINE p == SlotOf[t]
  <2>1. p \in Pulses
    BY PulseFacts
  <2>2. \/ SavedHere(task[t])
        \/ Call[t] \in object'[p].dirty.memory
    BY DEF BaseKept
  <2>3. SavedHere(task[t]) => Call[t] \in object[p].dirty.memory
    BY <1>1 DEF SavedInv, SavedHere
  <2>4. object'[p].dirty = object[p].dirty \/ AllSaved(p, object'[p])
    BY <2>1 DEF DirtyKept
  <2> QED
    BY <2>2, <2>3, <2>4 DEF AllSaved
<1> QED
  BY <1>2, <1>4, <1>5, <1>6

LEMMA RestKept ==
    ASSUME MemoryInv, TypeOK,
           \A t \in Tasks : task'[t] = task[t] \/ BaseKept(t, task'[t]),
           \A p \in Pulses : object'[p] = object[p] \/ DirtyKept(p, object'[p], object[p]),
           \A m \in msgs' : m \in msgs \/ m.type # "VDelegatedRequestFinished"
    PROVE  /\ NewsInv' /\ EndInv' /\ BaseInv' /\ SavedInv' /\ LatestInv'
           /\ Answered' \subseteq Answered
<1>1. EndInv /\ LatestInv
  BY DEF MemoryInv
<1>2. NewsInv' /\ BaseInv' /\ SavedInv' /\ Answered' \subseteq Answered
  BY TasksKept
<1>3. \A m \in msgs' : IsEnd(m) => m \in msgs /\ m.to \in Pulses
  BY DEF IsEnd, TypeOK, MessageType
<1>4. EndInv'
  <2>1. ASSUME NEW m \in msgs', IsEnd(m) PROVE Shut(object'[m.to])
    <3>1. m \in msgs /\ m.to \in Pulses /\ Shut(object[m.to])
      BY <1>1, <1>3, <2>1 DEF EndInv
    <3> QED
      BY <2>1, <3>1 DEF DirtyKept
  <2>2. \A m, n \in msgs' : IsEnd(m) /\ IsEnd(n) => m = n
    BY <1>1, <1>3 DEF EndInv
  <2> QED
    BY <2>1, <2>2 DEF EndInv, IsEnd, Shut, IsOrdered
<1>5. LatestInv'
  BY <1>1, <1>2 DEF LatestInv, IsOrdered
<1> QED
  BY <1>2, <1>4, <1>5

LEMMA KeptStep ==
    ASSUME MemoryInv, clock' = clock, Answered' \subseteq Answered,
           \A t \in Tasks : task'[t] = task[t] \/ Carries(t, task'[t]),
           \A p \in Pulses : object'[p] = object[p] \/ MemoryKept(p, object'[p], object[p]),
           \A m \in msgs : \/ m \in msgs' \/ m.type # "VDelegatedRequestFinished"
                         \/ ~ m.latest.has,
           \A m \in msgs' : m \in msgs \/ (m.type = "VStateReport" => Repeats(m.report))
    PROVE  KeptInv'
<1> SUFFICES ASSUME NEW r \in Answered', ~ Coming(r)'
             PROVE  Kept(r)'
  BY DEF KeptInv
<1>1. r \in Answered /\ ~ Coming(r)
  <2>1. ASSUME NEW t \in Tasks, Taken(t), Changed(task[t]), Call[t] = r PROVE FALSE
    <3>1. task'[t].active /\ Changed(task'[t])
      BY <2>1 DEF Carries, Taken
    <3>2. Taken(t)'
      BY <2>1, <3>1 DEF Taken, NodeOf
    <3> QED
      BY <2>1, <3>1, <3>2 DEF Coming, Changed
  <2>2. ~ \E m \in msgs : /\ m.type = "VDelegatedRequestFinished" /\ m.latest.has
                          /\ r \in m.latest.memory
    BY DEF Coming
  <2> QED
    BY <2>1, <2>2 DEF Coming
<1>2. Kept(r)
  BY <1>1 DEF MemoryInv, KeptInv
<1>3. InReports(r) => InReports(r)'
  <2> SUFFICES ASSUME InReports(r) PROVE InReports(r)'
    OBVIOUS
  <2>1. \A p \in Pulses : clock[p] = p + 1 /\ Left(object[p]) => Says(object[p].report, r)
    BY DEF InReports
  <2>2. \A p \in Pulses : clock[p] = p + 1 /\ Left(object'[p]) => Says(object'[p].report, r)
    BY <2>1 DEF MemoryKept
  <2>3. \A m \in msgs' : m.type = "VStateReport" => Says(m.report, r)
    BY <2>1 DEF InReports, Repeats, Says
  <2> QED
    BY <2>2, <2>3 DEF InReports, Says, Left
<1>4. ASSUME NEW p \in Pulses, clock[p] = p
      PROVE  /\ InObject(object'[p], r)
             /\ object'[p].state = "Unknown" => InReports(r)'
  <2>1. /\ InObject(object[p], r)
        /\ object[p].state = "Unknown" => InReports(r)
    BY <1>2, <1>4 DEF Kept
  <2>2. /\ object'[p].state = object[p].state
        /\ object'[p].dirty = object[p].dirty \/ Answered \subseteq object'[p].dirty.memory
    BY <1>4 DEF MemoryKept
  <2> QED
    BY <1>1, <1>3, <2>1, <2>2 DEF InObject
<1> QED
  BY <1>4 DEF Kept, InObject

(* A step of the machine of task t that leaves the state alone *)
SameMemory(o, x) ==
    /\ o.dirty = x.dirty /\ o.state = x.state /\ o.execute = x.execute
    /\ o.prevPending = x.prevPending /\ o.report = x.report /\ Left(o) = Left(x)
Goes(t, tk) == /\ NewsKeeps(t, tk) /\ Carries(t, tk)
               /\ SavedHere(tk) => SavedHere(task[t])

LEMMA SameMemoryKept ==
    ASSUME NEW p, NEW o, NEW x, SameMemory(o, x)
    PROVE  DirtyKept(p, o, x) /\ MemoryKept(p, o, x)
BY DEF SameMemory, DirtyKept, MemoryKept, Shut

LEMMA MemoryTask ==
    ASSUME TypeOK, MemoryInv, clock' = clock, msgs' = msgs, NEW t \in Tasks, NEW tk,
           task' = [task EXCEPT ![t] = tk], Goes(t, tk),
           \A p \in Pulses : object'[p] = object[p] \/ SameMemory(object'[p], object[p])
    PROVE  MemoryInv'
<1>1. task'[t] = tk /\ \A u \in Tasks : u # t => task'[u] = task[u]
  BY DEF TypeOK
<1>2. \A u \in Tasks : task'[u] = task[u] \/ (BaseKept(u, task'[u]) /\ Carries(u, task'[u]))
  BY <1>1 DEF Goes, BaseKept
<1>3. \A p \in Pulses : object'[p] = object[p]
          \/ (DirtyKept(p, object'[p], object[p]) /\ MemoryKept(p, object'[p], object[p]))
  BY SameMemoryKept
<1>4. /\ NewsInv' /\ EndInv' /\ BaseInv' /\ SavedInv' /\ LatestInv'
      /\ Answered' \subseteq Answered
  BY <1>2, <1>3, RestKept
<1>5. KeptInv'
  BY <1>2, <1>3, <1>4, KeptStep
<1> QED
  BY <1>4, <1>5 DEF MemoryInv

(* A machine stops. *)
LEMMA EndNews ==
    ASSUME NEW t \in Tasks, NEW x, NEW pc \in Ended, x.outcome = task[t].outcome,
           x.answer = task[t].answer \/ x.answer # "ok"
    PROVE  NewsKeeps(t, EndTask(x, pc)) /\ ~ SavedHere(EndTask(x, pc)) /\ ~ EndTask(x, pc).active
<1> DEFINE e == EndTask(x, pc)
<1>1. /\ e.pc = pc /\ ~ e.active /\ e.outcome = x.outcome /\ e.answer = x.answer
      /\ ~ e.new.has /\ e.sent = 0
  BY DEF EndTask, IdleTask, NoDescriptor
<1> HIDE DEF e
<1>2. /\ pc # "getToken" /\ pc \notin EarlySteps \cup {"idle", "execute"}
      /\ pc \notin {"sendCallResult", "finishRequest"}
  BY DEF Ended, EarlySteps
<1>3. StepOf(e) = pc
  BY <1>1, <1>2 DEF StepOf
<1>4. TaskNews(e, Call[t])
  BY <1>1, <1>2, <1>3 DEF TaskNews
<1>5. Changed(e) => Changed(task[t])
  BY <1>1 DEF Changed
<1> QED
  BY <1>1, <1>4, <1>5 DEF NewsKeeps, Bases, SavedHere, e

LEMMA EndGoes ==
    ASSUME NEW t \in Tasks, NEW x, NEW pc \in Ended, x.outcome = task[t].outcome,
           x.answer = task[t].answer \/ x.answer # "ok", ~ (Taken(t) /\ Changed(task[t]))
    PROVE  Goes(t, EndTask(x, pc))
BY EndNews DEF Goes, Carries

(* A machine that has not started its code moves on. *)
LEMMA EarlyGoes ==
    ASSUME NewsInv, NEW t \in Tasks, NEW tk, task[t].pc \in EarlySteps \cup {"idle"},
           ~ task[t].active, ~ tk.active, tk.new = task[t].new, tk.sent = task[t].sent,
           tk.answer = task[t].answer,
           \/ tk.pc \in EarlySteps /\ tk.outcome = task[t].outcome
           \/ tk.pc = "sendCallResult" /\ tk.outcome = "error"
    PROVE  Goes(t, tk)
<1>1. TaskNews(task[t], Call[t])
  BY DEF NewsInv
<1>2. /\ task[t].pc # "getToken" /\ task[t].pc \notin Ended /\ task[t].pc # "execute"
      /\ tk.pc # "getToken" /\ tk.pc # "execute"
  BY DEF EarlySteps, Ended
<1>3. StepOf(task[t]) = task[t].pc /\ StepOf(tk) = tk.pc
  BY <1>2 DEF StepOf
<1>4. /\ task[t].outcome = "none" /\ ~ task[t].new.has /\ ~ (task[t].sent > 0)
      /\ task[t].answer # "ok"
  BY <1>1, <1>2, <1>3 DEF TaskNews, EarlySteps
<1>5. tk.outcome # "change" /\ tk.pc # "finishRequest" /\ tk.pc \in EarlySteps => tk.outcome = "none"
  BY <1>4 DEF EarlySteps
<1>6. tk.pc \in EarlySteps => tk.pc # "sendCallResult"
  BY DEF EarlySteps
<1>7. TaskNews(tk, Call[t])
  BY <1>2, <1>3, <1>4, <1>5, <1>6 DEF TaskNews, Changed, EarlySteps
<1> QED
  BY <1>4, <1>5, <1>7 DEF Goes, NewsKeeps, Bases, Carries, SavedHere, Changed, Taken

(* The object of one executor changes in what does not matter here. *)
LEMMA OneObject ==
    ASSUME TypeOK, NEW p \in Pulses, NEW o, SameMemory(o, object[p]),
           object' = [object EXCEPT ![p] = o]
    PROVE  \A q \in Pulses : object'[q] = object[q] \/ SameMemory(object'[q], object[q])
BY DEF TypeOK

(* The steps before the contract code that touch no object *)
LEMMA EarlyMemory ==
    ASSUME ExecutorInv, PlainInv, MemoryInv, RepeatedSoon, NEW t \in Tasks,
           \/ StepWaitObjectReady(t) \/ StepWaitPendingConstructorFinished(t)
           \/ AnswerFindCall(t) \/ StepProcessFindCallResponse(t) \/ StepTakeLock(t)
           \/ StepRegisterObjectLifelineAfter(t)
    PROVE  MemoryInv'
<1>1. /\ TypeOK /\ task[t] \in TaskType /\ TaskOK(task[t], NodeOf(t), SlotOf[t]) /\ NewsInv
      /\ Call[t] \notin Constructors
  BY TypeFacts DEF ExecutorInv, LocalInv, TaskInv, MemoryInv, RepeatedSoon
<1>2. task[t].pc \in EarlySteps /\ task[t].pc # "lifeline"
  BY DEF StepWaitObjectReady, StepWaitPendingConstructorFinished, AnswerFindCall,
         StepProcessFindCallResponse, StepTakeLock, StepRegisterObjectLifelineAfter, Step, At,
         EarlySteps, PlainInv, TaskPlain
<1>3. ~ task[t].active
  BY <1>1, <1>2 DEF TaskOK, EarlySteps, ActingSteps
<1>4. clock' = clock /\ object' = object /\ msgs' = msgs
  BY <1>2 DEF StepWaitObjectReady, StepWaitPendingConstructorFinished, AnswerFindCall,
         StepProcessFindCallResponse, StepTakeLock, StepRegisterObjectLifelineAfter, Step, At
<1>5. ASSUME NEW x, NEW pc \in Ended, task' = [task EXCEPT ![t] = EndTask(x, pc)],
             x.outcome = task[t].outcome, x.answer = task[t].answer \/ x.answer = "resent"
      PROVE  MemoryInv'
  <2>1. Goes(t, EndTask(x, pc))
    BY <1>3, <1>5, EndGoes DEF Taken
  <2> QED
    BY <1>1, <1>4, <1>5, <2>1, MemoryTask
<1>6. ASSUME NEW tk, task' = [task EXCEPT ![t] = tk], tk.active = task[t].active,
             tk.new = task[t].new, tk.sent = task[t].sent, tk.answer = task[t].answer,
             \/ tk.pc \in EarlySteps /\ tk.outcome = task[t].outcome
             \/ tk.pc = "sendCallResult" /\ tk.outcome = "error"
      PROVE  MemoryInv'
  <2>1. Goes(t, tk)
    BY <1>1, <1>2, <1>3, <1>6, EarlyGoes
  <2> QED
    BY <1>1, <1>4, <1>6, <2>1, MemoryTask
<1>7. CASE StepWaitObjectReady(t) \/ StepWaitPendingConstructorFinished(t)
  <2>1. PICK tk : /\ task' = [task EXCEPT ![t] = tk]
                  /\ \/ tk = EndTask(task[t], "dead")
                     \/ tk = [task[t] EXCEPT !.pc = "sendCallResult", !.outcome = "error"]
                     \/ tk = [task[t] EXCEPT !.pc = "waitConstructor"]
                     \/ tk = [task[t] EXCEPT !.pc = "deduplicate", !.negotiated = TRUE]
    <3>1. /\ [Goto(t, "sendCallResult") EXCEPT !.outcome = "error"]
                = [task[t] EXCEPT !.pc = "sendCallResult", !.outcome = "error"]
          /\ Goto(t, "waitConstructor") = [task[t] EXCEPT !.pc = "waitConstructor"]
          /\ [Goto(t, "deduplicate") EXCEPT !.negotiated = TRUE]
                = [task[t] EXCEPT !.pc = "deduplicate", !.negotiated = TRUE]
      BY <1>1 DEF Goto
    <3> QED
      BY <1>7, <3>1 DEF StepWaitObjectReady, StepWaitPendingConstructorFinished, Step,
                        StepIsolationNegotiation
  <2>2. CASE tk = EndTask(task[t], "dead")
    BY <1>5, <2>1, <2>2 DEF Ended
  <2>3. CASE tk # EndTask(task[t], "dead")
    <3>1. /\ tk.active = task[t].active /\ tk.new = task[t].new /\ tk.sent = task[t].sent
          /\ tk.answer = task[t].answer
          /\ \/ tk.pc \in {"waitConstructor", "deduplicate"} /\ tk.outcome = task[t].outcome
             \/ tk.pc = "sendCallResult" /\ tk.outcome = "error"
      BY <1>1, <2>1, <2>3 DEF TaskType
    <3> QED
      BY <1>6, <2>1, <3>1 DEF EarlySteps
  <2> QED
    BY <2>2, <2>3
<1>8. CASE AnswerFindCall(t)
  <2>1. PICK find : task' = [task EXCEPT ![t] = [task[t] EXCEPT !.find = find]]
    BY <1>8 DEF AnswerFindCall, Step
  <2> DEFINE tk == [task[t] EXCEPT !.find = find]
  <2>2. /\ tk.active = task[t].active /\ tk.new = task[t].new /\ tk.sent = task[t].sent
        /\ tk.answer = task[t].answer
        /\ tk.pc = task[t].pc /\ tk.outcome = task[t].outcome
    BY <1>1 DEF TaskType
  <2> HIDE DEF tk
  <2> QED
    BY <1>2, <1>6, <2>1, <2>2 DEF tk
<1>9. CASE StepProcessFindCallResponse(t)
  <2>1. task[t].find \in {"result", "running", "notFound"}
    BY <1>1, <1>9 DEF StepProcessFindCallResponse, TaskType
  <2>2. \/ task' = [task EXCEPT ![t] = EndTask(task[t], "deduplicated")]
        \/ task' = [task EXCEPT ![t] = EndTask([task[t] EXCEPT !.answer = "resent"], "deduplicated")]
        \/ task' = [task EXCEPT ![t] = Goto(t, "takeLock")]
    BY <1>1, <1>9, <2>1 DEF StepProcessFindCallResponse, Step
  <2> DEFINE tk == Goto(t, "takeLock")
             x == [task[t] EXCEPT !.answer = "resent"]
  <2>3. /\ tk.active = task[t].active /\ tk.new = task[t].new /\ tk.sent = task[t].sent
        /\ tk.answer = task[t].answer
        /\ tk.pc = "takeLock" /\ tk.outcome = task[t].outcome
        /\ x.answer = "resent" /\ x.outcome = task[t].outcome
    BY <1>1 DEF TaskType, Goto
  <2> HIDE DEF tk, x
  <2>4. "deduplicated" \in Ended /\ "takeLock" \in EarlySteps
    BY DEF Ended, EarlySteps
  <2>5. CASE task' = [task EXCEPT ![t] = EndTask(task[t], "deduplicated")]
    BY <1>5, <2>4, <2>5
  <2>6. CASE task' = [task EXCEPT ![t] = EndTask(x, "deduplicated")]
    BY <1>5, <2>3, <2>4, <2>6
  <2>7. CASE task' = [task EXCEPT ![t] = tk]
    BY <1>6, <2>3, <2>4, <2>7
  <2> QED
    BY <2>2, <2>5, <2>6, <2>7 DEF tk, x
<1>10. CASE StepTakeLock(t)
  <2> DEFINE tk == [Goto(t, "start") EXCEPT !.lock = TRUE]
  <2>1. task' = [task EXCEPT ![t] = tk]
    BY <1>1, <1>10 DEF StepTakeLock, Step
  <2>2. /\ tk.active = task[t].active /\ tk.new = task[t].new /\ tk.sent = task[t].sent
        /\ tk.answer = task[t].answer
        /\ tk.pc = "start" /\ tk.outcome = task[t].outcome
    BY <1>1 DEF TaskType, Goto
  <2> HIDE DEF tk
  <2> QED
    BY <1>6, <2>1, <2>2 DEF EarlySteps
<1>11. CASE StepRegisterObjectLifelineAfter(t)
  BY <1>2, <1>11 DEF StepRegisterObjectLifelineAfter, Step, At
<1> QED
  BY <1>7, <1>8, <1>9, <1>10, <1>11

(* stepDeduplicate *)
LEMMA DeduplicateMemory ==
    ASSUME ExecutorInv, MemoryInv, NEW t \in Tasks, StepDeduplicate(t)
    PROVE  MemoryInv'
<1> DEFINE p == SlotOf[t]
           f == FlagOf[Call[t]]
           x == object[p]
           list == WorkingAdd(x.known[f], Call[t])
           o == [x EXCEPT !.known[f] = list]
<1>1. /\ TypeOK /\ task[t] \in TaskType /\ p \in Pulses /\ x \in ObjectType
      /\ clock' = clock /\ msgs' = msgs /\ NewsInv /\ task[t].pc = "deduplicate"
      /\ TaskOK(task[t], NodeOf(t), SlotOf[t])
  BY TypeFacts, PulseFacts DEF ExecutorInv, StepDeduplicate, Step, At, MemoryInv, LocalInv, TaskInv
<1>2. object' = [object EXCEPT ![p] = o]
  <2>1. object' = [object EXCEPT ![p].known[f] = list]
    BY DEF StepDeduplicate, ObjectOf
  <2> HIDE DEF list
  <2> QED
    BY <1>1, <2>1
<1> HIDE DEF list
<1>3. SameMemory(o, x)
  BY <1>1 DEF ObjectType, SameMemory, Left
<1> HIDE DEF o
<1>4. \A q \in Pulses : object'[q] = object[q] \/ SameMemory(object'[q], object[q])
  BY <1>1, <1>2, <1>3, OneObject
<1>5. ~ task[t].active
  BY <1>1 DEF TaskOK, ActingSteps
<1>6. \/ \E pc \in Ended : task' = [task EXCEPT ![t] = EndTask(task[t], pc)]
      \/ task' = [task EXCEPT ![t] = EndTask([task[t] EXCEPT !.answer = "resent"], "deduplicated")]
      \/ task' = [task EXCEPT ![t] = Goto(t, "takeLock")]
      \/ \E b : task' = [task EXCEPT ![t] = [Goto(t, "waitFindCall") EXCEPT !.settled = b]]
  <2>1. DeduplicationAction(t) \in {"ContinueExecute", "Stop", "NotImplemented",
                                    "DeduplicateThroughPreviousExecutor"}
    BY DEF DeduplicationAction
  <2>2. "deduplicated" \in Ended /\ "dead" \in Ended
    BY DEF Ended
  <2> QED
    BY <2>1, <2>2 DEF StepDeduplicate, Step, ObjectOf
<1>7. ASSUME NEW tk, tk.active = task[t].active, tk.new = task[t].new,
             tk.sent = task[t].sent, tk.answer = task[t].answer,
             tk.pc \in {"takeLock", "waitFindCall"}, tk.outcome = task[t].outcome
      PROVE  Goes(t, tk)
  BY <1>1, <1>5, <1>7, EarlyGoes DEF EarlySteps
<1>8. ASSUME NEW b PROVE Goes(t, [Goto(t, "waitFindCall") EXCEPT !.settled = b])
  <2> DEFINE tk == [Goto(t, "waitFindCall") EXCEPT !.settled = b]
  <2>1. /\ tk.active = task[t].active /\ tk.new = task[t].new /\ tk.sent = task[t].sent
        /\ tk.answer = task[t].answer
        /\ tk.pc = "waitFindCall" /\ tk.outcome = task[t].outcome
    BY <1>1 DEF Goto, TaskType
  <2> HIDE DEF tk
  <2>2. Goes(t, tk)
    BY <1>7, <2>1
  <2> QED
    BY <2>2 DEF tk
<1>9. Goes(t, Goto(t, "takeLock"))
  <2> DEFINE tk == Goto(t, "takeLock")
  <2>1. /\ tk.active = task[t].active /\ tk.new = task[t].new /\ tk.sent = task[t].sent
        /\ tk.answer = task[t].answer
        /\ tk.pc = "takeLock" /\ tk.outcome = task[t].outcome
    BY <1>1 DEF Goto, TaskType
  <2> HIDE DEF tk
  <2>2. Goes(t, tk)
    BY <1>7, <2>1
  <2> QED
    BY <2>2 DEF tk
<1>10. Goes(t, EndTask([task[t] EXCEPT !.answer = "resent"], "deduplicated"))
  <2> DEFINE y == [task[t] EXCEPT !.answer = "resent"]
  <2>1. y.outcome = task[t].outcome /\ y.answer = "resent" /\ "deduplicated" \in Ended
    BY <1>1 DEF TaskType, Ended
  <2> HIDE DEF y
  <2>2. Goes(t, EndTask(y, "deduplicated"))
    BY <1>5, <2>1, EndGoes DEF Taken
  <2> QED
    BY <2>2 DEF y
<1>11. \A pc \in Ended : Goes(t, EndTask(task[t], pc))
  BY <1>5, EndGoes DEF Taken
<1>12. PICK tk : task' = [task EXCEPT ![t] = tk] /\ Goes(t, tk)
  BY <1>6, <1>8, <1>9, <1>10, <1>11
<1> QED
  BY <1>1, <1>4, <1>12, MemoryTask

(* An executor that is open for ordered calls waits for none. *)
LEMMA OpenHeard ==
    ASSUME OrderInv, MemoryInv, NEW p \in Pulses, clock[p] = p, object[p].execute[Tolerable]
    PROVE  ~ Awaited /\ \A m \in msgs : ~ IsEnd(m)
<1>1. ~ Shut(object[p])
  BY DEF Shut
<1>2. ~ Awaited
  BY <1>1 DEF OrderInv, WaitInv
<1>3. \A m \in msgs : m.to = p
  BY DEF OrderInv, TogetherInv
<1> QED
  BY <1>1, <1>2, <1>3 DEF MemoryInv, EndInv

(* While an ordered call runs, no other one's end is on its way. *)
LEMMA RunningAlone ==
    ASSUME ExecutorInv, OrderInv, MemoryInv, NEW t \in Tasks, IsOrdered(t), task[t].active
    PROVE  \A m \in msgs : ~ IsEnd(m)
<1>1. /\ TaskOK(task[t], NodeOf(t), SlotOf[t]) /\ SlotOf[t] \in Pulses /\ SlotOf[t] \in Nat
      /\ NodeOf(t) \in Nat
  BY TypeFacts, PulseFacts DEF ExecutorInv, LocalInv, TaskInv
<1>2. CASE SlotOf[t] < NodeOf(t)
  <2>1. Awaited
    BY <1>2 DEF Awaited, TakenOn
  <2> QED
    BY <2>1 DEF OrderInv, WaitInv, Harmless, IsEnd
<1>3. CASE NodeOf(t) = SlotOf[t]
  <2>1. object[SlotOf[t]].execute[Tolerable]
    BY <1>1, <1>3 DEF TaskOK, ExecutorInv, LocalInv, LockInv
  <2> QED
    BY <1>1, <1>3, <2>1, OpenHeard DEF NodeOf
<1> QED
  BY <1>1, <1>2, <1>3 DEF TaskOK

(* The memory that an ordered call starts on has every change that was     *)
(* answered.                                                               *)
LEMMA FreshMemory ==
    ASSUME OrderInv, PlainInv, MemoryInv, NEW p \in Pulses, clock[p] = p,
           object[p].execute[Tolerable], object[p].state = "HasState"
    PROVE  Answered \subseteq object[p].dirty.memory
<1> SUFFICES ASSUME NEW r \in Answered PROVE r \in object[p].dirty.memory
  OBVIOUS
<1>1. ~ Awaited /\ \A m \in msgs : ~ IsEnd(m)
  BY OpenHeard
<1>2. ~ Coming(r)
  <2>1. \A t \in Tasks : ~ (Taken(t) /\ Changed(task[t]))
    BY <1>1 DEF Taken, Awaited, TakenOn, Changed, PlainInv, TaskPlain
  <2>2. \A m \in msgs : ~ (m.type = "VDelegatedRequestFinished" /\ m.latest.has)
    BY <1>1 DEF IsEnd, MemoryInv, LatestInv
  <2> QED
    BY <2>1, <2>2 DEF Coming
<1> QED
  BY <1>2 DEF MemoryInv, KeptInv, Kept, InObject

(* stepStartRequestProcessing: the step that takes the memory *)
LEMMA StartFacts ==
    ASSUME ExecutorInv, OnceInv, UseInv, OrderInv, PlainInv, PanicInv, MemoryInv,
           NEW t \in Tasks, StepStartRequestProcessing(t)
    PROVE  /\ task' = [task EXCEPT ![t] = [Goto(t, "execute") EXCEPT !.active = TRUE, !.ran = TRUE,
                                              !.base = object[SlotOf[t]].dirty.memory]]
           /\ object' = [object EXCEPT ![SlotOf[t]] = KnownSetActive(@, Call[t])]
           /\ IsOrdered(t) => Answered \subseteq object[SlotOf[t]].dirty.memory
<1> DEFINE p == SlotOf[t]
           x == object[p]
<1>1. TypeOK /\ task[t].pc = "start" /\ TaskOK(task[t], NodeOf(t), p)
  BY DEF ExecutorInv, StepStartRequestProcessing, Step, At, LocalInv, TaskInv
<1>2. /\ NodeOf(t) = p /\ p \in Pulses /\ x \in ObjectType /\ clock[p] = p
  BY <1>1, EarlyNode, PulseFacts DEF EarlySteps, NodeOf
<1>3. CanSetActive(x.known[FlagOf[Call[t]]], Call[t])
  BY <1>1 DEF PanicInv, OwnInv, Begun, OwnSteps, CanSetActive
<1>4. x.dirty.has /\ ~ IsDeactivated(x) /\ x.state = "HasState"
  BY <1>1, ReadyState DEF ReadySteps, OwnSteps, IsDeactivated
<1>5. IsOrdered(t) => x.execute[Tolerable]
  BY <1>1, <1>2 DEF TaskOK, ExecutorInv, LocalInv, LockInv
<1>6. IsOrdered(t) => Answered \subseteq x.dirty.memory
  BY <1>2, <1>4, <1>5, FreshMemory
<1> QED
  BY <1>3, <1>4, <1>6 DEF StepStartRequestProcessing, Step, ObjectOf

LEMMA StartMemory ==
    ASSUME ExecutorInv, OnceInv, UseInv, OrderInv, PlainInv, PanicInv, MemoryInv,
           NEW t \in Tasks, StepStartRequestProcessing(t)
    PROVE  MemoryInv'
<1> DEFINE p == SlotOf[t]
           r == Call[t]
           x == object[p]
           run == [Goto(t, "execute") EXCEPT !.active = TRUE, !.ran = TRUE, !.base = x.dirty.memory]
           o == KnownSetActive(x, r)
<1>1. /\ TypeOK /\ task[t].pc = "start" /\ clock' = clock /\ msgs' = msgs /\ p \in Pulses
      /\ task[t] \in TaskType /\ x \in ObjectType /\ TaskOK(task[t], NodeOf(t), p)
      /\ TaskNews(task[t], r)
  BY TypeFacts, PulseFacts DEF ExecutorInv, StepStartRequestProcessing, Step, At, LocalInv,
     TaskInv, MemoryInv, NewsInv
<1>2. /\ task' = [task EXCEPT ![t] = run]
      /\ object' = [object EXCEPT ![p] = o]
      /\ IsOrdered(t) => Answered \subseteq x.dirty.memory
  BY <1>1, StartFacts DEF TypeOK
<1>3. SameMemory(o, x)
  BY <1>1 DEF KnownSetActive, ObjectType, SameMemory, Left
<1>4. ~ task[t].active
  BY <1>1 DEF TaskOK, ActingSteps
<1>5. /\ run.pc = "execute" /\ run.active /\ run.base = x.dirty.memory /\ run.new = task[t].new
      /\ run.outcome = task[t].outcome /\ run.sent = task[t].sent /\ run.answer = task[t].answer
  BY <1>1 DEF Goto, TaskType
<1> HIDE DEF o, run
<1>6. StepOf(task[t]) = "start" /\ StepOf(run) = "execute"
  BY <1>1, <1>5 DEF StepOf
<1>7. /\ task[t].outcome = "none" /\ ~ task[t].new.has /\ ~ (task[t].sent > 0)
      /\ task[t].answer # "ok"
  BY <1>1, <1>4, <1>6 DEF TaskNews, EarlySteps, Ended
<1>8. TaskNews(run, r)
  BY <1>5, <1>6, <1>7 DEF TaskNews, Changed
<1>9. Goes(t, run)
  BY <1>2, <1>4, <1>5, <1>7, <1>8 DEF Goes, NewsKeeps, Bases, Carries, SavedHere, Changed, Taken
<1> QED
  BY <1>1, <1>2, <1>3, <1>9, OneObject, MemoryTask

(* A machine that runs its code, or ends a call, takes a step. *)
LEMMA ActGoes ==
    ASSUME NewsInv, NEW t \in Tasks, NEW tk, TaskNews(tk, Call[t]),
           tk.active = task[t].active, tk.base = task[t].base, tk.migrated = task[t].migrated,
           tk.new = task[t].new, Changed(tk) = Changed(task[t])
    PROVE  Goes(t, tk)
BY DEF Goes, NewsKeeps, Bases, Carries, SavedHere, Taken

(* The steps in the contract code *)
LEMMA CodeMemory ==
    ASSUME ExecutorInv, PlainInv, MemoryInv, NEW t \in Tasks,
           \/ StepSendOutgoing(t) \/ StepExecuteContinue(t) \/ StepExecuteDecideNextStep(t)
    PROVE  MemoryInv'
<1>1. /\ TypeOK /\ task[t] \in TaskType /\ TaskOK(task[t], NodeOf(t), SlotOf[t])
      /\ TaskNews(task[t], Call[t]) /\ NewsInv
  BY TypeFacts DEF ExecutorInv, LocalInv, TaskInv, MemoryInv, NewsInv
<1>2. clock' = clock /\ object' = object /\ msgs' = msgs /\ task[t].pc = "execute"
  BY DEF StepSendOutgoing, StepExecuteContinue, StepExecuteDecideNextStep, Step, At
<1>3. task[t].active /\ StepOf(task[t]) = "execute"
  BY <1>1, <1>2 DEF TaskOK, StepOf
<1>4. /\ task[t].outcome = "none" /\ ~ task[t].new.has /\ task[t].answer # "ok"
      /\ task[t].sent > 0 => Call[t] \in Callers /\ ~ task[t].called
  BY <1>1, <1>3 DEF TaskNews, Ended
<1>5. ASSUME NEW tk, task' = [task EXCEPT ![t] = tk], TaskNews(tk, Call[t]), ~ Changed(tk),
             tk.active = task[t].active, tk.base = task[t].base,
             tk.migrated = task[t].migrated, tk.new = task[t].new
      PROVE  MemoryInv'
  <2>1. Goes(t, tk)
    BY <1>1, <1>4, <1>5, ActGoes DEF Changed
  <2> QED
    BY <1>1, <1>2, <1>5, <2>1, MemoryTask
<1>6. CASE StepSendOutgoing(t)
  <2> DEFINE tk == [task[t] EXCEPT !.sent = 1]
  <2>1. task' = [task EXCEPT ![t] = tk] /\ Call[t] \in Callers /\ ~ task[t].called
    BY <1>6 DEF StepSendOutgoing, Step
  <2>2. /\ tk.active = task[t].active /\ tk.base = task[t].base /\ tk.called = task[t].called
        /\ tk.migrated = task[t].migrated /\ tk.new = task[t].new /\ tk.answer = task[t].answer
        /\ tk.outcome = task[t].outcome /\ tk.pc = "execute" /\ tk.sent = 1
    BY <1>1, <1>2 DEF TaskType
  <2> HIDE DEF tk
  <2>3. TaskNews(tk, Call[t]) /\ ~ Changed(tk)
    BY <1>3, <1>4, <2>1, <2>2 DEF TaskNews, Changed, StepOf
  <2> QED
    BY <1>5, <2>1, <2>2, <2>3
<1>7. CASE StepExecuteContinue(t)
  <2> DEFINE tk == [task[t] EXCEPT !.sent = 0, !.called = TRUE]
  <2>1. task' = [task EXCEPT ![t] = tk]
    BY <1>7 DEF StepExecuteContinue, Step
  <2>2. /\ tk.active = task[t].active /\ tk.base = task[t].base
        /\ tk.migrated = task[t].migrated /\ tk.new = task[t].new /\ tk.answer = task[t].answer
        /\ tk.outcome = task[t].outcome /\ tk.pc = "execute" /\ tk.sent = 0
    BY <1>1, <1>2 DEF TaskType
  <2> HIDE DEF tk
  <2>3. TaskNews(tk, Call[t]) /\ ~ Changed(tk)
    BY <1>3, <1>4, <2>2 DEF TaskNews, Changed, StepOf
  <2> QED
    BY <1>5, <2>1, <2>2, <2>3
<1>8. CASE StepExecuteDecideNextStep(t)
  <2>1. Call[t] \in Callers => task[t].called
    BY <1>8 DEF StepExecuteDecideNextStep
  <2>2. PICK pc, outcome :
           /\ task' = [task EXCEPT ![t] = [Goto(t, pc) EXCEPT !.outcome = outcome]]
           /\ \/ pc = "sendCallResult" /\ outcome = "error"
              \/ pc = "saveNewObject"
    BY <1>8 DEF StepExecuteDecideNextStep, Step
  <2> DEFINE tk == [Goto(t, pc) EXCEPT !.outcome = outcome]
  <2>3. /\ tk.active = task[t].active /\ tk.base = task[t].base
        /\ tk.migrated = task[t].migrated /\ tk.new = task[t].new /\ tk.answer = task[t].answer
        /\ tk.outcome = outcome /\ tk.pc = pc /\ tk.sent = task[t].sent
    BY <1>1, <1>2 DEF TaskType, Goto
  <2> HIDE DEF tk
  <2>4. TaskNews(tk, Call[t]) /\ ~ Changed(tk)
    BY <1>3, <1>4, <2>1, <2>2, <2>3 DEF TaskNews, Changed, StepOf, EarlySteps
  <2> QED
    BY <1>5, <2>2, <2>3, <2>4 DEF tk
<1> QED
  BY <1>6, <1>7, <1>8

(* A call that runs in its own pulse runs on an object that has a state. *)
LEMMA HomeState ==
    ASSUME ExecutorInv, UseInv, OrderInv, PlainInv, NEW t \in Tasks, task[t].active,
           NodeOf(t) = SlotOf[t]
    PROVE  object[SlotOf[t]].state = "HasState"
<1>1. SlotOf[t] \in Pulses /\ clock[SlotOf[t]] = SlotOf[t] /\ SlotOf[t] \in Nat
  BY PulseFacts DEF NodeOf
<1>2. Live(SlotOf[t])
  BY <1>1 DEF Live
<1>3. InProcess(object[SlotOf[t]], Call[t])
  BY DEF OrderInv, RunsInv
<1>4. ~ NoKnown(object[SlotOf[t]])
  BY <1>3, CallFacts DEF InProcess, NoKnown, Entered
<1> QED
  BY <1>1, <1>2, <1>4 DEF UseInv, StaticInv, UnusedInv, PlainInv, ObjectPlain

(* stepSaveNewObject: the only ordered call that runs *)
LEMMA SaveNewObjectMemory ==
    ASSUME ExecutorInv, UseInv, OrderInv, PlainInv, MemoryInv, NEW t \in Tasks,
           StepSaveNewObject(t)
    PROVE  MemoryInv'
<1> DEFINE p == SlotOf[t]
           x == object[p]
           tk == task[t]
           new == IF tk.outcome = "none" THEN NoDescriptor
                  ELSE NewDescriptor(tk.base \cup {Call[t]}, FALSE)
           done == [Goto(t, "sendCallResult") EXCEPT !.new = new]
           saved == [x EXCEPT !.dirty = new, !.state = "HasState"]
<1>1. /\ TypeOK /\ tk \in TaskType /\ p \in Pulses /\ x \in ObjectType
      /\ TaskOK(tk, NodeOf(t), p) /\ p \in Nat /\ TaskPlain(t, tk) /\ TaskNews(tk, Call[t])
  BY TypeFacts, PulseFacts DEF ExecutorInv, LocalInv, TaskInv, PlainInv, MemoryInv, NewsInv
<1>2. clock' = clock /\ msgs' = msgs /\ tk.pc = "saveNewObject"
  BY DEF StepSaveNewObject, Step, At
<1>3. tk.active /\ StepOf(tk) = "saveNewObject"
  BY <1>1, <1>2 DEF TaskOK, StepOf
<1>4. ~ tk.migrated => x.state = "HasState"
  BY <1>1, <1>3, HomeState DEF TaskOK
<1>5. tk.outcome \in {"none", "change"}
  BY <1>1, <1>2 DEF TaskPlain, TaskOK, TaskType, Outcome
<1>6. new.has <=> tk.outcome = "change"
  BY <1>5 DEF NoDescriptor, NewDescriptor
<1>7. /\ task' = [task EXCEPT ![t] = done]
      /\ object' = IF ~ tk.migrated /\ new.has THEN [object EXCEPT ![p] = saved] ELSE object
  BY <1>1, <1>4, <1>5 DEF StepSaveNewObject, Step, ObjectOf, SaveDescriptor, TypeOK
<1>8. tk.outcome = "change" => new.memory = tk.base \cup {Call[t]}
  BY DEF NewDescriptor
<1> HIDE DEF new
<1>9. /\ done.pc = "sendCallResult" /\ done.active = tk.active /\ done.base = tk.base
      /\ done.migrated = tk.migrated /\ done.new = new /\ done.outcome = tk.outcome
      /\ done.sent = tk.sent /\ done.answer = tk.answer
  BY <1>1 DEF Goto, TaskType
<1>10. x.state = "HasState" =>
          /\ saved.dirty = new /\ saved.state = x.state /\ saved.execute = x.execute
          /\ saved.prevPending = x.prevPending /\ saved.report = x.report /\ saved.phase = x.phase
  BY <1>1 DEF ObjectType
<1> HIDE DEF done, saved
<1>11. tk.answer # "ok" /\ ~ (tk.sent > 0)
  BY <1>1, <1>3 DEF TaskNews, Ended
<1>12. NewsKeeps(t, done) /\ Carries(t, done)
  <2>1. StepOf(done) = "sendCallResult"
    BY <1>9 DEF StepOf
  <2>2. TaskNews(done, Call[t])
    BY <1>3, <1>6, <1>8, <1>9, <1>11, <2>1 DEF TaskNews, EarlySteps
  <2> QED
    BY <1>3, <1>9, <1>11, <2>2 DEF NewsKeeps, Carries, Bases, Changed
<1>13. CASE tk.migrated \/ ~ new.has
  <2>1. Goes(t, done) /\ object' = object
    BY <1>7, <1>9, <1>12, <1>13 DEF Goes, SavedHere
  <2> QED
    BY <1>1, <1>2, <1>7, <2>1, MemoryTask
<1>14. CASE ~ tk.migrated /\ new.has
  <2>1. object' = [object EXCEPT ![p] = saved]
    BY <1>7, <1>14
  <2>2. /\ object'[p] = saved /\ \A q \in Pulses : q # p => object'[q] = object[q]
        /\ task'[t] = done /\ \A u \in Tasks : u # t => task'[u] = task[u]
    BY <1>1, <1>7, <2>1 DEF TypeOK
  <2>3. IsOrdered(t) /\ tk.outcome = "change"
    BY <1>1, <1>6, <1>14 DEF TaskPlain
  <2>4. Answered \subseteq saved.dirty.memory /\ Call[t] \in saved.dirty.memory
    BY <1>3, <1>4, <1>8, <1>10, <1>14, <2>3 DEF MemoryInv, BaseInv
  <2>5. AllSaved(p, saved)
    <3> SUFFICES ASSUME NEW u \in Tasks, SavedHere(task'[u]), u # t PROVE FALSE
      BY <2>4 DEF AllSaved
    <3>1. task[u].new.has
      BY <2>2 DEF SavedHere
    <3>2. TaskNews(task[u], Call[u]) /\ TaskPlain(u, task[u])
      BY DEF MemoryInv, NewsInv, PlainInv
    <3>3. IsOrdered(u) /\ task[u].active
      BY <3>1, <3>2 DEF TaskNews, TaskPlain
    <3> QED
      BY <1>3, <2>3, <3>3 DEF OrderInv, OneActive
  <2>6. DirtyKept(p, saved, x) /\ MemoryKept(p, saved, x)
    BY <1>4, <1>10, <1>14, <2>4, <2>5 DEF DirtyKept, MemoryKept, Shut, Left
  <2>7. BaseKept(t, done)
    BY <1>12, <2>2, <2>4 DEF BaseKept
  <2>8. \A q \in Pulses : object'[q] = object[q]
            \/ (DirtyKept(q, object'[q], object[q]) /\ MemoryKept(q, object'[q], object[q]))
    BY <2>2, <2>6
  <2>9. /\ NewsInv' /\ EndInv' /\ BaseInv' /\ SavedInv' /\ LatestInv'
        /\ Answered' \subseteq Answered
    BY <1>1, <1>2, <2>2, <2>7, <2>8, RestKept
  <2>10. KeptInv'
    BY <1>2, <1>12, <2>2, <2>8, <2>9, KeptStep
  <2> QED
    BY <2>9, <2>10 DEF MemoryInv
<1> QED
  BY <1>13, <1>14

(* stepSendCallResult: the change was saved before, or the machine brings  *)
(* it to the next executor.                                                *)
LEMMA SendCallResultMemory ==
    ASSUME ExecutorInv, UseInv, OrderInv, PlainInv, MemoryInv, NEW t \in Tasks,
           StepSendCallResult(t)
    PROVE  MemoryInv'
<1> DEFINE p == SlotOf[t]
           r == Call[t]
           answer == IF task[t].outcome = "error" THEN "error" ELSE "ok"
           tk == [Goto(t, "finishRequest") EXCEPT !.answer = answer]
<1>1. /\ TypeOK /\ task[t] \in TaskType /\ p \in Pulses /\ p \in Nat /\ NodeOf(t) \in Nat
      /\ TaskOK(task[t], NodeOf(t), p) /\ TaskPlain(t, task[t]) /\ TaskNews(task[t], r) /\ NewsInv
  BY TypeFacts, PulseFacts DEF ExecutorInv, LocalInv, TaskInv, PlainInv, MemoryInv, NewsInv
<1>2. /\ clock' = clock /\ msgs' = msgs /\ object' = object /\ task[t].pc = "sendCallResult"
      /\ task' = [task EXCEPT ![t] = tk]
  BY DEF StepSendCallResult, Step, At
<1>3. /\ tk.pc = "finishRequest" /\ tk.active = task[t].active /\ tk.base = task[t].base
      /\ tk.migrated = task[t].migrated /\ tk.new = task[t].new /\ tk.outcome = task[t].outcome
      /\ tk.sent = task[t].sent /\ tk.answer = answer
  BY <1>1 DEF Goto, TaskType
<1> HIDE DEF tk
<1>4. StepOf(task[t]) = "sendCallResult" /\ StepOf(tk) = "finishRequest"
  BY <1>2, <1>3 DEF StepOf
<1>5. TaskNews(tk, r)
  BY <1>1, <1>2, <1>3, <1>4 DEF TaskNews, EarlySteps
<1>6. task[t].answer # "ok"
  BY <1>1, <1>4 DEF TaskNews, Ended
<1>7. CASE task[t].outcome # "change"
  <2>1. Goes(t, tk)
    BY <1>1, <1>3, <1>5, <1>7, ActGoes DEF Changed
  <2> QED
    BY <1>1, <1>2, <2>1, MemoryTask
<1>8. CASE task[t].outcome = "change"
  <2>1. Changed(tk) /\ task'[t] = tk /\ \A u \in Tasks : u # t => task'[u] = task[u]
    BY <1>1, <1>2, <1>3, <1>8 DEF Changed, TypeOK
  <2>2. task[t].active /\ task[t].new.has /\ IsOrdered(t)
    BY <1>1, <1>2, <1>4, <1>8 DEF TaskNews, TaskPlain
  <2>3. Answered' = Answered \cup {r}
    <3>1. \A u \in Tasks : Changed(task'[u]) <=> u = t \/ Changed(task[u])
      BY <2>1
    <3> QED
      BY <3>1 DEF Answered, Changed
  <2>4. NewsInv'
    <3>1. \A u \in Tasks : TaskNews(task'[u], Call[u])
      BY <1>1, <1>5, <2>1 DEF NewsInv
    <3> QED
      BY <3>1 DEF NewsInv, TaskNews, StepOf
  <2>5. EndInv'
    BY <1>2 DEF MemoryInv, EndInv, IsEnd, Shut, IsOrdered
  <2>6. BaseInv'
    <3> SUFFICES ASSUME NEW u \in Tasks, IsOrdered(u), task'[u].active
                 PROVE  Answered' \subseteq task'[u].base \cup {Call[u]}
      BY DEF BaseInv, IsOrdered
    <3>1. u = t
      BY <1>3, <2>1, <2>2 DEF OrderInv, OneActive
    <3> QED
      BY <1>3, <2>1, <2>2, <2>3, <3>1 DEF MemoryInv, BaseInv
  <2>7. SavedInv'
    <3>1. \A u \in Tasks : task'[u].new = task[u].new /\ task'[u].migrated = task[u].migrated
      BY <1>3, <2>1
    <3> QED
      BY <1>2, <3>1 DEF MemoryInv, SavedInv
  <2>8. \A m \in msgs : ~ (m.type = "VDelegatedRequestFinished" /\ m.latest.has)
    BY <2>2, RunningAlone DEF IsEnd, MemoryInv, LatestInv
  <2>9. LatestInv'
    BY <1>2, <2>8 DEF LatestInv
  <2>10. KeptInv'
    <3>1. \A q \in Answered : Coming(q) => Coming(q)'
      <4>1. ASSUME NEW q, NEW u \in Tasks, Taken(u), Changed(task[u]), Call[u] = q
            PROVE  Coming(q)'
        <5>1. task'[u].active /\ Changed(task'[u])
          BY <1>3, <2>1, <4>1 DEF Taken
        <5> QED
          BY <1>2, <4>1, <5>1 DEF Coming, Taken, NodeOf, Changed
      <4> QED
        BY <2>8, <4>1 DEF Coming
    <3>2. \A q : Kept(q) => Kept(q)'
      BY <1>2 DEF Kept, InObject, InReports, Says, Left
    <3>3. Coming(r)' \/ Kept(r)'
      <4>1. CASE p < NodeOf(t)
        <5>1. Taken(t)'
          BY <1>2, <1>3, <2>1, <2>2, <4>1 DEF Taken, NodeOf
        <5> QED
          BY <2>1, <5>1 DEF Coming, Changed
      <4>2. CASE NodeOf(t) = p
        <5>1. ~ task[t].migrated
          BY <1>1, <2>2, <4>2 DEF TaskOK
        <5>2. r \in object[p].dirty.memory
          BY <2>2, <5>1 DEF MemoryInv, SavedInv
        <5>3. object[p].state = "HasState"
          BY <2>2, <4>2, HomeState
        <5>4. \A q \in Pulses : clock[q] = q => q = p
          BY <1>1, <4>2 DEF OrderInv, TogetherInv, NodeOf
        <5>5. Kept(r)
          BY <5>2, <5>3, <5>4 DEF Kept, InObject
        <5> QED
          BY <3>2, <5>5
      <4> QED
        BY <1>1, <2>2, <4>1, <4>2 DEF TaskOK
    <3>4. ASSUME NEW q \in Answered PROVE Coming(q)' \/ Kept(q)'
      BY <3>1, <3>2 DEF MemoryInv, KeptInv
    <3> QED
      BY <2>3, <3>3, <3>4 DEF KeptInv
  <2> QED
    BY <2>4, <2>5, <2>6, <2>7, <2>9, <2>10 DEF MemoryInv
<1> QED
  BY <1>7, <1>8

(* stepFinishRequest *)
LEMMA FinishRequestMemory ==
    ASSUME ExecutorInv, MemoryInv, NEW t \in Tasks, StepFinishRequest(t)
    PROVE  MemoryInv'
<1> DEFINE p == SlotOf[t]
           r == Call[t]
           x == object[p]
           f == IF task[t].negotiated THEN FlagOf[r] ELSE CallFlag[r]
           finishes == ~ task[t].migrated /\ CanFinish(x.known[f], r)
           panic == finishes /\ x.results[r] = "none"
           list == WorkingFinish(x.known[f], r)
           result == IF panic THEN x.results[r] ELSE "result"
           o == [x EXCEPT !.known[f] = list, !.results[r] = result]
           tk == Goto(t, "callSummary")
<1>1. /\ TypeOK /\ task[t] \in TaskType /\ p \in Pulses /\ x \in ObjectType
      /\ r \in Requests /\ f \in Flags /\ clock' = clock /\ msgs' = msgs
      /\ task[t].pc = "finishRequest" /\ TaskOK(task[t], NodeOf(t), p) /\ NewsInv
      /\ TaskNews(task[t], r) /\ p \in Nat /\ NodeOf(t) \in Nat
  BY TypeFacts, PulseFacts, CallFacts
     DEF StepFinishRequest, Step, At, ExecutorInv, LocalInv, TaskInv, MemoryInv, NewsInv
<1>2. /\ object' = IF ~ finishes THEN object
                   ELSE [object EXCEPT ![p].known[f] = list, ![p].results[r] = result]
      /\ task' = [task EXCEPT ![t] = IF task[t].migrated THEN tk
                                     ELSE EndTask(task[t], IF panic THEN "dead" ELSE "done")]
  BY <1>1 DEF StepFinishRequest, Step, ObjectOf, TypeOK
<1>3. \/ task' = [task EXCEPT ![t] = tk] /\ task[t].migrated
      \/ /\ \E pc \in Ended : task' = [task EXCEPT ![t] = EndTask(task[t], pc)]
         /\ ~ task[t].migrated
  BY <1>2 DEF Ended
<1> HIDE DEF list, result, f, finishes, panic
<1>4. object' = object \/ object' = [object EXCEPT ![p] = o]
  BY <1>1, <1>2 DEF TypeOK
<1>5. SameMemory(o, x)
  BY <1>1 DEF ObjectType, SameMemory, Left
<1>6. /\ tk.pc = "callSummary" /\ tk.active = task[t].active /\ tk.base = task[t].base
      /\ tk.migrated = task[t].migrated /\ tk.new = task[t].new /\ tk.outcome = task[t].outcome
      /\ tk.sent = task[t].sent /\ tk.answer = task[t].answer
  BY <1>1 DEF Goto, TaskType
<1> HIDE DEF o, tk
<1>7. \A q \in Pulses : object'[q] = object[q] \/ SameMemory(object'[q], object[q])
  BY <1>1, <1>4, <1>5, OneObject
<1>8. task[t].migrated => Goes(t, tk)
  <2>1. StepOf(task[t]) = "finishRequest" /\ StepOf(tk) = "callSummary"
    BY <1>1, <1>6 DEF StepOf
  <2>2. TaskNews(tk, r)
    BY <1>1, <1>6, <2>1 DEF TaskNews, EarlySteps
  <2> QED
    BY <1>1, <1>6, <2>2, ActGoes DEF Changed
<1>9. ~ task[t].migrated => \A pc \in Ended : Goes(t, EndTask(task[t], pc))
  <2>1. ~ task[t].migrated => ~ Taken(t)
    BY <1>1 DEF TaskOK, Taken
  <2> QED
    BY <2>1, EndGoes
<1>10. PICK y : task' = [task EXCEPT ![t] = y] /\ Goes(t, y)
  BY <1>3, <1>8, <1>9
<1> QED
  BY <1>1, <1>7, <1>10, MemoryTask

(* stepPublishDataCallSummary *)
LEMMA PublishDataCallSummaryMemory ==
    ASSUME ExecutorInv, PanicInv, MemoryInv, NEW t \in Tasks, StepPublishDataCallSummary(t)
    PROVE  MemoryInv'
<1> DEFINE p == SlotOf[t]
           r == Call[t]
           x == object[p]
           o == [x EXCEPT !.summary[r] = "result"]
           tk == Goto(t, "sendFinished")
<1>1. /\ TypeOK /\ task[t] \in TaskType /\ p \in Pulses /\ x \in ObjectType /\ r \in Requests
      /\ clock' = clock /\ msgs' = msgs /\ task[t].pc = "callSummary" /\ p \in Nat
      /\ TaskOK(task[t], NodeOf(t), p) /\ NewsInv /\ TaskNews(task[t], r)
  BY TypeFacts, PulseFacts, CallFacts
     DEF ExecutorInv, StepPublishDataCallSummary, Step, At, LocalInv, TaskInv, MemoryInv, NewsInv
<1>2. task[t].active /\ task[t].resume = "idle"
  BY <1>1 DEF TaskOK
<1>3. HasSummary(p) => x.summary[r] = "empty"
  <2>1. Unpublished(task[t])
    BY <1>1, <1>2 DEF Unpublished
  <2> QED
    BY <2>1 DEF PanicInv, OwnInv, Open, HasSummary, NodeOf
<1>4. /\ task' = [task EXCEPT ![t] = tk]
      /\ object' = IF HasSummary(p) THEN [object EXCEPT ![p] = o] ELSE object
  BY <1>1, <1>3 DEF StepPublishDataCallSummary, Step, TypeOK
<1>5. /\ tk.pc = "sendFinished" /\ tk.active = task[t].active /\ tk.base = task[t].base
      /\ tk.migrated = task[t].migrated /\ tk.new = task[t].new /\ tk.outcome = task[t].outcome
      /\ tk.sent = task[t].sent /\ tk.answer = task[t].answer
  BY <1>1 DEF Goto, TaskType
<1>6. SameMemory(o, x)
  BY <1>1 DEF ObjectType, SameMemory, Left
<1> HIDE DEF o, tk
<1>7. \A q \in Pulses : object'[q] = object[q] \/ SameMemory(object'[q], object[q])
  BY <1>1, <1>4, <1>6, OneObject
<1>8. Goes(t, tk)
  <2>1. StepOf(task[t]) = "callSummary" /\ StepOf(tk) = "sendFinished"
    BY <1>1, <1>5 DEF StepOf
  <2>2. TaskNews(tk, r)
    BY <1>1, <1>5, <2>1 DEF TaskNews, EarlySteps
  <2> QED
    BY <1>1, <1>5, <2>2, ActGoes DEF Changed
<1> QED
  BY <1>1, <1>4, <1>7, <1>8, MemoryTask

(* A delegated call that ends sends the change that it has made. *)
LEMMA DelegatedEndsMemory ==
    ASSUME ExecutorInv, OrderInv, PlainInv, MemoryInv, NEW t \in Tasks, Taken(t),
           NEW x, NEW pc \in Ended, NEW latest, clock' = clock, object' = object,
           x.outcome = task[t].outcome, x.answer = task[t].answer,
           task' = [task EXCEPT ![t] = EndTask(x, pc)],
           latest.has => latest = task[t].new,
           Changed(task[t]) => latest.has,
           msgs' = msgs \cup Posted({DelegatedRequestFinished(NodeOf(t), t, latest)})
    PROVE  MemoryInv'
<1> DEFINE m == DelegatedRequestFinished(NodeOf(t), t, latest)
<1>1. /\ TypeOK /\ NodeOf(t) \in Pulses /\ NodeOf(t) \in Nat /\ SlotOf[t] \in Pulses
      /\ TaskNews(task[t], Call[t]) /\ TaskPlain(t, task[t])
  BY TypeFacts, PulseFacts DEF ExecutorInv, MemoryInv, NewsInv, PlainInv
<1>2. /\ m.type = "VDelegatedRequestFinished" /\ m.task = t /\ m.to = NodeOf(t)
      /\ m.latest = latest
  BY DEF DelegatedRequestFinished
<1>3. clock[NodeOf(t)] = NodeOf(t)
  BY <1>1 DEF OrderInv, TogetherInv, NodeOf
<1>4. msgs' = msgs \cup {m}
  BY <1>1, <1>2, <1>3 DEF Posted
<1> HIDE DEF m
<1>5. NewsKeeps(t, EndTask(x, pc)) /\ ~ SavedHere(EndTask(x, pc))
  BY EndNews
<1>6. task'[t] = EndTask(x, pc) /\ \A u \in Tasks : u # t => task'[u] = task[u]
  BY <1>1 DEF TypeOK
<1>7. NewsInv' /\ BaseInv' /\ SavedInv' /\ Answered' \subseteq Answered
  BY <1>1, <1>5, <1>6, TasksKept DEF BaseKept
<1>8. EndInv'
  <2>1. IsOrdered(t) => Shut(object[NodeOf(t)]) /\ \A n \in msgs : ~ IsEnd(n)
    <3> SUFFICES ASSUME IsOrdered(t) PROVE Shut(object[NodeOf(t)]) /\ \A n \in msgs : ~ IsEnd(n)
      OBVIOUS
    <3>1. Awaited
      BY DEF Taken, Awaited, TakenOn
    <3> QED
      BY <1>1, <1>3, <3>1 DEF OrderInv, WaitInv, Harmless, IsEnd
  <2>2. \A n \in msgs' : IsEnd(n) => Shut(object[n.to])
    BY <1>2, <1>4, <2>1 DEF MemoryInv, EndInv, IsEnd
  <2>3. \A n, k \in msgs' : IsEnd(n) /\ IsEnd(k) => n = k
    BY <1>2, <1>4, <2>1 DEF MemoryInv, EndInv, IsEnd
  <2> QED
    BY <2>2, <2>3 DEF EndInv, IsEnd, IsOrdered, Shut
<1>9. latest.has => /\ IsOrdered(t) /\ Answered \subseteq latest.memory
                    /\ Call[t] \in latest.memory
  BY <1>1 DEF TaskNews, TaskPlain, MemoryInv, BaseInv
<1>10. LatestInv'
  BY <1>2, <1>4, <1>7, <1>9 DEF MemoryInv, LatestInv, IsOrdered
<1>11. KeptInv'
  <2> SUFFICES ASSUME NEW r \in Answered, ~ Coming(r)' PROVE Kept(r)'
    BY <1>7 DEF KeptInv
  <2>1. \A n \in msgs : ~ (n.type = "VDelegatedRequestFinished" /\ n.latest.has
                            /\ r \in n.latest.memory)
    BY <1>4 DEF Coming
  <2>2. ~ Changed(task[t])
    BY <1>2, <1>4, <1>9 DEF Coming
  <2>3. \A u \in Tasks : ~ (Taken(u) /\ Changed(task[u]) /\ Call[u] = r)
    <3> SUFFICES ASSUME NEW u \in Tasks, Taken(u), Changed(task[u]), Call[u] = r PROVE FALSE
      OBVIOUS
    <3>1. task'[u] = task[u]
      BY <1>6, <2>2
    <3> QED
      BY <3>1 DEF Coming, Taken, NodeOf, Changed
  <2>4. Kept(r)
    BY <2>1, <2>3 DEF MemoryInv, KeptInv, Coming
  <2>5. InReports(r) => InReports(r)'
    BY <1>2, <1>4 DEF InReports, Says, Left
  <2> QED
    BY <2>4, <2>5 DEF Kept, InObject
<1> QED
  BY <1>7, <1>8, <1>10, <1>11 DEF MemoryInv

(* stepSendDelegatedRequestFinished, stepGetDelegationToken: a call that   *)
(* gives up waits for another call, and has made no change.                *)
LEMMA DelegatedMemory ==
    ASSUME ExecutorInv, OrderInv, PlainInv, MemoryInv, NEW t \in Tasks,
           StepSendDelegatedRequestFinished(t) \/ StepDelegationToken(t)
    PROVE  MemoryInv'
<1>1. /\ task[t] \in TaskType /\ TaskOK(task[t], NodeOf(t), SlotOf[t]) /\ TypeOK
      /\ task[t].sent \in Nat /\ NodeOf(t) \in Nat /\ SlotOf[t] \in Nat
      /\ TaskNews(task[t], Call[t]) /\ NewsInv
  BY TypeFacts DEF ExecutorInv, LocalInv, TaskInv, TaskType, MemoryInv, NewsInv
<1>2. /\ clock' = clock /\ object' = object
      /\ task[t].pc \in {"sendFinished", "getToken"}
  BY DEF StepSendDelegatedRequestFinished, StepDelegationToken, Step, At
<1>3. task[t].active /\ task[t].migrated
  BY <1>1, <1>2 DEF TaskOK, Ended
<1>4. Taken(t)
  BY <1>1, <1>3 DEF Taken, TaskOK
<1>5. CASE StepSendDelegatedRequestFinished(t)
  <2>1. /\ task' = [task EXCEPT ![t] = EndTask(task[t], "done")] /\ "done" \in Ended
        /\ msgs' = msgs \cup Posted({DelegatedRequestFinished(NodeOf(t), t, task[t].new)})
        /\ task[t].pc = "sendFinished"
    BY <1>5 DEF StepSendDelegatedRequestFinished, Step, At, NodeOf, Ended
  <2>2. Changed(task[t]) => task[t].new.has
    BY <1>1, <1>3, <2>1 DEF TaskNews, StepOf, Changed
  <2> QED
    BY <1>2, <1>4, <2>1, <2>2, DelegatedEndsMemory
<1>6. CASE StepDelegationToken(t)
  <2> DEFINE tk == [task[t] EXCEPT !.pc = task[t].resume, !.resume = "idle",
                                   !.granted = UnknownPulse]
             again == [tk EXCEPT !.sent = task[t].sent + 1]
  <2>0. task[t].pc = "getToken" /\ task[t].resume \in ActingSteps
    BY <1>1, <1>6 DEF StepDelegationToken, Step, At, TaskOK
  <2>1. /\ tk.active = task[t].active /\ tk.sent = task[t].sent /\ tk \in TaskType
        /\ tk.pc = task[t].resume /\ tk.base = task[t].base /\ tk.migrated = task[t].migrated
        /\ tk.new = task[t].new /\ tk.outcome = task[t].outcome /\ tk.answer = task[t].answer
        /\ tk.called = task[t].called
    <3>1. task[t].resume \in TaskStep
      BY <1>1 DEF TaskType
    <3> QED
      BY <1>1, <3>1 DEF TaskType, TaskStep
  <2> HIDE DEF tk
  <2>2. /\ again.active = tk.active /\ again.pc = tk.pc /\ again.base = tk.base
        /\ again.migrated = tk.migrated /\ again.new = tk.new /\ again.outcome = tk.outcome
        /\ again.answer = tk.answer /\ again.called = tk.called
    BY <2>1 DEF TaskType
  <2> HIDE DEF again
  <2>3. tk.pc \notin {"getToken", "idle"} /\ StepOf(task[t]) = tk.pc
    BY <2>0, <2>1 DEF ActingSteps, StepOf
  <2>4. ASSUME NEW new \in {tk, again}, msgs' = msgs, task' = [task EXCEPT ![t] = new],
               new = tk \/ task[t].sent > 0
        PROVE  MemoryInv'
    <3>1. /\ new.active = task[t].active /\ new.base = task[t].base
          /\ new.migrated = task[t].migrated /\ new.new = task[t].new
          /\ new.outcome = task[t].outcome /\ new.answer = task[t].answer
          /\ new.called = task[t].called /\ new.pc = tk.pc
          /\ new.sent > 0 => task[t].sent > 0
      BY <2>1, <2>2, <2>4
    <3>2. StepOf(new) = StepOf(task[t])
      BY <2>3, <3>1 DEF StepOf
    <3>3. TaskNews(new, Call[t])
      BY <1>1, <1>3, <3>1, <3>2 DEF TaskNews
    <3>4. Goes(t, new)
      BY <1>1, <3>1, <3>3, ActGoes DEF Changed
    <3> QED
      BY <1>1, <1>2, <2>4, <3>4, MemoryTask
  <2>5. CASE task[t].sent >= MaxOutgoingSendCount
    <3>1. task[t].sent # 0 /\ task[t].sent > 0
      BY <1>1, <2>5, RequestKindsAssumption
    <3>2. /\ task' = [task EXCEPT ![t] = EndTask(tk, "dead")] /\ "dead" \in Ended
          /\ msgs' = msgs \cup Posted({DelegatedRequestFinished(NodeOf(t), t, NoDescriptor)})
      BY <1>6, <2>1, <2>5, <3>1 DEF StepDelegationToken, Step, NodeOf, Ended, tk
    <3>3. ~ Changed(task[t]) /\ ~ NoDescriptor.has
      BY <1>1, <3>1 DEF TaskNews, Changed, NoDescriptor
    <3> QED
      BY <1>2, <1>4, <2>1, <3>2, <3>3, DelegatedEndsMemory
  <2>6. CASE ~ (task[t].sent >= MaxOutgoingSendCount)
    <3>1. msgs' = msgs
      BY <1>6, <2>1, <2>6 DEF StepDelegationToken, tk
    <3>2. \/ task' = [task EXCEPT ![t] = tk] /\ task[t].sent = 0
          \/ task' = [task EXCEPT ![t] = again] /\ task[t].sent > 0
      <4>1. task' = [task EXCEPT ![t] = IF tk.sent = 0 THEN tk
                                        ELSE IF tk.sent >= MaxOutgoingSendCount THEN EndTask(tk, "dead")
                                        ELSE [tk EXCEPT !.sent = tk.sent + 1]]
        BY <1>6 DEF StepDelegationToken, Step, tk
      <4>2. again = [tk EXCEPT !.sent = tk.sent + 1]
        BY <2>1 DEF again
      <4>3. CASE task[t].sent = 0
        BY <2>1, <4>1, <4>3
      <4>4. CASE task[t].sent # 0
        <5>1. task[t].sent > 0
          BY <1>1, <4>4
        <5>2. ~ (tk.sent = 0) /\ ~ (tk.sent >= MaxOutgoingSendCount)
          BY <2>1, <2>6, <4>4
        <5>3. task' = [task EXCEPT ![t] = again]
          BY <4>1, <4>2, <5>2
        <5> QED
          BY <5>1, <5>3
      <4> QED
        BY <4>3, <4>4
    <3>3. CASE task' = [task EXCEPT ![t] = again] /\ task[t].sent > 0
      BY <2>4, <3>1, <3>3
    <3>4. CASE task' = [task EXCEPT ![t] = tk]
      BY <2>4, <3>1, <3>4
    <3> QED
      BY <3>2, <3>3, <3>4
  <2> QED
    BY <2>5, <2>6
<1> QED
  BY <1>5, <1>6

(* A step that changes the object of one executor and no machine *)
LEMMA MemoryObject ==
    ASSUME TypeOK, MemoryInv, clock' = clock, task' = task, NEW p \in Pulses, NEW o,
           object' = [object EXCEPT ![p] = o],
           DirtyKept(p, o, object[p]), MemoryKept(p, o, object[p]),
           \A m \in msgs : \/ m \in msgs' \/ m.type # "VDelegatedRequestFinished"
                           \/ ~ m.latest.has,
           \A m \in msgs' : m \in msgs \/ (m.type = "VStateReport" /\ Repeats(m.report))
    PROVE  MemoryInv'
<1>1. object'[p] = o /\ \A q \in Pulses : q # p => object'[q] = object[q]
  BY DEF TypeOK
<1>2. \A m \in msgs' : m \in msgs \/ m.type # "VDelegatedRequestFinished"
  OBVIOUS
<1>3. /\ NewsInv' /\ EndInv' /\ BaseInv' /\ SavedInv' /\ LatestInv'
      /\ Answered' \subseteq Answered
  BY <1>1, <1>2, RestKept
<1>4. KeptInv'
  BY <1>1, <1>3, KeptStep
<1> QED
  BY <1>3, <1>4 DEF MemoryInv

(* GetOrCreate *)
LEMMA CreatedMemory ==
    ASSUME ExecutorInv, NEW p \in Pulses
    PROVE  SameMemory(GetOrCreate(p), object[p])
<1> DEFINE c == GetOrCreate(p)
           x == object[p]
<1>1. /\ c.phase = (IF x.phase = "none" THEN "getState" ELSE x.phase)
      /\ c.report = x.report /\ c.execute = x.execute /\ c.state = x.state
      /\ c.prevPending = x.prevPending
  BY GetOrCreateFacts
<1>2. c.dirty = x.dirty
  <2>1. CASE x.phase = "none"
    <3>1. x = NewObject("none") /\ c = NewObject("getState")
      BY <2>1 DEF ExecutorInv, LocalInv, ObjectInv, ObjectOK, GetOrCreate
    <3> QED
      BY <3>1 DEF NewObject
  <2>2. CASE x.phase # "none"
    BY <2>2 DEF GetOrCreate
  <2> QED
    BY <2>1, <2>2
<1> HIDE DEF c
<1>3. Left(c) = Left(x)
  BY <1>1 DEF Left
<1> QED
  BY <1>1, <1>2, <1>3 DEF SameMemory, c

LEMMA GetObjectMemory ==
    ASSUME ExecutorInv, MemoryInv, RepeatedSoon, NEW t \in Tasks, StepGetObject(t)
    PROVE  MemoryInv'
<1> DEFINE p == SlotOf[t]
           o == GetOrCreate(p)
           tk == Goto(t, "waitObjectReady")
<1>1. /\ TypeOK /\ task[t] \in TaskType /\ p \in Pulses /\ Call[t] \notin Constructors
      /\ TaskOK(task[t], NodeOf(t), p) /\ NewsInv
  BY TypeFacts, PulseFacts DEF ExecutorInv, LocalInv, TaskInv, MemoryInv, RepeatedSoon
<1>2. /\ clock' = clock /\ msgs' = msgs /\ task' = [task EXCEPT ![t] = tk]
      /\ task[t].pc = "idle" /\ object' = [object EXCEPT ![p] = o]
  BY <1>1 DEF StepGetObject, Step, At
<1>3. SameMemory(o, object[p])
  BY <1>1, CreatedMemory
<1>4. /\ tk.active = task[t].active /\ tk.pc = "waitObjectReady" /\ tk.new = task[t].new
      /\ tk.sent = task[t].sent /\ tk.answer = task[t].answer /\ tk.outcome = task[t].outcome
  BY <1>1 DEF Goto, TaskType
<1> HIDE DEF o, tk
<1>5. ~ task[t].active
  BY <1>1, <1>2 DEF TaskOK, ActingSteps
<1>6. Goes(t, tk)
  BY <1>1, <1>2, <1>4, <1>5, EarlyGoes DEF EarlySteps
<1> QED
  BY <1>1, <1>2, <1>3, <1>6, OneObject, MemoryTask

LEMMA CreateForDelegatedMemory ==
    ASSUME ExecutorInv, MemoryInv, NEW m \in msgs, CreateForDelegated(m)
    PROVE  MemoryInv'
<1> DEFINE p == m.to
           o == GetOrCreate(p)
<1>1. TypeOK /\ p \in Pulses
  BY DEF ExecutorInv, TypeOK, MessageType
<1>2. /\ clock' = clock /\ msgs' = msgs /\ task' = task
      /\ object' = [object EXCEPT ![p] = o]
  BY DEF CreateForDelegated
<1>3. DirtyKept(p, o, object[p]) /\ MemoryKept(p, o, object[p])
  BY <1>1, CreatedMemory, SameMemoryKept
<1> HIDE DEF o
<1> QED
  BY <1>1, <1>2, <1>3, MemoryObject

(* The steps of SMObject: an executor that must wait stays closed, and a   *)
(* report that is sent is that of the executor before.                     *)
LEMMA ObjectStepsMemory ==
    ASSUME ExecutorInv, OrderInv, MemoryInv, NEW p \in Pulses, ObjectStep(p)
    PROVE  MemoryInv'
<1> DEFINE x == object[p]
<1>1. TypeOK /\ x \in ObjectType /\ ObjectOK(x, p, clock[p]) /\ p \in Nat /\ clock[p] \in Nat
  BY TypeFacts DEF ExecutorInv, LocalInv, ObjectInv
<1>2. clock' = clock /\ task' = task
  BY DEF ObjectStep, StepGetState, StepWaitState, StepPublishCallSummary, StepSendVStateReport,
         AnswerStateRequest
<1>3. CASE StepGetState(p) \/ StepWaitState(p)
  <2>1. msgs' = msgs /\ x.phase \in {"getState", "waitState"}
    BY <1>3 DEF StepGetState, StepWaitState
  <2>2. PICK o : /\ object' = [object EXCEPT ![p] = o]
                 /\ \/ o = GotState(x) /\ x.state # "Unknown"
                    \/ o = [x EXCEPT !.phase = "waitState", !.asked = TRUE]
                    \/ o = [x EXCEPT !.phase = "asleep"]
    BY <1>1, <1>3 DEF StepGetState, StepWaitState, TypeOK
  <2>3. /\ o.dirty = x.dirty /\ o.state = x.state /\ o.prevPending = x.prevPending
        /\ o.report = x.report /\ o.phase \in {"working", "waitState", "asleep"}
        /\ \/ o.execute = x.execute
           \/ x.state # "Unknown" /\ o.execute[Tolerable] = (x.prevPending[Tolerable] = 0)
    <3>1. CASE o = GotState(x) /\ x.state # "Unknown"
      BY <1>1, <3>1, CallFacts DEF GotState, OpenPaths, ObjectType
    <3>2. CASE o = [x EXCEPT !.phase = "waitState", !.asked = TRUE]
      BY <1>1, <3>2 DEF ObjectType
    <3>3. CASE o = [x EXCEPT !.phase = "asleep"]
      BY <1>1, <3>3 DEF ObjectType
    <3> QED
      BY <2>2, <3>1, <3>2, <3>3
  <2>4. DirtyKept(p, o, x)
    BY <2>3 DEF DirtyKept, Shut
  <2>5. MemoryKept(p, o, x)
    BY <2>3 DEF MemoryKept, Left
  <2> QED
    BY <1>1, <1>2, <2>1, <2>2, <2>4, <2>5, MemoryObject
<1>4. CASE StepPublishCallSummary(p)
  <2> DEFINE o == [x EXCEPT !.phase = "finalize", !.summary = x.results]
  <2>1. object' = [object EXCEPT ![p] = o] /\ msgs' = msgs /\ x.phase = "publish"
    BY <1>1, <1>4 DEF StepPublishCallSummary
  <2>2. SameMemory(o, x)
    BY <1>1, <2>1 DEF ObjectType, SameMemory, Left
  <2> HIDE DEF o
  <2>3. DirtyKept(p, o, x) /\ MemoryKept(p, o, x)
    BY <2>2, SameMemoryKept
  <2> QED
    BY <1>1, <1>2, <2>1, <2>3, MemoryObject
<1>5. CASE StepSendVStateReport(p)
  <2> DEFINE o == [x EXCEPT !.phase = "sent"]
             m == StateReportTo(clock[p], x.report)
  <2>1. /\ object' = [object EXCEPT ![p] = o] /\ x.phase = "finalize" /\ msgs \subseteq msgs'
        /\ \A n \in msgs' : n \in msgs \/ n = m
    BY <1>1, <1>5 DEF StepSendVStateReport, Posted
  <2>2. SameMemory(o, x)
    BY <1>1, <2>1 DEF ObjectType, SameMemory, Left
  <2>3. m.type = "VStateReport" /\ m.report = x.report
    BY DEF StateReportTo
  <2> HIDE DEF o, m
  <2>4. Repeats(m.report)
    BY <1>1, <2>1, <2>3 DEF ObjectOK, Repeats, Left
  <2>5. DirtyKept(p, o, x) /\ MemoryKept(p, o, x)
    BY <2>2, SameMemoryKept
  <2> QED
    BY <1>1, <1>2, <2>1, <2>3, <2>4, <2>5, MemoryObject
<1>6. CASE AnswerStateRequest(p)
  <2> DEFINE o == [x EXCEPT !.asked = FALSE]
             report == IF HasReport(p - 1) THEN object[p - 1].report ELSE MissingReport
             m == StateReportTo(p, report)
  <2>1. p - 1 \in Pulses
    BY <1>1, <1>6 DEF AnswerStateRequest, ObjectOK
  <2>2. /\ object' = [object EXCEPT ![p] = o] /\ msgs \subseteq msgs'
        /\ \A n \in msgs' : n \in msgs \/ n = m
    BY <1>1, <1>6 DEF AnswerStateRequest, Posted
  <2>3. SameMemory(o, x)
    BY <1>1 DEF ObjectType, SameMemory, Left
  <2>4. Repeats(report)
    <3>1. CASE HasReport(p - 1)
      BY <2>1, <3>1 DEF HasReport, Repeats, Left
    <3>2. CASE ~ HasReport(p - 1)
      BY <3>2 DEF Repeats, MissingReport
    <3> QED
      BY <3>1, <3>2
  <2> HIDE DEF o, report
  <2>5. m.type = "VStateReport" /\ m.report = report
    BY DEF StateReportTo
  <2> HIDE DEF m
  <2>6. DirtyKept(p, o, x) /\ MemoryKept(p, o, x)
    BY <2>3, SameMemoryKept
  <2> QED
    BY <1>1, <1>2, <2>2, <2>4, <2>5, <2>6, MemoryObject
<1> QED
  BY <1>3, <1>4, <1>5, <1>6 DEF ObjectStep

(* A call of pulse p that has saved its change runs on an open executor. *)
LEMMA SavedOpen ==
    ASSUME ExecutorInv, PlainInv, MemoryInv, NEW t \in Tasks, SavedHere(task[t])
    PROVE  object[SlotOf[t]].execute[Tolerable]
<1>1. TaskNews(task[t], Call[t]) /\ TaskPlain(t, task[t]) /\ TaskOK(task[t], NodeOf(t), SlotOf[t])
  BY DEF MemoryInv, NewsInv, PlainInv, ExecutorInv, LocalInv, TaskInv
<1>2. task[t].active /\ IsOrdered(t)
  BY <1>1 DEF SavedHere, TaskNews, TaskPlain
<1>3. task[t].lock /\ NodeOf(t) = SlotOf[t]
  BY <1>1, <1>2 DEF SavedHere, TaskOK
<1> QED
  BY <1>2, <1>3 DEF ExecutorInv, LocalInv, LockInv

(* SMVStateReport: the first report sets the memory.  Every report that    *)
(* may come has what was answered, because nothing is to come yet.         *)
LEMMA ReceiveStateReportMemory ==
    ASSUME ExecutorInv, OrderInv, PlainInv, PanicInv, MemoryInv, NEW m \in msgs,
           ReceiveStateReport(m)
    PROVE  MemoryInv'
<1> DEFINE p == m.to
           x == object[p]
           c == GetOrCreate(p)
           o == IF c.state = "Unknown" THEN ApplyReport(c, m.report) ELSE c
<1>1. /\ TypeOK /\ p \in Pulses /\ x \in ObjectType /\ p \in Nat /\ ObjectOK(x, p, clock[p])
      /\ m.type = "VStateReport" /\ m.report \in VStateReport /\ clock[p] = p
  BY TypeFacts
     DEF ExecutorInv, LocalInv, ObjectInv, TypeOK, MessageType, ReceiveStateReport, Present
<1>2. ReportPlain(m.report, p)
  BY <1>1 DEF PlainInv, MessagePlain
<1>3. /\ clock' = clock /\ task' = task /\ msgs' = msgs \ {m}
      /\ object' = [object EXCEPT ![p] = o]
  BY <1>2 DEF ReceiveStateReport, ReportPlain
<1>4. SameMemory(c, x) /\ c \in ObjectType /\ CreatedOf(c, x)
  BY <1>1, CreatedMemory, CreatedRecord
<1> HIDE DEF c
<1>5. CASE c.state # "Unknown"
  <2>1. DirtyKept(p, o, x) /\ MemoryKept(p, o, x)
    BY <1>4, <1>5, SameMemoryKept
  <2> HIDE DEF o
  <2> QED
    BY <1>1, <1>3, <2>1, MemoryObject
<1>6. CASE c.state = "Unknown"
  <2>1. /\ o.dirty = (IF m.report.ProvidedContent.has THEN m.report.ProvidedContent ELSE c.dirty)
        /\ o.state = StateOfStatus(m.report.Status) /\ o.report = c.report
        /\ o.phase = (IF c.phase = "asleep" THEN "waitState" ELSE c.phase)
    BY <1>4, <1>6 DEF ApplyReport, ObjectType
  <2> HIDE DEF o
  <2>2. x.state = "Unknown" /\ ~ x.execute[Tolerable]
    BY <1>1, <1>4, <1>6 DEF SameMemory, ObjectOK
  <2>3. NoPending(x)
    <3>1. Live(p) /\ ObjectPlain(x)
      BY <1>1 DEF Live, PlainInv
    <3> QED
      BY <2>2, <3>1 DEF ObjectPlain
  <2>4. \A n \in msgs : n.type # "VDelegatedRequestFinished"
    <3> SUFFICES ASSUME NEW n \in msgs, n.type = "VDelegatedRequestFinished" PROVE FALSE
      OBVIOUS
    <3>1. n.to = p /\ n.task \in Tasks
      BY <1>1 DEF OrderInv, TogetherInv, TypeOK, MessageType
    <3>2. EndNoted(n, x)
      BY <3>1 DEF PanicInv, HandInv, TokenInv
    <3>3. Call[n.task] \in Requests /\ CallFlag[Call[n.task]] \in Flags
      BY <3>1, CallFacts
    <3> QED
      BY <2>3, <3>2, <3>3 DEF EndNoted, NoPending
  <2>5. DirtyKept(p, o, x)
    <3>1. AllSaved(p, o)
      BY <1>3, <2>2, SavedOpen DEF AllSaved
    <3>2. \A n \in msgs' : ~ IsEnd(n)
      BY <1>3, <2>4 DEF IsEnd
    <3> QED
      BY <3>1, <3>2 DEF DirtyKept
  <2>6. object'[p] = o /\ \A q \in Pulses : q # p => object'[q] = object[q]
    BY <1>1, <1>3 DEF TypeOK
  <2>7. /\ NewsInv' /\ EndInv' /\ BaseInv' /\ SavedInv' /\ LatestInv'
        /\ Answered' \subseteq Answered
    BY <1>1, <1>3, <2>5, <2>6, RestKept
  <2>8. KeptInv'
    <3> SUFFICES ASSUME NEW r \in Answered, ~ Coming(r)' PROVE Kept(r)'
      BY <2>7 DEF KeptInv
    <3>1. ~ Coming(r)
      BY <1>3, <2>4 DEF Coming, Taken, NodeOf, Changed
    <3>2. InReports(r)
      BY <1>1, <2>2, <3>1 DEF MemoryInv, KeptInv, Kept
    <3>3. InObject(o, r)
      <4>1. Says(m.report, r)
        BY <1>1, <3>2 DEF InReports
      <4> QED
        BY <1>2, <2>1, <4>1 DEF Says, ReportPlain, StateOfStatus, InObject
    <3>4. o.state # "Unknown"
      BY <1>2, <2>1 DEF ReportPlain, StateOfStatus
    <3>5. \A q \in Pulses : clock[q] = q => q = p
      BY <1>1 DEF OrderInv, TogetherInv
    <3> QED
      BY <1>3, <2>6, <3>3, <3>4, <3>5 DEF Kept, InObject
  <2> QED
    BY <2>7, <2>8 DEF MemoryInv
<1> QED
  BY <1>5, <1>6

(* SMVDelegatedCallRequest: a token changes no memory. *)
LEMMA DelegatedCallRequestMemory ==
    ASSUME ExecutorInv, MemoryInv, NEW m \in msgs, ReceiveDelegatedCallRequest(m)
    PROVE  MemoryInv'
<1> DEFINE q == m.to
           t == m.task
           r == Call[t]
           f == FlagOf[r]
           x == object[q]
           list == PendingAdd(x.pending[f], r)
           o == [x EXCEPT !.pending[f] = list]
           tk == [task[t] EXCEPT !.granted = q]
<1>1. /\ TypeOK /\ q \in Pulses /\ t \in Tasks /\ m.type = "VDelegatedCallRequest"
      /\ clock' = clock /\ msgs' = msgs \ {m}
  BY DEF ExecutorInv, TypeOK, MessageType, ReceiveDelegatedCallRequest
<1>2. x \in ObjectType /\ task[t] \in TaskType /\ NewsInv /\ TaskNews(task[t], r)
  BY <1>1, TypeFacts DEF MemoryInv, NewsInv
<1>3. object' = object \/ object' = [object EXCEPT ![q] = o]
  BY <1>1 DEF ReceiveDelegatedCallRequest, RegisterPending, TypeOK
<1>4. task' = task \/ (task' = [task EXCEPT ![t] = tk] /\ task[t].pc = "getToken")
  BY <1>1 DEF ReceiveDelegatedCallRequest, At, TypeOK
<1> HIDE DEF list
<1>5. SameMemory(o, x)
  BY <1>2 DEF ObjectType, SameMemory, Left
<1>6. /\ tk.active = task[t].active /\ tk.base = task[t].base /\ tk.migrated = task[t].migrated
      /\ tk.new = task[t].new /\ tk.outcome = task[t].outcome /\ tk.answer = task[t].answer
      /\ tk.pc = task[t].pc /\ tk.resume = task[t].resume /\ tk.sent = task[t].sent
      /\ tk.called = task[t].called
  BY <1>2 DEF TaskType
<1> HIDE DEF o, tk
<1>7. Goes(t, tk)
  <2>1. StepOf(tk) = StepOf(task[t]) /\ Changed(tk) = Changed(task[t])
    BY <1>6 DEF StepOf, Changed
  <2>2. TaskNews(tk, r)
    BY <1>2, <1>6, <2>1 DEF TaskNews
  <2> QED
    BY <1>1, <1>2, <1>6, <2>1, <2>2, ActGoes
<1>8. \A u \in Tasks : task'[u] = task[u] \/ (BaseKept(u, task'[u]) /\ Carries(u, task'[u]))
  BY <1>1, <1>4, <1>7 DEF TypeOK, Goes, BaseKept
<1>9. \A p \in Pulses : object'[p] = object[p]
          \/ (DirtyKept(p, object'[p], object[p]) /\ MemoryKept(p, object'[p], object[p]))
  <2>1. \A p \in Pulses : object'[p] = object[p] \/ SameMemory(object'[p], object[p])
    BY <1>1, <1>3, <1>5, OneObject
  <2> QED
    BY <2>1, SameMemoryKept
<1>10. /\ NewsInv' /\ EndInv' /\ BaseInv' /\ SavedInv' /\ LatestInv'
       /\ Answered' \subseteq Answered
  BY <1>1, <1>8, <1>9, RestKept
<1>11. KeptInv'
  BY <1>1, <1>8, <1>9, <1>10, KeptStep
<1> QED
  BY <1>10, <1>11 DEF MemoryInv

(* SMVDelegatedRequestFinished: what it does to the object *)
LEMMA FinishedShape ==
    ASSUME ExecutorInv, PlainInv, PanicInv, NEW m \in msgs, ReceiveDelegatedRequestFinished(m)
    PROVE  \E o : LET x == object[m.to] IN
              /\ object' = [object EXCEPT ![m.to] = o]
              /\ o.dirty = (IF m.latest.has THEN m.latest ELSE x.dirty)
              /\ o.state = x.state /\ o.report = x.report /\ o.phase = x.phase
              /\ o.prevPending = x.prevPending
              /\ o.execute = x.execute \/ CallFlag[Call[m.task]] = Tolerable
              /\ x.state # "Unknown"
<1> DEFINE q == m.to
           t == m.task
           r == Call[t]
           f == CallFlag[r]
           x == object[q]
           list == PendingFinish(x.pending[f], r)
           dirty == IF m.latest.has THEN m.latest ELSE x.dirty
           o1 == [x EXCEPT !.dirty = dirty]
           o3 == [o1 EXCEPT !.pending[f] = list]
           o4 == ReleasePaths(o3)
           same(o) == /\ o.dirty = dirty /\ o.state = x.state /\ o.report = x.report
                      /\ o.phase = x.phase /\ o.prevPending = x.prevPending
<1>1. /\ TypeOK /\ q \in Pulses /\ t \in Tasks /\ q \in Nat
      /\ m.type = "VDelegatedRequestFinished" /\ clock[q] = q /\ x.ReadyToWork
  BY PulseFacts DEF ExecutorInv, TypeOK, MessageType, ReceiveDelegatedRequestFinished, Present
<1>2. /\ x \in ObjectType /\ r \in Requests /\ f \in Flags /\ ObjectOK(x, q, clock[q])
  BY <1>1, TypeFacts, CallFacts DEF ExecutorInv, LocalInv, ObjectInv
<1>3. Exist(x.pending[f], r)
  BY <1>1, <1>2 DEF PanicInv, HandInv, TokenInv, EndNoted, Entered, Exist
<1>4. /\ x.state \in {"Missing", "HasState"} /\ (m.latest.has => x.state = "HasState")
  <2>1. Live(q) /\ ObjectPlain(x)
    BY <1>1 DEF Live, PlainInv
  <2>2. MessagePlain(m, x)
    BY DEF PlainInv
  <2> QED
    BY <1>1, <1>2, <2>1, <2>2 DEF ObjectPlain, MessagePlain, ObjectOK
<1>5. SetLatestState(x, m.latest) = o1 /\ o1.state = x.state /\ o1.pending = x.pending
      /\ [o1 EXCEPT !.state = x.state] = o1
  BY <1>2 DEF SetLatestState, ObjectType
<1>6. \/ object' = [object EXCEPT ![q] = o3]
      \/ object' = [object EXCEPT ![q] = o4] /\ f = Tolerable
  <2> DEFINE y3 == [o1 EXCEPT !.pending[f] = PendingFinish(@, r)]
             badState == m.latest.has /\ o1.state \notin {"Empty", "HasState"}
             o2 == [o1 EXCEPT !.state =
                      IF @ # "Empty" THEN @
                      ELSE IF m.latest.has THEN "HasState"
                      ELSE IF f = Tolerable /\ r \in Constructors THEN "Missing"
                      ELSE @]
             signal == /\ f = Tolerable
                       /\ y3.pending[f].countActive = 0
                       /\ y3.signal
  <2>1. o1.state # "Empty" /\ ~ badState
    BY <1>4, <1>5
  <2>2. y3 = o3
    <3> HIDE DEF o1
    <3> QED
      BY <1>5
  <2> HIDE DEF o1
  <2>3. o2 = o1
    BY <1>5, <2>1
  <2>4. Exist(o2.pending[f], r)
    BY <1>3, <1>5, <2>3
  <2>5. object' = [object EXCEPT ![q] = IF signal THEN ReleasePaths(y3) ELSE y3]
    <3> HIDE DEF badState
    <3>1. object' = [object EXCEPT ![q] =
                 IF badState THEN o1
                 ELSE IF ~ Exist(o2.pending[f], r) THEN o2
                 ELSE LET z3 == [o2 EXCEPT !.pending[f] = PendingFinish(@, r)]
                          sig == /\ f = Tolerable
                                 /\ z3.pending[f].countActive = 0
                                 /\ z3.signal
                      IN  IF sig THEN ReleasePaths(z3) ELSE z3]
      BY <1>5 DEF ReceiveDelegatedRequestFinished, badState
    <3> HIDE DEF o2
    <3> QED
      BY <2>1, <2>3, <2>4, <3>1
  <2>6. signal => f = Tolerable
    OBVIOUS
  <2> HIDE DEF signal, y3, o3
  <2> QED
    BY <2>2, <2>5, <2>6
<1>7. DOMAIN x = DOMAIN NewObject("none")
  BY <1>2 DEF ObjectType, NewObject
<1> HIDE DEF list, dirty
<1>8. same(o1) /\ o1.execute = x.execute /\ DOMAIN o1 = DOMAIN NewObject("none")
  BY <1>7 DEF NewObject
<1>9. same(o3) /\ o3.execute = x.execute /\ DOMAIN o3 = DOMAIN NewObject("none")
  <2> HIDE DEF o1
  <2> QED
    BY <1>8 DEF NewObject
<1>10. same(o4)
  <2> HIDE DEF o3
  <2> QED
    BY <1>9 DEF NewObject, ReleasePaths
<1> HIDE DEF o1, o3, o4
<1>11. x.state # "Unknown"
  BY <1>4
<1> QED
  BY <1>6, <1>9, <1>10, <1>11 DEF dirty

(* The end of an ordered call is the only one on its way, and brings all   *)
(* that was answered.                                                      *)
LEMMA DelegatedRequestFinishedMemory ==
    ASSUME ExecutorInv, OrderInv, PlainInv, PanicInv, MemoryInv, FlagsAgree, NEW m \in msgs,
           ReceiveDelegatedRequestFinished(m)
    PROVE  MemoryInv'
<1> DEFINE q == m.to
           x == object[q]
<1>1. /\ TypeOK /\ q \in Pulses /\ m.task \in Tasks /\ q \in Nat
      /\ m.type = "VDelegatedRequestFinished" /\ clock[q] = q
      /\ clock' = clock /\ task' = task /\ msgs' = msgs \ {m}
  BY PulseFacts DEF ExecutorInv, TypeOK, MessageType, ReceiveDelegatedRequestFinished, Present
<1>2. PICK o : /\ object' = [object EXCEPT ![q] = o]
               /\ o.dirty = (IF m.latest.has THEN m.latest ELSE x.dirty)
               /\ o.state = x.state /\ o.report = x.report /\ o.phase = x.phase
               /\ o.prevPending = x.prevPending
               /\ o.execute = x.execute \/ CallFlag[Call[m.task]] = Tolerable
               /\ x.state # "Unknown"
  BY FinishedShape
<1>3. m.latest.has => IsEnd(m) /\ Answered \subseteq m.latest.memory
  BY <1>1 DEF MemoryInv, LatestInv, IsEnd
<1>4. IsEnd(m) => Shut(x) /\ \A n \in msgs' : ~ IsEnd(n)
  BY <1>1 DEF MemoryInv, EndInv
<1>5. ~ IsEnd(m) => o.execute = x.execute
  BY <1>1, <1>2, CallFacts DEF IsEnd, FlagsAgree, IsOrdered, FlagOf
<1>6. DirtyKept(q, o, x)
  <2>1. o.dirty = x.dirty \/ AllSaved(q, o)
    <3>1. CASE m.latest.has
      BY <1>1, <1>3, <1>4, <3>1, SavedOpen DEF AllSaved, Shut
    <3>2. CASE ~ m.latest.has
      BY <1>2, <3>2
    <3> QED
      BY <3>1, <3>2
  <2>2. (\E n \in msgs' : IsEnd(n)) => (Shut(x) => Shut(o))
    BY <1>2, <1>4, <1>5 DEF Shut
  <2> QED
    BY <2>1, <2>2 DEF DirtyKept
<1>7. MemoryKept(q, o, x)
  BY <1>2, <1>3 DEF MemoryKept, Left
<1>8. object'[q] = o /\ \A p \in Pulses : p # q => object'[p] = object[p]
  BY <1>1, <1>2 DEF TypeOK
<1>9. /\ NewsInv' /\ EndInv' /\ BaseInv' /\ SavedInv' /\ LatestInv'
      /\ Answered' \subseteq Answered
  BY <1>1, <1>6, <1>8, RestKept
<1>10. KeptInv'
  <2>1. CASE ~ m.latest.has
    BY <1>1, <1>7, <1>8, <1>9, <2>1, KeptStep
  <2>2. CASE m.latest.has
    <3> SUFFICES ASSUME NEW r \in Answered PROVE Kept(r)'
      BY <1>9 DEF KeptInv
    <3>1. r \in o.dirty.memory /\ o.state # "Unknown"
      BY <1>2, <1>3, <2>2
    <3>2. \A p \in Pulses : clock[p] = p => p = q
      BY <1>1 DEF OrderInv, TogetherInv
    <3> QED
      BY <1>1, <1>8, <3>1, <3>2 DEF Kept, InObject
  <2> QED
    BY <2>1, <2>2
<1> QED
  BY <1>9, <1>10 DEF MemoryInv

(* What the machine of a call says of its result is the same after a pulse *)
(* change.                                                                 *)
LEMMA MigrateNews ==
    ASSUME NEW t \in Tasks, task[t] \in TaskType, TaskNews(task[t], Call[t]),
           task[t].pc # "getToken"
    PROVE  LET new == MigrateTask(task[t]) IN
           /\ TaskNews(new, Call[t])
           /\ Changed(new) = Changed(task[t])
           /\ new.active => new.base = task[t].base /\ task[t].active
           /\ ~ SavedHere(new) \/ new = task[t]
<1> DEFINE tk == task[t]
           asks == [tk EXCEPT !.pc = "getToken", !.resume = tk.pc, !.migrated = TRUE]
<1>1. CASE tk.pc \in Ended \cup {"idle"}
  <2>1. MigrateTask(tk) = tk
    BY <1>1 DEF MigrateTask, Asks, Ended
  <2> QED
    BY <2>1
<1>2. CASE Asks(tk)
  <2>1. tk.pc \notin Ended \cup {"idle"} /\ tk.active
    BY <1>2 DEF Asks
  <2>2. MigrateTask(tk) = asks
    BY <1>2, <2>1 DEF MigrateTask, Asks, Ended
  <2>3. /\ asks.pc = "getToken" /\ asks.resume = tk.pc /\ asks.migrated /\ asks.active = tk.active
        /\ asks.base = tk.base /\ asks.new = tk.new /\ asks.outcome = tk.outcome
        /\ asks.answer = tk.answer /\ asks.sent = tk.sent /\ asks.called = tk.called
    BY DEF TaskType
  <2> HIDE DEF asks
  <2>4. StepOf(asks) = StepOf(tk)
    BY <2>3 DEF StepOf
  <2>5. TaskNews(asks, Call[t])
    BY <2>1, <2>3, <2>4 DEF TaskNews
  <2> QED
    BY <2>1, <2>2, <2>3, <2>5 DEF Changed, SavedHere
<1>3. CASE tk.pc \notin Ended \cup {"idle"} /\ ~ Asks(tk)
  <2>1. PICK pc \in {"dead", "stopped"} : MigrateTask(tk) = EndTask(tk, pc)
    BY <1>3 DEF MigrateTask
  <2>2. pc \in Ended
    BY DEF Ended
  <2>3. NewsKeeps(t, EndTask(tk, pc)) /\ ~ SavedHere(EndTask(tk, pc)) /\ ~ EndTask(tk, pc).active
    BY <2>2, EndNews
  <2>4. EndTask(tk, pc).outcome = tk.outcome /\ EndTask(tk, pc).answer = tk.answer
    BY DEF EndTask, IdleTask
  <2> QED
    BY <2>1, <2>3, <2>4 DEF NewsKeeps, Changed
<1> QED
  BY <1>1, <1>2, <1>3

(* When the messages of a pulse have arrived, no end is on its way. *)
LEMMA EndsArrived ==
    ASSUME ExecutorInv, OrderInv, PlainInv, PanicInv, NEW old \in Pulses,
           \A n \in Pulses : clock[n] = old, HandoverDone(old), NEW m \in msgs
    PROVE  m.type # "VDelegatedRequestFinished"
<1> SUFFICES ASSUME m.type = "VDelegatedRequestFinished" PROVE FALSE
  OBVIOUS
<1> DEFINE x == object[old]
<1>1. /\ m.to = old /\ m.task \in Tasks /\ old \in Nat /\ clock[old] = old
      /\ ObjectOK(x, old, clock[old]) /\ PhaseOK(x, msgs)
  BY PulseFacts DEF OrderInv, TogetherInv, ExecutorInv, TypeOK, MessageType, LocalInv, ObjectInv,
     PanicInv, HandInv, PhaseInv
<1>2. EndNoted(m, x)
  BY <1>1 DEF PanicInv, HandInv, TokenInv
<1>3. x.state # "Unknown"
  <2>1. Live(old) /\ ObjectPlain(x)
    BY <1>1 DEF Live, PlainInv
  <2>2. Call[m.task] \in Requests /\ CallFlag[Call[m.task]] \in Flags
    BY <1>1, CallFacts
  <2> QED
    BY <1>2, <2>1, <2>2 DEF ObjectPlain, NoPending, EndNoted
<1>4. x.phase # "none"
  BY <1>1, <1>3 DEF ObjectOK, NewObject
<1>5. x.phase \notin {"getState", "waitState"}
  BY <1>1 DEF HandoverDone
<1>6. x.ReadyToWork
  BY <1>1, <1>3, <1>4, <1>5 DEF PhaseOK
<1> QED
  BY <1>1, <1>6 DEF HandoverDone, Deliverable

(* The pulse change: the report of an executor has its memory, or the call *)
(* that made the change goes on.                                           *)
LEMMA AdvanceMemory ==
    ASSUME ExecutorInv, OrderInv, PlainInv, PanicInv, MemoryInv, ~ Skewed, Timely,
           NEW old \in Pulses, AdvancePulse(Pulses, old)
    PROVE  MemoryInv'
<1> DEFINE x == object[old]
<1>0. Pulses \in ChangeTogether
  BY DEF ChangeTogether
<1>1. /\ old \in Nat /\ old + 1 \in Pulses /\ TypeOK
      /\ \A n \in Pulses : n \in Nat /\ clock[n] = old /\ clock'[n] = old + 1
      /\ \A n \in Pulses : n > old => object'[n] = object[n]
      /\ object'[old] = MigrateObject(x) /\ x \in ObjectType
  BY <1>0, AdvanceFacts, PulseFacts, TypeFacts DEF ExecutorInv
<1>2. HandoverDone(old)
  BY DEF AdvancePulse
<1>3. \A t \in Tasks : task[t].pc # "getToken"
  BY <1>1, <1>2, TokensGiven
<1>4. \A m \in msgs : m.type # "VDelegatedRequestFinished"
  BY <1>1, <1>2, EndsArrived
<1>5. \A t \in Tasks : /\ NodeOf(t)' = old + 1 /\ SlotOf[t] \in Nat /\ SlotOf[t] \in Pulses
                       /\ NodeOf(t) = old
                       /\ task'[t] = MigrateTask(task[t]) /\ task[t] \in TaskType
                       /\ TaskOK(task[t], NodeOf(t), SlotOf[t]) /\ TaskNews(task[t], Call[t])
                       /\ TaskOK(task'[t], old + 1, SlotOf[t])
  BY <1>0, <1>1, AdvanceFacts, PulseFacts, TypeFacts
     DEF ExecutorInv, LocalInv, TaskInv, MemoryInv, NewsInv
<1>6. \A t \in Tasks : /\ TaskNews(task'[t], Call[t])
                       /\ Changed(task'[t]) = Changed(task[t])
                       /\ task'[t].active => task'[t].base = task[t].base /\ task[t].active
                       /\ ~ SavedHere(task'[t]) \/ task'[t] = task[t]
  BY <1>3, <1>5, MigrateNews
<1>7. \A m \in msgs' : m.type = "VDelegatedCallRequest"
  <2>1. \A m \in msgs : m.to = old
    BY <1>1 DEF OrderInv, TogetherInv
  <2>2. \A t : DelegatedCallRequest(old + 1, t).type = "VDelegatedCallRequest"
    BY DEF DelegatedCallRequest
  <2> QED
    BY <2>1, <2>2 DEF AdvancePulse, Posted
<1>8. Answered' = Answered
  BY <1>6 DEF Answered, Changed
<1>9. NewsInv'
  BY <1>6 DEF NewsInv, TaskNews, StepOf
<1>10. EndInv' /\ LatestInv'
  BY <1>7 DEF EndInv, LatestInv, IsEnd
<1>11. BaseInv'
  BY <1>6, <1>8 DEF MemoryInv, BaseInv, IsOrdered
<1>12. SavedInv'
  <2> SUFFICES ASSUME NEW t \in Tasks, SavedHere(task'[t]) PROVE FALSE
    BY DEF SavedInv, SavedHere
  <2>1. task'[t] = task[t] /\ task'[t].active
    BY <1>6 DEF SavedHere, TaskNews
  <2>2. task[t].migrated
    BY <1>1, <1>5, <2>1 DEF TaskOK
  <2> QED
    BY <2>1, <2>2 DEF SavedHere
<1>13. KeptInv'
  <2> SUFFICES ASSUME NEW r \in Answered, ~ Coming(r)' PROVE Kept(r)'
    BY <1>8 DEF KeptInv
  <2>1. ~ Coming(r)
    <3> SUFFICES ASSUME NEW t \in Tasks, Taken(t), Changed(task[t]), Call[t] = r PROVE FALSE
      BY <1>4 DEF Coming
    <3>1. task[t].active /\ Asks(task[t])
      BY <1>3, <1>5 DEF Taken, TaskOK, Asks, ActingSteps, Ended
    <3>2. task'[t].active
      BY <1>5, <3>1, MigrateTaskCases
    <3>3. SlotOf[t] < old + 1
      BY <1>1, <1>5 DEF Taken
    <3>4. Taken(t)'
      BY <1>5, <3>2, <3>3 DEF Taken
    <3> QED
      BY <1>6, <3>4 DEF Coming, Changed
  <2>2. InObject(x, r)
    BY <1>1, <2>1 DEF MemoryInv, KeptInv, Kept
  <2>3. Left(object'[old]) => Says(object'[old].report, r)
    <3>1. Live(old) /\ ObjectPlain(x)
      BY <1>1 DEF Live, PlainInv
    <3>2. CASE x.state = "Unknown"
      <4>1. object'[old].phase = "gone"
        BY <1>1, <3>2 DEF MigrateObject, Dropped, NewObject
      <4> QED
        BY <4>1 DEF Left
    <3>3. CASE x.state # "Unknown"
      <4> DEFINE report == BuildStateReport(x)
      <4>1. [x EXCEPT !.state = x.state] = x
        BY <1>1 DEF ObjectType
      <4>2. MigrateObject(x) = [x EXCEPT !.phase = "publish", !.report = report, !.asked = FALSE]
        BY <3>1, <3>3, <4>1 DEF MigrateObject, ObjectPlain
      <4>3. report.Status = "Ready" => x.state = "HasState" /\ report.ProvidedContent = x.dirty
        BY <3>1, <3>3 DEF BuildStateReport, ReportStatus, ObjectPlain
      <4> HIDE DEF report
      <4>4. object'[old].report = report
        BY <1>1, <4>2 DEF ObjectType
      <4> QED
        BY <2>2, <4>3, <4>4 DEF Says, InObject
    <3> QED
      BY <3>2, <3>3
  <2>4. object'[old + 1].state = "Unknown"
    <3>1. clock[old + 1] < old + 1 /\ old + 1 > old
      BY <1>1
    <3>2. object[old + 1] = NewObject("none")
      BY <1>1, <3>1 DEF OrderInv, TogetherInv, ExecutorInv, LocalInv, ObjectInv, ObjectOK
    <3> QED
      BY <1>1, <3>1, <3>2 DEF NewObject
  <2>5. \A p \in Pulses : /\ clock'[p] = p => p = old + 1
                          /\ clock'[p] = p + 1 => p = old
    BY <1>1
  <2>6. InReports(r)'
    <3>1. \A m \in msgs' : m.type # "VStateReport"
      BY <1>7
    <3> QED
      BY <2>3, <2>5, <3>1 DEF InReports, Says, Left
  <2> QED
    BY <2>4, <2>5, <2>6 DEF Kept, InObject
<1> QED
  BY <1>9, <1>10, <1>11, <1>12, <1>13 DEF MemoryInv

LEMMA InitMemory == Init => MemoryInv
<1> SUFFICES ASSUME Init PROVE MemoryInv
  OBVIOUS
<1>1. PICK h \in Handovers : TakenOver(h)
  BY DEF Init
<1> DEFINE run == [IdleTask EXCEPT !.pc = "getToken", !.resume = "execute",
                      !.lock = TRUE, !.active = TRUE, !.ran = TRUE,
                      !.migrated = TRUE, !.negotiated = TRUE,
                      !.base = h.report.ProvidedContent.memory]
<1>2. \A t \in Tasks : task[t] = run \/ task[t] = IdleTask
  BY <1>1 DEF TakenOver
<1>3. /\ run.pc = "getToken" /\ run.resume = "execute" /\ run.answer = "none" /\ run.active
      /\ run.outcome = "none" /\ ~ run.new.has /\ run.sent = 0
      /\ IdleTask.pc = "idle" /\ IdleTask.answer = "none" /\ IdleTask.outcome = "none"
      /\ ~ IdleTask.new.has /\ IdleTask.sent = 0 /\ ~ IdleTask.active
  BY DEF IdleTask, NoDescriptor
<1> HIDE DEF run
<1>4. StepOf(run) = "execute" /\ StepOf(IdleTask) = "idle"
  BY <1>3 DEF StepOf
<1>5. \A r : TaskNews(run, r) /\ TaskNews(IdleTask, r)
  BY <1>3, <1>4 DEF TaskNews
<1>6. NewsInv
  BY <1>2, <1>5 DEF NewsInv
<1>7. Answered = {}
  BY <1>2, <1>3 DEF Answered
<1>8. SavedInv
  BY <1>2, <1>3 DEF SavedInv
<1>9. \A m \in msgs : m.type # "VDelegatedRequestFinished"
  <2>1. /\ \A q, t : DelegatedCallRequest(q, t).type = "VDelegatedCallRequest"
        /\ \A q, report : StateReportTo(q, report).type = "VStateReport"
    BY DEF DelegatedCallRequest, StateReportTo
  <2> QED
    BY <1>1, <2>1 DEF TakenOver
<1> QED
  BY <1>6, <1>7, <1>8, <1>9 DEF MemoryInv, EndInv, IsEnd, BaseInv, LatestInv, KeptInv

LEMMA NextMemory ==
    ASSUME ExecutorInv, OnceInv, UseInv, OrderInv, PlainInv, PanicInv, MemoryInv, RepeatedSoon,
           ~ Skewed, Timely, FlagsAgree, [Next]_vars
    PROVE  MemoryInv'
<1>0. TypeOK
  BY DEF ExecutorInv
<1>1. ASSUME NEW t \in Tasks, TaskStepOf(t) PROVE MemoryInv'
  BY <1>1, EarlyMemory, DeduplicateMemory, StartMemory, CodeMemory, SaveNewObjectMemory,
     SendCallResultMemory, FinishRequestMemory, PublishDataCallSummaryMemory, DelegatedMemory
     DEF TaskStepOf
<1>2. CASE PulseChange
  <2>1. PICK old \in Pulses : AdvancePulse(Pulses, old)
    BY <1>2 DEF PulseChange, ChangeTogether
  <2> QED
    BY <2>1, AdvanceMemory
<1>3. CASE Receive
  BY <1>3, ReceiveStateReportMemory, CreateForDelegatedMemory, DelegatedCallRequestMemory,
     DelegatedRequestFinishedMemory DEF Receive
<1>4. CASE UNCHANGED vars
  <2>1. clock' = clock /\ object' = object /\ task' = task /\ msgs' = msgs
    BY <1>4 DEF vars
  <2>2. /\ NewsInv' /\ EndInv' /\ BaseInv' /\ SavedInv' /\ LatestInv'
        /\ Answered' \subseteq Answered
    BY <1>0, <2>1, RestKept
  <2>3. KeptInv'
    BY <2>1, <2>2, KeptStep
  <2> QED
    BY <2>2, <2>3 DEF MemoryInv
<1>5. ASSUME NEW p \in Pulses, ObjectStep(p) PROVE MemoryInv'
  BY <1>5, ObjectStepsMemory
<1>6. ASSUME NEW t \in Tasks, StepGetObject(t) PROVE MemoryInv'
  BY <1>6, GetObjectMemory
<1> QED
  BY <1>1, <1>2, <1>3, <1>4, <1>5, <1>6 DEF Next

(* No other step makes a machine start its code. *)
LEMMA StartsOnly ==
    ASSUME TypeOK, [Next]_vars, NEW u \in Tasks, ~ task[u].ran, task'[u].ran
    PROVE  StepStartRequestProcessing(u)
<1>1. \A t \in Tasks : task[t] \in TaskType
  BY TypeFacts
<1>2. \A x, pc : EndTask(x, pc).ran = x.ran
  BY DEF EndTask, IdleTask
<1>3. ASSUME NEW t \in Tasks, NEW tk, task' = [task EXCEPT ![t] = tk], tk.ran = task[t].ran
      PROVE  FALSE
  BY <1>3 DEF TypeOK
<1>4. \A t \in Tasks : \A pc : /\ Goto(t, pc).ran = task[t].ran
                           /\ DOMAIN Goto(t, pc) = DOMAIN task[t]
  BY <1>1 DEF Goto, TaskType
<1>5. \A t \in Tasks : \A pc, w :
         /\ [Goto(t, pc) EXCEPT !.outcome = w].ran = task[t].ran
         /\ [Goto(t, pc) EXCEPT !.settled = w].ran = task[t].ran
         /\ [Goto(t, pc) EXCEPT !.lock = w].ran = task[t].ran
         /\ [Goto(t, pc) EXCEPT !.negotiated = w].ran = task[t].ran
         /\ [Goto(t, pc) EXCEPT !.new = w].ran = task[t].ran
         /\ [Goto(t, pc) EXCEPT !.answer = w].ran = task[t].ran
         /\ [task[t] EXCEPT !.answer = w].ran = task[t].ran
         /\ [task[t] EXCEPT !.find = w].ran = task[t].ran
         /\ [task[t] EXCEPT !.sent = w].ran = task[t].ran
         /\ [task[t] EXCEPT !.granted = w].ran = task[t].ran
         /\ [task[t] EXCEPT !.sent = 0, !.called = w].ran = task[t].ran
  BY <1>1 DEF Goto, TaskType
<1>6. ASSUME NEW t \in Tasks, StepGetObject(t) PROVE FALSE
  BY <1>3, <1>4, <1>6 DEF StepGetObject, Step
<1>7. ASSUME NEW t \in Tasks, StepWaitObjectReady(t) \/ StepWaitPendingConstructorFinished(t)
      PROVE  FALSE
  <2>1. PICK tk : /\ task' = [task EXCEPT ![t] = tk]
                  /\ \/ tk = [Goto(t, "sendCallResult") EXCEPT !.outcome = "error"]
                     \/ tk = Goto(t, "waitConstructor")
                     \/ tk = EndTask(task[t], "dead")
                     \/ tk = [Goto(t, "deduplicate") EXCEPT !.negotiated = TRUE]
    BY <1>7 DEF StepWaitObjectReady, StepWaitPendingConstructorFinished,
                StepIsolationNegotiation, Step
  <2>2. tk.ran = task[t].ran
    <3>1. CASE tk = EndTask(task[t], "dead")
      BY <1>2, <3>1
    <3>2. CASE tk # EndTask(task[t], "dead")
      BY <1>1, <2>1, <3>2 DEF Goto, TaskType
    <3> QED
      BY <3>1, <3>2
  <2> QED
    BY <1>3, <2>1, <2>2
<1>8. ASSUME NEW t \in Tasks, StepDeduplicate(t) PROVE FALSE
  <2>1. PICK tk : /\ task' = [task EXCEPT ![t] = tk]
                  /\ \/ tk = Goto(t, "takeLock")
                     \/ \E w : tk = [Goto(t, "waitFindCall") EXCEPT !.settled = w]
                     \/ \E pc : tk = EndTask(task[t], pc)
                     \/ tk = EndTask([task[t] EXCEPT !.answer = "resent"], "deduplicated")
    <3>1. DeduplicationAction(t) \in {"ContinueExecute", "Stop", "NotImplemented",
                                      "DeduplicateThroughPreviousExecutor"}
      BY DEF DeduplicationAction
    <3> QED
      BY <1>8, <3>1 DEF StepDeduplicate, Step
  <2>2. tk.ran = task[t].ran
    <3>1. ASSUME NEW pc, tk = EndTask(task[t], pc) PROVE tk.ran = task[t].ran
      BY <1>2, <3>1
    <3>2. CASE tk = EndTask([task[t] EXCEPT !.answer = "resent"], "deduplicated")
      <4>1. [task[t] EXCEPT !.answer = "resent"].ran = task[t].ran
        BY <1>1 DEF TaskType
      <4> QED
        BY <1>2, <3>2, <4>1
    <3>3. CASE \/ tk = Goto(t, "takeLock")
               \/ \E w : tk = [Goto(t, "waitFindCall") EXCEPT !.settled = w]
      BY <1>1, <3>3 DEF Goto, TaskType
    <3> QED
      BY <2>1, <3>1, <3>2, <3>3
  <2> QED
    BY <1>3, <2>1, <2>2
<1>9. ASSUME NEW t \in Tasks, AnswerFindCall(t) PROVE FALSE
  <2>1. PICK w : task' = [task EXCEPT ![t] = [task[t] EXCEPT !.find = w]]
    BY <1>9 DEF AnswerFindCall, Step
  <2> QED
    BY <1>3, <1>5, <2>1
<1>10. ASSUME NEW t \in Tasks, StepProcessFindCallResponse(t) PROVE FALSE
  <2>1. task[t].find \in {"result", "running", "notFound"}
    BY <1>1, <1>10 DEF StepProcessFindCallResponse, TaskType
  <2>2. PICK tk : /\ task' = [task EXCEPT ![t] = tk]
                  /\ \/ tk = Goto(t, "takeLock")
                     \/ \E pc : tk = EndTask(task[t], pc)
                     \/ tk = EndTask([task[t] EXCEPT !.answer = "resent"], "deduplicated")
    BY <1>10, <2>1 DEF StepProcessFindCallResponse, Step
  <2>3. tk.ran = task[t].ran
    BY <1>1, <1>2, <2>2 DEF Goto, TaskType
  <2> QED
    BY <1>3, <2>2, <2>3
<1>11. ASSUME NEW t \in Tasks, StepTakeLock(t) \/ StepRegisterObjectLifelineAfter(t) PROVE FALSE
  <2>1. PICK tk : /\ task' = [task EXCEPT ![t] = tk]
                  /\ \/ \E pc : tk = [Goto(t, pc) EXCEPT !.lock = TRUE]
                     \/ tk = Goto(t, "start")
    BY <1>11 DEF StepTakeLock, StepRegisterObjectLifelineAfter, Step
  <2>2. tk.ran = task[t].ran
    BY <1>1, <2>1 DEF Goto, TaskType
  <2> QED
    BY <1>3, <2>1, <2>2
<1>12. ASSUME NEW t \in Tasks, StepStartRequestProcessing(t), t # u PROVE FALSE
  BY <1>12 DEF StepStartRequestProcessing, Step, TypeOK
<1>13. ASSUME NEW t \in Tasks, \/ StepSendOutgoing(t) \/ StepExecuteContinue(t)
                              \/ StepExecuteDecideNextStep(t) \/ StepSendCallResult(t)
       PROVE  FALSE
  <2>1. PICK tk : /\ task' = [task EXCEPT ![t] = tk]
                  /\ \/ \E w : tk = [task[t] EXCEPT !.sent = w]
                     \/ tk = [task[t] EXCEPT !.sent = 0, !.called = TRUE]
                     \/ \E pc, w : tk = [Goto(t, pc) EXCEPT !.outcome = w]
                     \/ \E pc, w : tk = [Goto(t, pc) EXCEPT !.answer = w]
    BY <1>13 DEF StepSendOutgoing, StepExecuteContinue, StepExecuteDecideNextStep,
                 StepSendCallResult, Step
  <2>2. tk.ran = task[t].ran
    BY <1>1, <2>1 DEF Goto, TaskType
  <2> QED
    BY <1>3, <2>1, <2>2
<1>14. ASSUME NEW t \in Tasks, \/ StepSaveNewObject(t) \/ StepFinishRequest(t)
                              \/ StepPublishDataCallSummary(t)
                              \/ StepSendDelegatedRequestFinished(t)
       PROVE  FALSE
  <2>1. PICK tk : /\ task' = [task EXCEPT ![t] = tk]
                  /\ \/ \E w : tk = [Goto(t, "sendCallResult") EXCEPT !.new = w]
                     \/ \E pc : tk = Goto(t, pc)
                     \/ \E pc : tk = EndTask(task[t], pc)
    BY <1>14 DEF StepSaveNewObject, StepFinishRequest, StepPublishDataCallSummary,
                 StepSendDelegatedRequestFinished, Step
  <2>2. tk.ran = task[t].ran
    <3>1. ASSUME NEW pc, tk = EndTask(task[t], pc) PROVE tk.ran = task[t].ran
      BY <1>2, <3>1
    <3>2. CASE \/ \E w : tk = [Goto(t, "sendCallResult") EXCEPT !.new = w]
               \/ \E pc : tk = Goto(t, pc)
      BY <1>1, <3>2 DEF Goto, TaskType
    <3> QED
      BY <2>1, <3>1, <3>2
  <2> QED
    BY <1>3, <2>1, <2>2
<1>15. ASSUME NEW t \in Tasks, StepDelegationToken(t) PROVE FALSE
  <2> DEFINE tk == [task[t] EXCEPT !.pc = task[t].resume, !.resume = "idle",
                                   !.granted = UnknownPulse]
  <2>1. tk.ran = task[t].ran /\ \A w : [tk EXCEPT !.sent = w].ran = task[t].ran
    BY <1>1 DEF TaskType
  <2>2. \/ task' = [task EXCEPT ![t] = tk]
        \/ task' = [task EXCEPT ![t] = EndTask(tk, "dead")]
        \/ task' = [task EXCEPT ![t] = [tk EXCEPT !.sent = tk.sent + 1]]
    BY <1>15 DEF StepDelegationToken, Step
  <2>3. EndTask(tk, "dead").ran = task[t].ran
    BY <1>2, <2>1
  <2> HIDE DEF tk
  <2>4. CASE task' = [task EXCEPT ![t] = tk]
    BY <1>3, <2>1, <2>4
  <2>5. CASE task' = [task EXCEPT ![t] = EndTask(tk, "dead")]
    BY <1>3, <2>3, <2>5
  <2>6. CASE task' = [task EXCEPT ![t] = [tk EXCEPT !.sent = tk.sent + 1]]
    <3>1. [tk EXCEPT !.sent = tk.sent + 1].ran = task[t].ran
      BY <2>1
    <3> QED
      BY <1>3, <2>6, <3>1
  <2> QED
    BY <2>2, <2>4, <2>5, <2>6
<1>16. ASSUME Receive PROVE FALSE
  <2>1. PICK m \in msgs : \/ ReceiveStateReport(m) \/ CreateForDelegated(m)
                          \/ ReceiveDelegatedCallRequest(m) \/ ReceiveDelegatedRequestFinished(m)
    BY <1>16 DEF Receive
  <2>2. task' # task
    OBVIOUS
  <2>3. ReceiveDelegatedCallRequest(m)
    BY <2>1, <2>2 DEF ReceiveStateReport, CreateForDelegated, ReceiveDelegatedRequestFinished
  <2>4. m.task \in Tasks
    BY <2>3 DEF ReceiveDelegatedCallRequest, TypeOK, MessageType
  <2>5. task' = [task EXCEPT ![m.task] = [task[m.task] EXCEPT !.granted = m.to]]
    BY <2>2, <2>3, <2>4 DEF ReceiveDelegatedCallRequest, TypeOK
  <2> QED
    BY <1>3, <1>5, <2>4, <2>5
<1>17. ASSUME PulseChange PROVE FALSE
  <2>1. task'[u] = task[u] \/ task'[u] = MigrateTask(task[u])
    BY <1>17 DEF PulseChange, AdvancePulse
  <2>2. \/ MigrateTask(task[u]) = task[u]
        \/ MigrateTask(task[u]) = [task[u] EXCEPT !.pc = "getToken", !.resume = task[u].pc,
                                                  !.migrated = TRUE]
        \/ \E pc : MigrateTask(task[u]) = EndTask(task[u], pc)
    BY DEF MigrateTask
  <2>3. MigrateTask(task[u]).ran = task[u].ran
    <3>1. ASSUME NEW pc, MigrateTask(task[u]) = EndTask(task[u], pc)
          PROVE  MigrateTask(task[u]).ran = task[u].ran
      BY <1>2, <3>1
    <3>2. CASE MigrateTask(task[u]) = [task[u] EXCEPT !.pc = "getToken", !.resume = task[u].pc,
                                                      !.migrated = TRUE]
      BY <1>1, <3>2 DEF TaskType
    <3> QED
      BY <2>2, <3>1, <3>2
  <2> QED
    BY <2>1, <2>3
<1>18. ASSUME NEW p \in Pulses, ObjectStep(p) PROVE FALSE
  BY <1>18 DEF ObjectStep, StepGetState, StepWaitState, StepPublishCallSummary,
               StepSendVStateReport, AnswerStateRequest
<1>19. PICK t \in Tasks : TaskStepOf(t)
  <2>1. ~ UNCHANGED vars
    BY DEF vars
  <2> QED
    BY <1>6, <1>16, <1>17, <1>18, <2>1 DEF Next
<1> QED
  BY <1>7, <1>8, <1>9, <1>10, <1>11, <1>12, <1>13, <1>14, <1>15, <1>19 DEF TaskStepOf

(* No update is lost: an ordered call starts on a memory that holds every  *)
(* change whose result was sent before, whatever executors, delegated      *)
(* calls and pulse changes lie between (stepStartRequestProcessing,        *)
(* SMObject.migrate, SMVDelegatedRequestFinished).  The nodes change the   *)
(* pulse together and messages arrive within their pulse; the calls are    *)
(* methods that are repeated soon, none deactivates the object, and one    *)
(* that asks for the ordered queue belongs there.                          *)
THEOREM UpdatesKept ==
    (RepeatedSoon /\ ~ Skewed /\ Timely /\ Plain /\ FlagsAgree /\ Counted) => (Spec => NoLostUpdate)
<1> SUFFICES ASSUME RepeatedSoon, ~ Skewed, Timely, Plain, FlagsAgree, Counted
             PROVE  Spec => NoLostUpdate
  OBVIOUS
<1> DEFINE Fresh == \A t \in Tasks : ~ task[t].ran /\ task'[t].ran /\ IsOrdered(t)
                                        => Answered \subseteq task'[t].base
<1>1. OnceInv /\ ExecutorInv /\ [Next]_vars => OnceInv'
  BY NextOnce
<1>2. OnceInv /\ ExecutorInv /\ UseInv /\ [Next]_vars => UseInv'
  BY NextUse
<1>3. OnceInv /\ ExecutorInv /\ UseInv /\ OrderInv /\ [Next]_vars => OrderInv'
  BY NextOrder
<1>4. OnceInv /\ ExecutorInv /\ UseInv /\ PlainInv /\ [Next]_vars => PlainInv'
  BY NextPlain
<1>5. OnceInv /\ ExecutorInv /\ UseInv /\ OrderInv /\ PlainInv /\ PanicInv /\ [Next]_vars => PanicInv'
  BY NextPanic
<1>6. OnceInv /\ ExecutorInv /\ UseInv /\ OrderInv /\ PlainInv /\ PanicInv /\ MemoryInv
         /\ [Next]_vars => MemoryInv'
  BY NextMemory
<1>7. Init => OnceInv /\ UseInv /\ OrderInv /\ PlainInv /\ PanicInv /\ MemoryInv
  BY InitOnce, InitUse, InitOrder, InitPlain, InitPanic, InitMemory
<1>8. OnceInv /\ ExecutorInv /\ UseInv /\ OrderInv /\ PlainInv /\ PanicInv /\ MemoryInv
         /\ [Next]_vars => [Fresh]_vars
  <2> SUFFICES ASSUME OnceInv, ExecutorInv, UseInv, OrderInv, PlainInv, PanicInv, MemoryInv,
                      [Next]_vars, NEW t \in Tasks, ~ task[t].ran, task'[t].ran, IsOrdered(t)
               PROVE  Answered \subseteq task'[t].base
    OBVIOUS
  <2>1. TypeOK /\ task[t] \in TaskType
    BY TypeFacts DEF ExecutorInv
  <2>2. StepStartRequestProcessing(t)
    BY <2>1, StartsOnly
  <2> DEFINE run == [Goto(t, "execute") EXCEPT !.active = TRUE, !.ran = TRUE,
                                               !.base = object[SlotOf[t]].dirty.memory]
  <2>3. task' = [task EXCEPT ![t] = run] /\ Answered \subseteq object[SlotOf[t]].dirty.memory
    BY <2>2, StartFacts
  <2>4. run.base = object[SlotOf[t]].dirty.memory
    BY <2>1 DEF Goto, TaskType
  <2> HIDE DEF run
  <2> QED
    BY <2>1, <2>3, <2>4 DEF TypeOK
<1>9. Spec => [][Fresh]_vars
  BY <1>1, <1>2, <1>3, <1>4, <1>5, <1>6, <1>7, <1>8, ExecutorInvariant, PTL DEF Spec
<1> QED
  BY <1>9 DEF NoLostUpdate
=============================================================================
