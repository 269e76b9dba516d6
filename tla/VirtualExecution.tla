--------------------------- MODULE VirtualExecution ---------------------------
(***************************************************************************)
(* The life of one object under the virtual executors of consecutive       *)
(* pulses: SMObject and SMExecute of each pulse, the message handlers that *)
(* connect them, and the pulse change, at which every machine of a node    *)
(* migrates (virtual/object, virtual/execute, virtual/handlers,            *)
(* virtual/callsummary).                                                   *)
(*                                                                         *)
(* Every pulse p has its own executor node, named p.  Nodes pass from one  *)
(* pulse to the next at different moments: clock[n] is the pulse that node *)
(* n is in.  The slot of pulse p on node p is future, present or past as   *)
(* clock[p] is less than, equal to or greater than p.                      *)
(*                                                                         *)
(* A task is one SMExecute: a VCallRequest that reaches the executor of    *)
(* pulse SlotOf[t] and carries the request Call[t].  Two tasks of one      *)
(* request are a repeated call.  Steps of a task that touch nothing but    *)
(* the task are joined with the step before them.  All calls are on the    *)
(* dirty state; a call on the validated state reads a copy that nothing    *)
(* here depends on.                                                        *)
(*                                                                         *)
(* A message to node q is of pulse q: it waits while the slot is future    *)
(* and is dropped when the slot is past, as the handlers do.  A request    *)
(* for a find call or a state is kept as the state of its sender, because  *)
(* an answer matters only while the sender waits for it.                   *)
(***************************************************************************)
EXTENDS StateReport

CONSTANTS
    Tasks,                  \* SMExecute machines
    Call,                   \* the request that a task carries
    SlotOf,                 \* the pulse whose executor the task reaches
    Constructors,           \* requests that are constructor calls
    CallFlag,               \* interference flag in the payload of a request
    MethodFlag,             \* interference flag of the called method
    OutcomesOf,             \* results the contract code may return
    Callers,                \* requests whose code calls another object
    MaxOutgoingSendCount,   \* how often such a call is sent
    Handovers,              \* what the first executor may leave to the others
    Skewed,                 \* nodes change the pulse at different moments
    Timely                  \* messages of a pulse arrive within the pulse

LastPulse == CHOOSE p \in Pulses : \A q \in Pulses : p >= q

Outcome == {"none", "change", "deactivate", "error"}

\* Pulses follow each other, up to the last one.
ASSUME PulsesInSequence ==
    /\ LastPulse \in Pulses
    /\ \A p \in Pulses : p <= LastPulse /\ p .. LastPulse \subseteq Pulses
ASSUME TasksAssumption ==
    /\ Call \in [Tasks -> Requests]
    /\ SlotOf \in [Tasks -> Pulses]
    /\ \A t \in Tasks : PulseOf[Call[t]] <= SlotOf[t]
(* A handover: the pulse that has ended, the report of its executor, the   *)
(* tasks that still run there, and the calls that have a result.  At most  *)
(* one of the tasks is ordered (OrderedExecute), no two are of one call    *)
(* (KnownRequests), and no method runs on a missing object.  The report of *)
(* an object that is not missing counts the ordered task                   *)
(* (BuildStateReport).                                                     *)
ASSUME HandoversAssumption ==
    \A h \in Handovers :
        /\ h.pulse \in Pulses \ {LastPulse}
        /\ h.report \in VStateReport
        /\ h.running \subseteq {t \in Tasks : SlotOf[t] = h.pulse}
        /\ h.finished \subseteq Requests
        /\ \A t, u \in h.running :
              MethodFlag[Call[t]] = Tolerable /\ MethodFlag[Call[u]] = Tolerable => t = u
        /\ \A t, u \in h.running : Call[t] = Call[u] => t = u
        /\ h.report.Status = "Missing" => {Call[t] : t \in h.running} \subseteq Constructors
        /\ \A t \in h.running : MethodFlag[Call[t]] = Tolerable =>
              h.report.Status = "Missing" \/ h.report.OrderedPendingCount # 0
ASSUME RequestKindsAssumption ==
    /\ Constructors \subseteq Requests
    /\ Callers \subseteq Requests
    /\ CallFlag \in [Requests -> Flags]
    /\ MethodFlag \in [Requests -> Flags]
    /\ \A r \in Constructors : MethodFlag[r] = Tolerable
    /\ OutcomesOf \in [Requests -> SUBSET Outcome]
    /\ MaxOutgoingSendCount \in Nat \ {0}
    /\ Skewed \in BOOLEAN
    /\ Timely \in BOOLEAN
(* The reference of an object is made from that of its constructor call    *)
(* (GetLifelineAnticipatedReference); no call knows it earlier.            *)
ASSUME ObjectAgeAssumption ==
    /\ \A r \in Requests : ObjectPulse <= PulseOf[r]
    /\ \A r \in Constructors : PulseOf[r] = ObjectPulse

VARIABLES
    clock,      \* clock[n]: the pulse that node n is in
    object,     \* object[p]: the SMObject in the slot of pulse p
    task,       \* task[t]: the state of an SMExecute
    msgs,       \* messages between executors
    panics      \* panics and failed assertions that were hit

vars == <<clock, object, task, msgs, panics>>

-----------------------------------------------------------------------------
(* negotiateIsolation, its interference part *)
NegotiationFails(r) == MethodFlag[r] = Tolerable /\ CallFlag[r] = Intolerable
FlagOf == MethodFlag

(* SMObject: where it is in its steps *)
ObjectPhase == {"none", "getState", "waitState", "asleep", "working",
                "publish", "finalize", "sent", "gone"}

CallSummary == {"none", "empty", "result"}

ObjectType ==
    [ phase          : ObjectPhase,
      state          : ObjectState,
      dirty          : Descriptor,
      known          : [Flags -> ListType],
      results        : [Requests -> CallSummary],
      summary        : [Requests -> CallSummary], \* SharedCallSummary
      pending        : [Flags -> ListType],
      prevPending    : [Flags -> Nat],     \* PreviousExecutor...PendingCount
      oldestPending  : [Flags -> Pulses \cup {UnknownPulse}],
      ReadyToWork    : BOOLEAN,
      execute        : [Flags -> BOOLEAN], \* OrderedExecute, UnorderedExecute
      ctorFinished   : {"none", "closed", "open"},
      signal         : BOOLEAN,            \* SignalOrderedPendingFinished is set
      asked          : BOOLEAN,            \* a VStateRequest is on its way
      report         : VStateReport ]

(* NewStateMachineObject, SMObject.Init *)
NewObject(phase) ==
    [ phase         |-> phase,
      state         |-> "Unknown",
      dirty         |-> NoDescriptor,
      known         |-> [f \in Flags |-> NewList],
      results       |-> [r \in Requests |-> "none"],
      summary       |-> [r \in Requests |-> "none"],
      pending       |-> [f \in Flags |-> NewList],
      prevPending   |-> [f \in Flags |-> 0],
      oldestPending |-> [f \in Flags |-> UnknownPulse],
      ReadyToWork   |-> FALSE,
      execute       |-> [f \in Flags |-> FALSE],
      ctorFinished  |-> "none",
      signal        |-> FALSE,
      asked         |-> FALSE,
      report        |-> MissingReport ]

(* LocalCatalog.GetOrCreate *)
GetOrCreate(p) ==
    IF object[p].phase = "none" THEN NewObject("getState") ELSE object[p]

-----------------------------------------------------------------------------
(* SMExecute: a pc names the step that runs next *)
Ended == {"done", "deduplicated", "stopped", "dead"}
TaskStep == {"idle", "waitObjectReady", "waitConstructor", "deduplicate",
             "waitFindCall", "takeLock", "lifeline", "start", "execute",
             "saveNewObject", "sendCallResult", "finishRequest", "getToken",
             "callSummary", "sendFinished"} \cup Ended

TaskType ==
    [ pc       : TaskStep,
      resume   : TaskStep,                \* stepAfterTokenGet
      lock     : BOOLEAN,                 \* holds the execution semaphore
      active   : BOOLEAN,                 \* migrateDuringExecution is installed
      migrated : BOOLEAN,                 \* migrationHappened
      negotiated : BOOLEAN,               \* execution.Isolation is negotiated
      granted  : Pulses \cup {UnknownPulse}, \* a VDelegatedCallResponse on its way
      settled  : BOOLEAN,                 \* hasState or duplicateFinished
      find     : {"none", "result", "running", "notFound"}, \* findCallResponse
      sent     : Nat,                     \* outgoingSentCounter
      called   : BOOLEAN,                 \* the outgoing call was answered
      base     : SUBSET (Requests \cup {Genesis}), \* memory the code runs on
      outcome  : Outcome,
      new      : Descriptor,              \* newObjectDescriptor
      ran      : BOOLEAN,                 \* contract code was started
      answer   : {"none", "resent", "error", "ok"} ] \* VCallResult that was sent

IdleTask ==
    [ pc |-> "idle", resume |-> "idle", lock |-> FALSE, active |-> FALSE,
      migrated |-> FALSE, negotiated |-> FALSE, granted |-> UnknownPulse,
      settled |-> FALSE, find |-> "none", sent |-> 0, called |-> FALSE, base |-> {},
      outcome |-> "none", new |-> NoDescriptor, ran |-> FALSE,
      answer |-> "none" ]

(* A machine that stops releases what it holds.  Its result stays known.   *)
EndTask(tk, pc) ==
    [IdleTask EXCEPT !.pc = pc, !.ran = tk.ran, !.answer = tk.answer,
                     !.outcome = tk.outcome]

MessageType ==
    [type : {"VStateReport"}, to : Pulses, report : VStateReport]
    \cup [type : {"VDelegatedCallRequest"}, to : Pulses, task : Tasks]
    \cup [type : {"VDelegatedRequestFinished"}, to : Pulses, task : Tasks,
          latest : Descriptor]

StateReportTo(q, report) == [type |-> "VStateReport", to |-> q, report |-> report]
DelegatedCallRequest(q, t) ==
    [type |-> "VDelegatedCallRequest", to |-> q, task |-> t]
DelegatedRequestFinished(q, t, latest) ==
    [type |-> "VDelegatedRequestFinished", to |-> q, task |-> t, latest |-> latest]

(* The operations that may panic or fail an assertion *)
Panic == {"classify", "deduplicate", "findCall", "startRequestProcessing",
          "saveNewObject", "finishRequest", "callSummary", "updateObjectState",
          "notRegistered", "delegationToken"}

TypeOK ==
    /\ clock \in [Pulses -> Pulses]
    /\ object \in [Pulses -> ObjectType]
    /\ task \in [Tasks -> TaskType]
    /\ msgs \subseteq MessageType
    /\ panics \subseteq Panic

(* A pulse has just ended.  Its executor, of which only messages are seen, *)
(* has left a report (unless the object was missing) and tasks that wait   *)
(* for a delegation token.                                                 *)
TakenOver(h) ==
    LET p == h.pulse
        missing == h.report.Status = "Missing"
        left == [NewObject(IF missing THEN "gone" ELSE "sent") EXCEPT
                    !.report = h.report,
                    !.summary = [r \in Requests |->
                        IF r \in h.finished THEN "result"
                        ELSE IF \E t \in h.running : Call[t] = r THEN "empty"
                        ELSE "none"]]
    IN  /\ clock = [n \in Pulses |-> p + 1]
        /\ object = [q \in Pulses |-> IF q = p THEN left ELSE NewObject("none")]
        /\ task = [t \in Tasks |-> IF t \in h.running
                      THEN [IdleTask EXCEPT !.pc = "getToken", !.resume = "execute",
                                !.lock = TRUE, !.active = TRUE, !.ran = TRUE,
                                !.migrated = TRUE, !.negotiated = TRUE,
                                !.base = h.report.ProvidedContent.memory]
                      ELSE IdleTask]
        /\ msgs = {DelegatedCallRequest(p + 1, t) : t \in h.running}
                  \cup (IF missing THEN {} ELSE {StateReportTo(p + 1, h.report)})

Init ==
    /\ \E h \in Handovers : TakenOver(h)
    /\ panics = {}

(* The slot of pulse p on its node *)
Present(p) == clock[p] = p

(* Messages sent now.  One whose slot is past on its receiver is dropped   *)
(* when it arrives.                                                        *)
Posted(ms) == {m \in ms : clock[m.to] <= m.to}

(* Shorthands: the machine of task t takes a step; its object is o *)
ObjectOf(t) == object[SlotOf[t]]
At(t, pc) == task[t].pc = pc
OrderedHeld(p) == \E t \in Tasks : /\ SlotOf[t] = p
                                   /\ task[t].lock
                                   /\ FlagOf[Call[t]] = Tolerable

-----------------------------------------------------------------------------
(***************************************************************************)
(* SMObject                                                                *)
(***************************************************************************)

(* stepGotState: free when the previous executor runs no ordered call *)
OpenPaths(o, free) ==
    LET empty == o.state = "Empty"
    IN  [o EXCEPT !.phase = "working",
                  !.execute = [f \in Flags |->
                                 IF f = Tolerable THEN free ELSE free \/ ~ empty],
                  !.ctorFinished = IF ~ free /\ empty THEN "closed" ELSE @,
                  !.signal = ~ free,
                  !.ReadyToWork = TRUE]

\* Seeded fault: does not wait for the calls of the previous executor.
GotStateNoWait(o) == OpenPaths(o, TRUE)

GotState(o) == OpenPaths(o, o.prevPending[Tolerable] = 0)

(* stepGetState, stepSendStateRequest: the request is sent when the state  *)
(* did not come within a tenth of the pulse                                *)
StepGetState(p) ==
    /\ Present(p)
    /\ object[p].phase = "getState"
    /\ object' = [object EXCEPT ![p] =
                    IF @.state # "Unknown" THEN GotState(@)
                    ELSE [@ EXCEPT !.phase = "waitState", !.asked = TRUE]]
    /\ UNCHANGED <<clock, task, msgs, panics>>

(* stepWaitState *)
StepWaitState(p) ==
    /\ Present(p)
    /\ object[p].phase = "waitState"
    /\ object' = [object EXCEPT ![p] =
                    IF @.state # "Unknown" THEN GotState(@)
                    ELSE [@ EXCEPT !.phase = "asleep"]]
    /\ UNCHANGED <<clock, task, msgs, panics>>

(* stepPublishCallSummary *)
StepPublishCallSummary(p) ==
    /\ object[p].phase = "publish"
    /\ object' = [object EXCEPT ![p].phase = "finalize",
                                ![p].summary = object[p].results]
    /\ UNCHANGED <<clock, task, msgs, panics>>

(* stepFinalize, SMPreservedStateReport.stepSendVStateReport: the report   *)
(* goes to the executor of the pulse that this node is in                  *)
StepSendVStateReport(p) ==
    /\ object[p].phase = "finalize"
    /\ object' = [object EXCEPT ![p].phase = "sent"]
    /\ msgs' = msgs \cup Posted({StateReportTo(clock[p], object[p].report)})
    /\ UNCHANGED <<clock, task, panics>>

(* SMVStateRequest on the executor of the pulse before p.  Its answer is   *)
(* of the pulse that node is in, so it counts only in pulse p.             *)
HasReport(p) == clock[p] = p + 1 /\ object[p].phase \in {"publish", "finalize", "sent"}

AnswerStateRequest(p) ==
    /\ object[p].asked
    /\ clock[p - 1] = p
    /\ msgs' = msgs \cup Posted({StateReportTo(p, IF HasReport(p - 1)
                                                  THEN object[p - 1].report
                                                  ELSE MissingReport)})
    /\ object' = [object EXCEPT ![p].asked = FALSE]
    /\ UNCHANGED <<clock, task, panics>>

\* Seeded fault: the status of the report is taken for the state.
StateOfStatusRaw(status) == status

(* SMVStateReport.updateSharedState *)
StateOfStatus(status) == IF status = "Ready" THEN "HasState" ELSE status

ApplyReport(o, report) ==
    [o EXCEPT !.state = StateOfStatus(report.Status),
              !.prevPending = [f \in Flags |->
                    (IF f = Tolerable THEN report.OrderedPendingCount
                                      ELSE report.UnorderedPendingCount) % 256],
              !.oldestPending = [f \in Flags |->
                    IF f = Tolerable THEN report.OrderedPendingEarliestPulse
                                     ELSE report.UnorderedPendingEarliestPulse],
              !.dirty = IF report.ProvidedContent.has
                        THEN report.ProvidedContent ELSE @,
              !.phase = IF @ = "asleep" THEN "waitState" ELSE @]

(* SMVStateReport.stepProcess behind the validation of handle_meta.go: an  *)
(* invalid report is dropped, a report for a ready object is ignored, any  *)
(* other sets the state and wakes SMObject up                              *)
ReceiveStateReport(m) ==
    LET p == m.to
        o == GetOrCreate(p)
    IN  /\ m.type = "VStateReport"
        /\ Present(p)
        /\ msgs' = msgs \ {m}
        /\ object' = IF ~ Validate(m.report, p) THEN object
                     ELSE [object EXCEPT ![p] = IF o.state = "Unknown"
                                                THEN ApplyReport(o, m.report)
                                                ELSE o]
        /\ UNCHANGED <<clock, task, panics>>

-----------------------------------------------------------------------------
(***************************************************************************)
(* SMExecute before the contract code runs.  A pulse change stops it.      *)
(***************************************************************************)
Step(t, pc, tk) == /\ At(t, pc)
                   /\ task' = [task EXCEPT ![t] = tk]
Goto(t, pc) == [task[t] EXCEPT !.pc = pc]

(* SMVCallRequest, SMExecute.Init, stepCheckRequest, stepGetObject: a      *)
(* constructor of this pulse starts the object                             *)
StepGetObject(t) ==
    LET p == SlotOf[t]
        o == GetOrCreate(p)
        starts == /\ Call[t] \in Constructors
                  /\ PulseOf[Call[t]] = p
                  /\ o.state \in {"Unknown", "Missing"}
    IN  /\ Present(p)
        /\ Step(t, "idle", Goto(t, "waitObjectReady"))
        /\ object' = [object EXCEPT ![p] =
                        IF starts THEN [o EXCEPT !.state = "Empty"] ELSE o]
        /\ UNCHANGED <<clock, msgs, panics>>

(* stepIsolationNegotiation.  For a method the runner takes the class from *)
(* the descriptor that was read just before (ExecutionClassify): without a *)
(* descriptor it panics.                                                   *)
ClassifyPanics(t) == Call[t] \notin Constructors /\ ~ ObjectOf(t).dirty.has
StepIsolationNegotiation(t) ==
    IF ClassifyPanics(t) THEN EndTask(task[t], "dead")
    ELSE IF NegotiationFails(Call[t])
    THEN [Goto(t, "sendCallResult") EXCEPT !.outcome = "error"]
    ELSE [Goto(t, "deduplicate") EXCEPT !.negotiated = TRUE]

(* stepWaitObjectReady *)
StepWaitObjectReady(t) ==
    LET o == ObjectOf(t)
        isMethod == Call[t] \notin Constructors
        missing == isMethod /\ o.state = "Missing"
        waits == isMethod /\ ~ missing /\ o.ctorFinished # "none"
    IN  /\ o.ReadyToWork
        /\ Step(t, "waitObjectReady",
                IF missing
                THEN [Goto(t, "sendCallResult") EXCEPT !.outcome = "error"]
                ELSE IF waits THEN Goto(t, "waitConstructor")
                ELSE StepIsolationNegotiation(t))
        /\ panics' = IF ~ missing /\ ~ waits /\ ClassifyPanics(t)
                     THEN panics \cup {"classify"} ELSE panics
        /\ UNCHANGED <<clock, object, msgs>>

(* stepWaitPendingConstructorFinished *)
StepWaitPendingConstructorFinished(t) ==
    /\ ObjectOf(t).ctorFinished = "open"
    /\ Step(t, "waitConstructor", StepIsolationNegotiation(t))
    /\ panics' = IF ClassifyPanics(t) THEN panics \cup {"classify"} ELSE panics
    /\ UNCHANGED <<clock, object, msgs>>

\* Seeded fault: a call of an earlier pulse is taken for a new one.
DeduplicationActionNoLookup(t) == "ContinueExecute"

(* deduplicate: what to do with a request that was not known before *)
DeduplicationAction(t) ==
    LET o == ObjectOf(t)
        r == Call[t]
        list == o.pending[FlagOf[r]]
        filledTable == Count(list) = o.prevPending[Tolerable]
        hasState == o.state \in {"HasState", "Inactive"}
    IN  IF PulseOf[r] = SlotOf[t] THEN "ContinueExecute"
        ELSE IF IsActive(list, r) THEN "Stop"
        ELSE IF r \in Constructors /\ o.state = "Missing" THEN "ContinueExecute"
        ELSE IF /\ r \in Constructors /\ ~ hasState
                /\ filledTable /\ ~ Exist(list, r)
             THEN "NotImplemented"
        ELSE "DeduplicateThroughPreviousExecutor"

(* hasState and duplicateFinished of SMExecute *)
Settled(o, r) == \/ o.state \in {"HasState", "Inactive"}
                 \/ o.pending[FlagOf[r]].requests[r] = "Finished"

(* stepDeduplicate, stepDeduplicateThroughPreviousExecutor *)
StepDeduplicate(t) ==
    LET p == SlotOf[t]
        r == Call[t]
        o == ObjectOf(t)
        isNew == CanAdd(o.known[FlagOf[r]], r)
        action == IF isNew THEN DeduplicationAction(t)
                  ELSE IF o.results[r] = "result" THEN "SendResultAndStop"
                  ELSE "Stop"
    IN  /\ Step(t, "deduplicate",
                CASE action = "ContinueExecute" -> Goto(t, "takeLock")
                  [] action = "DeduplicateThroughPreviousExecutor" ->
                        [Goto(t, "waitFindCall") EXCEPT !.settled = Settled(o, r)]
                  [] action = "Stop" -> EndTask(task[t], "deduplicated")
                  [] action = "SendResultAndStop" ->
                        EndTask([task[t] EXCEPT !.answer = "resent"], "deduplicated")
                  [] action = "NotImplemented" -> EndTask(task[t], "dead"))
        /\ object' = [object EXCEPT ![p].known[FlagOf[r]] = WorkingAdd(@, r)]
        /\ panics' = IF action = "NotImplemented"
                     THEN panics \cup {"deduplicate"} ELSE panics
        /\ UNCHANGED <<clock, msgs>>

(* SMVFindCallRequest on the executor of the previous pulse: it waits for  *)
(* the pulse change and for the call summary of the object                 *)
HasSummary(p) == clock[p] = p + 1 /\ object[p].phase \in {"finalize", "sent"}

AnswerFindCall(t) ==
    LET p == SlotOf[t]
        found == HasSummary(p - 1) /\ object[p - 1].summary[Call[t]] # "none"
    IN  /\ At(t, "waitFindCall")
        /\ task[t].find = "none"
        /\ clock[p - 1] = p
        /\ object[p - 1].phase # "publish"
        /\ Step(t, "waitFindCall",
                [task[t] EXCEPT !.find =
                    IF ~ found THEN "notFound"
                    ELSE IF object[p - 1].summary[Call[t]] = "result"
                         THEN "result" ELSE "running"])
        /\ UNCHANGED <<clock, object, msgs, panics>>

(* stepWaitFindCallResponse, stepProcessFindCallResponse *)
StepProcessFindCallResponse(t) ==
    LET panic == /\ Call[t] \in Constructors
                 /\ \/ task[t].find = "notFound"
                    \/ task[t].find = "running" /\ task[t].settled
    IN  /\ task[t].find # "none"
        /\ Step(t, "waitFindCall",
                IF panic THEN EndTask(task[t], "dead")
                ELSE CASE task[t].find = "notFound" -> Goto(t, "takeLock")
                       [] task[t].find = "running" -> EndTask(task[t], "deduplicated")
                       [] task[t].find = "result" ->
                            EndTask([task[t] EXCEPT !.answer = "resent"],
                                    "deduplicated"))
        /\ panics' = IF panic THEN panics \cup {"findCall"} ELSE panics
        /\ UNCHANGED <<clock, object, msgs>>

(* stepTakeLock.  UnorderedExecute admits thirty requests at a time, more  *)
(* than there are tasks.                                                   *)
StepTakeLock(t) ==
    LET f == FlagOf[Call[t]]
    IN  /\ ObjectOf(t).execute[f]
        /\ f = Tolerable => ~ OrderedHeld(SlotOf[t])
        /\ Step(t, "takeLock",
                [Goto(t, IF Call[t] \in Constructors THEN "lifeline" ELSE "start")
                    EXCEPT !.lock = TRUE])
        /\ UNCHANGED <<clock, object, msgs, panics>>

(* stepRegisterObjectLifeLine, stepRegisterObjectLifelineAfter: the ledger *)
(* has registered the lifeline, the object gets an empty descriptor        *)
StepRegisterObjectLifelineAfter(t) ==
    /\ Step(t, "lifeline", Goto(t, "start"))
    /\ object' = [object EXCEPT ![SlotOf[t]].dirty = NewDescriptor({}, FALSE)]
    /\ UNCHANGED <<clock, msgs, panics>>

\* Seeded fault: the call summary gets its entry, the list does not change.
KnownSetActiveSummaryOnly(o, r) == [o EXCEPT !.results[r] = "empty"]

(* KnownRequests.SetActive *)
KnownSetActive(o, r) ==
    [o EXCEPT !.known[FlagOf[r]] = WorkingSetActive(@, r), !.results[r] = "empty"]

\* Seeded fault: a deactivation in this very pulse is overlooked.
IsDeactivatedBefore(o) == o.state = "Inactive"

IsDeactivated(o) == o.state = "Inactive" \/ o.dirty.deactivated

(* stepStartRequestProcessing *)
StepStartRequestProcessing(t) ==
    LET p == SlotOf[t]
        r == Call[t]
        o == ObjectOf(t)
        ok == CanSetActive(o.known[FlagOf[r]], r)
        deactivated == IsDeactivated(o)
        panic == ~ ok \/ (~ deactivated /\ ~ o.dirty.has)
    IN  /\ Step(t, "start",
                IF panic THEN EndTask(task[t], "dead")
                ELSE IF deactivated
                THEN [Goto(t, "sendCallResult") EXCEPT !.outcome = "error"]
                ELSE [Goto(t, "execute") EXCEPT !.active = TRUE, !.ran = TRUE,
                                                !.base = o.dirty.memory])
        /\ object' = IF ok THEN [object EXCEPT ![p] = KnownSetActive(@, r)]
                     ELSE object
        /\ panics' = IF panic THEN panics \cup {"startRequestProcessing"} ELSE panics
        /\ UNCHANGED <<clock, msgs>>

-----------------------------------------------------------------------------
(***************************************************************************)
(* SMExecute from the start of the contract code on.  A pulse change makes *)
(* it ask the new executor for a delegation token.                         *)
(***************************************************************************)

(* stepExecuteOutgoing, stepRegisterOutgoing, stepSendOutgoing *)
StepSendOutgoing(t) ==
    /\ Call[t] \in Callers
    /\ ~ task[t].called
    /\ task[t].sent = 0
    /\ Step(t, "execute", [task[t] EXCEPT !.sent = 1])
    /\ UNCHANGED <<clock, object, msgs, panics>>

(* stepWaitAndRegisterOutgoingResult, stepExecuteContinue *)
StepExecuteContinue(t) ==
    /\ task[t].sent > 0
    /\ Step(t, "execute", [task[t] EXCEPT !.sent = 0, !.called = TRUE])
    /\ UNCHANGED <<clock, object, msgs, panics>>

(* stepExecuteDecideNextStep and the steps up to the registration of the   *)
(* result in the ledger: an intolerable call may not change the object     *)
StepExecuteDecideNextStep(t) ==
    /\ Call[t] \in Callers => task[t].called
    /\ \E outcome \in OutcomesOf[Call[t]] :
         LET fails == \/ outcome = "error"
                      \/ FlagOf[Call[t]] = Intolerable /\ outcome # "none"
         IN  Step(t, "execute",
                  IF fails
                  THEN [Goto(t, "sendCallResult") EXCEPT !.outcome = "error"]
                  ELSE [Goto(t, "saveNewObject") EXCEPT !.outcome = outcome])
    /\ UNCHANGED <<clock, object, msgs, panics>>

\* Seeded fault: the state is set, the descriptor stays the old one.
SaveDescriptorStateOnly(o, new) == [o EXCEPT !.state = "HasState"]

SaveDescriptor(o, new) == [o EXCEPT !.dirty = new, !.state = "HasState"]

(* stepSaveNewObject: only a machine whose pulse has not changed since its *)
(* start may touch the shared object                                       *)
StepSaveNewObject(t) ==
    LET p == SlotOf[t]
        o == ObjectOf(t)
        tk == task[t]
        new == CASE tk.outcome = "none" -> NoDescriptor
                 [] tk.outcome = "change" ->
                        NewDescriptor(tk.base \cup {Call[t]}, FALSE)
                 [] tk.outcome = "deactivate" -> NewDescriptor(tk.base, TRUE)
        saves == ~ tk.migrated /\ new.has
        panic == saves /\ o.state \notin {"HasState", "Empty", "Missing"}
    IN  /\ Step(t, "saveNewObject",
                IF panic THEN EndTask(tk, "dead")
                ELSE [Goto(t, "sendCallResult") EXCEPT !.new = new])
        /\ object' = IF ~ saves THEN object
                     ELSE IF panic THEN [object EXCEPT ![p].dirty = new]
                     ELSE [object EXCEPT ![p] = SaveDescriptor(@, new)]
        /\ panics' = IF panic THEN panics \cup {"saveNewObject"} ELSE panics
        /\ UNCHANGED <<clock, msgs>>

(* stepSendCallResult *)
StepSendCallResult(t) ==
    /\ Step(t, "sendCallResult",
            [Goto(t, "finishRequest") EXCEPT
                !.answer = IF task[t].outcome = "error" THEN "error" ELSE "ok"])
    /\ UNCHANGED <<clock, object, msgs, panics>>

(* stepFinishRequest, WorkingTable.Finish: the list changes before the     *)
(* check that may panic                                                    *)
StepFinishRequest(t) ==
    LET p == SlotOf[t]
        r == Call[t]
        o == ObjectOf(t)
        f == IF task[t].negotiated THEN FlagOf[r] ELSE CallFlag[r]
        finishes == ~ task[t].migrated /\ CanFinish(o.known[f], r)
        panic == finishes /\ o.results[r] = "none"
    IN  /\ Step(t, "finishRequest",
                IF task[t].migrated THEN Goto(t, "callSummary")
                ELSE EndTask(task[t], IF panic THEN "dead" ELSE "done"))
        /\ object' = IF ~ finishes THEN object
                     ELSE [object EXCEPT
                             ![p].known[f] = WorkingFinish(@, r),
                             ![p].results[r] = IF panic THEN @ ELSE "result"]
        /\ panics' = IF panic THEN panics \cup {"finishRequest"} ELSE panics
        /\ UNCHANGED <<clock, msgs>>

(* stepAwaitSMCallSummary, stepPublishDataCallSummary, AddObjectCallResult *)
StepPublishDataCallSummary(t) ==
    LET p == SlotOf[t]
        r == Call[t]
        panic == HasSummary(p) /\ object[p].summary[r] # "empty"
    IN  /\ object[p].phase # "publish"
        /\ Step(t, "callSummary", IF panic THEN EndTask(task[t], "dead")
                                  ELSE Goto(t, "sendFinished"))
        /\ object' = IF HasSummary(p) /\ ~ panic
                     THEN [object EXCEPT ![p].summary[r] = "result"] ELSE object
        /\ panics' = IF panic THEN panics \cup {"callSummary"} ELSE panics
        /\ UNCHANGED <<clock, msgs>>

(* stepSendDelegatedRequestFinished *)
StepSendDelegatedRequestFinished(t) ==
    /\ Step(t, "sendFinished", EndTask(task[t], "done"))
    /\ msgs' = msgs \cup Posted({DelegatedRequestFinished(clock[SlotOf[t]], t,
                                                          task[t].new)})
    /\ UNCHANGED <<clock, object, panics>>

(* SMVDelegatedCallResponse, SMDelegatedTokenRequest.stepProcessResult and *)
(* the exit of stepGetDelegationToken: a pending outgoing call is sent     *)
(* again, up to a limit                                                    *)
StepDelegationToken(t) ==
    LET tk == [task[t] EXCEPT !.pc = task[t].resume, !.resume = "idle",
                              !.granted = UnknownPulse]
        gaveUp == tk.sent >= MaxOutgoingSendCount
    IN  /\ task[t].granted # UnknownPulse
        /\ Step(t, "getToken",
                IF tk.sent = 0 THEN tk
                ELSE IF gaveUp THEN EndTask(tk, "dead")
                ELSE [tk EXCEPT !.sent = @ + 1])
        /\ msgs' = IF gaveUp
                   THEN msgs \cup Posted({DelegatedRequestFinished(
                                            clock[SlotOf[t]], t, NoDescriptor)})
                   ELSE msgs
        /\ UNCHANGED <<clock, object, panics>>

-----------------------------------------------------------------------------
(***************************************************************************)
(* The handlers through which a past executor reaches the present one      *)
(***************************************************************************)

(* GetOrCreate of the two handlers below *)
CreateForDelegated(m) ==
    /\ m.type # "VStateReport"
    /\ Present(m.to)
    /\ object[m.to].phase = "none"
    /\ object' = [object EXCEPT ![m.to] = GetOrCreate(m.to)]
    /\ UNCHANGED <<clock, task, msgs, panics>>

\* Seeded fault: the token is given without a note of the call.
RegisterPendingNot(o, r) == o

RegisterPending(o, r) == [o EXCEPT !.pending[FlagOf[r]] = PendingAdd(@, r)]

(* SMVDelegatedCallRequest: a refused request gets no answer *)
ReceiveDelegatedCallRequest(m) ==
    LET q == m.to
        o == object[q]
        t == m.task
        r == Call[t]
        f == FlagOf[r]
        oldRequest == o.oldestPending[f] = UnknownPulse
                      \/ PulseOf[r] < o.oldestPending[f]
        fullTable == /\ Count(o.pending[f]) = o.prevPending[f]
                     /\ ~ Exist(o.pending[f], r)
        ok == ~ oldRequest /\ ~ fullTable
    IN  /\ m.type = "VDelegatedCallRequest"
        /\ Present(q)
        /\ o.ReadyToWork
        /\ msgs' = msgs \ {m}
        /\ object' = IF ok THEN [object EXCEPT ![q] = RegisterPending(@, r)]
                     ELSE object
        /\ task' = IF ok /\ At(t, "getToken") /\ clock[SlotOf[t]] = q
                   THEN [task EXCEPT ![t].granted = q] ELSE task
        /\ UNCHANGED <<clock, panics>>

\* Seeded fault: the state that a delegated call leaves is not taken over.
SetLatestStateNot(o, latest) == o

(* SMVDelegatedRequestFinished.latestState *)
SetLatestState(o, latest) ==
    IF latest.has THEN [o EXCEPT !.dirty = latest] ELSE o

\* Seeded fault: the ordered path stays closed.
ReleasePathsNot(o) == o

(* SignalOrderedPendingFinished: releaseOrderedExecutionPath, and, when a  *)
(* constructor was awaited, releaseUnorderedExecutionPath                  *)
ReleasePaths(o) ==
    [o EXCEPT !.execute = [f \in Flags |-> f = Tolerable \/ @[f]
                                            \/ o.ctorFinished # "none"],
              !.ctorFinished = IF @ = "none" THEN @ ELSE "open"]

(* SMVDelegatedRequestFinished.updateSharedState.  It uses the flags of    *)
(* the call, not the negotiated ones; a panic keeps what was done before.  *)
ReceiveDelegatedRequestFinished(m) ==
    LET q == m.to
        r == Call[m.task]
        f == CallFlag[r]
        o1 == SetLatestState(object[q], m.latest)
        badState == m.latest.has /\ o1.state \notin {"Empty", "HasState"}
        o2 == [o1 EXCEPT !.state =
                 IF @ # "Empty" THEN @
                 ELSE IF m.latest.has THEN "HasState"
                 ELSE IF f = Tolerable /\ r \in Constructors THEN "Missing"
                 ELSE @]
        unregistered == ~ Exist(o2.pending[f], r)
        o3 == [o2 EXCEPT !.pending[f] = PendingFinish(@, r)]
        signal == /\ f = Tolerable
                  /\ o3.pending[f].countActive = 0
                  /\ o3.signal
        o4 == IF signal THEN ReleasePaths(o3) ELSE o3
    IN  /\ m.type = "VDelegatedRequestFinished"
        /\ Present(q)
        /\ object[q].ReadyToWork
        /\ msgs' = msgs \ {m}
        /\ object' = [object EXCEPT ![q] = IF badState THEN o1
                                           ELSE IF unregistered THEN o2 ELSE o4]
        /\ panics' = IF badState THEN panics \cup {"updateObjectState"}
                     ELSE IF unregistered THEN panics \cup {"notRegistered"}
                     ELSE panics
        /\ UNCHANGED <<clock, task>>

-----------------------------------------------------------------------------
(***************************************************************************)
(* The pulse change on a node: all its machines migrate in one scan        *)
(***************************************************************************)

(* What is left of an object that nobody can ask any more *)
Dropped(o) == [NewObject("gone") EXCEPT !.known = o.known, !.results = o.results,
                                        !.pending = o.pending]

(* SMObject.migrate, and the later ends of what it leaves behind *)
MigrateObject(o) ==
    LET settled == [o EXCEPT !.state = IF o.dirty.deactivated THEN "Inactive" ELSE @]
    IN  IF o.state = "Unknown" THEN Dropped(o)
        ELSE [settled EXCEPT !.phase = "publish",
                             !.report = BuildStateReport(settled),
                             !.asked = FALSE]

(* migrationDefault and migrateDuringExecution of SMExecute.  A machine    *)
(* that still waits for its token dies: the exit handler of the token      *)
(* subroutine panics without a response.                                   *)
Asks(tk) == tk.active /\ tk.pc \notin Ended \cup {"idle", "getToken"}
MigrateTask(tk) ==
    CASE tk.pc \in Ended \cup {"idle"} -> tk
      [] Asks(tk) -> [tk EXCEPT !.pc = "getToken", !.resume = tk.pc,
                                !.migrated = TRUE]
      [] tk.pc = "getToken" -> EndTask(tk, "dead")
      [] OTHER -> EndTask(tk, "stopped")

(* A pulse lasts long enough for the messages sent in it, and for the      *)
(* answers to them, when Timely holds.                                     *)
Deliverable(m) == \/ m.type = "VStateReport"
                  \/ object[m.to].phase = "none"
                  \/ object[m.to].ReadyToWork
AnswerComing(p) == clock[p] = p /\ clock[p - 1] <= p
HandoverDone(pn) ==
    /\ \A m \in msgs : m.to = pn => ~ Deliverable(m)
    /\ \A p \in Pulses : clock[p] = pn =>
          /\ object[p].phase \notin {"getState", "waitState"}
          /\ ~ (object[p].asked /\ AnswerComing(p))
    /\ \A t \in Tasks : clock[SlotOf[t]] = pn =>
          /\ task[t].granted = UnknownPulse
          /\ ~ (At(t, "waitFindCall") /\ AnswerComing(SlotOf[t]))

(* PulseConveyor.CommitPulseChange on the nodes N, which are all in pulse  *)
(* old.  SMObject publishes its summary and its report long before the     *)
(* next pulse.                                                             *)
AdvancePulse(N, old) ==
    LET new == old + 1
        mine == {t \in Tasks : SlotOf[t] \in N}
    IN  /\ old < LastPulse
        /\ \A n \in N : clock[n] = old
        /\ \A n \in Pulses : clock[n] >= old
        /\ \A n \in N : object[n].phase \notin {"publish", "finalize"}
        /\ Timely => HandoverDone(old)
        /\ clock' = [n \in Pulses |-> IF n \in N THEN new ELSE clock[n]]
        /\ object' = [n \in Pulses |->
                        IF n \notin N \/ n > old THEN object[n]
                        ELSE IF n = old THEN MigrateObject(object[n])
                        ELSE Dropped(object[n])]
        /\ task' = [t \in Tasks |-> IF t \in mine THEN MigrateTask(task[t])
                                                  ELSE task[t]]
        /\ msgs' = {m \in msgs : ~ (m.to = old /\ old \in N)}
                   \cup Posted({DelegatedCallRequest(new, t) :
                                    t \in {u \in mine : Asks(task[u])}})
        /\ panics' = IF \E t \in mine : task[t].pc = "getToken"
                     THEN panics \cup {"delegationToken"} ELSE panics

ChangeTogether == IF Skewed THEN {{n} : n \in Pulses} ELSE {Pulses}
PulseChange == \E N \in ChangeTogether, old \in Pulses : AdvancePulse(N, old)

-----------------------------------------------------------------------------
ObjectStep(p) == \/ StepGetState(p)
                 \/ StepWaitState(p)
                 \/ StepPublishCallSummary(p)
                 \/ StepSendVStateReport(p)
                 \/ AnswerStateRequest(p)

TaskStepOf(t) == \/ StepWaitObjectReady(t)
                 \/ StepWaitPendingConstructorFinished(t)
                 \/ StepDeduplicate(t)
                 \/ AnswerFindCall(t)
                 \/ StepProcessFindCallResponse(t)
                 \/ StepTakeLock(t)
                 \/ StepRegisterObjectLifelineAfter(t)
                 \/ StepStartRequestProcessing(t)
                 \/ StepSendOutgoing(t)
                 \/ StepExecuteContinue(t)
                 \/ StepExecuteDecideNextStep(t)
                 \/ StepSaveNewObject(t)
                 \/ StepSendCallResult(t)
                 \/ StepFinishRequest(t)
                 \/ StepPublishDataCallSummary(t)
                 \/ StepSendDelegatedRequestFinished(t)
                 \/ StepDelegationToken(t)

Receive == \E m \in msgs : \/ ReceiveStateReport(m)
                           \/ CreateForDelegated(m)
                           \/ ReceiveDelegatedCallRequest(m)
                           \/ ReceiveDelegatedRequestFinished(m)

Next == \/ \E p \in Pulses : ObjectStep(p)
        \/ \E t \in Tasks : StepGetObject(t) \/ TaskStepOf(t)
        \/ Receive
        \/ PulseChange

Spec == Init /\ [][Next]_vars

(* The slot machine visits every machine that is not asleep, the network   *)
(* delivers, and pulses come: a step that stays possible is taken.  Nobody *)
(* has to send a call.                                                     *)
Fairness ==
    /\ \A p \in Pulses : WF_vars(ObjectStep(p))
    /\ \A t \in Tasks : WF_vars(TaskStepOf(t))
    /\ WF_vars(Receive)
    /\ WF_vars(PulseChange)

FairSpec == Spec /\ Fairness

-----------------------------------------------------------------------------
(* The call registry of the executor of pulse p *)
Registry(p) == INSTANCE CallRegistry WITH
    known <- object[p].known, results <- object[p].results,
    pending <- object[p].pending

Running(t) == task[t].active /\ task[t].pc \notin Ended
Acting(t) == Running(t) /\ ~ At(t, "getToken")
IsOrdered(t) == FlagOf[Call[t]] = Tolerable
HasLeft(p) == object[p].phase \in {"publish", "finalize", "sent"}

(* At most one ordered call of the object is in its contract code, on all  *)
(* executors together: the new executor keeps OrderedExecute closed until  *)
(* the ordered call that it was told of has reported its end (stepGotState,*)
(* SignalOrderedPendingFinished).                                          *)
OrderedExclusion ==
    \A t, u \in Tasks :
        Running(t) /\ Running(u) /\ IsOrdered(t) /\ IsOrdered(u) => t = u

(* The same for calls that may take effects.  A call that waits for its    *)
(* delegation token is set aside: without a token it can neither send nor  *)
(* finish.  This holds even when messages are late and nodes disagree on   *)
(* the pulse.                                                              *)
EffectExclusion ==
    \A t, u \in Tasks :
        Acting(t) /\ Acting(u) /\ IsOrdered(t) /\ IsOrdered(u) => t = u

(* A call that is repeated, in the same pulse or at the next executor,     *)
(* does not run the contract code a second time (deduplicate, the pending  *)
(* table and VFindCallRequest).                                            *)
AtMostOnce ==
    \A t, u \in Tasks : Call[t] = Call[u] /\ task[t].ran /\ task[u].ran => t = u

(* An ordered call runs on a memory that holds every change whose result   *)
(* was sent before, whatever executors and pulse changes lie between.      *)
Answered == {Call[t] : t \in {u \in Tasks : /\ task[u].answer = "ok"
                                           /\ task[u].outcome = "change"}}
NoLostUpdate ==
    [][\A t \in Tasks : ~ task[t].ran /\ task'[t].ran /\ IsOrdered(t)
                            => Answered \subseteq task'[t].base]_vars

(* Once a deactivation was answered, no ordered call runs on the object    *)
(* any more, here or at a later executor (stepStartRequestProcessing,      *)
(* SMObject.migrate).  An unordered one may, until the new executor has    *)
(* heard of the deactivation.                                              *)
Deactivated == \E t \in Tasks : task[t].answer = "ok" /\ task[t].outcome = "deactivate"
NoRunAfterDeactivation ==
    [][\A t \in Tasks : ~ task[t].ran /\ task'[t].ran /\ IsOrdered(t) => ~ Deactivated]_vars

(* No machine runs into a panic or a failed assertion. *)
NoPanic == panics = {}

(* The next executor accepts the report that SMObject.migrate builds. *)
ReportAccepted == \A p \in Pulses : HasLeft(p) => Validate(object[p].report, p + 1)

(* Every executor starts with empty tables, and a step is one of the       *)
(* registry for each of them, or leaves its tables alone.                  *)
RegistriesNew == \A p \in Pulses : Registry(p)!Init
RegistriesStep == \A p \in Pulses : \/ Registry(p)!Next
                                   \/ UNCHANGED <<object[p].known, object[p].results,
                                                  object[p].pending>>

(* SMExecute and the handlers use the tables of each executor as the       *)
(* specification of the registry says: no step finishes a request that is  *)
(* only started or finishes a delegated one twice, and none touches two    *)
(* requests at once.  What is proved of CallRegistry holds of every        *)
(* executor.  (This is Registry(p)!Spec for every p, in the form that TLC  *)
(* takes.)                                                                 *)
RegistryUse == RegistriesNew /\ [][RegistriesStep]_vars

(* Every call that reaches an executor comes to an end: the machine stops. *)
(* In the last pulse nothing but its own progress can end it.              *)
CallsEnd == \A t \in Tasks : At(t, "waitObjectReady") ~> task[t].pc \in Ended

(* A call that waits for an object whose state is known does not wait for  *)
(* ever: SMObject gets ready and lets it pass (the holder of ReadyToWork   *)
(* in stepWaitObjectReady).  In the last pulse nothing else can end the    *)
(* wait.                                                                   *)
WaitersPass ==
    \A t \in Tasks : At(t, "waitObjectReady") /\ ObjectOf(t).state # "Unknown"
                         ~> ~ At(t, "waitObjectReady")
===============================================================================
