# Assured Ledger: a TLA+ model of its nodes

Assured Ledger (`src/ledger-core`) runs smart contracts on a network whose time
is cut into *pulses*. In each pulse every object has one *virtual executor*, a
node that takes the calls of the object, runs them in order, and hands the
object to the executor of the next pulse when the pulse ends, together with the
calls that are still running. Records of what was done go to *light material*
nodes, which write one *plash* of drops per pulse. On every node a *conveyor* of
state machines does the work and carries it over the pulse change.

The project models four parts of this: the virtual executor and its handover,
the conveyor, the semaphores of the state machines, and the building of a plash.

## 1. Inventory

### Parts of the system

| Part | State | Operations | Talks to |
|---|---|---|---|
| `conveyor` (pulse conveyor) | present, past, future and antique pulse slots, pulse data cache | `AddInput`, `PreparePulseChange`, `CommitPulseChange` | runs all machines of a node; migrates them at a pulse change |
| `instrumentation/insapp`, `insconveyor` (pulse manager, beat dispatcher) | a prepared pulse change, the last pulse | request, cancel, commit of a node state | network on one side, conveyor on the other |
| `conveyor/smachine` (slot machine) | slots with a step each, queues, shared data, aliases | step, sleep, wake, jump, migrate, barge-in, shared access | everything in `virtual`, `ledger/server` |
| `conveyor/smachine/smsync` | queues of holders per sync object | acquire, release, `AdjustLimit`, partial release | slot machine, `virtual/tool` (runner limiter) |
| `conveyor/smachine/smadapter` | call queues of slow services | start, callback, cancel | runner, storage, message sender |
| `virtual/object` (`SMObject`) | state and descriptors of one object, its call registry, its gates | get state, got state, migrate, publish summary, send report | handlers and `SMExecute`, through shared data |
| `virtual/callregistry` | working list and pending list per interference flag, results | add, set active, finish | `SMObject`, `SMExecute`, handlers |
| `virtual/execute` (`SMExecute`) | one call | wait, negotiate, deduplicate, lock, run, call out, save, answer, finish, get a token | object, ledger, previous and next executor |
| `virtual/handlers` | one message each | one machine per message type | object catalog, other executors |
| `virtual/callsummary` | results of the past pulse | publish, add, look up | `SMObject`, `SMExecute`, `VFindCallRequest` |
| `rms` | messages and their validation | `Validate` | handlers |
| `runner` | running contract code | classify, start, continue, abort | `SMExecute` |
| `ledger/server/buildersvc` | storage, merkle tree, status of a plash, ordinals of its drops | append, prepare/cancel/commit a pulse change, write summaries, close | `datawriter`, conveyor |
| `ledger/server/lineage`, `datawriter` | stages of a line of records | register, check rules, send bundles | virtual nodes, `buildersvc` |
| `virtual/memorycache`, `virtual/authentication`, `virtual/validation`, `virtual/vnlmn` | cached memory; none; replayed transcripts; chain of ledger records | | `SMExecute`, handlers |
| `ledger/jet` | jet tree | split, merge | `buildersvc` |
| `network`, `pulsar`, `appctl` | population, pulses, executor choice | consensus phases, pulse distribution, message routing | pulse manager |
| `reference`, `pulse`, `vanilla`, `crypto`, `log`, `configuration`, ... | value types and libraries | | all |

`PROJECT.json` lists every part with what is modelled of it or why it is not.

### How they interact

A call arrives as `VCallRequest`; `AddInput` puts it as an event into the slot of
its pulse, where it becomes an `SMExecute`. It finds or creates the `SMObject`,
which waits for the `VStateReport` of the previous executor or asks for it
(`VStateRequest`). Three gates of `SMObject` order everything: `ReadyToWork`,
`OrderedExecute`/`UnorderedExecute` and, while a constructor runs elsewhere,
`PendingConstructorFinished`. The execution gates are children of one semaphore,
the node's `RunnerLimiter`; a call gives its place there back while it waits for
an outgoing call (a *partial release*). Machines of a node touch `SMObject`
through shared-data accessors, one uninterrupted step at a time.

When the pulse ends the network asks the pulse manager for the state of the node
and then commits the pulse. The conveyor turns the present slot into a past one,
makes the slot of the expected pulse present, and migrates all machines.
`SMObject` builds its report and publishes the call summary. An `SMExecute` that
has not started the contract code stops; one that has asks the new executor for a
*delegation token* (`VDelegatedCallRequest`), goes on as a delegated call, and
reports its end and the state it leaves with `VDelegatedRequestFinished`. The new
executor keeps the ordered queue closed until that message. A repeated call at
the new executor is looked up in the pending table and, with `VFindCallRequest`,
at the old one.

On a light material node bundles of records go to `AppendToDrop`. The bundle
writer prepares them one after another and writes them in parallel; a chain of
channels commits them in order. At the pulse change the root of the merkle tree
of committed bundles is the state that the node reports; then the summaries are
written through the same chain and the storage is made read-only.

### What is hard, and what makes each part correct

* **Handover**: two executors and the messages between them, in any order, with
  nodes that change the pulse at different moments. Correct when at most one
  ordered call has effects at a time, no answered change is lost, and the new
  executor accepts the report.
* **Repetition**: calls are resent. Correct when the contract code runs once.
* **Bookkeeping**: the report is built from derived counters. Correct when these
  agree with the requests after any sequence of calls.
* **Gates**: machines sleep until somebody opens a gate. Correct when each
  waiting call comes to an end.
* **New and deactivated objects**: states without a descriptor, or with a
  descriptor before the state. Correct when calls to them are answered.
* **Semaphores**: limits that change while machines wait, partial release in a
  hierarchy. Correct when the limit holds, no holder is counted wrongly, and a
  freed place goes to a waiter.
* **Routing of events**: events come on other goroutines than the pulse change
  and carry any pulse. Correct when an event is handled in a slot of its pulse,
  is never left in a slot that has stopped, and never brings the conveyor down.
* **Plash**: bundles that fail while later ones are under way, and a pulse change
  beside them. Correct when a rollback takes exactly its own records, what was
  acknowledged is in the reported state, and the plash is closed.

The `hazards` of `PROJECT.json` give each of these at its line.

## 2. Modules

```
RequestLists --- RequestListsProofs
     |---------- CallRegistry --------- CallRegistryProofs
     |---------- StateReport ---------- StateReportProofs
                     |---------- VirtualExecution  (INSTANCE CallRegistry)
                                   VirtualExecutionProofs --- HandoverProofs
                                   MCHandover, MCSkewed, MCProgress,
                                   MCConstructor, MCLifecycle
Semaphores ----- SemaphoresProofs, MCSemaphores
Conveyor ------- ConveyorProofs, MCConveyor
MemoryStorage -- PlashBuilder --------- PlashProofs, MCPlash
```

A name with a suffix such as `GotStateNoWait`, marked "Seeded fault", is a wrong
version of the definition below it. It is in no specification; each shows that
the property named with it in `PROJECT.json` can fail.

### The virtual executor

**RequestLists** has the data of `working_table.go` and `request_table.go`: a
list is a record with the state of each request and the derived numbers
(`countActive`, `countFinish`, `activity`, `earliestActivePulse`). Each method is
an operator that returns the list after it. A Go map with counters is a function
in which 0 stands for a missing key.

**CallRegistry** is the specification of one registry: `known` (a working list
per flag), `results`, `pending`. Its actions are the methods, for any request in
any order, with the two rules that callers must keep and the methods do not
check: a request that is only *started* is not finished, and a delegated call is
finished once.

**StateReport** has `BuildStateReport` (with what `SMObject.migrate` adds) and
`VStateReport.Validate`. A descriptor is abstracted to whether it is there,
whether it is deactivated, and the set of calls whose change its memory holds:
that is what "lost update" is about.

**VirtualExecution** is the system for one object.

| Variable | Code |
|---|---|
| `clock[n]` | the pulse that node n is in (`PulseSlot.State` of the slot of pulse n follows from it) |
| `object[p]` | `SMObject` and its shared state in the slot of pulse p, later its report and its call summary |
| `task[t]` | one `SMExecute`; `pc` names the step to run next |
| `msgs` | `VStateReport`, `VDelegatedCallRequest`, `VDelegatedRequestFinished` on their way |
| `panics` | the panics and failed assertions that were hit, by place |

Every pulse has its own node, as the executor of an object changes from pulse to
pulse. Each action is a step of a machine or a whole handler and carries the name
of the step; steps that touch only their own machine are joined with the step
before. A machine that panics ends, and what it wrote before stays written, as in
the slot machine. `VStateRequest`, `VFindCallRequest` and their answers, and
`VDelegatedCallResponse`, are kept as fields of the machine that waits for them
(`asked`, `find`, `granted`): an answer matters only while it is waited for.
`AdvancePulse` migrates all machines of the nodes that change.

Abstractions: calls are on the dirty state; the semaphore that limits parallel
runs, the ledger (registration always succeeds) and the memory cache are left
out; a call makes at most one outgoing call; the first executor is seen only
through what it left (`Handovers`: the ended pulse, its report, the tasks that
still run and the calls that have a result). One of the handovers of `progress`
is an Empty report with one pending call and no content. The validation and the
deduplication tests (`deduplication/constructor_test.go:389`) are written for
it, and it is what puts `stepWaitPendingConstructorFinished` to work; the report
that `SMObject` itself makes of a running constructor carries a content that the
validation refuses (`constructor_report`).

### The semaphores

**Semaphores** models one `semaphoreSync` and its `hierarchySync` children, as
`RunnerLimiter` builds them.

| Variable | Code |
|---|---|
| `sema.limit`, `active`, `awaiters`, `boostHead` | `workingQueueController` of the semaphore: limit, queue, queue of awaiters and its boost position |
| `sema.child[c]` | `subSemaQueueController`: `limit`, `atParent` (`workerAtParentCount`), `parked` (its own queue), `awaiters` |
| `stacker[m]` | the child the holder of machine m was acquired through |
| `slotFlags[m]` | the priority kept in its entry |

A queue is a sequence of machines. Acquire, release from each of the four
queues, partial release and acquire, and the two `AdjustLimit` are actions. One
worker drives all machines of a conveyor, so an operation is a single step.
`lowered` is a history variable: after a limit was lowered more machines may be
active than it allows (`"can't revoke from an active"`), which `WithinLimit` sets
aside.

### The conveyor

**Conveyor** models `PulseConveyor` with its data manager, under the pulse
manager and the beat dispatcher.

| Variable | Code |
|---|---|
| `pulses` | `presentAndFuturePulse`, the atomic pair that routes events |
| `slots`, `published` | the pulse slot machines, and the registry that finds them by pulse number |
| `presentMachine`, `unpublishPulse` | the fields of `PulseConveyor` |
| `cache`, `earliestBound` | `PulseDataCache` with its access rotations, `earliestCacheBound` |
| `preparing`, `acked`, `commit` | the prepared pulse change, and how far its commit has come |
| `ev[e]` | an event: its call of `AddInput`, then its machine in a slot |
| `broken` | a panic of the conveyor outside of a machine |

`AddInput` is split where another goroutine can come between: reading the pulses
(`MapToPulse`), finding or publishing the slot (`FindSlot`), starting a published
slot (`ActivateSlot`), adding the event (`AddEvent`). The commit of a pulse is
split at the publication of the present slot and at the rerouting of events.
Steps of the worker do not interleave with each other. The handler of an event is
abstract: it is created, and ends at some time. `StopIfEmpty` and the addition of
a machine exclude each other by the lock of the slot pool.

Not modelled: a factory that moves the event to another pulse,
`CancelPulseChange` (the pulse manager never calls it), the stop of a conveyor.

### The plash

**MemoryStorage** is the directory of a section: pages of entries, the index of
the next entry, the cut of a rollback at page boundaries. **PlashBuilder** is the
writer and the plash.

| Variable | Code |
|---|---|
| `mutex`, `lastReady`, `prev`, `ready` | `bundleWriter`: its mutex and the chain of channels |
| `pc[b]` | where the call or the goroutine of a bundle is (`applyBundleSafely`) |
| `storage`, `dir`, `dirIndex` | `MemoryStorageWriter` and the snapshots |
| `dropOrder`, `dropBase` | the counter of a drop and the ordinals a bundle took |
| `status`, `merkle`, `nodeState` | `plashAssistant`: status, merkle tree, the tree at `PreparePulseChange` |
| `future[a]` | what the client of an append was told |
| `found`, `catalog` | `SectionSummaryWriter.ReadCatalog`: the directory it got, the pages it has read |
| `sectionPc`, `drops`, `closePc` | the goroutines that write the summaries and close the plash |
| `fate`, `inFlight` | history: the end of each snapshot, the open ones in order |

Faults are chosen per bundle: `PrepareWrite` fails at any record, `ApplyWrite`
panics or returns an error, `Commit` finds a wrong link. A rollback cancels all
later bundles of the chain. A panic in a goroutine without a recover (`panicked`)
ends the process.

`ReadCatalog` gets the directory in one step and reads its pages one by one
(`ReadPage`), without a lock, while late bundles extend, cut and refill them. Of a
page it may see the length and each entry as they were when it got the directory
or as they are now (`PagesSeen`). A page that has grown beyond the tables is a
panic; links that do not fit together are an error, after which there is no
summary and `sectionSync` is closed all the same. Links are abstracted to when
they may fail (`LinksMayFail`): those of committed bundles are taken to be right,
as `Commit` checks them and `lineage` makes them. A slice header that is torn
between two stores is not modelled. The summary of the dust section is left out and the summaries
of the filaments of a line are joined with that of the line: all are control
bundles like the ones modelled. Payload chapters are cut by the same calls as the
directory.

## 3. Runs

| Run | Instance | Shows |
|---|---|---|
| `call_registry` | 4 requests, 3 pulses, 2 lists | all of CallRegistry's properties; two requests share pulse and list, an older one shares the list, so the earliest pulse moves both ways |
| `method_handover` | 4 tasks in pulses 2 to 4; one call repeated, one with an outgoing call, one unordered; timely messages | type correctness, `OrderedExclusion`, `AtMostOnce`, `NoPanic`, `ReportAccepted`, `NoLostUpdate`, `RegistryUse` |
| `skewed_nodes` | 3 tasks; nodes change the pulse one by one, messages may be late or miss their pulse | `EffectExclusion`, `AtMostOnce`, `ReportAccepted` |
| `progress` | an inherited ordered method with an outgoing call over two pulse changes, or an inherited constructor over one; repetitions and later calls wait behind it | `CallsEnd`, also when the inherited call gives up at the resend limit |
| `lifecycle` | constructor, a call that may deactivate the object, repetition of the constructor, two calls in the next pulse, one of them with a negotiated queue | `AtMostOnce`, `NoLostUpdate`, `NoRunAfterDeactivation` |
| `limiter` | 4 machines, a semaphore with limit 1 or 2, two children with limits 0 to 2, priorities, partial releases | `TypeOK`, `WithinLimit`, `Accounting`, `ChildNotIdle`, `PlacesHandedOn` |
| `conveyor` | 2 events with any of six pulse numbers or none, pulses 3, 5 and 7, one cancelled pulse change, beats with and without a range, a skipped pulse | `TypeOK`, `NoPanic`, `HandledInItsPulse`, `OnePresent`, `AcceptedNotLost`, `PulseDataKept`, `EarlyEventsEnd` |
| `plash` | 3 appends of 1, 2 and 1 records, each with its faults, pages of 2 entries, one cancelled pulse change | `TypeOK`, `CommittedIntact`, `NothingLeftBehind`, `DropOrdinalsDense`, `AcknowledgedReported`, `NodeStateFinal`, `SummaryComplete`, `SequenceKept`, `AppendsAnswered`, `PlashEnds` |

`OrderedExclusion` is about calls in their contract code. It needs nodes that
change the pulse together: otherwise a call on a node that is behind is still in
its code, though blocked, when a new executor that has heard nothing of it starts.
`EffectExclusion` sets calls aside that wait for a token, and holds without that
assumption.
`RegistryUse` states that the registry of every executor behaves as the
specification CallRegistry; so what is proved of CallRegistry holds for it.

`NoPanic` of the conveyor has two exceptions, both of which the code really
meets. One is an event that came before the first pulse: its number becomes the
expected one, and the first pulse may differ; `HandledInItsPulse` sets such events
aside as well. The other is a skipped pulse without a range, described below.

`CommittedIntact`, `NothingLeftBehind` and `DropOrdinalsDense` together say what a
rollback does: it takes all of its own entries and ordinals and nothing else.
`AcknowledgedReported` and `NodeStateFinal` say that a client that was told
"registered" finds the record under the state its node has voted for, however
late the callback was.

Four runs expect a violation. In each the code disagrees with a test, a comment
or a check of the repository, quoted in `findings`:

| Run | Disagreement |
|---|---|
| `constructor_report` | the report of an object whose constructor is running carries content that the receiver rejects |
| `lost_wakeup` | `SMObject` stays asleep when a constructor sets its state before the report comes |
| `parked_stop` | a machine that stops after a partial release leaves a waiter at a semaphore with room |
| `closed_plash` | a bundle that is refused because of the pulse change is committed all the same |

Further disagreements were met that no run is spent on:

* A method call that came before the constructor, and is repeated after it,
  finishes a request that was only started; `WorkingTable.Finish` panics.
* A method call at the executor after a deactivation panics in the
  classification (`runner.go:339`) instead of being answered.
* A call whose negotiated queue differs from the requested one is registered as
  pending in one list and looked for in the other (`execute.go:1139`), and the
  handler panics (`vdelegatedrequestfinished.go:182`). `NoPanic` fails in
  `method_handover` once `CallFlag` asks for the ordered queue for the call of the
  unordered method.
* `VCallRequest.Validate` checks the pulse of the caller a second time where it
  means that of the callee (`rms/proto_vnvn_validation_vcallrequest.go`).
* A constructor that is pending over two pulse changes makes a Missing report
  with a pending call, which the validation rejects (`object.go:150`).
* After a skipped pulse, a beat without a range makes `CommitPulseChange` panic
  (`beat_dispatcher.go:58`, `conveyor.go:510`); no beat of consensus has a range.
  `NoPanic` of the conveyor fails once `SkipWithoutRange` is no exception.
* A limit that was lowered and is raised again lets as many machines pass as it
  was raised by (`sync_semaphore.go:349`), beyond the limit while those that
  passed before the lowering are still active. `WithinLimit` fails without its
  premise `~lowered`.
* `ReadCatalog` panics when a late append is written between the count of the
  entries and the end of the walk over the pages (`plash_summary.go:38`);
  `api_reader.go:20` leaves it to the caller to see that the directory is fully
  written, and `CommitPulseChange` does not wait for that.
* `CancelNodeState` leaves the conveyor with priority work only until the next
  commit (`insapp/pulse_manager.go:85`).
* A bundle that fails in `PrepareWrite` when the last page is full breaks the
  storage for good (`memory_writer.go:563`).
* The error of `ApplyWrite` is overwritten (`writer.go:248`): the bundle is
  committed, and its future panics for want of indices.
* A bundle that is refused by `Commit` after its callback stays in the merkle
  tree, and its future gets whichever of two results comes first.

They are why some properties are not checked in some runs: for instance `NoPanic`
of VirtualExecution is not checked with constructors or after a deactivation, and
`ReportAccepted` not after a deactivation, where the report of an object with a
running unordered call is rejected for its earliest pulse. `AcknowledgedReported`
and `SummaryComplete` set bundles aside whose `Commit` may fail.

### Bounds

* VirtualExecution: pulses 1 to 4 give a call its own pulse, the pulse of its
  delegation and one more, after which the code keeps nothing of it (an
  `SMObject` lives for its pulse and answers for one more). Three to five tasks
  give a call, its repetition and a competitor in the same or the next pulse. The
  resend limit is 3 in the code and 2 or 1 in the runs, so that it is reached
  within the pulses. The limit of 127 pending calls and the 30 parallel unordered
  calls are kept as they are and not reached.
* Semaphores: four machines fill a semaphore of 2 and leave two waiting, at the
  same or at different children. `MaxParks` = 1 partial release per machine and
  `MaxPrioritized` = 1 acquisition with a priority keep the space small; with
  one, every position of the boosted entry in the queue occurs. Machines and
  children are symmetric.
* Conveyor: pulses 3, 5, 7 (`LastPulse`) take a slot from future to past and
  through its death; distances of 2 leave numbers between the pulses. A cache age
  of 2 makes entries leave by age and by rotation. `MaxRollbacks` = 1. Two events
  race for the same slot. `CallsAreShort`: a call of `AddInput` that has
  overlapped one pulse change ends before the next is prepared; a call that is
  slower than a whole pulse panics in the code (`conveyor.go:364`), and no property
  covers it.
* PlashBuilder: three bundles give one that fails, one before and one after it;
  sizes 1, 2, 1 with pages of 2 (`PageSize`) put every entry at either side of a
  page boundary. `MaxLate` = 1 append is under way when the pulse changes (the
  safety properties were also checked with 2; `closed_plash` has 3).
  `MaxCancels` = 1 cancelled pulse change.

Behaviours end in the last pulse or with the closed plash, so deadlock is not
checked for VirtualExecution, Conveyor and PlashBuilder; it is for CallRegistry
and Semaphores (`limiter`).

### Fairness

* VirtualExecution (`FairSpec`): weak fairness for each machine, for the receipt
  of messages and for the pulse change. The slot machine scans all machines that
  are not asleep; a gate or a result wakes its waiters; the network resends; the
  pulsar goes on. There is no fairness for the arrival of calls. `Timely` bounds
  the pulse change from below: a pulse outlasts the messages that were sent in
  it. Contract code ends, since each outgoing call is answered or given up.
* Semaphores: a machine that has passed releases, a parked one comes back, an
  object opens its children once. None for machines that wait.
* Conveyor: calls of `AddInput` and the worker go on, and a prepared pulse change
  is followed by a commit. None for the handlers of events.
* PlashBuilder: weak fairness for the goroutines, the adapters that write
  summaries, and the end of a prepared pulse change, together. None for the
  arrival of appends and of the pulse change.

## 4. Proofs

Each theorem holds for every value of the constants that meets the named
assumptions. `theorems` of `PROJECT.json` lists them with the property that a run
checks on a small instance.

### The registry and the report

**RequestListsProofs** has the lemmas about lists that both the registry and the
executor use. `ListedConsistent` and `DelistedConsistent` show that adding an
active request and removing one keep the bookkeeping right. Removal is the
interesting half: when the pulse that loses its last request is not the earliest
one, the minimum stays; otherwise `MinActivePulseIsLeast` gives it, from the
well-ordering of the naturals. `MethodsKeepConsistency` lifts this to the five
methods.

**CallRegistryProofs**, for every finite set of requests, every set of positive
pulses and every set of flags:

* `RegistryInvariant`: the inductive invariant `Inv`, the conjunction of `TypeOK`,
  `RegistryConsistent`, `ResultsFollowRequests` and `NoStartedPending`. The last
  is what the others lack to be inductive: a pending list has no *started* entry,
  so finishing an unfinished entry always takes an active one off the counters.
* `RegistrySafe`, `RegistryResults`, `RegistryTyped` and, for steps,
  `RegistryForward` (`OnlyForward`) follow from it.

**StateReportProofs** proves `ReadyReportAccepted`: a report built from an object
in `HasState` whose lists are consistent is accepted by the next executor. Its
hypothesis `Reportable` says that the lists are consistent (proved above, for the
use that `RegistryUse` checks), that running calls are of pulses between the
object's and the ending one (`PulseOf[Call[t]] <= SlotOf[t]` in VirtualExecution),
and that a queue has fewer than 127 running calls. Nothing in the code enforces
the last.

### The virtual executor

**VirtualExecutionProofs** proves `OneOrderedActs`: `EffectExclusion`, the promise
of the handover, for any number of calls, repetitions and pulses, whether or not
the nodes change the pulse together (`Skewed`) and whether or not messages arrive
in their pulse (`Timely`). `ExecutorTyped` comes with it.

`EffectExclusion` is far from inductive: it looks at calls that act now, and what
protects it is who may act later. The invariant is `ExecutorInv`.

* `Claims(c)` are the ordered calls that have acted in pulse c or later and may
  act again, because they act now, hold a token, or have a request for one on its
  way. `ClaimsInv`: there is at most one. It grows only when a call starts at
  executor c or when executor c grants a token.
* `GateInv`: an executor whose gate is open, or is about to open, has no claim of
  the pulse before to wait for, except for a request that it will refuse.
* The gate opens because of a report without ordered calls, or because the call
  it waits for has ended. `ReportInv` and `MessageInv` say what a report and a
  `VDelegatedRequestFinished` on its way are worth; `PendingInv` says that a token
  is noted in the pending list of the executor that gave it, and so is counted in
  that executor's report.
* `LocalInv` (`ClockInv`, `TaskInv`, `LockInv`, `ObjectInv`, `KnownInv`) is what
  each machine and each object keep for themselves.

One case had to be met that no test describes. A call that fails before its queue
is negotiated finishes a request which another machine may only have started, and
that leaves a working list with a wrong count (the first of the further
disagreements above). `Free` treats such an object, and the machine that will do
it (`Unresolved`), as one whose count cannot be trusted; the proof shows that it
can come to be only where no claim is left, so that exclusion survives.

`MethodsAtMostOnce` proves `AtMostOnce`, and `RepeatedMethodsRunOnce` its core:
two machines of one method call in the same or in neighbouring pulses do not both
run. The hypothesis `RepeatedSoon` says that all calls are methods and that a call
reaches an executor at the latest in the pulse after its own: two pulses later
nobody remembers it (a hazard of its own). The invariant `OnceInv` follows a
request that has run. In its own pulse it is in the working list, so a repetition
that looks there is deduplicated, and only one machine passes the deduplication
(`OwnerInv`, `NotedInv`). At the next executor a repetition asks the old one, and
the answer comes from the call summary, which has an entry for every call that has
run (`RanInv`); a repetition that went on was told so after the old executor had
left its pulse, when no call starts there any more (`RepeatInv`).

`MethodsUseRegistry` proves `RegistryUse` under the same hypothesis: each
executor's tables start empty and change only by steps of CallRegistry, so this is
a refinement, and `RegistrySafe` holds of every executor. The two rules that
callers must keep are what has to be shown. A call that fails before its queue is
negotiated may finish a request that another machine has only started; `UseInv`
says that then either the queue is another one, or the object is missing and has
no calls at all (`UnusedInv`, `MachineInv`). A delegated call is finished once,
because it has one machine, which tells one executor of its end, once
(`EndsInv`).

**HandoverProofs** has what the executors promise each other.

`OneOrderedRuns` proves `OrderedExclusion` under `RepeatedSoon` and `~ Skewed`;
`Timely` is not needed. A call that runs in its own pulse is active in the working
list of its executor and only its own machine takes it out (`HolderInv`,
`RunsInv`), so the report counts the ordered call that survives a pulse change.
The next executor knows of nothing else, stays closed, and opens only on the
`VDelegatedRequestFinished` of an ordered call (`WaitInv`). A call that was not
granted a token in its pulse dies at the next pulse change, so the executor after
that has nothing to wait for.

`ReportsAccepted` proves `ReportAccepted` under `RepeatedSoon` and `Plain`: no
call deactivates the object, the handover's own report is acceptable, and twice
the number of requests is below the limit of 127 pending calls (nothing in the
code enforces a limit). Nodes may be skewed and messages late. `PlainInv`: an
object is unknown, missing or has a descriptor; one that is missing has no calls
in its tables, so that its report is empty; one with a descriptor reports what
its tables say, which is acceptable by `ReadyReportAccepted` because the tables
are consistent (`MethodsUseRegistry`) and their active requests are of pulses
between the object's and the ending one.

`NoMachinePanics` proves `NoPanic` under `RepeatedSoon`, `~ Skewed`, `Timely`,
`Plain`, `FlagsAgree` and `Counted`. `FlagsAgree`: a call that asks for the ordered
queue is of an ordered method; otherwise its end is looked for in another list than
the one it was noted in (`execute.go:1139`, section 3). `Counted` is about the
executor before the first modelled one: its report counts its running calls, which
have no result yet and a negotiated queue. For every modelled executor the same is
proved, in the step that changes the pulse. The invariant `PanicInv` has these
parts:

* `OwnInv`: a call past the deduplication is started in its list, and a running one
  has an empty result, in the object or in the summary of its executor.
* `CountInv`: every report on its way, and the counters of the present executor,
  have room for all calls that are due to be noted as pending, and name an earliest
  pulse that is not younger than theirs. So no token request is refused.
* `TokenInv`, `HotInv`: a call that goes on after its pulse is noted as pending at
  the new executor, or its token request is on its way. So every
  `VDelegatedRequestFinished` finds its entry, and with `Timely`, which keeps the
  pulse from changing before messages are handled, no call waits for a token when
  the pulse changes again.
* `PhaseInv`: an executor that waits for the state has asked for it, or a report is
  on its way. So a token request that waits for the object is handled in time.

`UpdatesKept` proves the action property `NoLostUpdate` under the same hypotheses:
an ordered call starts on a memory that holds every change whose result was sent
before. `MemoryInv` has these parts:

* `KeptInv`: a change whose result was sent is in the memory of the present executor
  and, while that has no state yet, in every report that may still set it (`Kept`);
  or it is still to come, with a call that goes on after its pulse or with a last
  message on its way (`Coming`).
* `EndInv`: while the last message of an ordered call is on its way, its receiver is
  closed to ordered calls, and there is only one such message. With `WaitInv`, which
  says the same of a call that still goes on, no ordered call can start while a
  change is to come; so when one starts, `Kept` holds of every change.
* `BaseInv`, `SavedInv`, `LatestInv`: what a running ordered call has read, what it
  has saved and what its last message carries holds all changes answered so far, so
  that overwriting the memory with it drops none.
* `NewsInv`: which steps of a call come before and after its change and its answer.

A lemma, `StartsOnly`, shows that no step but `stepStartRequestProcessing` starts
contract code; the theorem is then about that step.

The hypotheses of all these theorems are met by the constants of `method_handover`;
those of the theorems that do not ask for `~ Skewed` also by `skewed_nodes`. They
cannot be dropped: the disagreements of section 3 are the counterexamples for
constructors, deactivation, late repetitions and a changed queue.

### The semaphores

**SemaphoresProofs**, for any finite set of machines, any children and limits:
`HoldersAccounted`, `LimitsRespected`, `ChildrenNotIdle`, `SemaphoresTyped` and,
for steps, `FreePlacesHandedOn`. The inductive invariant `SemaphoresInv` is
`Booked` (every machine that holds something stands in exactly one queue, once,
in the one that its holder names; the count of a child at its parent is the
number of its holders there; the boost position is an entry of the queue),
`NobodyIdle` (nobody waits at a child that has room) and, until a limit is
lowered, `Within`. Every operation is first shown to keep `Booked` on the queues
it moves machines between; lemmas about positions and counts in sequences carry
that. `atParent` is decremented without a check in the code; `Booked` is why it
does not become negative.

### The conveyor

**ConveyorProofs**, for any events, pulses, cache ages and numbers of cancelled
pulse changes: `ConveyorNoPanic`, `ConveyorHandlesInPulse`,
`ConveyorLosesNothing`, `ConveyorOnePresent`, `ConveyorTyped`,
`ConveyorKeepsData`. The invariant `ConveyorInv` has the types, the properties,
and `Orderly` as long as no panic has happened:

* `LivesInv`: a slot that is not started has exactly one call that will start it;
  a slot that stops is a past one.
* `BeforeFirst` and `Running`: which slots there are and what is published, before
  the first pulse and from then on, in each phase of a commit. At the core are
  that a pulse number belongs to one slot and that the registry leads to it.
* `CallsInv`: what a call of `AddInput` has read is what still is, or, when the
  pulse has changed meanwhile, is exactly one pulse old: the slot it takes for
  the present one is a past one that is still published, and the one it expects
  is present.
* `PlacesInv`: the slot of an event is of its pulse.

`ConveyorKeepsData` (`PulseDataKept`) needs one part more, `DataInv`, which ties the
rotations of the cache to the slots: the number of a slot without a later one was
touched since the last rotation, that of a slot with one later one not before the
last but one, and a number that is not in the cache is old and has three later
slots. Rotation and promotion of a slot are steps of one commit, so the slot that
is being promoted is counted only after the rotation.

`CallsAreShort` enters in `CallsInv`: without it a call may have read pulses that are two
changes old, and the code panics.

### The plash

**PlashProofs**, for any appends, finite sets of drops, sizes, page sizes and
faults. `OrdinalsDense`, `ReportedStateFinal` and, for steps,
`SnapshotsInSequence` rest on three parts of the invariant `PlashInv`. `LifeInv`:
which control bundles are written in which status. `ChainInv`: the open snapshots
are the bundles at work, each waits for the one before it (or for the closure,
which waits for it), and all before the first are at their end. `OrdinalsInv`: the
committed ordinals of a drop are 1 to some k and the first open one follows
(`Behind`); as long as the first open bundle is not bound to be rolled back, the
ordinals of the open ones follow each other (`Ahead`). The last is what breaks,
and is allowed to break, while a failure runs down the chain: the counter is
already set back and new bundles take numbers again that doomed ones still have.

`CommittedStaysIntact`, `RollbacksLeaveNothing`, `AcknowledgedIsReported`,
`SummaryListsAll` and `TypeCorrect` need the contents of the directory. The first
part of the module shows, for every page size, what `AppendEntries` and
`RollbackDir` do to the entry at an index: the entries before the index of the
next one stay, the appended ones follow, and a rollback cuts exactly at the index
of its snapshot, whichever side of a page boundary that is. `AppendEntries` is a
recursive function on the naturals; its lemma is an induction, done with the
well-foundedness of the naturals over a set that is given (`NatSetInduction`),
since the library's induction rules take an operator and are not available to the
provers. On top,
`PlacesInv` is to entries what `OrdinalsInv` is to ordinals: committed bundles own
their indices, the open ones follow each other from the last committed entry on
while the chain is sound, and the index of the next entry is behind them.
`AckInv` ties a client's answer to the chain: a bundle whose callback has put it
into the tree is acknowledged only when it was committed. `CatalogInv` follows the
reading of the directory, for which nothing is acknowledged any more: the entries
of acknowledged bundles are in their places in the directory that was got and in
the one there is now, so that a page put together of both has them too
(`PageListed`), and the pages that were read are all of the first.

### Assumptions

`PulsesAssumption`, `RequestsAssumption` and `FlagsAssumption` (lists);
`ObjectPulseAssumption`; `PulsesInSequence`, `TasksAssumption`,
`RequestKindsAssumption`, `HandoversAssumption` (the executor that is not modelled
leaves at most one ordered call running (`OrderedExecute`), no two machines of
one call (`KnownRequests`), no method on a missing object, and a report that
counts the ordered call (`BuildStateReport`)) and `ObjectAgeAssumption` (no call is
older than its object; a constructor's pulse is that of its object, since
`vnlmn/register.go` `GetLifelineAnticipatedReference` makes the reference of the
one from the other); `ConstantsAssumption`, `OwnersAssumption`;
`ConveyorAssumption`; `PlashAssumption`, `BundlesAssumption`. TLC evaluates them
in the runs.

### Only model-checked

* Liveness (`CallsEnd`, `EarlyEventsEnd`, `AppendsAnswered`, `PlashEnds`,
  `WaitersPass`): fairness and `ENABLED` are out of the prover's reach.
* `NoRunAfterDeactivation`, and `NoLostUpdate` with a constructor or a deactivation:
  `UpdatesKept` excludes both, so its argument says nothing of them.
* `AtMostOnce` with constructors and late repetitions, `ReportAccepted` with
  constructors: the runs have instances in which they hold, the further
  disagreements above are those in which they do not.

## 5. Not modelled

* Network, consensus, pulsar, API and libraries. Consensus alone is far larger
  than all that is modelled and a system of its own; generated messages and mocks
  make up most of the rest of the repository's lines and have no logic.
* The slot machine engine. Its guarantees are assumed: one step at a time per
  machine, migration before other steps, wake-ups by gates and results, exclusion
  of `StopIfEmpty` and `AddNew`.
* In the virtual layer the validated state, result validation, the memory cache
  and authentication. In the ledger the stages of a line (`lineage`), the machines
  of `datawriter`, reading, and the jet tree.
* Crash and restart: a node keeps its state in memory only (`memstor` is the one
  storage there is) and has nothing that it could recover.

Known weaknesses without a property are hazards with a note, among them the loss
of a late `VDelegatedRequestFinished`.

## 6. Plan

Done in this order: RequestLists, CallRegistry and its proofs, StateReport and
its theorem, VirtualExecution with methods, constructors, deactivation and skew,
Semaphores, Conveyor, MemoryStorage and PlashBuilder; then the theorems about
Semaphores, PlashBuilder, Conveyor and the exclusion of effects; then those about
the contents of a plash, repeated calls, the use of the registry, ordered calls,
reports, panics and lost updates.

1. VirtualExecution: theorems with constructors and deactivation, above all
   `NoRunAfterDeactivation`.
2. Models: the stages of a line in `lineage` over PlashBuilder's futures; the
   slot machine's step, sleep, wake-up and migration against the guarantees
   assumed above; the jet tree over pulses.
