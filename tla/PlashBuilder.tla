----------------------------- MODULE PlashBuilder -----------------------------
(***************************************************************************)
(* How a ledger node writes one plash, the records of one pulse            *)
(* (ledger/server/buildersvc).  AppendToDrop hands a bundle of records to  *)
(* the bundle writer, which prepares it under its mutex and applies it in  *)
(* a goroutine of its own; the goroutines form a chain of channels, so     *)
(* that bundles are committed, or rolled back, in the order they were      *)
(* prepared.  A committed bundle is added to the merkle tree of the plash, *)
(* whose root is the state the node reports when the pulse changes.  Then  *)
(* the summaries are written through the same chain and the storage is     *)
(* made read-only.                                                         *)
(*                                                                         *)
(* The mutex of the writer is held over several steps only while the       *)
(* callback of an append waits for the commit lock of the plash, which     *)
(* PreparePulseChange takes and keeps; any other section under a mutex is  *)
(* one step.                                                               *)
(***************************************************************************)
EXTENDS MemoryStorage, FiniteSets

CONSTANTS
    Appends,     \* bundles of records, one call to AppendToDrop each
    Drops,       \* the drops of the plash that are built by this node
    DropOf,      \* [Appends -> Drops]
    SizeOf,      \* [Appends -> Nat \ {0}]: the records of the bundle
    FaultsOf,    \* [Appends -> SUBSET Faults]: what may go wrong with it
    MaxCancels,  \* bound: pulse changes that are cancelled
    MaxLate      \* bound: appends under way when the pulse changes

\* PrepareWrite returns an error at some record; ApplyWrite panics; ApplyWrite
\* returns an error; Commit finds a wrong filament link.
Faults == {"prepare", "panic", "error", "commit"}

ASSUME PlashAssumption ==
    /\ DropOf \in [Appends -> Drops]
    /\ SizeOf \in [Appends -> Nat \ {0}]
    /\ FaultsOf \in [Appends -> SUBSET Faults]
    /\ IsFiniteSet(Drops)
    /\ MaxCancels \in Nat /\ MaxLate \in Nat

\* The control bundles: the start of the plash, the summary of the entry
\* section, of a line and of a drop, and the summary of the plash.
PlashStart == <<"start">>
SectionSummary == <<"section">>
LineSummary(d) == <<"line", d>>
DropSummary(d) == <<"drop", d>>
PlashSummary == <<"plash">>
Controls == {PlashStart, SectionSummary, PlashSummary}
                \cup {LineSummary(d) : d \in Drops} \cup {DropSummary(d) : d \in Drops}

Bundles == Appends \cup Controls

\* The closure WaitWriteBundlesAsync puts into the chain.
Closure == <<"closure">>
NoBundle == <<"none">>

\* The bundles of clients are none of those the plash makes, nor the reserved
\* entry of a directory.
ASSUME BundlesAssumption == Appends \cap (Controls \cup {Closure, NoBundle, Reserved}) = {}

Section(b) == IF b \in Appends THEN "entry" ELSE "control"
Size(b) == IF b \in Appends THEN SizeOf[b] ELSE 1
May(b, fault) == b \in Appends /\ fault \in FaultsOf[b]

VARIABLES
    mutex,      \* bundleWriter.mutex: the bundle whose callback holds it
    lastReady,  \* bundleWriter.lastReady: whose channel is the last one
    prev,       \* the channel a goroutine waits for
    ready,      \* what a channel holds: "open", "ok" or "rolledBack"
    pc,         \* where a call or the goroutine of a bundle is
    fate,       \* what became of the snapshot of a bundle
    inFlight,   \* history: the open snapshots in the order they were taken
    storage,    \* MemoryStorageWriter.state
    dir,        \* cabinetSection.directory of each section
    dirIndex,   \* sectionSnapshot.dirIndex
    dropOrder,  \* dropAssistant.dropEntryCounter
    dropBase,   \* entryWriter.dropBase
    status,     \* plashAssistant.status; "pendingPulse" holds the commit lock
    cancels,    \* cancelled pulse changes
    merkle,     \* plashAssistant.merkle: the bundles added
    nodeState,  \* the tree whose root was given at PreparePulseChange
    future,     \* Future of an append
    found,      \* directoryPages of ReadCatalog, as it was when it got them
    catalog,    \* SectionSummaryWriter: the pages ReadCatalog has read
    sectionPc,  \* the goroutine of writeSectionSummaries
    drops,      \* ctlsection.WriteAssistant.drops
    closePc,    \* the goroutine of finalizeSummaryWrites
    reported,   \* an error went to callbackFn, or to the caller as a panic
    panicked    \* a goroutine panicked outside of any recover

writerVars == <<mutex, lastReady, prev, ready, pc, fate, inFlight>>
storageVars == <<storage, dir, dirIndex, dropOrder, dropBase>>
plashVars == <<status, cancels, merkle, nodeState>>
summaryVars == <<found, catalog, sectionPc, drops, closePc, reported, panicked>>
vars == <<writerVars, storageVars, plashVars, future, summaryVars>>

\* The plash was created and its start is written.
Init ==
    /\ mutex = NoBundle
    /\ lastReady = PlashStart
    /\ prev = [b \in Bundles \cup {Closure} |-> NoBundle]
    /\ ready = [b \in Bundles \cup {Closure} |-> IF b = PlashStart THEN "ok" ELSE "open"]
    /\ pc = [b \in Bundles |-> IF b = PlashStart THEN "end" ELSE "idle"]
    /\ fate = [b \in Bundles |-> IF b = PlashStart THEN "committed" ELSE "none"]
    /\ inFlight = <<>>
    /\ storage = "writable"
    /\ dir = [s \in {"entry", "control"} |->
                IF s = "control" THEN SetDirectoryEntry(EmptyDirectory, PlashStart)
                                 ELSE EmptyDirectory]
    /\ dirIndex = [b \in Bundles |-> IF b = PlashStart THEN 1 ELSE 0]
    /\ dropOrder = [d \in Drops |-> 0]
    /\ dropBase = [a \in Appends |-> 0]
    /\ status = "started"
    /\ cancels = 0
    /\ merkle = <<>>
    /\ nodeState = <<>>
    /\ future = [a \in Appends |-> "none"]
    /\ found = <<>>
    /\ catalog = <<>>
    /\ sectionPc = "idle"
    /\ drops = {}
    /\ closePc = "idle"
    /\ reported = FALSE
    /\ panicked = FALSE

-------------------------------------------------------------------------------
(***************************************************************************)
(* The bundle writer and the snapshot of the storage.                      *)
(***************************************************************************)

\* Seeded fault: the channel of the previous bundle is not looked at.
PrepareWaitForgets == NoBundle

\* The channel a new goroutine has to wait for: the last one of the chain,
\* unless it can be read already, whatever it says.
PrepareWait ==
    IF lastReady # NoBundle /\ ready[lastReady] = "open" THEN lastReady
                                                         ELSE NoBundle

\* Takes the directory entries and, for records, the ordinals of the drop.
PrepareWrite(b) ==
    /\ dirIndex' = [dirIndex EXCEPT ![b] = GetNextDirectoryIndex(dir[Section(b)])]
    /\ dir' = [dir EXCEPT ![Section(b)] = AppendEntries(@, b, Size(b))]
    /\ IF b \in Appends
       THEN /\ dropBase' = [dropBase EXCEPT ![b] = dropOrder[DropOf[b]] + 1]
            /\ dropOrder' = [dropOrder EXCEPT ![DropOf[b]] = @ + Size(b)]
       ELSE UNCHANGED <<dropBase, dropOrder>>

WriteBundle(b) ==
    /\ mutex = NoBundle
    /\ storage = "writable"
    /\ PrepareWrite(b)
    /\ prev' = [prev EXCEPT ![b] = PrepareWait]
    /\ lastReady' = b
    /\ inFlight' = Append(inFlight, b)
    /\ pc' = [pc EXCEPT ![b] = "apply"]
    /\ UNCHANGED <<mutex, ready, fate, storage>>

\* WriteBundle returns an error, because the storage takes no snapshot, or
\* because PrepareWrite fails at a record after it has asked for its index.
\* What was prepared is rolled back at once.
WriteBundleFails(b) ==
    /\ mutex = NoBundle
    /\ \/ storage # "writable" /\ UNCHANGED <<storage, dir>>
       \/ /\ storage = "writable" /\ May(b, "prepare")
          /\ \E k \in 0..(Size(b) - 1) :
                LET pages == dir[Section(b)]
                    undone == RollbackDir(AppendEntries(pages, b, k),
                                          GetNextDirectoryIndex(pages))
                IN /\ dir' = [dir EXCEPT ![Section(b)] = undone.pages]
                   /\ storage' = IF undone.ok THEN storage ELSE "broken"
    /\ pc' = [pc EXCEPT ![b] = "end"]
    /\ fate' = [fate EXCEPT ![b] = "refused"]
    /\ UNCHANGED <<mutex, lastReady, prev, ready, inFlight, dirIndex, dropOrder, dropBase>>

PrevDone(b) == prev[b] # NoBundle => ready[prev[b]] # "open"

\* The previous bundle was rolled back, hence so must be this one.
Chained(b) == prev[b] # NoBundle /\ ready[prev[b]] = "rolledBack"

\* The goroutine of a bundle: the quick check of the previous bundle, then
\* the write into the allocated places, which may panic.
ApplyWrite(b) ==
    /\ pc[b] = "apply"
    /\ \E next \in {"wait", "rollback"} :
        /\ next = "wait" => ~Chained(b)
        /\ next = "rollback" => Chained(b) \/ May(b, "panic")
        /\ pc' = [pc EXCEPT ![b] = next]
    /\ UNCHANGED <<mutex, lastReady, prev, ready, fate, inFlight,
                   storageVars, plashVars, future, summaryVars>>

\* Seeded fault: the written bundle is completed at once.
WaitPrevBundleNot(b) ==
    /\ pc[b] = "wait"
    /\ mutex = NoBundle
    /\ mutex' = b
    /\ pc' = [pc EXCEPT ![b] = "callback"]
    /\ UNCHANGED <<lastReady, prev, ready, fate, inFlight,
                   storageVars, plashVars, future, summaryVars>>

\* The written bundle waits for the previous one and takes the mutex.
WaitPrevBundle(b) ==
    /\ pc[b] = "wait"
    /\ PrevDone(b)
    /\ IF Chained(b)
       THEN pc' = [pc EXCEPT ![b] = "rollback"] /\ UNCHANGED mutex
       ELSE /\ mutex = NoBundle
            /\ mutex' = b
            /\ pc' = [pc EXCEPT ![b] = "callback"]
    /\ UNCHANGED <<lastReady, prev, ready, fate, inFlight,
                   storageVars, plashVars, future, summaryVars>>

\* Snapshot.Rollback.
RollbackSnapshot(b, chained) ==
    IF storage = "writable"
    THEN LET undone == RollbackDir(dir[Section(b)], dirIndex[b])
         IN /\ dir' = [dir EXCEPT ![Section(b)] = undone.pages]
            /\ storage' = IF undone.ok \/ chained THEN storage ELSE "broken"
    ELSE storage' = "broken" /\ UNCHANGED dir

\* Seeded fault: the ordinals of the drop are not given back.
ApplyRollbackNothing(b) == UNCHANGED dropOrder

\* Seeded fault: the ordinals are counted from zero.
ApplyRollbackFromZero(b) ==
    IF b \in Appends
    THEN dropOrder' = [dropOrder EXCEPT ![DropOf[b]] =
                        IF dropBase[b] - 2 < @ THEN dropBase[b] - 2 ELSE @]
    ELSE UNCHANGED dropOrder

\* The ordinals of the drop are given back, unless an earlier rollback has
\* given back more.
ApplyRollback(b) ==
    IF b \in Appends
    THEN dropOrder' = [dropOrder EXCEPT ![DropOf[b]] =
                        IF dropBase[b] - 1 < @ THEN dropBase[b] - 1 ELSE @]
    ELSE UNCHANGED dropOrder

\* The snapshot and the entries are dropped after the rollback.
UndoWrite(b, chained) ==
    /\ RollbackSnapshot(b, chained)
    /\ ApplyRollback(b)
    /\ dirIndex' = [dirIndex EXCEPT ![b] = 0]
    /\ dropBase' = IF b \in Appends THEN [dropBase EXCEPT ![b] = 0] ELSE dropBase

\* The end of a snapshot, under the mutex; the channel is signalled later.
EndSnapshot(b, end) ==
    /\ fate' = [fate EXCEPT ![b] = end]
    /\ pc' = [pc EXCEPT ![b] = "signal"]
    /\ \E i \in DOMAIN inFlight : inFlight[i] = b /\ inFlight' = RemoveAt(inFlight, i)
    /\ mutex' = NoBundle
    /\ UNCHANGED <<lastReady, prev, ready>>

\* Seeded fault: the callback of an append is not called with an error.
FailedSilently(b) ==
    IF b \in Appends
    THEN UNCHANGED <<future, reported>>
    ELSE reported' = TRUE /\ UNCHANGED future

\* An error of a bundle goes to its future or, for a control bundle, to the
\* callback of the plash.
Failed(b) ==
    IF b \in Appends
    THEN future' = [future EXCEPT ![b] = "error"] /\ UNCHANGED reported
    ELSE reported' = TRUE /\ UNCHANGED future

\* The deferred rollback, after the previous bundle.
RollbackBundle(b) ==
    /\ pc[b] = "rollback"
    /\ PrevDone(b)
    /\ mutex = NoBundle
    /\ UndoWrite(b, Chained(b))
    /\ Failed(b)
    /\ EndSnapshot(b, "rolledBack")
    /\ UNCHANGED <<plashVars, found, catalog, sectionPc, drops, closePc, panicked>>

EntriesOf(b) == {dirIndex[b] + i : i \in 0..(Size(b) - 1)}

\* Commit looks for the entries of the bundle, and finds a wrong link.
CommitFails(b, wrongLink) ==
    wrongLink \/ \E i \in EntriesOf(b) : GetDirEntry(dir[Section(b)], i) = Reserved

\* Commit, or the rollback after its error, under the mutex of the callback.
CommitSnapshot(b, wrongLink) ==
    IF CommitFails(b, wrongLink)
    THEN UndoWrite(b, FALSE) /\ EndSnapshot(b, "rolledBack")
    ELSE UNCHANGED storageVars /\ EndSnapshot(b, "committed")

\* The goroutine sends ok, when committed, and closes its channel.
SignalNext(b) ==
    /\ pc[b] = "signal"
    /\ ready' = [ready EXCEPT ![b] = IF fate[b] = "committed" THEN "ok" ELSE "rolledBack"]
    /\ pc' = [pc EXCEPT ![b] = "end"]
    /\ prev' = [prev EXCEPT ![b] = NoBundle]
    /\ UNCHANGED <<mutex, lastReady, fate, inFlight,
                   storageVars, plashVars, future, summaryVars>>

-------------------------------------------------------------------------------
(***************************************************************************)
(* Appends of records.                                                     *)
(***************************************************************************)

\* AppendToDrop up to waitNotPending: blocked by a pending pulse change and
\* refused after it.
AppendToDrop(a) ==
    /\ pc[a] = "idle"
    /\ status # "pendingPulse"
    /\ IF status = "started"
       THEN pc' = [pc EXCEPT ![a] = "checked"] /\ UNCHANGED <<fate, future>>
       ELSE /\ pc' = [pc EXCEPT ![a] = "end"]
            /\ fate' = [fate EXCEPT ![a] = "refused"]
            /\ future' = [future EXCEPT ![a] = "error"]
    /\ UNCHANGED <<mutex, lastReady, prev, ready, inFlight,
                   storageVars, plashVars, summaryVars>>

WriteAppend(a) ==
    /\ pc[a] = "checked"
    /\ \/ WriteBundle(a) /\ UNCHANGED future
       \/ WriteBundleFails(a) /\ future' = [future EXCEPT ![a] = "error"]
    /\ UNCHANGED <<plashVars, summaryVars>>

\* Seeded fault: the status is not checked under the commit lock.
CommitDropUpdateAny(a, indices) ==
    /\ status # "pendingPulse"
    /\ merkle' = IF indices = "ok" THEN Append(merkle, a) ELSE merkle
    /\ UNCHANGED <<status, cancels, nodeState>>

\* commitDropUpdate and bundleProcessedByWriter: what the callback makes of
\* the indices ApplyWrite has returned ("empty" after an error of ApplyWrite).
CommitDropUpdate(a, indices) ==
    /\ status # "pendingPulse"
    /\ merkle' = IF status = "started" /\ indices = "ok" THEN Append(merkle, a) ELSE merkle
    /\ UNCHANGED <<status, cancels, nodeState>>

\* Seeded fault: the error of a closed plash is lost.
UpdateResultLost(indices) == indices

\* The result of commitDropUpdate: the plash may be closed by now.
UpdateResult(indices) == IF status = "started" THEN indices ELSE "error"

\* The callback of append: it sets the future in a goroutine and always asks
\* for a commit.  When Commit fails the callback is called again and the two
\* goroutines race for the future; the first result stays.  Nobody waits for
\* these goroutines and a future is not read by the writer, so that they are
\* taken to end at once.  No indices and no error is a panic of
\* TrySetFutureResult where nobody recovers it, whichever result came first.
CompleteAppend(a) ==
    /\ pc[a] = "callback" /\ a \in Appends
    /\ \E indices \in {"ok", "empty"}, wrongLink \in BOOLEAN :
        /\ indices = "empty" => May(a, "error")
        /\ wrongLink => May(a, "commit")
        /\ CommitDropUpdate(a, indices)
        /\ \E result \in {UpdateResult(indices)}
                            \cup (IF CommitFails(a, wrongLink) THEN {"error"} ELSE {}) :
            future' = [future EXCEPT ![a] = IF result = "empty" THEN @ ELSE result]
        /\ panicked' = (UpdateResult(indices) = "empty")
        /\ CommitSnapshot(a, wrongLink)
    /\ UNCHANGED <<found, catalog, sectionPc, drops, closePc, reported>>

-------------------------------------------------------------------------------
(***************************************************************************)
(* The pulse change and the summaries.                                     *)
(***************************************************************************)

\* Takes the commit lock, keeps it, and reports the root of the tree.
PreparePulseChange ==
    /\ status = "started"
    /\ Cardinality({a \in Appends : pc[a] \notin {"idle", "end"}}) <= MaxLate
    /\ status' = "pendingPulse"
    /\ nodeState' = merkle
    /\ UNCHANGED <<cancels, merkle, writerVars, storageVars, future, summaryVars>>

CancelPulseChange ==
    /\ status = "pendingPulse"
    /\ cancels < MaxCancels
    /\ cancels' = cancels + 1
    /\ status' = "started"
    /\ UNCHANGED <<merkle, nodeState, writerVars, storageVars, future, summaryVars>>

CommitPulseChange ==
    /\ status = "pendingPulse"
    /\ status' = "summingUp"
    /\ cancels' = 0
    /\ sectionPc' = "read"
    /\ UNCHANGED <<merkle, nodeState, writerVars, storageVars, future,
                   found, catalog, drops, closePc, reported, panicked>>

\* ReadCatalog gets the directory, without regard to bundles in flight, and
\* makes tables for the entries it has now.  It panics when the storage is
\* broken and gives no directory.
ReadCatalog ==
    /\ sectionPc = "read"
    /\ IF storage = "broken"
       THEN panicked' = TRUE /\ UNCHANGED <<found, sectionPc>>
       ELSE /\ found' = dir["entry"]
            /\ sectionPc' = "scan"
            /\ UNCHANGED panicked
    /\ UNCHANGED <<writerVars, storageVars, plashVars, future, catalog, drops, closePc, reported>>

\* What a page may look like: the pages are read without a lock while they
\* are cut and refilled, so that its length and each of its entries are those
\* of the directory that was got or those of the directory there is now.
PageVersions(p) == {pages[p] : pages \in {q \in {found, dir["entry"]} : p \in DOMAIN q}}
PagesSeen(p) ==
    {page \in UNION {[DOMAIN v -> UNION {ToSet(w) : w \in PageVersions(p)}] : v \in PageVersions(p)} :
        \A i \in DOMAIN page : \E v \in PageVersions(p) : i \in DOMAIN v /\ page[i] = v[i]}

\* The links of the entries may not fit together: when an entry is of a bundle
\* with a wrong link which was not committed, or when the directory was cut
\* and refilled meanwhile.  The links of committed bundles are right.
LinksMayFail(page) ==
    \/ \E i \in DOMAIN page : May(page[i], "commit") /\ fate[page[i]] # "committed"
    \/ \E p \in DOMAIN found : \E i \in DOMAIN found[p] :
            found[p][i] # Reserved /\ fate[found[p][i]] = "rolledBack"

\* Seeded fault: the last page is not read.
LastPageNot(p) == p >= Len(found) - 1

\* The loop over the pages ends.
LastPage(p) == p = Len(found)

\* The next page is read.  An entry beyond the tables is a panic which nobody
\* recovers; after an error there is no summary of the section.
ReadPage ==
    /\ sectionPc = "scan"
    /\ LET p == Len(catalog) + 1
           Beyond(page) == (p - 1) * PageSize + Len(page) > GetNextDirectoryIndex(found)
       IN \E page \in PagesSeen(p) :
            \/ /\ Beyond(page)
               /\ panicked' = TRUE
               /\ UNCHANGED <<catalog, sectionPc, reported>>
            \/ /\ LinksMayFail(page)
               /\ sectionPc' = "failed"
               /\ reported' = TRUE
               /\ UNCHANGED <<catalog, panicked>>
            \/ /\ ~Beyond(page)
               /\ catalog' = Append(catalog, page)
               /\ sectionPc' = IF LastPage(p) THEN "write" ELSE "scan"
               /\ UNCHANGED <<reported, panicked>>
    /\ UNCHANGED <<writerVars, storageVars, plashVars, future, found, drops, closePc>>

\* A control bundle is written, or the error is reported.
WriteControl(b) ==
    /\ \/ WriteBundle(b) /\ UNCHANGED reported
       \/ WriteBundleFails(b) /\ reported' = TRUE
    /\ UNCHANGED <<plashVars, future, found, catalog, drops, panicked>>

WriteSectionSummary ==
    /\ sectionPc = "write"
    /\ WriteControl(SectionSummary)
    /\ sectionPc' = "closed"
    /\ UNCHANGED closePc

\* The lines of a drop issue their summaries before the drop does.
AppendToDropSummary(d) ==
    /\ pc[LineSummary(d)] = "idle"
    /\ status = "summingUp"
    /\ WriteControl(LineSummary(d))
    /\ UNCHANGED <<sectionPc, closePc>>

\* It waits for sectionSync, which is closed also after an error.
FinalizeDropSummary(d) ==
    /\ pc[DropSummary(d)] = "idle" /\ pc[LineSummary(d)] # "idle"
    /\ status = "summingUp"
    /\ sectionPc \in {"closed", "failed"}
    /\ WriteControl(DropSummary(d))
    /\ UNCHANGED <<sectionPc, closePc>>

\* Seeded fault: one drop more is waited for.
LastDropOneMore(ds) == Cardinality(ds) > Cardinality(Drops)

\* All drops of the plash have their summaries.
LastDrop(ds) == Cardinality(ds) >= Cardinality(Drops)

\* The callback of a control bundle, then Commit.  The last drop starts the
\* goroutine that closes the plash.
CompleteControl(b) ==
    /\ pc[b] = "callback" /\ b \in Controls
    /\ drops' = drops \cup {d \in Drops : b = DropSummary(d)}
    /\ closePc' = IF drops' # drops /\ LastDrop(drops') THEN "summarize" ELSE closePc
    /\ CommitSnapshot(b, FALSE)
    /\ reported' = (reported \/ CommitFails(b, FALSE))
    /\ UNCHANGED <<plashVars, future, found, catalog, sectionPc, panicked>>

Summarize ==
    /\ closePc = "summarize"
    /\ status' = "summarized"
    /\ closePc' = "write"
    /\ UNCHANGED <<cancels, merkle, nodeState, writerVars, storageVars, future,
                   found, catalog, sectionPc, drops, reported, panicked>>

WritePlashSummary ==
    /\ closePc = "write"
    /\ WriteControl(PlashSummary)
    /\ closePc' = IF fate'[PlashSummary] = "refused" THEN "end" ELSE "wait"
    /\ UNCHANGED sectionPc

WaitWriteBundlesAsync ==
    /\ closePc = "wait"
    /\ mutex = NoBundle
    /\ prev' = [prev EXCEPT ![Closure] = PrepareWait]
    /\ lastReady' = Closure
    /\ closePc' = "close"
    /\ UNCHANGED <<mutex, ready, pc, fate, inFlight, storageVars, plashVars, future,
                   found, catalog, sectionPc, drops, reported, panicked>>

\* The closure, called when all bundles written before it have ended: it
\* closes the plash and marks the storage read-only.
ClosePlash ==
    /\ closePc = "close"
    /\ PrevDone(Closure)
    /\ mutex = NoBundle
    /\ status' = "closed"
    /\ storage' = IF storage = "writable" THEN "readOnly" ELSE storage
    /\ reported' = (reported \/ storage # "writable")
    /\ closePc' = "signal"
    /\ UNCHANGED <<cancels, merkle, nodeState, writerVars, dir, dirIndex, dropOrder, dropBase,
                   future, found, catalog, sectionPc, drops, panicked>>

\* The channel of the closure says ok only when it has read an ok itself.
SignalClosure ==
    /\ closePc = "signal"
    /\ ready' = [ready EXCEPT ![Closure] =
                    IF prev[Closure] # NoBundle /\ ready[prev[Closure]] = "ok"
                    THEN "ok" ELSE "rolledBack"]
    /\ closePc' = "end"
    /\ prev' = [prev EXCEPT ![Closure] = NoBundle]
    /\ UNCHANGED <<mutex, lastReady, pc, fate, inFlight, storageVars, plashVars,
                   future, found, catalog, sectionPc, drops, reported, panicked>>

-------------------------------------------------------------------------------
Goroutine(b) ==
    \/ ApplyWrite(b) \/ WaitPrevBundle(b) \/ RollbackBundle(b) \/ SignalNext(b)
    \/ CompleteAppend(b) \/ CompleteControl(b)

Summaries ==
    \/ ReadCatalog \/ ReadPage \/ WriteSectionSummary
    \/ \E d \in Drops : AppendToDropSummary(d) \/ FinalizeDropSummary(d)
    \/ Summarize \/ WritePlashSummary \/ WaitWriteBundlesAsync \/ ClosePlash \/ SignalClosure

\* What is under way in goroutines, adapters and the pulse change.
Progress ==
    /\ ~panicked
    /\ \/ \E b \in Bundles : Goroutine(b)
       \/ \E a \in Appends : WriteAppend(a)
       \/ CancelPulseChange \/ CommitPulseChange
       \/ Summaries

Next ==
    \/ Progress
    \/ /\ ~panicked
       /\ (\E a \in Appends : AppendToDrop(a)) \/ PreparePulseChange

Spec == Init /\ [][Next]_vars

FairSpec == Spec /\ WF_vars(Progress)

-------------------------------------------------------------------------------
\* The state has its type.
TypeOK ==
    /\ mutex \in Bundles \cup {NoBundle}
    /\ lastReady \in Bundles \cup {Closure}
    /\ prev \in [Bundles \cup {Closure} -> Bundles \cup {Closure, NoBundle}]
    /\ ready \in [Bundles \cup {Closure} -> {"open", "ok", "rolledBack"}]
    /\ pc \in [Bundles -> {"idle", "checked", "apply", "wait", "callback",
                           "rollback", "signal", "end"}]
    /\ fate \in [Bundles -> {"none", "committed", "rolledBack", "refused"}]
    /\ \A i \in DOMAIN inFlight : inFlight[i] \in Bundles
    /\ storage \in {"writable", "readOnly", "broken"}
    /\ dirIndex \in [Bundles -> Nat]
    /\ dropOrder \in [Drops -> Nat]
    /\ dropBase \in [Appends -> Nat]
    /\ status \in {"started", "pendingPulse", "summingUp", "summarized", "closed"}
    /\ cancels \in 0..MaxCancels
    /\ future \in [Appends -> {"none", "ok", "error"}]
    /\ sectionPc \in {"idle", "read", "scan", "write", "closed", "failed"}
    /\ drops \subseteq Drops
    /\ closePc \in {"idle", "summarize", "write", "wait", "close", "signal", "end"}
    /\ reported \in BOOLEAN /\ panicked \in BOOLEAN

Committed == {b \in Bundles : fate[b] = "committed"}

\* The entries of a committed bundle stay where its indices say, whatever
\* is rolled back after it: the indices are handed out and hashed.
CommittedIntact ==
    \A b \in Committed : \A i \in EntriesOf(b) : GetDirEntry(dir[Section(b)], i) = b

\* A rollback leaves nothing: once no snapshot is open, a storage that is not
\* broken holds committed bundles only, one after another without a gap.
NothingLeftBehind ==
    inFlight = <<>> /\ storage # "broken" =>
        \A s \in DOMAIN dir : \A i \in DOMAIN Entries(dir[s]) :
            LET b == Entries(dir[s])[i]
            IN fate[b] = "committed" /\ i \in EntriesOf(b)

\* The records of a drop are numbered 1, 2, ... without gap or repetition,
\* although the numbers are given out before the fate of earlier bundles is
\* known and are taken back by rollbacks in between.
DropOrdinalsDense ==
    \A d \in Drops :
        LET of == {a \in Appends \cap Committed : DropOf[a] = d}
            Numbers(a) == {dropBase[a] + i : i \in 0..(SizeOf[a] - 1)}
        IN /\ \A a, b \in of : a # b => Numbers(a) \cap Numbers(b) = {}
           /\ inFlight = <<>> => UNION {Numbers(a) : a \in of} = 1..dropOrder[d]

\* Snapshots are committed, and those in the chain are rolled back, in the
\* order they were taken, as Snapshot promises to its storage.
SequenceKept ==
    [][\A b \in Bundles :
        (fate'[b] # fate[b] /\ fate'[b] \in {"committed", "rolledBack"})
            => b = Head(inFlight)]_vars

\* What a client was told is registered is stored and is in the state that
\* the node has reported for the pulse, unless the storage found a wrong
\* link in the bundle (its Commit fails after the callback).
AcknowledgedReported ==
    \A a \in Appends :
        future[a] = "ok" /\ ~May(a, "commit") =>
            /\ fate[a] = "committed"
            /\ a \in ToSet(IF status \in {"started", "pendingPulse"} THEN merkle ELSE nodeState)

\* The state reported at PreparePulseChange is final when the pulse change is
\* committed: no bundle in flight gets into the tree any more.
NodeStateFinal ==
    status \notin {"started", "pendingPulse"} => merkle = nodeState

\* The summary of the section, once committed, lists every acknowledged
\* record at its index, though the directory is read while bundles end.
SummaryComplete ==
    fate[SectionSummary] = "committed" =>
        \A a \in Appends : future[a] = "ok" /\ ~May(a, "commit") =>
            \A i \in EntriesOf(a) : GetDirEntry(catalog, i) = a

\* Every append that passed the check of the plash gets a result, also one
\* that waits for a pulse change or for a bundle that fails (appends are
\* finitely many, so that all of them are answered at some time).
AppendsAnswered ==
    (\E a \in Appends : pc[a] = "checked")
        ~> (panicked \/ \A a \in Appends : pc[a] # "idle" => future[a] # "none")

\* After a pulse change the plash is closed, or someone is told why not.
PlashEnds ==
    status = "summingUp" ~> (status = "closed" \/ reported \/ panicked)

\* All bundles that are refused because of the pulse change are rolled back.
RefusedRolledBack ==
    \A a \in Appends : future[a] = "error" => fate[a] # "committed"
===============================================================================
