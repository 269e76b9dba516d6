----------------------------- MODULE CallRegistry -----------------------------
(***************************************************************************)
(* The call registry of one SMObject (virtual/callregistry): the           *)
(* WorkingTable of the requests this executor runs and the PendingTable of *)
(* the requests a previous executor still runs, under the calls that the   *)
(* state machines make.  SMExecute calls Add, SetActive and Finish, the    *)
(* handlers of VDelegatedCallRequest and VDelegatedRequestFinished call    *)
(* PendingAdd and PendingFinish.                                           *)
(*                                                                         *)
(* A method is one step: the callers reach the tables inside an accessor   *)
(* of the shared SMObject, which the slot machine runs without             *)
(* interruption.  A call that the method refuses (it returns false) leaves *)
(* the tables as they were.                                                *)
(***************************************************************************)
EXTENDS RequestLists

CONSTANTS
    Flags,      \* interference flags: one list per flag in each table
    FlagOf      \* the negotiated interference of each request

ASSUME FlagsAssumption == FlagOf \in [Requests -> Flags]

VARIABLES
    known,      \* WorkingTable.requests, a list per flag
    results,    \* WorkingTable.results
    pending     \* PendingTable.lists, a list per flag

vars == <<known, results, pending>>

(* CallSummary: no key, a key without a result, a key with a result *)
CallSummary == {"none", "empty", "result"}

TypeOK == /\ known \in [Flags -> ListType]
          /\ results \in [Requests -> CallSummary]
          /\ pending \in [Flags -> ListType]

(* NewWorkingTable, NewRequestTable *)
Init == /\ known = [f \in Flags |-> NewList]
        /\ results = [r \in Requests |-> "none"]
        /\ pending = [f \in Flags |-> NewList]

-----------------------------------------------------------------------------
(* WorkingTable.Add *)
Add(ref) ==
    LET f == FlagOf[ref]
    IN  /\ known' = [known EXCEPT ![f] = WorkingAdd(@, ref)]
        /\ UNCHANGED <<results, pending>>

(* Seeded fault: no call summary is opened for an activated request. *)
SetActiveNoSummary(ref) ==
    /\ known' = [known EXCEPT ![FlagOf[ref]] = WorkingSetActive(@, ref)]
    /\ UNCHANGED <<results, pending>>

(* WorkingTable.SetActive *)
SetActive(ref) ==
    LET f == FlagOf[ref]
    IN  /\ known' = [known EXCEPT ![f] = WorkingSetActive(@, ref)]
        /\ results' = IF CanSetActive(known[f], ref)
                      THEN [results EXCEPT ![ref] = "empty"] ELSE results
        /\ UNCHANGED pending

(* WorkingTable.Finish.  A caller obeys a rule that the method does not    *)
(* check: SMExecute finishes a request that it has activated or, when it   *)
(* answers with an error before deduplication, one that is in no list; it  *)
(* must not find the request Started.  VirtualExecution checks its steps   *)
(* against this rule (RegistryUse, FinishedWereActive).                    *)
Finish(ref) ==
    LET f == FlagOf[ref]
    IN  /\ known[f].requests[ref] # "Started"
        /\ known' = [known EXCEPT ![f] = WorkingFinish(@, ref)]
        /\ results' = IF CanFinish(known[f], ref)
                      THEN [results EXCEPT ![ref] = "result"] ELSE results
        /\ UNCHANGED pending

(* PendingTable.GetList(flag).Add *)
AddPending(ref) ==
    LET f == FlagOf[ref]
    IN  /\ pending' = [pending EXCEPT ![f] = PendingAdd(@, ref)]
        /\ UNCHANGED <<known, results>>

(* PendingTable.GetList(flag).Finish.  A delegated request reports its end *)
(* once.                                                                   *)
FinishPending(ref) ==
    LET f == FlagOf[ref]
    IN  /\ pending[f].requests[ref] # "Finished"
        /\ pending' = [pending EXCEPT ![f] = PendingFinish(@, ref)]
        /\ UNCHANGED <<known, results>>

Next == \E ref \in Requests : \/ Add(ref)
                              \/ SetActive(ref)
                              \/ Finish(ref)
                              \/ AddPending(ref)
                              \/ FinishPending(ref)

Spec == Init /\ [][Next]_vars

-----------------------------------------------------------------------------
(* The numbers a state report is built from (object.go BuildStateReport)   *)
(* are right after any sequence of calls: in each of the lists countActive *)
(* and countFinish count the requests, activity counts them per pulse, and *)
(* earliestActivePulse is the least pulse that has an active request, even *)
(* though it is recomputed only when the earliest pulse loses its last one.*)
RegistryConsistent ==
    \A f \in Flags : ListConsistent(known[f]) /\ ListConsistent(pending[f])

(* The result map follows the working list: a key exists exactly for the   *)
(* requests that were activated, and it holds a result exactly for those   *)
(* that finished.  WorkingTable.Finish panics when the first half fails    *)
(* (working_table.go:63); deduplication answers a duplicate from the map.  *)
ResultsFollowRequests ==
    \A r \in Requests :
        LET s == known[FlagOf[r]].requests[r]
        IN  /\ results[r] # "none" <=> s \in {"Processing", "Finished"}
            /\ results[r] = "result" <=> s = "Finished"

(* A request never goes back: not to be started again after it was         *)
(* activated, not to be active again after it finished, in either table.   *)
StateRank(s) == CASE s = "Unknown" -> 0 [] s = "Started" -> 1
                  [] s = "Processing" -> 2 [] s = "Finished" -> 3
OnlyForward ==
    [][\A f \in Flags, r \in Requests :
         /\ StateRank(known[f].requests[r]) <= StateRank(known'[f].requests[r])
         /\ StateRank(pending[f].requests[r]) <= StateRank(pending'[f].requests[r])]_vars
=============================================================================
