----------------------------- MODULE RequestLists -----------------------------
(***************************************************************************)
(* The request lists of virtual/callregistry: WorkingList (the requests an *)
(* executor runs itself) and PendingList (the requests a previous executor *)
(* still runs).  Both lists keep, beside the state of every request, a     *)
(* derived bookkeeping: how many requests are active, how many of them     *)
(* belong to each pulse, and the earliest pulse with an active request.    *)
(* The state report that one executor hands to the next is built from the  *)
(* bookkeeping alone, never from the requests.                             *)
(*                                                                         *)
(* A list is a record; the operators below are the methods of the Go types,*)
(* each returning the list the method leaves behind.  A Go map from pulse  *)
(* to counter is a total function in which 0 stands for an absent key: the *)
(* code deletes a key instead of storing a zero.                           *)
(***************************************************************************)
EXTENDS Integers, FiniteSets

CONSTANTS
    Requests,   \* the outgoing references that identify requests
    Pulses,     \* pulse numbers
    PulseOf     \* the pulse number inside each outgoing reference

\* A pulse number of a request is a time pulse, never zero (pulse.Unknown).
ASSUME PulsesAssumption == /\ Pulses \subseteq Nat \ {0}
                           /\ PulseOf \in [Requests -> Pulses]

\* An executor knows finitely many requests at a time.
ASSUME RequestsAssumption == IsFiniteSet(Requests)

-----------------------------------------------------------------------------
(* pulse.Unknown, the value of earliestActivePulse while nothing is active *)
UnknownPulse == 0

(* WorkingRequestState; PendingList.requests maps a request to an isActive *)
(* flag, so it uses the states Unknown (no key), Processing (true) and     *)
(* Finished (false).                                                       *)
RequestState == {"Unknown", "Started", "Processing", "Finished"}

ListType == [ requests            : [Requests -> RequestState],
              activity            : [Pulses -> Nat],
              earliestActivePulse : Pulses \cup {UnknownPulse},
              countActive         : Int,
              countFinish         : Nat ]

(* newWorkingList, newRequestList *)
NewList == [ requests            |-> [r \in Requests |-> "Unknown"],
             activity            |-> [p \in Pulses |-> 0],
             earliestActivePulse |-> UnknownPulse,
             countActive         |-> 0,
             countFinish         |-> 0 ]

-----------------------------------------------------------------------------
(* Seeded fault: the search for the minimum starts from the largest number *)
(* and returns it when no request is active.                               *)
MinActivePulseFromMax(activity) ==
    LET keys == {p \in Pulses : activity[p] > 0}
    IN  IF keys = {} THEN 2147483647
                     ELSE CHOOSE p \in keys : \A q \in keys : p <= q

(* minActivePulse: the loop over the keys of the activity map *)
MinActivePulse(activity) ==
    LET keys == {p \in Pulses : activity[p] > 0}
    IN  IF keys = {} THEN UnknownPulse
                     ELSE CHOOSE p \in keys : \A q \in keys : p <= q

(* listActivity: one more active request of pulse pn *)
ListActivity(rl, pn) ==
    [rl EXCEPT !.countActive = @ + 1,
               !.activity[pn] = @ + 1,
               !.earliestActivePulse =
                    IF @ = UnknownPulse \/ pn < @ THEN pn ELSE @]

(* Seeded fault: the earliest pulse is kept when its last request ends. *)
DelistActivityKeepsEarliest(rl, pn) ==
    [rl EXCEPT !.countActive = @ - 1,
               !.activity[pn] = IF @ > 1 THEN @ - 1 ELSE 0,
               !.earliestActivePulse =
                    IF rl.countActive = 1 THEN UnknownPulse ELSE @]

(* delistActivity: one active request of pulse pn less; the last one of a  *)
(* pulse deletes the key, and the minimum is searched again only when that *)
(* pulse was the earliest one                                              *)
DelistActivity(rl, pn) ==
    LET left == IF rl.activity[pn] > 1 THEN rl.activity[pn] - 1 ELSE 0
        activity == [rl.activity EXCEPT ![pn] = left]
    IN  [rl EXCEPT !.countActive = @ - 1,
                   !.activity = activity,
                   !.earliestActivePulse =
                        IF left = 0 /\ pn = @ THEN MinActivePulse(activity)
                                              ELSE @]

-----------------------------------------------------------------------------
(* WorkingList.add returns true exactly when the request was not known *)
CanAdd(rl, ref) == rl.requests[ref] = "Unknown"

WorkingAdd(rl, ref) ==
    IF CanAdd(rl, ref) THEN [rl EXCEPT !.requests[ref] = "Started"] ELSE rl

(* WorkingList.setActive *)
CanSetActive(rl, ref) == rl.requests[ref] = "Started"

WorkingSetActive(rl, ref) ==
    IF CanSetActive(rl, ref)
    THEN ListActivity([rl EXCEPT !.requests[ref] = "Processing"], PulseOf[ref])
    ELSE rl

(* WorkingList.finish: it also accepts a request that was never activated *)
CanFinish(rl, ref) == rl.requests[ref] \notin {"Unknown", "Finished"}

WorkingFinish(rl, ref) ==
    IF CanFinish(rl, ref)
    THEN DelistActivity([rl EXCEPT !.requests[ref] = "Finished",
                                   !.countFinish = @ + 1], PulseOf[ref])
    ELSE rl

(* PendingList.Exist, PendingList.GetState *)
Exist(rl, ref) == rl.requests[ref] # "Unknown"
IsActive(rl, ref) == rl.requests[ref] = "Processing"

(* Seeded fault: a request that is already listed is listed again. *)
PendingAddUnchecked(rl, ref) ==
    ListActivity([rl EXCEPT !.requests[ref] = "Processing"], PulseOf[ref])

(* PendingList.Add *)
PendingAdd(rl, ref) ==
    IF Exist(rl, ref) THEN rl
    ELSE ListActivity([rl EXCEPT !.requests[ref] = "Processing"], PulseOf[ref])

(* PendingList.Finish: any known request, finished ones included *)
PendingFinish(rl, ref) ==
    IF Exist(rl, ref)
    THEN DelistActivity([rl EXCEPT !.requests[ref] = "Finished",
                                   !.countFinish = @ + 1], PulseOf[ref])
    ELSE rl

(* Count: len(requests) *)
Count(rl) == Cardinality({r \in Requests : rl.requests[r] # "Unknown"})

-----------------------------------------------------------------------------
Active(rl) == {r \in Requests : rl.requests[r] = "Processing"}
ActiveOf(rl, p) == {r \in Active(rl) : PulseOf[r] = p}
Finished(rl) == {r \in Requests : rl.requests[r] = "Finished"}

(* The bookkeeping of a list agrees with its requests: the counters count, *)
(* the pulse map counts per pulse, and the earliest pulse is the least one *)
(* with an active request (Unknown when there is none).                    *)
CountsActive(rl) == rl.countActive = Cardinality(Active(rl))
CountsFinish(rl) == rl.countFinish = Cardinality(Finished(rl))
CountsPulses(rl) == \A p \in Pulses : rl.activity[p] = Cardinality(ActiveOf(rl, p))
EarliestIsLeast(rl) ==
    /\ Active(rl) = {} => rl.earliestActivePulse = UnknownPulse
    /\ Active(rl) # {} =>
         /\ \E r \in Active(rl) : PulseOf[r] = rl.earliestActivePulse
         /\ \A r \in Active(rl) : rl.earliestActivePulse <= PulseOf[r]

ListConsistent(rl) == /\ CountsActive(rl)
                      /\ CountsFinish(rl)
                      /\ CountsPulses(rl)
                      /\ EarliestIsLeast(rl)
=============================================================================
