-------------------------- MODULE CallRegistryProofs --------------------------
(***************************************************************************)
(* Proofs about the call registry, for any finite set of requests, any     *)
(* pulses and any flags.  RequestListsProofs shows that the methods keep   *)
(* the bookkeeping of a list consistent; the invariants of CallRegistry    *)
(* follow with one step per action.                                        *)
(***************************************************************************)
EXTENDS CallRegistry, RequestListsProofs

-----------------------------------------------------------------------------
(* The inductive invariant: the types, the consistency of every list, the  *)
(* result map, and that a pending request has no Started state.            *)
NoStartedPending ==
    \A f \in Flags, r \in Requests : pending[f].requests[r] # "Started"

Inv == TypeOK /\ RegistryConsistent /\ ResultsFollowRequests /\ NoStartedPending

(* The tables of a new SMObject (object.go Init) satisfy the invariant. *)
LEMMA InitInv == Init => Inv
<1> SUFFICES ASSUME Init PROVE Inv
  OBVIOUS
<1>1. \A f \in Flags : known[f] = NewList /\ pending[f] = NewList
  BY DEF Init
<1>2. \A r \in Requests : NewList.requests[r] = "Unknown"
  BY DEF NewList
<1>3. TypeOK
  BY NewListConsistent DEF Init, TypeOK, CallSummary
<1>4. RegistryConsistent
  BY <1>1, NewListConsistent DEF RegistryConsistent
<1>5. ResultsFollowRequests
  BY <1>1, <1>2, FlagsAssumption DEF Init, ResultsFollowRequests
<1>6. NoStartedPending
  BY <1>1, <1>2 DEF NoStartedPending
<1> QED
  BY <1>3, <1>4, <1>5, <1>6 DEF Inv

(* Every call of the registry preserves the invariant. *)
LEMMA NextInv == Inv /\ [Next]_vars => Inv'
<1> SUFFICES ASSUME Inv, [Next]_vars PROVE Inv'
  OBVIOUS
<1> USE DEF Inv
<1>0. /\ \A f \in Flags : /\ known[f] \in ListType /\ ListConsistent(known[f])
                           /\ pending[f] \in ListType /\ ListConsistent(pending[f])
      /\ \A r \in Requests : FlagOf[r] \in Flags
  BY FlagsAssumption DEF TypeOK, RegistryConsistent
<1>1. ASSUME NEW ref \in Requests, Add(ref) PROVE Inv'
  <2> DEFINE f == FlagOf[ref]
             new == WorkingAdd(known[f], ref)
  <2>1. new \in ListType /\ ListConsistent(new)
    BY <1>0, MethodsKeepConsistency
  <2>2. known' = [known EXCEPT ![f] = new] /\ UNCHANGED <<results, pending>>
    BY <1>1 DEF Add
  <2>3. \A r \in Requests :
          \/ new.requests[r] = known[f].requests[r]
          \/ /\ known[f].requests[r] = "Unknown"
             /\ new.requests[r] = "Started"
    BY <1>0 DEF WorkingAdd, CanAdd, ListType
  <2> HIDE DEF new
  <2>4. TypeOK' /\ RegistryConsistent'
    BY <2>1, <2>2, <1>0 DEF TypeOK, RegistryConsistent
  <2>5. ResultsFollowRequests'
    BY <2>2, <2>3, <1>0 DEF ResultsFollowRequests, TypeOK
  <2>6. NoStartedPending'
    BY <2>2 DEF NoStartedPending
  <2> QED BY <2>4, <2>5, <2>6
<1>2. ASSUME NEW ref \in Requests, SetActive(ref) PROVE Inv'
  <2> DEFINE f == FlagOf[ref]
             new == WorkingSetActive(known[f], ref)
  <2>1. new \in ListType /\ ListConsistent(new)
    BY <1>0, MethodsKeepConsistency
  <2>2. known' = [known EXCEPT ![f] = new] /\ UNCHANGED pending
    BY <1>2 DEF SetActive
  <2>3. results' = IF known[f].requests[ref] = "Started"
                   THEN [results EXCEPT ![ref] = "empty"] ELSE results
    BY <1>2 DEF SetActive, CanSetActive
  <2>4. new.requests = IF known[f].requests[ref] = "Started"
                       THEN [known[f].requests EXCEPT ![ref] = "Processing"]
                       ELSE known[f].requests
    BY <1>0 DEF WorkingSetActive, CanSetActive, ListActivity, ListType
  <2> HIDE DEF new
  <2>5. TypeOK' /\ RegistryConsistent'
    BY <2>1, <2>2, <2>3, <1>0 DEF TypeOK, RegistryConsistent, CallSummary
  <2>6. ResultsFollowRequests'
    <3>1. \A r \in Requests : known'[FlagOf[r]].requests[r] =
            IF r = ref /\ known[f].requests[ref] = "Started"
            THEN "Processing" ELSE known[FlagOf[r]].requests[r]
      BY <2>2, <2>4, <1>0 DEF TypeOK, ListType
    <3> QED BY <2>3, <3>1, <1>0 DEF ResultsFollowRequests, TypeOK
  <2>7. NoStartedPending'
    BY <2>2 DEF NoStartedPending
  <2> QED BY <2>5, <2>6, <2>7
<1>3. ASSUME NEW ref \in Requests, Finish(ref) PROVE Inv'
  <2> DEFINE f == FlagOf[ref]
             new == WorkingFinish(known[f], ref)
             ends == known[f].requests[ref] \notin {"Unknown", "Finished"}
  <2>1. new \in ListType /\ ListConsistent(new)
    BY <1>0, <1>3, MethodsKeepConsistency DEF Finish
  <2>2. known' = [known EXCEPT ![f] = new] /\ UNCHANGED pending
    BY <1>3 DEF Finish
  <2>3. results' = IF ends THEN [results EXCEPT ![ref] = "result"] ELSE results
    BY <1>3 DEF Finish, CanFinish
  <2>4. new.requests = IF ends
                       THEN [known[f].requests EXCEPT ![ref] = "Finished"]
                       ELSE known[f].requests
    BY <1>0 DEF WorkingFinish, CanFinish, DelistActivity, ListType
  <2> HIDE DEF new
  <2>5. TypeOK' /\ RegistryConsistent'
    BY <2>1, <2>2, <2>3, <1>0 DEF TypeOK, RegistryConsistent, CallSummary
  <2>6. ResultsFollowRequests'
    <3>1. \A r \in Requests : known'[FlagOf[r]].requests[r] =
            IF r = ref /\ ends
            THEN "Finished" ELSE known[FlagOf[r]].requests[r]
      BY <2>2, <2>4, <1>0 DEF TypeOK, ListType
    <3> QED BY <2>3, <3>1, <1>0 DEF ResultsFollowRequests, TypeOK
  <2>7. NoStartedPending'
    BY <2>2 DEF NoStartedPending
  <2> QED BY <2>5, <2>6, <2>7
<1>4. ASSUME NEW ref \in Requests, AddPending(ref) PROVE Inv'
  <2> DEFINE f == FlagOf[ref]
             new == PendingAdd(pending[f], ref)
  <2>1. new \in ListType /\ ListConsistent(new)
    BY <1>0, MethodsKeepConsistency DEF NoStartedPending
  <2>2. pending' = [pending EXCEPT ![f] = new] /\ UNCHANGED <<known, results>>
    BY <1>4 DEF AddPending
  <2>3. \A r \in Requests : new.requests[r] # "Started"
    BY <1>0 DEF PendingAdd, ListActivity, ListType, NoStartedPending
  <2> HIDE DEF new
  <2>4. TypeOK' /\ RegistryConsistent'
    BY <2>1, <2>2, <1>0 DEF TypeOK, RegistryConsistent
  <2>5. ResultsFollowRequests'
    BY <2>2 DEF ResultsFollowRequests
  <2>6. NoStartedPending'
    BY <2>2, <2>3 DEF NoStartedPending, TypeOK
  <2> QED BY <2>4, <2>5, <2>6
<1>5. ASSUME NEW ref \in Requests, FinishPending(ref) PROVE Inv'
  <2> DEFINE f == FlagOf[ref]
             new == PendingFinish(pending[f], ref)
  <2>1. new \in ListType /\ ListConsistent(new)
    BY <1>0, <1>5, MethodsKeepConsistency DEF NoStartedPending, FinishPending
  <2>2. pending' = [pending EXCEPT ![f] = new] /\ UNCHANGED <<known, results>>
    BY <1>5 DEF FinishPending
  <2>3. \A r \in Requests : new.requests[r] # "Started"
    BY <1>0 DEF PendingFinish, DelistActivity, ListType, NoStartedPending
  <2> HIDE DEF new
  <2>4. TypeOK' /\ RegistryConsistent'
    BY <2>1, <2>2, <1>0 DEF TypeOK, RegistryConsistent
  <2>5. ResultsFollowRequests'
    BY <2>2 DEF ResultsFollowRequests
  <2>6. NoStartedPending'
    BY <2>2, <2>3 DEF NoStartedPending, TypeOK
  <2> QED BY <2>4, <2>5, <2>6
<1>6. CASE UNCHANGED vars
  BY <1>6 DEF vars, TypeOK, RegistryConsistent, ResultsFollowRequests,
              NoStartedPending
<1> QED
  BY <1>1, <1>2, <1>3, <1>4, <1>5, <1>6 DEF Next

(* The registry satisfies the invariant in every reachable state. *)
THEOREM RegistryInvariant == Spec => []Inv
BY InitInv, NextInv, PTL DEF Spec

(* The bookkeeping that state reports are built from is right, and the     *)
(* result map follows the working list, whatever calls are made.           *)
THEOREM RegistrySafe == Spec => [](RegistryConsistent /\ ResultsFollowRequests)
<1>1. Inv => RegistryConsistent /\ ResultsFollowRequests
  BY DEF Inv
<1> QED
  BY <1>1, RegistryInvariant, PTL

(* The map of results has an entry for exactly the requests that were     *)
(* activated, and a result for exactly those that finished, whatever calls *)
(* are made (WorkingTable.SetActive, WorkingTable.Finish).                 *)
THEOREM RegistryResults == Spec => []ResultsFollowRequests
<1>1. Inv => ResultsFollowRequests
  BY DEF Inv
<1> QED
  BY <1>1, RegistryInvariant, PTL

(* The tables keep their types. *)
THEOREM RegistryTyped == Spec => []TypeOK
<1>1. Inv => TypeOK
  BY DEF Inv
<1> QED
  BY <1>1, RegistryInvariant, PTL

-----------------------------------------------------------------------------
Forward(rl, new) ==
    \A r \in Requests : StateRank(rl.requests[r]) <= StateRank(new.requests[r])

(* A list that changes one request to a state of no lower rank is moved    *)
(* forward.                                                                *)
LEMMA ForwardByOne ==
    ASSUME NEW rl \in ListType, NEW new, NEW ref \in Requests,
           NEW s \in RequestState,
           new.requests = [rl.requests EXCEPT ![ref] = s],
           StateRank(rl.requests[ref]) <= StateRank(s)
    PROVE  Forward(rl, new)
<1>1. \A x \in RequestState : StateRank(x) \in 0..3
  BY DEF StateRank, RequestState
<1>2. rl.requests \in [Requests -> RequestState]
  BY DEF ListType
<1>3. \A r \in Requests : new.requests[r] = IF r = ref THEN s ELSE rl.requests[r]
  BY <1>2
<1> QED
  BY <1>1, <1>2, <1>3 DEF Forward

(* The methods of both list types (working_table.go, request_table.go)     *)
(* never move a request back.                                              *)
LEMMA MethodsMoveForward ==
    ASSUME NEW rl \in ListType, NEW ref \in Requests
    PROVE  /\ Forward(rl, rl)
           /\ Forward(rl, WorkingAdd(rl, ref))
           /\ Forward(rl, WorkingSetActive(rl, ref))
           /\ Forward(rl, WorkingFinish(rl, ref))
           /\ Forward(rl, PendingAdd(rl, ref))
           /\ Forward(rl, PendingFinish(rl, ref))
<1>1. rl.requests \in [Requests -> RequestState]
  BY DEF ListType
<1>2. \A x \in RequestState : StateRank(x) \in 0..3
  BY DEF StateRank, RequestState
<1>3. Forward(rl, rl)
  BY <1>1, <1>2 DEF Forward
<1>4. Forward(rl, WorkingAdd(rl, ref))
  <2>1. CASE CanAdd(rl, ref)
    <3>1. WorkingAdd(rl, ref).requests = [rl.requests EXCEPT ![ref] = "Started"]
      BY <2>1 DEF WorkingAdd, ListType
    <3>2. StateRank(rl.requests[ref]) <= StateRank("Started")
      BY <2>1 DEF CanAdd, StateRank
    <3> QED BY <3>1, <3>2, ForwardByOne DEF RequestState
  <2> QED BY <2>1, <1>3 DEF WorkingAdd
<1>5. Forward(rl, WorkingSetActive(rl, ref))
  <2>1. CASE CanSetActive(rl, ref)
    <3>1. WorkingSetActive(rl, ref).requests
            = [rl.requests EXCEPT ![ref] = "Processing"]
      BY <2>1 DEF WorkingSetActive, ListActivity, ListType
    <3>2. StateRank(rl.requests[ref]) <= StateRank("Processing")
      BY <2>1 DEF CanSetActive, StateRank
    <3> QED BY <3>1, <3>2, ForwardByOne DEF RequestState
  <2> QED BY <2>1, <1>3 DEF WorkingSetActive
<1>6. StateRank(rl.requests[ref]) <= StateRank("Finished")
  <2>1. StateRank("Finished") = 3
    BY DEF StateRank
  <2>2. StateRank(rl.requests[ref]) \in 0..3
    BY <1>1, <1>2
  <2> QED BY <2>1, <2>2
<1>7. Forward(rl, WorkingFinish(rl, ref))
  <2>1. CASE CanFinish(rl, ref)
    <3>1. WorkingFinish(rl, ref).requests
            = [rl.requests EXCEPT ![ref] = "Finished"]
      BY <2>1 DEF WorkingFinish, DelistActivity, ListType
    <3> QED BY <3>1, <1>6, ForwardByOne DEF RequestState
  <2> QED BY <2>1, <1>3 DEF WorkingFinish
<1>8. Forward(rl, PendingAdd(rl, ref))
  <2>1. CASE ~ Exist(rl, ref)
    <3>1. PendingAdd(rl, ref).requests
            = [rl.requests EXCEPT ![ref] = "Processing"]
      BY <2>1 DEF PendingAdd, ListActivity, ListType
    <3>2. StateRank(rl.requests[ref]) <= StateRank("Processing")
      BY <2>1 DEF Exist, StateRank
    <3> QED BY <3>1, <3>2, ForwardByOne DEF RequestState
  <2> QED BY <2>1, <1>3 DEF PendingAdd
<1>9. Forward(rl, PendingFinish(rl, ref))
  <2>1. CASE Exist(rl, ref)
    <3>1. PendingFinish(rl, ref).requests
            = [rl.requests EXCEPT ![ref] = "Finished"]
      BY <2>1 DEF PendingFinish, DelistActivity, ListType
    <3> QED BY <3>1, <1>6, ForwardByOne DEF RequestState
  <2> QED BY <2>1, <1>3 DEF PendingFinish
<1> QED
  BY <1>3, <1>4, <1>5, <1>7, <1>8, <1>9

(* No call moves a request back, in either table: a request is activated   *)
(* once and finished once (setActive, finish, PendingList.Add).            *)
THEOREM RegistryForward == Spec => OnlyForward
<1> DEFINE Fwd == \A f \in Flags : Forward(known[f], known'[f])
                                   /\ Forward(pending[f], pending'[f])
<1>1. ASSUME TypeOK, [Next]_vars PROVE Fwd
  <2>0. \A f \in Flags : known[f] \in ListType /\ pending[f] \in ListType
    BY <1>1 DEF TypeOK
  <2>1. \A f \in Flags : Forward(known[f], known[f]) /\ Forward(pending[f], pending[f])
    <3> SUFFICES ASSUME NEW f \in Flags
                 PROVE  Forward(known[f], known[f]) /\ Forward(pending[f], pending[f])
      OBVIOUS
    <3>1. \A x \in RequestState : StateRank(x) \in 0..3
      BY DEF StateRank, RequestState
    <3> QED BY <2>0, <3>1 DEF Forward, ListType
  <2>2. CASE UNCHANGED vars
    BY <2>1, <2>2 DEF vars
  <2>3. ASSUME NEW ref \in Requests,
               \/ Add(ref) \/ SetActive(ref) \/ Finish(ref)
               \/ AddPending(ref) \/ FinishPending(ref)
        PROVE  Fwd
    <3>1. FlagOf[ref] \in Flags
      BY FlagsAssumption
    <3>2. CASE Add(ref)
      BY <1>1, <2>0, <2>1, <3>1, <3>2, MethodsMoveForward DEF Add, TypeOK
    <3>3. CASE SetActive(ref)
      BY <1>1, <2>0, <2>1, <3>1, <3>3, MethodsMoveForward DEF SetActive, TypeOK
    <3>4. CASE Finish(ref)
      BY <1>1, <2>0, <2>1, <3>1, <3>4, MethodsMoveForward DEF Finish, TypeOK
    <3>5. CASE AddPending(ref)
      BY <1>1, <2>0, <2>1, <3>1, <3>5, MethodsMoveForward DEF AddPending, TypeOK
    <3>6. CASE FinishPending(ref)
      BY <1>1, <2>0, <2>1, <3>1, <3>6, MethodsMoveForward DEF FinishPending, TypeOK
    <3> QED BY <2>3, <3>2, <3>3, <3>4, <3>5, <3>6
  <2> QED BY <1>1, <2>2, <2>3 DEF Next
<1>2. TypeOK /\ [Next]_vars =>
        [\A f \in Flags, r \in Requests :
          /\ StateRank(known[f].requests[r]) <= StateRank(known'[f].requests[r])
          /\ StateRank(pending[f].requests[r]) <= StateRank(pending'[f].requests[r])]_vars
  BY <1>1 DEF Forward
<1> QED
  BY <1>2, RegistryTyped, PTL DEF Spec, OnlyForward
=============================================================================
