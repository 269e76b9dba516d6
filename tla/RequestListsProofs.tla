-------------------------- MODULE RequestListsProofs --------------------------
(***************************************************************************)
(* Lemmas about the request lists, for any finite set of requests and any  *)
(* pulses: the methods keep a list typed, and they keep its bookkeeping    *)
(* right when their callers obey the rules that the methods do not check.  *)
(***************************************************************************)
EXTENDS RequestLists, FiniteSetTheorems, WellFoundedInduction, TLAPS

-----------------------------------------------------------------------------
(* A set of natural numbers that is not empty has a least element: the     *)
(* search of minActivePulse returns a pulse whenever the map has a key.    *)
LEMMA LeastNatural ==
    ASSUME NEW S, S \subseteq Nat, S # {}
    PROVE  \E m \in S : \A q \in S : m <= q
<1> DEFINE Less == {ss \in Nat \X Nat : ss[1] < ss[2]}
<1>1. IsWellFoundedOn(Less, Nat)
  BY NatLessThanWellFounded DEF OpToRel
<1>2. PICK m \in S : \A q \in S : ~ (<<q, m>> \in Less)
  <2> HIDE DEF Less
  <2> QED BY <1>1, WFMin
<1>3. ASSUME NEW q \in S PROVE m <= q
  <2>1. q \in Nat /\ m \in Nat
    OBVIOUS
  <2>2. ~ (<<q, m>> \in Less)
    BY <1>2
  <2>3. <<q, m>> \in Nat \X Nat /\ <<q, m>>[1] = q /\ <<q, m>>[2] = m
    BY <2>1
  <2>4. ~ (q < m)
    BY <2>2, <2>3
  <2> QED
    BY <2>1, <2>4
<1> QED
  BY <1>3

(* minActivePulse finds the least key of the map, Unknown if it is empty. *)
LEMMA MinActivePulseIsLeast ==
    ASSUME NEW activity \in [Pulses -> Nat]
    PROVE  LET keys == {p \in Pulses : activity[p] > 0}
               min == MinActivePulse(activity)
           IN  /\ keys = {} => min = UnknownPulse
               /\ keys # {} => min \in keys /\ \A q \in keys : min <= q
<1> DEFINE keys == {p \in Pulses : activity[p] > 0}
<1>1. keys \subseteq Nat
  BY PulsesAssumption
<1>2. CASE keys = {}
  BY <1>2 DEF MinActivePulse
<1>3. CASE keys # {}
  <2>1. \E m \in keys : \A q \in keys : m <= q
    BY <1>1, <1>3, LeastNatural
  <2>2. MinActivePulse(activity) = CHOOSE p \in keys : \A q \in keys : p <= q
    BY <1>3 DEF MinActivePulse
  <2> QED
    BY <2>1, <2>2, <1>3
<1> QED
  BY <1>2, <1>3

(* listActivity and delistActivity keep a list typed. *)
LEMMA ListActivityType ==
    ASSUME NEW rl \in ListType, NEW pn \in Pulses
    PROVE  ListActivity(rl, pn) \in ListType
<1>1. [rl.activity EXCEPT ![pn] = @ + 1] \in [Pulses -> Nat]
  BY DEF ListType
<1>2. rl.countActive + 1 \in Int
  BY DEF ListType
<1>3. (IF rl.earliestActivePulse = UnknownPulse \/ pn < rl.earliestActivePulse
       THEN pn ELSE rl.earliestActivePulse) \in Pulses \cup {UnknownPulse}
  BY DEF ListType
<1> QED
  BY <1>1, <1>2, <1>3 DEF ListActivity, ListType

(* delistActivity keeps the type when the list has the request it removes. *)
LEMMA DelistActivityType ==
    ASSUME NEW rl \in ListType, NEW pn \in Pulses
    PROVE  DelistActivity(rl, pn) \in ListType
<1> DEFINE left == IF rl.activity[pn] > 1 THEN rl.activity[pn] - 1 ELSE 0
           activity == [rl.activity EXCEPT ![pn] = left]
           earliest == IF left = 0 /\ pn = rl.earliestActivePulse
                       THEN MinActivePulse(activity) ELSE rl.earliestActivePulse
<1>1. activity \in [Pulses -> Nat]
  BY DEF ListType
<1>2. rl.countActive - 1 \in Int
  BY DEF ListType
<1>3. MinActivePulse(activity) \in Pulses \cup {UnknownPulse}
  BY <1>1, MinActivePulseIsLeast
<1>4. earliest \in Pulses \cup {UnknownPulse}
  BY <1>3 DEF ListType
<1>5. DelistActivity(rl, pn) = [rl EXCEPT !.countActive = @ - 1,
                                          !.activity = activity,
                                          !.earliestActivePulse = earliest]
  BY DEF DelistActivity
<1> HIDE DEF activity, earliest
<1> QED
  BY <1>1, <1>2, <1>4, <1>5 DEF ListType

(* A new list is typed and consistent: newWorkingList, newRequestList. *)
LEMMA NewListConsistent ==
    NewList \in ListType /\ ListConsistent(NewList)
<1>1. NewList \in ListType
  BY DEF NewList, ListType, RequestState, UnknownPulse
<1>2. Active(NewList) = {} /\ Finished(NewList) = {}
  BY DEF NewList, Active, Finished
<1>3. \A p \in Pulses : ActiveOf(NewList, p) = {}
  BY <1>2 DEF ActiveOf
<1> QED
  BY <1>1, <1>2, <1>3, FS_EmptySet
     DEF ListConsistent, CountsActive, CountsFinish, CountsPulses,
         EarliestIsLeast, NewList

(* The sets that the bookkeeping counts are finite. *)
LEMMA ActiveFinite ==
    ASSUME NEW rl
    PROVE  /\ IsFiniteSet(Active(rl))
           /\ IsFiniteSet(Finished(rl))
           /\ \A p : IsFiniteSet(ActiveOf(rl, p))
BY RequestsAssumption, FS_Subset DEF Active, Finished, ActiveOf

-----------------------------------------------------------------------------
(* Listing a request that was neither active nor finished (setActive and   *)
(* PendingList.Add) keeps the list typed and its bookkeeping right.        *)
LEMMA ListedConsistent ==
    ASSUME NEW rl \in ListType, NEW ref \in Requests, ListConsistent(rl),
           rl.requests[ref] \notin {"Processing", "Finished"}
    PROVE  LET new == ListActivity([rl EXCEPT !.requests[ref] = "Processing"],
                                   PulseOf[ref])
           IN  new \in ListType /\ ListConsistent(new)
<1> DEFINE pn == PulseOf[ref]
           new == ListActivity([rl EXCEPT !.requests[ref] = "Processing"], pn)
<1>1. pn \in Pulses /\ pn \in Nat /\ pn # 0 /\ Pulses \subseteq Nat
  BY PulsesAssumption
<1>2. /\ new.requests = [rl.requests EXCEPT ![ref] = "Processing"]
      /\ new.activity = [rl.activity EXCEPT ![pn] = @ + 1]
      /\ new.countActive = rl.countActive + 1
      /\ new.countFinish = rl.countFinish
      /\ new.earliestActivePulse =
            IF rl.earliestActivePulse = UnknownPulse \/ pn < rl.earliestActivePulse
            THEN pn ELSE rl.earliestActivePulse
  BY DEF ListActivity, ListType
<1>3. new \in ListType
  <2>1. [rl EXCEPT !.requests[ref] = "Processing"] \in ListType
    BY DEF ListType, RequestState
  <2> QED BY <2>1, <1>1, ListActivityType
<1>4. Active(new) = Active(rl) \cup {ref} /\ ref \notin Active(rl)
  BY <1>2 DEF Active, ListType
<1>5. Finished(new) = Finished(rl)
  BY <1>2 DEF Finished, ListType
<1>6. /\ ActiveOf(new, pn) = ActiveOf(rl, pn) \cup {ref}
      /\ ref \notin ActiveOf(rl, pn)
      /\ \A p \in Pulses \ {pn} : ActiveOf(new, p) = ActiveOf(rl, p)
  BY <1>4 DEF ActiveOf
<1>7. CountsActive(new)
  BY <1>2, <1>4, ActiveFinite, FS_AddElement DEF CountsActive, ListConsistent
<1>8. CountsFinish(new)
  BY <1>2, <1>5 DEF CountsFinish, ListConsistent
<1>9. CountsPulses(new)
  <2>1. rl.activity[pn] = Cardinality(ActiveOf(rl, pn))
    BY <1>1 DEF CountsPulses, ListConsistent
  <2>2. Cardinality(ActiveOf(new, pn)) = rl.activity[pn] + 1
    BY <2>1, <1>6, ActiveFinite, FS_AddElement
  <2>3. ASSUME NEW p \in Pulses
        PROVE  new.activity[p] = Cardinality(ActiveOf(new, p))
    <3>1. CASE p = pn
      BY <3>1, <2>2, <1>1, <1>2 DEF ListType
    <3>2. CASE p # pn
      BY <3>2, <1>6, <1>2 DEF ListType, CountsPulses, ListConsistent
    <3> QED BY <3>1, <3>2
  <2> QED BY <2>3 DEF CountsPulses
<1>10. EarliestIsLeast(new)
  <2>1. EarliestIsLeast(rl)
    BY DEF ListConsistent
  <2>2. \A r \in Active(rl) : PulseOf[r] \in Nat \ {0}
    BY PulsesAssumption DEF Active
  <2>3. CASE Active(rl) = {}
    BY <2>1, <2>3, <1>1, <1>2, <1>4 DEF EarliestIsLeast, UnknownPulse
  <2>4. CASE Active(rl) # {}
    <3>1. rl.earliestActivePulse \in Nat /\ rl.earliestActivePulse # UnknownPulse
      BY <2>1, <2>2, <2>4 DEF EarliestIsLeast, UnknownPulse
    <3> QED
      BY <2>1, <2>2, <2>4, <3>1, <1>1, <1>2, <1>4
         DEF EarliestIsLeast, UnknownPulse
  <2> QED BY <2>3, <2>4
<1> QED
  BY <1>3, <1>7, <1>8, <1>9, <1>10 DEF ListConsistent

(* Finishing an active request (WorkingList.finish, PendingList.Finish)    *)
(* keeps the list typed and its bookkeeping right.                         *)
LEMMA DelistedConsistent ==
    ASSUME NEW rl \in ListType, NEW ref \in Requests, ListConsistent(rl),
           rl.requests[ref] = "Processing"
    PROVE  LET new == DelistActivity([rl EXCEPT !.requests[ref] = "Finished",
                                                !.countFinish = @ + 1],
                                     PulseOf[ref])
           IN  new \in ListType /\ ListConsistent(new)
<1> DEFINE pn == PulseOf[ref]
           left == IF rl.activity[pn] > 1 THEN rl.activity[pn] - 1 ELSE 0
           activity == [rl.activity EXCEPT ![pn] = left]
           new == DelistActivity([rl EXCEPT !.requests[ref] = "Finished",
                                            !.countFinish = @ + 1], pn)
<1>1. pn \in Pulses /\ pn \in Nat /\ pn # 0 /\ Pulses \subseteq Nat
  BY PulsesAssumption
<1>2. /\ new.requests = [rl.requests EXCEPT ![ref] = "Finished"]
      /\ new.activity = activity
      /\ new.countActive = rl.countActive - 1
      /\ new.countFinish = rl.countFinish + 1
      /\ new.earliestActivePulse =
            IF left = 0 /\ pn = rl.earliestActivePulse
            THEN MinActivePulse(activity) ELSE rl.earliestActivePulse
  BY DEF DelistActivity, ListType
<1>3. activity \in [Pulses -> Nat]
  BY <1>1 DEF ListType
<1>4. MinActivePulse(activity) \in Pulses \cup {UnknownPulse}
  BY <1>3, MinActivePulseIsLeast
<1>5. new \in ListType
  <2>1. [rl EXCEPT !.requests[ref] = "Finished", !.countFinish = @ + 1]
            \in ListType
    <3>1. [rl.requests EXCEPT ![ref] = "Finished"] \in [Requests -> RequestState]
      BY DEF ListType, RequestState
    <3>2. rl.countFinish + 1 \in Nat
      BY DEF ListType
    <3> QED BY <3>1, <3>2 DEF ListType
  <2> QED BY <2>1, <1>1, DelistActivityType
<1>6. /\ Active(new) = Active(rl) \ {ref}
      /\ ref \in Active(rl)
      /\ Finished(new) = Finished(rl) \cup {ref}
      /\ ref \notin Finished(rl)
  BY <1>2 DEF Active, Finished, ListType
<1>7. /\ ActiveOf(new, pn) = ActiveOf(rl, pn) \ {ref}
      /\ ref \in ActiveOf(rl, pn)
      /\ \A p \in Pulses \ {pn} : ActiveOf(new, p) = ActiveOf(rl, p)
  BY <1>6 DEF ActiveOf
<1>8. CountsActive(new)
  BY <1>2, <1>6, ActiveFinite, FS_RemoveElement DEF CountsActive, ListConsistent
<1>9. CountsFinish(new)
  BY <1>2, <1>6, ActiveFinite, FS_AddElement DEF CountsFinish, ListConsistent
<1>10. CountsPulses(new)
  <2>1. rl.activity[pn] = Cardinality(ActiveOf(rl, pn))
    BY <1>1 DEF CountsPulses, ListConsistent
  <2>2. Cardinality(ActiveOf(new, pn)) = rl.activity[pn] - 1
    BY <2>1, <1>7, ActiveFinite, FS_RemoveElement
  <2>3. Cardinality(ActiveOf(new, pn)) \in Nat
    BY ActiveFinite, FS_CardinalityType
  <2>4. left = Cardinality(ActiveOf(new, pn))
    BY <2>2, <2>3, <1>1 DEF ListType
  <2>5. ASSUME NEW p \in Pulses
        PROVE  new.activity[p] = Cardinality(ActiveOf(new, p))
    <3>1. CASE p = pn
      BY <3>1, <2>4, <1>1, <1>2 DEF ListType
    <3>2. CASE p # pn
      BY <3>2, <1>7, <1>2 DEF ListType, CountsPulses, ListConsistent
    <3> QED BY <3>1, <3>2
  <2> QED BY <2>5 DEF CountsPulses
<1>11. EarliestIsLeast(new)
  <2> DEFINE keys == {p \in Pulses : activity[p] > 0}
  <2>1. EarliestIsLeast(rl)
    BY DEF ListConsistent
  <2>2. \A r \in Requests : PulseOf[r] \in Pulses
    BY PulsesAssumption
  <2>3. \A p \in Pulses : p \in keys <=> ActiveOf(new, p) # {}
    <3>1. \A p \in Pulses : activity[p] = Cardinality(ActiveOf(new, p))
      BY <1>10, <1>2 DEF CountsPulses
    <3>2. \A p \in Pulses : /\ Cardinality(ActiveOf(new, p)) \in Nat
                            /\ Cardinality(ActiveOf(new, p)) = 0
                                 <=> ActiveOf(new, p) = {}
      BY ActiveFinite, FS_EmptySet, FS_CardinalityType
    <3> HIDE DEF activity, new
    <3> QED BY <3>1, <3>2
  <2>4. \A p \in Pulses : p \in keys <=> \E r \in Active(new) : PulseOf[r] = p
    BY <2>3 DEF ActiveOf
  <2>5. \A r \in Active(new) : r \in Requests /\ PulseOf[r] \in keys
    BY <2>2, <2>4 DEF Active
  <2>6. CASE left = 0 /\ pn = rl.earliestActivePulse
    <3>1. new.earliestActivePulse = MinActivePulse(activity)
      BY <2>6, <1>2
    <3>2. CASE keys = {}
      BY <3>1, <3>2, <2>5, <1>3, MinActivePulseIsLeast DEF EarliestIsLeast
    <3>3. CASE keys # {}
      <4>1. /\ new.earliestActivePulse \in keys
            /\ \A q \in keys : new.earliestActivePulse <= q
        BY <3>1, <3>3, <1>3, MinActivePulseIsLeast
      <4> QED BY <4>1, <2>4, <2>5 DEF EarliestIsLeast
    <3> QED BY <3>2, <3>3
  <2>7. CASE ~ (left = 0 /\ pn = rl.earliestActivePulse)
    <3>1. new.earliestActivePulse = rl.earliestActivePulse
      BY <2>7, <1>2
    <3>2. PICK r \in Active(rl) : PulseOf[r] = rl.earliestActivePulse
      BY <2>1, <1>6 DEF EarliestIsLeast
    <3>3. \E x \in Active(new) : PulseOf[x] = rl.earliestActivePulse
      <4>1. CASE pn = rl.earliestActivePulse
        <5>1. left # 0
          BY <4>1, <2>7
        <5>2. pn \in keys
          BY <5>1, <1>1, <1>3 DEF ListType
        <5> QED BY <5>2, <4>1, <2>4, <1>1
      <4>2. CASE pn # rl.earliestActivePulse
        BY <4>2, <3>2, <1>6
      <4> QED BY <4>1, <4>2
    <3> QED BY <3>1, <3>3, <2>1, <1>6 DEF EarliestIsLeast
  <2> QED BY <2>6, <2>7
<1> QED
  BY <1>5, <1>8, <1>9, <1>10, <1>11 DEF ListConsistent

-----------------------------------------------------------------------------
(* Each method keeps a list typed and consistent, given the discipline of  *)
(* its callers: a request that is only Started is never finished, and a    *)
(* finished pending request is not finished again.                         *)
LEMMA MethodsKeepConsistency ==
    ASSUME NEW rl \in ListType, NEW ref \in Requests, ListConsistent(rl)
    PROVE  /\ WorkingAdd(rl, ref) \in ListType
           /\ ListConsistent(WorkingAdd(rl, ref))
           /\ WorkingSetActive(rl, ref) \in ListType
           /\ ListConsistent(WorkingSetActive(rl, ref))
           /\ rl.requests[ref] # "Started" =>
                /\ WorkingFinish(rl, ref) \in ListType
                /\ ListConsistent(WorkingFinish(rl, ref))
           /\ rl.requests[ref] # "Started" =>
                /\ PendingAdd(rl, ref) \in ListType
                /\ ListConsistent(PendingAdd(rl, ref))
           /\ rl.requests[ref] \notin {"Started", "Finished"} =>
                /\ PendingFinish(rl, ref) \in ListType
                /\ ListConsistent(PendingFinish(rl, ref))
<1>1. rl.requests[ref] \in RequestState
  BY DEF ListType
<1>2. WorkingAdd(rl, ref) \in ListType /\ ListConsistent(WorkingAdd(rl, ref))
  <2>1. CASE CanAdd(rl, ref)
    <3> DEFINE new == WorkingAdd(rl, ref)
    <3>1. new = [rl EXCEPT !.requests[ref] = "Started"]
      BY <2>1 DEF WorkingAdd
    <3>2. new \in ListType
      BY <3>1 DEF ListType, RequestState
    <3>3. /\ new.requests = [rl.requests EXCEPT ![ref] = "Started"]
          /\ new.activity = rl.activity
          /\ new.countActive = rl.countActive
          /\ new.countFinish = rl.countFinish
          /\ new.earliestActivePulse = rl.earliestActivePulse
      BY <3>1 DEF ListType
    <3>4. Active(new) = Active(rl) /\ Finished(new) = Finished(rl)
      BY <2>1, <3>3 DEF Active, Finished, CanAdd, ListType
    <3>5. \A p \in Pulses : ActiveOf(new, p) = ActiveOf(rl, p)
      BY <3>4 DEF ActiveOf
    <3>6. ListConsistent(new)
      <4> HIDE DEF new
      <4> QED
        BY <3>3, <3>4, <3>5
           DEF ListConsistent, CountsActive, CountsFinish, CountsPulses,
               EarliestIsLeast
    <3> QED BY <3>2, <3>6
  <2> QED BY <2>1 DEF WorkingAdd
<1>3. /\ WorkingSetActive(rl, ref) \in ListType
      /\ ListConsistent(WorkingSetActive(rl, ref))
  BY ListedConsistent DEF WorkingSetActive, CanSetActive
<1>4. ASSUME rl.requests[ref] # "Started"
      PROVE  /\ WorkingFinish(rl, ref) \in ListType
             /\ ListConsistent(WorkingFinish(rl, ref))
  BY <1>1, <1>4, DelistedConsistent DEF WorkingFinish, CanFinish, RequestState
<1>5. ASSUME rl.requests[ref] # "Started"
      PROVE  /\ PendingAdd(rl, ref) \in ListType
             /\ ListConsistent(PendingAdd(rl, ref))
  BY <1>1, <1>5, ListedConsistent DEF PendingAdd, Exist, RequestState
<1>6. ASSUME rl.requests[ref] \notin {"Started", "Finished"}
      PROVE  /\ PendingFinish(rl, ref) \in ListType
             /\ ListConsistent(PendingFinish(rl, ref))
  BY <1>1, <1>6, DelistedConsistent DEF PendingFinish, Exist, RequestState
<1> QED
  BY <1>2, <1>3, <1>4, <1>5, <1>6

-----------------------------------------------------------------------------
(* Each method keeps a list typed, whatever the state of the request.      *)
LEMMA MethodsKeepType ==
    ASSUME NEW rl \in ListType, NEW ref \in Requests
    PROVE  /\ WorkingAdd(rl, ref) \in ListType
           /\ WorkingSetActive(rl, ref) \in ListType
           /\ WorkingFinish(rl, ref) \in ListType
           /\ PendingAdd(rl, ref) \in ListType
           /\ PendingFinish(rl, ref) \in ListType
<1>1. PulseOf[ref] \in Pulses
  BY PulsesAssumption
<1>2. \A s \in RequestState : [rl EXCEPT !.requests[ref] = s] \in ListType
  BY DEF ListType
<1>3. [rl EXCEPT !.requests[ref] = "Finished", !.countFinish = @ + 1] \in ListType
  <2>1. rl.countFinish + 1 \in Nat
    BY DEF ListType
  <2>2. [rl.requests EXCEPT ![ref] = "Finished"] \in [Requests -> RequestState]
    BY DEF ListType, RequestState
  <2> QED
    BY <2>1, <2>2 DEF ListType
<1>4. "Started" \in RequestState /\ "Processing" \in RequestState
  BY DEF RequestState
<1> QED
  BY <1>1, <1>2, <1>3, <1>4, ListActivityType, DelistActivityType
     DEF WorkingAdd, WorkingSetActive, WorkingFinish, PendingAdd, PendingFinish

(* What each method does to the states of the requests.                    *)
LEMMA MethodsSetState ==
    ASSUME NEW rl \in ListType, NEW ref \in Requests
    PROVE  /\ WorkingAdd(rl, ref).requests = IF CanAdd(rl, ref)
                THEN [rl.requests EXCEPT ![ref] = "Started"] ELSE rl.requests
           /\ WorkingSetActive(rl, ref).requests = IF CanSetActive(rl, ref)
                THEN [rl.requests EXCEPT ![ref] = "Processing"] ELSE rl.requests
           /\ WorkingFinish(rl, ref).requests = IF CanFinish(rl, ref)
                THEN [rl.requests EXCEPT ![ref] = "Finished"] ELSE rl.requests
           /\ PendingAdd(rl, ref).requests = IF Exist(rl, ref)
                THEN rl.requests ELSE [rl.requests EXCEPT ![ref] = "Processing"]
           /\ PendingFinish(rl, ref).requests = IF Exist(rl, ref)
                THEN [rl.requests EXCEPT ![ref] = "Finished"] ELSE rl.requests
BY DEF WorkingAdd, WorkingSetActive, WorkingFinish, PendingAdd, PendingFinish,
       ListActivity, DelistActivity, ListType

(* countActive of a consistent list is a natural number, zero exactly when *)
(* nothing is active.                                                      *)
LEMMA ConsistentCount ==
    ASSUME NEW rl \in ListType, ListConsistent(rl)
    PROVE  rl.countActive \in Nat
BY ActiveFinite, FS_CardinalityType DEF ListConsistent, CountsActive
=============================================================================
