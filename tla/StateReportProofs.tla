--------------------------- MODULE StateReportProofs ---------------------------
(***************************************************************************)
(* The report of an object that has a state is accepted by the next        *)
(* executor, for every number of requests and pulses, provided that the    *)
(* bookkeeping of its lists is right.  CallRegistryProofs shows that it is *)
(* (RegistrySafe).                                                         *)
(***************************************************************************)
EXTENDS StateReport, FiniteSetTheorems, TLAPS

(* The calls of one queue that are still running, in the two tables *)
RunningCalls(o, flag) == Active(o.known[flag]) \cup Active(o.pending[flag])

(* What BuildStateReport relies on: the tables of the object are what      *)
(* their methods make of them, no running call is older than the object or *)
(* younger than the pulse that ends, and a queue is shorter than the limit *)
(* of the receiver, which the code enforces nowhere.                       *)
Reportable(o, endingPulse) ==
    \A flag \in Flags :
        /\ o.known[flag] \in ListType /\ ListConsistent(o.known[flag])
        /\ o.pending[flag] \in ListType /\ ListConsistent(o.pending[flag])
        /\ \A r \in RunningCalls(o, flag) : ObjectPulse <= PulseOf[r] /\ PulseOf[r] <= endingPulse
        /\ PendingCount(o, flag) < MaxPendingCount

(* countActive of a consistent list is a natural number, zero exactly when *)
(* nothing is active.                                                      *)
LEMMA CountOfList ==
    ASSUME NEW rl \in ListType, ListConsistent(rl)
    PROVE  /\ rl.countActive \in Nat
           /\ rl.countActive = 0 <=> Active(rl) = {}
<1>1. IsFiniteSet(Active(rl))
  BY FS_Subset, RequestsAssumption DEF Active
<1> QED
  BY <1>1, FS_CardinalityType, FS_EmptySet DEF ListConsistent, CountsActive

(* The earliest pulse of a consistent list is Unknown exactly when nothing *)
(* is active, and otherwise the pulse of an active request.                *)
LEMMA EarliestOfList ==
    ASSUME NEW rl \in ListType, ListConsistent(rl)
    PROVE  /\ rl.earliestActivePulse \in Nat
           /\ rl.earliestActivePulse = UnknownPulse <=> Active(rl) = {}
           /\ Active(rl) # {} => \E r \in Active(rl) : PulseOf[r] = rl.earliestActivePulse
<1>1. \A r \in Requests : PulseOf[r] \in Nat \ {0}
  BY PulsesAssumption
<1>2. rl.earliestActivePulse \in Pulses \cup {UnknownPulse}
  BY DEF ListType
<1>3. rl.earliestActivePulse \in Nat
  <2>1. Pulses \subseteq Nat
    BY PulsesAssumption
  <2>2. UnknownPulse \in Nat
    BY DEF UnknownPulse
  <2> QED
    BY <1>2, <2>1, <2>2
<1> QED
  BY <1>1, <1>3 DEF ListConsistent, EarliestIsLeast, UnknownPulse, Active

(* GetEarliestPulse is Unknown exactly when neither table has an active    *)
(* call, and otherwise the pulse of an active call of one of the tables.   *)
LEMMA EarliestOfQueue ==
    ASSUME NEW o, NEW flag \in Flags,
           o.known[flag] \in ListType, ListConsistent(o.known[flag]),
           o.pending[flag] \in ListType, ListConsistent(o.pending[flag])
    PROVE  /\ GetEarliestPulse(o, flag) = UnknownPulse <=> RunningCalls(o, flag) = {}
           /\ RunningCalls(o, flag) # {} =>
                \E r \in RunningCalls(o, flag) : PulseOf[r] = GetEarliestPulse(o, flag)
<1> DEFINE known == o.known[flag]
           pending == o.pending[flag]
<1>1. /\ known.earliestActivePulse = UnknownPulse <=> Active(known) = {}
      /\ Active(known) # {} => \E r \in Active(known) : PulseOf[r] = known.earliestActivePulse
  BY EarliestOfList
<1>2. /\ pending.earliestActivePulse = UnknownPulse <=> Active(pending) = {}
      /\ Active(pending) # {} =>
            \E r \in Active(pending) : PulseOf[r] = pending.earliestActivePulse
  BY EarliestOfList
<1> QED
  BY <1>1, <1>2 DEF GetEarliestPulse, RunningCalls

(* One queue of the report passes the check of validateStatusReady.        *)
LEMMA QueueAccepted ==
    ASSUME NEW o, NEW p \in Nat, Reportable(o, p), NEW flag \in Flags
    PROVE  ValidPendings(PendingCount(o, flag), GetEarliestPulse(o, flag), p + 1)
<1> DEFINE known == o.known[flag]
           pending == o.pending[flag]
           earliest == GetEarliestPulse(o, flag)
<1>1. /\ known \in ListType /\ ListConsistent(known)
      /\ pending \in ListType /\ ListConsistent(pending)
  BY DEF Reportable
<1>2. /\ known.countActive \in Nat /\ pending.countActive \in Nat
      /\ known.countActive = 0 <=> Active(known) = {}
      /\ pending.countActive = 0 <=> Active(pending) = {}
  BY <1>1, CountOfList
<1>3. /\ earliest = UnknownPulse <=> RunningCalls(o, flag) = {}
      /\ RunningCalls(o, flag) # {} => \E r \in RunningCalls(o, flag) : PulseOf[r] = earliest
  BY <1>1, EarliestOfQueue
<1>4. CASE RunningCalls(o, flag) = {}
  <2>1. Active(known) = {} /\ Active(pending) = {}
    BY <1>4 DEF RunningCalls
  <2>2. PendingCount(o, flag) = 0
    BY <1>2, <2>1 DEF PendingCount
  <2> QED
    BY <1>3, <1>4, <2>2 DEF ValidPendings
<1>5. CASE RunningCalls(o, flag) # {}
  <2>1. Active(known) # {} \/ Active(pending) # {}
    BY <1>5 DEF RunningCalls
  <2>2. PendingCount(o, flag) > 0 /\ PendingCount(o, flag) < MaxPendingCount
    BY <1>2, <2>1 DEF PendingCount, Reportable
  <2>3. PICK r \in RunningCalls(o, flag) : PulseOf[r] = earliest
    BY <1>3, <1>5
  <2>4. ObjectPulse <= earliest /\ earliest <= p
    BY <2>3 DEF Reportable
  <2>5. earliest \in Nat
    BY <2>3, PulsesAssumption DEF RunningCalls, Active
  <2> QED
    BY <1>3, <1>5, <2>2, <2>4, <2>5 DEF ValidPendings
<1> QED
  BY <1>4, <1>5

(* Whatever calls an object that has a state leaves running at the end of  *)
(* a pulse, the report that SMObject.migrate builds of it passes the       *)
(* validation at the executor of the next pulse: counters and earliest     *)
(* pulses, merged from the working and the pending table, never disagree.  *)
THEOREM ReadyReportAccepted ==
    ASSUME NEW o, NEW p \in Nat, o.state = "HasState", Reportable(o, p)
    PROVE  Validate(BuildStateReport(o), p + 1)
<1>1. Tolerable \in Flags /\ Intolerable \in Flags
  BY DEF Flags
<1>2. /\ ValidPendings(PendingCount(o, Tolerable), GetEarliestPulse(o, Tolerable), p + 1)
      /\ ValidPendings(PendingCount(o, Intolerable), GetEarliestPulse(o, Intolerable), p + 1)
  BY <1>1, QueueAccepted
<1>3. ReportStatus(o) = "Ready"
  BY DEF ReportStatus
<1> QED
  BY <1>2, <1>3 DEF Validate, BuildStateReport
=============================================================================
