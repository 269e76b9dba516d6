---------------------------- MODULE MCConstructor ----------------------------
(***************************************************************************)
(* A constructor r1 and an ordered method call r2 of the new object.       *)
(* New*: both come to the executor of pulse 2, r1 twice, and r1 once more  *)
(* to the executor of pulse 3.                                             *)
(* Early*: the same in one pulse, with r2 twice, perhaps before r1.        *)
(***************************************************************************)
EXTENDS VirtualExecution, TLC

CONSTANTS r1, r2, t1, t2, t3, t4

MCHandovers == {[pulse |-> 1, report |-> MissingReport,
                 running |-> {}, finished |-> {}]}
MCRequests == {r1, r2}
MCPulses == 1..4
MCTasks == {t1, t2, t3, t4}
MCCall == t1 :> r1 @@ t2 :> r2 @@ t3 :> r1 @@ t4 :> r1
MCFlag == [r \in MCRequests |-> Tolerable]
MCOutcomesOf == r1 :> {"change", "error"} @@ r2 :> {"change"}

NewPulseOf == r1 :> 2 @@ r2 :> 2
NewSlotOf == t1 :> 2 @@ t2 :> 2 @@ t3 :> 3 @@ t4 :> 2

EarlyCall == [MCCall EXCEPT ![t3] = r2]
TwoPulses == 1..2
EarlySlotOf == [t \in MCTasks |-> 2]
=============================================================================
