----------------------------- MODULE MCLifecycle -----------------------------
(***************************************************************************)
(* The whole life of an object: the constructor r1 and the ordered call r2 *)
(* that may deactivate the object come in pulse 2; r1 is repeated in pulse *)
(* 3, where the ordered call r3 and the call r4 come too.  r4 asks for the *)
(* unordered queue while its method is ordered.                            *)
(***************************************************************************)
EXTENDS VirtualExecution, TLC

CONSTANTS r1, r2, r3, r4, t1, t2, t3, t4, t5

MCHandovers == {[pulse |-> 1, report |-> MissingReport,
                 running |-> {}, finished |-> {}]}
MCRequests == {r1, r2, r3, r4}
MCPulses == 1..3
MCPulseOf == r1 :> 2 @@ r2 :> 2 @@ r3 :> 3 @@ r4 :> 3
MCTasks == {t1, t2, t3, t4, t5}
MCCall == t1 :> r1 @@ t2 :> r2 @@ t3 :> r1 @@ t4 :> r3 @@ t5 :> r4
MCSlotOf == t1 :> 2 @@ t2 :> 2 @@ t3 :> 3 @@ t4 :> 3 @@ t5 :> 3
MCCallFlag == [r \in MCRequests |-> IF r = r4 THEN Intolerable ELSE Tolerable]
MCMethodFlag == [r \in MCRequests |-> Tolerable]
MCOutcomesOf == r1 :> {"change", "error"} @@ r2 :> {"change", "deactivate"}
                @@ r3 :> {"none"} @@ r4 :> {"none"}
=============================================================================
