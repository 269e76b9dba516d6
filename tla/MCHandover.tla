------------------------------ MODULE MCHandover ------------------------------
(***************************************************************************)
(* Calls to an object that exists since before pulse 1.  r1 is an ordered  *)
(* call of pulse 2 that calls another object and is repeated in pulse 3,   *)
(* where the unordered call r2 and the ordered call r3 come too.  Pulse 4  *)
(* shows what two pulse changes leave behind.                              *)
(***************************************************************************)
EXTENDS VirtualExecution, TLC

CONSTANTS r1, r2, r3, t1, t2, t3, t4

ReadyReport == [MissingReport EXCEPT !.Status = "Ready",
                    !.LatestDirtyState = TRUE,
                    !.ProvidedContent = NewDescriptor({Genesis}, FALSE)]

MCHandovers == {[pulse |-> 1, report |-> ReadyReport,
                 running |-> {}, finished |-> {}]}

MCRequests == {r1, r2, r3}
MCPulses == 1..4
MCPulseOf == r1 :> 2 @@ r2 :> 3 @@ r3 :> 3
MCTasks == {t1, t2, t3, t4}
MCCall == t1 :> r1 @@ t2 :> r1 @@ t3 :> r2 @@ t4 :> r3
MCSlotOf == t1 :> 2 @@ t2 :> 3 @@ t3 :> 3 @@ t4 :> 4
MCFlag == [r \in MCRequests |-> IF r = r2 THEN Intolerable ELSE Tolerable]
MCOutcomesOf == r1 :> {"change"} @@ r2 :> {"none", "change"} @@ r3 :> {"none"}
===============================================================================
