------------------------------- MODULE MCSkewed -------------------------------
(***************************************************************************)
(* Nodes that change the pulse one by one, and messages that take as long  *)
(* as they like.  The ordered call r1 of pulse 2 is repeated in pulse 3;   *)
(* the ordered call r2 comes in pulse 4.                                   *)
(***************************************************************************)
EXTENDS VirtualExecution, TLC

CONSTANTS r1, r2, t1, t2, t3

ReadyReport == [MissingReport EXCEPT !.Status = "Ready",
                    !.LatestDirtyState = TRUE,
                    !.ProvidedContent = NewDescriptor({Genesis}, FALSE)]

MCHandovers == {[pulse |-> 1, report |-> ReadyReport,
                 running |-> {}, finished |-> {}]}

MCRequests == {r1, r2}
MCPulses == 1..4
MCPulseOf == r1 :> 2 @@ r2 :> 4
MCTasks == {t1, t2, t3}
MCCall == t1 :> r1 @@ t2 :> r1 @@ t3 :> r2
MCSlotOf == t1 :> 2 @@ t2 :> 3 @@ t3 :> 4
MCFlag == [r \in MCRequests |-> Tolerable]
MCOutcomesOf == [r \in MCRequests |-> {"none", "change"}]
===============================================================================
