------------------------------ MODULE MCProgress ------------------------------
(***************************************************************************)
(* Progress behind an ordered call that the previous executor still runs.  *)
(* Over two pulse changes it is the method r1 of pulse 1, which calls      *)
(* another object; the ordered call r2 comes in pulse 2 and r3 in pulse 3, *)
(* the last one.  The constructor r4 has a result and is repeated in both. *)
(* Over one pulse change it is the constructor r4, as a report without a   *)
(* state says: it is repeated in pulse 3, where r3 waits for it.           *)
(***************************************************************************)
EXTENDS VirtualExecution, TLC

CONSTANTS r1, r2, r3, r4, t1, t2, t3, t4, t5

EmptyReport == [MissingReport EXCEPT !.Status = "Empty",
                    !.OrderedPendingCount = 1,
                    !.OrderedPendingEarliestPulse = 1]
PendingReport == [EmptyReport EXCEPT !.Status = "Ready",
                    !.LatestDirtyState = TRUE,
                    !.ProvidedContent = NewDescriptor({Genesis}, FALSE)]
MCHandovers == {[pulse |-> 1, report |-> PendingReport,
                 running |-> {t1}, finished |-> {r4}],
                [pulse |-> 2, report |-> EmptyReport,
                 running |-> {t4}, finished |-> {}]}

MCRequests == {r1, r2, r3, r4}
MCPulses == 1..3
MCPulseOf == r1 :> 1 @@ r2 :> 2 @@ r3 :> 3 @@ r4 :> 1
MCTasks == {t1, t2, t3, t4, t5}
MCCall == t1 :> r1 @@ t2 :> r2 @@ t3 :> r3 @@ t4 :> r4 @@ t5 :> r4
MCSlotOf == t1 :> 1 @@ t2 :> 2 @@ t3 :> 3 @@ t4 :> 2 @@ t5 :> 3
MCFlag == [r \in MCRequests |-> Tolerable]
MCOutcomesOf == [r \in MCRequests |-> {"change"}]
===============================================================================
