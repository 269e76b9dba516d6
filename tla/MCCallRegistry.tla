---------------------------- MODULE MCCallRegistry ----------------------------
(***************************************************************************)
(* Four requests in three pulses.  Two share a pulse and a list, so that a *)
(* pulse can lose one request and keep another; an older one shares their  *)
(* list, so that the earliest pulse moves both ways; the fourth uses the   *)
(* other list.                                                             *)
(***************************************************************************)
EXTENDS CallRegistry, TLC

CONSTANTS r1, r2, r3, r4

MCRequests == {r1, r2, r3, r4}
MCPulses == 1..3
MCPulseOf == r1 :> 2 @@ r2 :> 2 @@ r3 :> 1 @@ r4 :> 3
MCFlags == {"Tolerable", "Intolerable"}
MCFlagOf == r1 :> "Tolerable" @@ r2 :> "Tolerable" @@ r3 :> "Tolerable"
            @@ r4 :> "Intolerable"
=============================================================================
