------------------------------- MODULE MCPlash -------------------------------
(***************************************************************************)
(* One plash of one drop and three appends.  Pages of two entries make the *)
(* bundles meet the end of a page at any entry.                            *)
(***************************************************************************)
EXTENDS PlashBuilder, TLC

CONSTANTS a1, a2, a3, d1

MCAppends == {a1, a2, a3}
MCDropOf == [a \in MCAppends |-> d1]
MCSizeOf == a1 :> 1 @@ a2 :> 2 @@ a3 :> 1
MCFaultsOf == a1 :> {"panic"} @@ a2 :> {"prepare", "commit"} @@ a3 :> {"error"}
NoFaultsOf == [a \in MCAppends |-> {}]
==============================================================================
