---------------------------- MODULE MCReplayPoller ----------------------------
(***************************************************************************)
(* A small instance of ReplayPoller: every third delivery is an issue, the *)
(* others are pushes.                                                      *)
(***************************************************************************)
EXTENDS ReplayPoller

MCTypeOf == [d \in 1..MaxDeliveries |-> IF d % 3 = 0 THEN "issue" ELSE "push"]
=============================================================================
