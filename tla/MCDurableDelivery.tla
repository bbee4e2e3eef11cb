------------------------- MODULE MCDurableDelivery -------------------------
(***************************************************************************)
(* A small instance of DurableDelivery: three webhooks, the second of an   *)
(* ignored type, a stream that may be trimmed to its newest entry, batches *)
(* of two.                                                                 *)
(***************************************************************************)
EXTENDS DurableDelivery

CONSTANTS push, spam

\* Twice the text "9-" before a text of more digits.
MCIDOf == [n \in 1..MaxEvents |-> CASE n = 1 -> <<9, 9>> [] n = 2 -> <<9, 10>> [] OTHER -> <<n + 7, 0>>]

MCTypeOf == [n \in 1..MaxEvents |-> IF n = 2 THEN spam ELSE push]

Forwarding(stateFile) ==
  [save |-> FALSE, forward |-> TRUE, exec |-> FALSE, stateFile |-> stateFile]

\* With and without --resume-state-file.
MCConfigs == {Forwarding(TRUE), Forwarding(FALSE)}
WithStateFile == {Forwarding(TRUE)}
=============================================================================
