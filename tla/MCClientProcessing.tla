------------------------- MODULE MCClientProcessing -------------------------
(***************************************************************************)
(* A small instance of ClientProcessing: webhooks with and without stream  *)
(* ID, of an ignored type, of a type the command is for, of another type   *)
(* and of none, under every combination of the options.                    *)
(***************************************************************************)
EXTENDS ClientProcessing

CONSTANTS push, issue, spam

Hook(n, t) == Message(n, "hook", t)
Other(n, k) == Message(n, k, NoType)

MCInputs ==
  {Hook(n, t) : n \in {0, 1}, t \in {push, issue, spam, NoType}}
    \cup {Hook(2, push), Other(0, "control"), Other(0, "gap")}
    \cup {Other(n, "garbled") : n \in {0, 1}}

\* Two webhooks of the kind the command is run for, one with a stream ID.
ExecInputs == {Hook(0, push), Hook(1, push)}

\* The client on its own, on a stream that may bring any of these at any time.
Spec == ClientInit /\ [][ClientNext(MCInputs)]_clientVars /\ ClientFairness
ExecSpec == ClientInit /\ [][ClientNext(ExecInputs)]_clientVars /\ ClientFairness
=============================================================================
