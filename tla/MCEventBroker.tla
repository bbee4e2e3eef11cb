--------------------------- MODULE MCEventBroker ---------------------------
(***************************************************************************)
(* Small instances of EventBroker: a protected channel with two readers    *)
(* whose keys it allows and one whose key it does not, an open channel     *)
(* with a reader who brings one of those keys all the same, and a source   *)
(* for each channel.                                                       *)
(***************************************************************************)
EXTENDS EventBroker

CONSTANTS open, guarded, h1, h2, h3, h4, p1, p2, k1, k2, k3

Requests == (h1 :> [chan |-> guarded, pubkey |-> k1]) @@
            (h2 :> [chan |-> guarded, pubkey |-> k2]) @@
            (h3 :> [chan |-> guarded, pubkey |-> k3]) @@
            (h4 :> [chan |-> open, pubkey |-> k1])

MCRequest == Restrict(Requests, Handlers)

MCPostsTo == (p1 :> guarded) @@ (p2 :> open)

\* Two posts from the source of the protected channel, for order and overflow.
OrderPosts == (p1 :> 2) @@ (p2 :> 0)

\* Posts on either channel, for what the two fan-outs share.
MixedPosts == (p1 :> 1) @@ (p2 :> 2)

MCAllowed == guarded :> {k1, k2}
=============================================================================
