---------------------------- MODULE StreamEvents ----------------------------
(***************************************************************************)
(* The messages between `gosmee server` and `gosmee client`.               *)
(***************************************************************************)
EXTENDS Integers

CONSTANTS Types,   \* the event types of webhooks
          NoType   \* a webhook without a known event header

ASSUME TypesAssumption == NoType \notin Types

\* An SSE event as the client sees it: its Redis stream ID (0: none, or not a stream
\* ID), and whether processClientEvent takes it for a message of the server to pass
\* over ("control": connected, ready, ping or empty; "gap"), for a payload that cannot
\* be decrypted or parsed ("garbled") or for a webhook.
Event == [id : Nat, kind : {"control", "gap", "garbled", "hook"}, type : Types \cup {NoType}]

Message(id, kind, type) == [id |-> id, kind |-> kind, type |-> type]
=============================================================================
