------------------------- MODULE MCDurableListening -------------------------
(***************************************************************************)
(* DurableDelivery with a note of when the client began to listen.         *)
(***************************************************************************)
EXTENDS MCDurableDelivery

VARIABLE since   \* the newest entry when this process first read "connected"; -1 before

ListeningInit == Init /\ since = -1

ListeningNext ==
  /\ Next
  /\ since' = IF cpc' \in {"exited", "down"} THEN -1
             ELSE IF PassOver /\ cur = Connected /\ hpc # "none" /\ since = -1 THEN last ELSE since

ListeningSpec == ListeningInit /\ [][ListeningNext]_<<vars, since>>

\* "Delivery is at least once within the Redis retention window" and "a client can
\* reconnect to another replica and resume with Last-Event-ID while the missed events
\* are still retained": of what was posted while the client was connected or
\* reconnecting, and is retained, the checkpoint passes nothing unprocessed.
NoLossWhileListening ==
  \A n \in Skipped : since = -1 \/ n <= since
=============================================================================
