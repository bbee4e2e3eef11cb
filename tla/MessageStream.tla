---------------------------- MODULE MessageStream ----------------------------
(***************************************************************************)
(* What the relays take for granted about a connection: the client takes   *)
(* the messages the server writes on it one after the other, each as the   *)
(* server means it.  After the stream ended inside a message, that message *)
(* may be taken as well, under its own ID, as one that cannot be           *)
(* understood or that says nothing.                                        *)
(***************************************************************************)
EXTENDS StreamEvents, Sequences

VARIABLES sent,   \* what the server wrote on the connection, and means by it
          taken,  \* what the client took from it
          over    \* the server writes no more

vars == <<sent, taken, over>>

\* A message as it is meant is a record of its ID, its kind and the types it may be
\* taken for: a webhook may name several.
Readings(m) == {Message(m.id, m.kind, type) : type \in m.types}
TornReadings(m) == {Message(m.id, kind, NoType) : kind \in {"control", "garbled"}}

Init ==
  /\ sent = <<>>
  /\ taken = <<>>
  /\ over = TRUE

Open ==
  /\ sent' = <<>>
  /\ taken' = <<>>
  /\ over' = FALSE

Write ==
  /\ ~over
  /\ Len(sent') > Len(sent)
  /\ SubSeq(sent', 1, Len(sent)) = sent
  /\ UNCHANGED <<taken, over>>

Take ==
  /\ \A i \in DOMAIN taken : taken[i] \in Readings(sent[i])
  /\ Len(taken) < Len(sent)
  /\ LET m == sent[Len(taken) + 1]
     IN  \E e \in Readings(m) \cup (IF over THEN TornReadings(m) ELSE {}) :
           taken' = Append(taken, e)
  /\ UNCHANGED <<sent, over>>

End ==
  /\ over' = TRUE
  /\ UNCHANGED <<sent, taken>>

Next == Open \/ Write \/ Take \/ End

Spec == Init /\ [][Next]_vars
=============================================================================
