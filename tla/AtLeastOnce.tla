---------------------------- MODULE AtLeastOnce ----------------------------
(***************************************************************************)
(* What Redis Streams mode promises: "delivery is at least once within the *)
(* Redis retention window".  A log is appended to at one end and trimmed   *)
(* at the other.  A reader handles entries in any order and as often as it *)
(* likes, and keeps a mark to resume from.  It may move the mark past an   *)
(* entry that is still retained only when that entry was handled; a reader *)
(* that lost its mark begins anew at the end of the log.                   *)
(***************************************************************************)
EXTENDS Integers

VARIABLES first,    \* the oldest entry still retained
          last,     \* the newest entry
          handled,  \* the entries handled at least once
          mark,     \* the entry to resume after; 0 is none
          from      \* where a reader without a mark began

vars == <<first, last, handled, mark, from>>

Init ==
  /\ first = 1 /\ last = 0
  /\ handled = {}
  /\ mark = 0
  /\ from = 0

\* The entries a reader with this mark will not ask for again.
Behind(m) == {n \in first..last : from < n /\ n <= m}

Append ==
  /\ last' = last + 1
  /\ first' \in first..last + 1
  /\ UNCHANGED <<handled, mark, from>>

Handle ==
  /\ \E n \in 1..last : handled' = handled \cup {n}
  /\ UNCHANGED <<first, last, mark, from>>

MoveMark ==
  /\ \E m \in mark + 1..last : Behind(m) \subseteq handled /\ mark' = m
  /\ UNCHANGED <<first, last, handled, from>>

LoseMark ==
  /\ mark' = 0
  /\ UNCHANGED <<first, last, handled, from>>

BeginAnew ==
  /\ mark = 0
  /\ from' = last
  /\ UNCHANGED <<first, last, handled, mark>>

Next == Append \/ Handle \/ MoveMark \/ LoseMark \/ BeginAnew

Spec == Init /\ [][Next]_vars
=============================================================================
