----------------------------- MODULE StreamIDs -----------------------------
(***************************************************************************)
(* The IDs of the entries of a Redis Stream, as the relay compares them    *)
(* (gosmee/server.go).  The text "9-10" is the pair <<9, 10>>: a time in   *)
(* milliseconds and a number within the millisecond.                       *)
(***************************************************************************)
EXTENDS Integers

StreamID == Nat \X Nat

\* Fault: numbers of up to two digits are compared as texts.
TextBefore(m, n) ==
  IF (m < 10) = (n < 10) THEN m < n
  ELSE IF m < 10 THEN m <= n \div 10 ELSE m \div 10 < n

CompareAsText(a, b) ==
  CASE a = b -> 0
    [] TextBefore(a[1], b[1]) -> -1
    [] a[1] = b[1] /\ TextBefore(a[2], b[2]) -> -1
    [] OTHER -> 1

\* -1, 0 or 1 as a is older than b, b itself, or newer.
CompareRedisStreamIDs(a, b) ==
  CASE a[1] < b[1] -> -1
    [] a[1] > b[1] -> 1
    [] a[1] = b[1] /\ a[2] < b[2] -> -1
    [] a[1] = b[1] /\ a[2] > b[2] -> 1
    [] OTHER -> 0
=============================================================================
