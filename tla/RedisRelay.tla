----------------------------- MODULE RedisRelay -----------------------------
(***************************************************************************)
(* The relay of `gosmee server --redis-url`: one channel's Redis Stream    *)
(* (gosmee/server_relay.go) and the handler of the request that reads it   *)
(* for one client (handleRedisEventsGet in gosmee/server.go).              *)
(*                                                                         *)
(* Replicas share nothing but the stream and a handler keeps nothing but   *)
(* its position, so it does not matter which replica a request reaches.    *)
(* Stream IDs only grow, and an entry is named by the rank of the XADD     *)
(* that made it: 1, 2, ...; 0 stands for "0-0" and for no ID.  Only where  *)
(* the handler itself compares two IDs they are looked at.  XADD trims     *)
(* from the oldest end, so the stream is always a range of ranks.          *)
(* XREAD returns the oldest entries after an ID, in order, so a batch is   *)
(* a range as well, and it outlives the trimming of what it was read from. *)
(***************************************************************************)
EXTENDS StreamEvents, StreamIDs, Sequences

CONSTANTS MaxLen,     \* --redis-stream-maxlen; 0 disables trimming
          ReadCount,  \* the COUNT of XREAD (100 in the code)
          Protected,  \* whether the channel is in --encrypted-channels-file
          IDOf,       \* rank |-> stream ID, as XADD gives them
          TypeOf,     \* rank |-> event type of the webhook stored there
          MaxEvents   \* bound: webhooks posted

ASSUME RelayAssumption ==
  /\ MaxLen \in Nat
  /\ ReadCount \in Nat \ {0}
  /\ Protected \in BOOLEAN
  /\ MaxEvents \in Nat
  /\ TypeOf \in [1..MaxEvents -> Types \cup {NoType}]
  /\ IDOf \in [1..MaxEvents -> StreamID]
  /\ \A m, n \in 1..MaxEvents :
       m < n => \/ IDOf[m][1] < IDOf[n][1]
                \/ IDOf[m][1] = IDOf[n][1] /\ IDOf[m][2] < IDOf[n][2]

VARIABLES
  first,      \* the oldest entry of the stream; last + 1 when it has none
  last,       \* the newest entry
  hpc,        \* where handleRedisEventsGet is; "none": there is no request
  asked,      \* the request's Last-Event-ID
  readAfter,  \* readAfterID
  gap,        \* gapEvent is set
  next, upto, \* the batch: the entries read and not yet written
  wire,       \* what was written to the response and the client did not read yet
  unsealed,   \* entries skipped because encryption failed (history)
  from        \* the tail at which a request without Last-Event-ID began (history)

streamVars == <<first, last>>
relayVars == <<streamVars, hpc, asked, readAfter, gap, next, upto, wire, unsealed, from>>

\* What the handler writes.  "connected" and "ready" are one message here: the client
\* passes both over alike.
Connected == Message(0, "control", NoType)
Gap == Message(0, "gap", NoType)
Entry(n) == Message(n, "hook", TypeOf[n])

RelayTypeOK ==
  /\ last \in 0..MaxEvents
  /\ first \in 1..last + 1
  /\ hpc \in {"none", "start", "greet", "read", "write"}
  /\ asked \in 0..MaxEvents
  /\ readAfter \in 0..MaxEvents
  /\ gap \in BOOLEAN
  /\ next \in Nat
  /\ upto \in 0..MaxEvents
  /\ wire \in Seq(Event)
  /\ unsealed \subseteq 1..MaxEvents
  /\ from \in 0..MaxEvents

RelayInit ==
  /\ first = 1
  /\ last = 0
  /\ hpc = "none"
  /\ asked = 0
  /\ readAfter = 0
  /\ gap = FALSE
  /\ next = 1
  /\ upto = 0
  /\ wire = <<>>
  /\ unsealed = {}
  /\ from = 0

-----------------------------------------------------------------------------
(* POST /{channel} and POST /replay/{channel}                              *)

\* XADD, with MAXLEN ~ when trimming is on: Redis drops old entries when it suits it,
\* and never goes below MaxLen.  The post is answered 202, or 500 when the reply of
\* Redis is lost; a post that Redis did not store changes nothing.
Publish ==
  /\ last < MaxEvents
  /\ last' = last + 1
  /\ \E oldest \in first..last + 1 :
       /\ oldest = first \/ (MaxLen > 0 /\ last' - oldest + 1 >= MaxLen)
       /\ first' = oldest
  /\ UNCHANGED <<hpc, asked, readAfter, gap, next, upto, wire, unsealed, from>>

-----------------------------------------------------------------------------
(* GET /events/{channel}                                                   *)

\* A request of a client that may read the channel reaches a replica.
Request(lastEventID) ==
  /\ hpc = "none"
  /\ hpc' = "start"
  /\ asked' = lastEventID
  /\ wire' = <<>>
  /\ gap' = FALSE
  /\ UNCHANGED <<streamVars, readAfter, next, upto, unsealed, from>>

\* Without Last-Event-ID the handler begins after the newest entry.
NewestID ==
  /\ hpc = "start"
  /\ asked = 0
  /\ readAfter' = last
  /\ from' = last
  /\ hpc' = "greet"
  /\ UNCHANGED <<streamVars, asked, gap, next, upto, wire, unsealed>>

\* Last-Event-ID is older than the oldest entry.
Missed ==
  /\ first <= last
  /\ CompareRedisStreamIDs(IDOf[asked], IDOf[first]) = -1

\* Fault: after a gap the handler goes on with what is new.
OldestIDGapFromTail ==
  /\ hpc = "start"
  /\ asked # 0
  /\ gap' = Missed
  /\ readAfter' = IF gap' THEN last ELSE asked
  /\ hpc' = "greet"
  /\ UNCHANGED <<streamVars, asked, next, upto, wire, unsealed, from>>

\* Fault: Last-Event-ID only decides whether there is a gap.
OldestIDFromStart ==
  /\ hpc = "start"
  /\ asked # 0
  /\ gap' = Missed
  /\ readAfter' = 0
  /\ hpc' = "greet"
  /\ UNCHANGED <<streamVars, asked, next, upto, wire, unsealed, from>>

\* With one it begins there, or at the oldest entry and with a gap message when that
\* entry is newer.
OldestID ==
  /\ hpc = "start"
  /\ asked # 0
  /\ gap' = Missed
  /\ readAfter' = IF gap' THEN 0 ELSE asked
  /\ hpc' = "greet"
  /\ UNCHANGED <<streamVars, asked, next, upto, wire, unsealed, from>>

Greet ==
  /\ hpc = "greet"
  /\ wire' = wire \o <<Connected>> \o (IF gap THEN <<Gap>> ELSE <<>>)
  /\ hpc' = "read"
  /\ UNCHANGED <<streamVars, asked, readAfter, gap, next, upto, unsealed, from>>

\* Fault: a batch is taken for full.
ReadFull ==
  /\ hpc = "read"
  /\ readAfter < last
  /\ next' = IF readAfter < first THEN first ELSE readAfter + 1
  /\ upto' = next' + ReadCount - 1
  /\ hpc' = "write"
  /\ UNCHANGED <<streamVars, asked, readAfter, gap, wire, unsealed, from>>

\* XREAD returns at most ReadCount entries, as soon as there is one.
Read ==
  /\ hpc = "read"
  /\ readAfter < last
  /\ next' = IF readAfter < first THEN first ELSE readAfter + 1
  /\ upto' = IF next' + ReadCount - 1 < last THEN next' + ReadCount - 1 ELSE last
  /\ hpc' = "write"
  /\ UNCHANGED <<streamVars, asked, readAfter, gap, wire, unsealed, from>>

\* The batch is over, and the handler reads again.
AfterEntry == hpc' = IF next = upto THEN "read" ELSE "write"

\* Fault: the position does not follow what is written.
WriteEntryInPlace ==
  /\ hpc = "write"
  /\ wire' = Append(wire, Entry(next))
  /\ next' = next + 1
  /\ AfterEntry
  /\ UNCHANGED <<streamVars, asked, readAfter, gap, upto, unsealed, from>>

\* One entry is written, and the position moves onto it.
WriteEntry ==
  /\ hpc = "write"
  /\ wire' = Append(wire, Entry(next))
  /\ readAfter' = next
  /\ next' = next + 1
  /\ AfterEntry
  /\ UNCHANGED <<streamVars, asked, gap, upto, unsealed, from>>

\* Encryption fails: the entry is skipped, the position stays.
SkipEntry ==
  /\ hpc = "write"
  /\ Protected
  /\ unsealed' = unsealed \cup {next}
  /\ next' = next + 1
  /\ AfterEntry
  /\ UNCHANGED <<streamVars, asked, readAfter, gap, upto, wire, from>>

\* What a client may take a message for that it has not read to its end: the data is
\* not whole, or not there at all.
TornKinds == {"control", "garbled"}
Torn(msg, kind) == Message(msg.id, kind, NoType)

\* The request is over: Redis fails, a write fails, the replica dies or the network
\* does.  The client still reads some of what was written, and where the stream ends
\* without an error inside a message, it takes that message for whole.

RequestEnds ==
  /\ hpc # "none"
  /\ hpc' = "none"
  /\ \E n \in 0..Len(wire) :
       \/ wire' = SubSeq(wire, 1, n)
       \/ /\ n > 0
          /\ \E kind \in TornKinds : wire' = [SubSeq(wire, 1, n) EXCEPT ![n] = Torn(@, kind)]
  /\ UNCHANGED <<streamVars, asked, readAfter, gap, next, upto, unsealed, from>>

\* The client is gone, and what it did not read with it.
ClientHangsUp ==
  /\ hpc' = "none"
  /\ wire' = <<>>
  /\ UNCHANGED <<streamVars, asked, readAfter, gap, next, upto, unsealed, from>>

HandlerStep == NewestID \/ OldestID \/ Greet \/ Read \/ WriteEntry \/ SkipEntry
=============================================================================
