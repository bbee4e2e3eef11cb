----------------------- MODULE DurableDeliveryProofs -----------------------
(***************************************************************************)
(* What Redis Streams mode guarantees for any number of webhooks and       *)
(* faults, any trimming and any batch size: nothing retained is lost, the  *)
(* checkpoint never moves back, and the abstract at-least-once log of      *)
(* AtLeastOnce is implemented.                                             *)
(***************************************************************************)
EXTENDS DurableDelivery, SequenceTheorems, TLAPS

(* The inductive invariant                                                 *)

\* A client that is gone has no connection, and a closed connection has no handler and
\* brings nothing; until the handler greets, the client waits with its checkpoint in
\* the request.
Connection ==
  /\ cpc \in {"exited", "down"} => conn = "closed"
  /\ conn = "closed" => hpc = "none" /\ wire = <<>>
  /\ hpc \in {"start", "greet"} => cpc = "idle" /\ wire = <<>> /\ asked = ckpt

\* Positions never leave the stream, whatever is trimmed.
Bounds ==
  /\ last = 0 \/ first <= last
  /\ from <= last /\ readAfter <= last /\ upto <= last
  /\ ckpt <= last /\ file <= last /\ cur.id <= last
  /\ \A i \in DOMAIN wire : wire[i].id <= last
  /\ hpc = "write" => next \in 1..upto

\* With a state file, memory and file agree; without one there is no file.  What has
\* a stream ID is a webhook, whole or torn, and what is to be checkpointed was settled.
Records ==
  /\ file = IF opts.stateFile THEN ckpt ELSE 0
  /\ Busy /\ Durable => cur.kind # "gap"
  /\ \A i \in DOMAIN wire : wire[i].id # 0 => wire[i].kind # "gap"
  /\ cpc \in {"checkpointing", "rewriting"} => Durable /\ cur.id \in settled

\* A webhook of which the data is missing is the last thing a connection brings.
TornLast ==
  /\ Busy /\ Durable /\ cur.kind = "control" => hpc = "none" /\ wire = <<>>
  /\ \A i \in DOMAIN wire :
       wire[i].id # 0 /\ wire[i].kind = "control" => hpc = "none" /\ i = Len(wire)

\* An entry nobody has to deliver any more, or never had to.
Covered(n) == n \in settled \cup unsealed \/ n <= from \/ n < first

\* An entry that is on its way to the checkpoint: in hand or on the wire.
OnItsWay(n) == (Busy /\ cur.id = n) \/ \E i \in DOMAIN wire : wire[i].id = n

SafeUpTo(m) == \A n \in 1..m : Covered(n) \/ OnItsWay(n)

\* Nothing below an entry on its way is forgotten, so that the client may checkpoint
\* any entry it completes.
Window == \A m \in 1..last : OnItsWay(m) => SafeUpTo(m)

Behind == \A n \in 1..ckpt : Covered(n)

\* Nothing up to the handler's position is forgotten, and all that is on its way is at
\* or before it; only after a gap is the position behind the checkpoint.
Position ==
  hpc \in {"greet", "read", "write"} =>
    /\ ckpt <= readAfter \/ ckpt < first
    /\ \A n \in 1..last : OnItsWay(n) => n <= readAfter
    /\ SafeUpTo(readAfter)

Batch ==
  hpc = "write" => /\ next > readAfter
                   /\ next > ckpt
                   /\ SafeUpTo(next - 1)

DeliveryInv ==
  TypeOK /\ Connection /\ Bounds /\ Records /\ TornLast /\ StreamOrder
    /\ Window /\ Behind /\ Position /\ Batch
-----------------------------------------------------------------------------
(* The client's steps, as the composition sees them                        *)

\* The client goes on with the event in hand.
GoesOn ==
  /\ Busy /\ cpc' \in {"processing", "sleeping", "checkpointing", "rewriting"}
  /\ cpc' \in {"checkpointing", "rewriting"} => cpc \in {"checkpointing", "rewriting"}
  /\ UNCHANGED <<cur, ckpt, file, settled>>

\* It is done with an event without stream ID.
LetsGo ==
  /\ Busy /\ ~Durable /\ cpc' = "idle"
  /\ UNCHANGED <<cur, ckpt, file, settled>>

\* It passes over a webhook of which only the ID came.
Drops ==
  /\ Busy /\ Durable /\ cur.kind = "control" /\ cpc' = "idle"
  /\ UNCHANGED <<cur, ckpt, file, settled>>

\* It has processed a webhook with stream ID to the end.
Settles ==
  /\ Busy /\ Durable /\ cpc' = "checkpointing"
  /\ settled' = settled \cup {cur.id}
  /\ UNCHANGED <<cur, ckpt, file>>

\* It moves the checkpoint onto the event in hand.
Moves ==
  /\ cpc = "checkpointing" /\ cpc' = "idle"
  /\ ckpt' = cur.id
  /\ file' = IF opts.stateFile THEN cur.id ELSE file
  /\ UNCHANGED <<cur, settled>>

Stops ==
  /\ cpc' \in {"exited", "down"}
  /\ UNCHANGED <<cur, ckpt, file, settled>>

LEMMA ClientStepCases ==
  ASSUME ClientTypeOK, Records, ExecStep \/ OtherStep
  PROVE  /\ UNCHANGED opts
         /\ GoesOn \/ LetsGo \/ Drops \/ Settles \/ Moves \/ (cpc' = "exited" /\ Stops)
<1>1. CASE PassOver
  BY <1>1 DEF PassOver, LetsGo, Drops, Busy, Records, Durable
<1>2. CASE Refuse
  BY <1>2 DEF Refuse, Stops
<1>3. CASE Retry
  BY <1>3 DEF Retry, GoesOn, Busy
<1>4. CASE Finish
  BY <1>4 DEF Finish, LetsGo, Settles, Busy, Durable
<1>5. ASSUME NEW s \in Stages, Succeeds(s)
      PROVE  UNCHANGED opts /\ GoesOn
  BY <1>5 DEF Succeeds, At, GoesOn, Busy
<1>6. ASSUME NEW s \in Stages, LocalFailure(s)
      PROVE  UNCHANGED opts /\ (GoesOn \/ LetsGo)
  BY <1>6 DEF LocalFailure, At, GoesOn, LetsGo, Busy, Durable
<1>7. CASE TargetFails
  BY <1>7 DEF TargetFails, At, GoesOn, LetsGo, Busy, Durable
<1>8. CASE TargetRefuses
  BY <1>8 DEF TargetRefuses, At, LetsGo, Stops, Busy, Durable
<1>9. CASE Advance
  BY <1>9 DEF Advance, Moves
<1>10. CASE AdvanceFails
  BY <1>10 DEF AdvanceFails, GoesOn, Busy
<1>11. CASE RetryAdvance
  BY <1>11 DEF RetryAdvance, GoesOn, Busy
<1> QED
  BY <1>1, <1>2, <1>3, <1>4, <1>5, <1>6, <1>7, <1>8, <1>9, <1>10, <1>11
  DEF ExecStep, OtherStep, Stages

LEMMA ClientStepType ==
  ASSUME ClientTypeOK, ExecStep \/ OtherStep
  PROVE  ClientTypeOK'
<1> USE DEF ClientTypeOK, ClientStates
<1>1. CASE PassOver
  BY <1>1 DEF PassOver
<1>2. CASE Refuse
  BY <1>2 DEF Refuse
<1>3. CASE Retry
  BY <1>3 DEF Retry
<1>4. CASE Finish
  BY <1>4 DEF Finish, Event
<1>5. ASSUME NEW s \in Stages, Succeeds(s)
      PROVE  ClientTypeOK'
  BY <1>5 DEF Succeeds, RequestsAfter
<1>6. ASSUME NEW s \in Stages, LocalFailure(s)
      PROVE  ClientTypeOK'
  BY <1>6 DEF LocalFailure
<1>7. CASE TargetFails
  BY <1>7 DEF TargetFails, RequestsAfter
<1>8. CASE TargetRefuses
  BY <1>8 DEF TargetRefuses, RequestsAfter
<1>9. CASE Advance
  BY <1>9 DEF Advance, Event
<1>10. CASE AdvanceFails
  BY <1>10 DEF AdvanceFails
<1>11. CASE RetryAdvance
  BY <1>11 DEF RetryAdvance
<1> QED
  BY <1>1, <1>2, <1>3, <1>4, <1>5, <1>6, <1>7, <1>8, <1>9, <1>10, <1>11
  DEF ExecStep, OtherStep, Stages
-----------------------------------------------------------------------------
(* What happens to the wire                                                *)

LEMMA WireGrows ==
  ASSUME NEW s \in Seq(Event), NEW e \in Event
  PROVE  /\ Append(s, e) \in Seq(Event)
         /\ DOMAIN s = 1..Len(s) /\ Len(s) \in Nat
         /\ DOMAIN Append(s, e) = 1..Len(s) + 1
         /\ \A i \in 1..Len(s) : Append(s, e)[i] = s[i]
         /\ Append(s, e)[Len(s) + 1] = e
  OBVIOUS

LEMMA WireTaken ==
  ASSUME NEW s \in Seq(Event), s # <<>>
  PROVE  /\ Head(s) \in Event /\ Tail(s) \in Seq(Event)
         /\ DOMAIN s = 1..Len(s) /\ Len(s) \in Nat \ {0}
         /\ Head(s) = s[1]
         /\ DOMAIN Tail(s) = 1..Len(s) - 1
         /\ \A i \in 1..Len(s) - 1 : Tail(s)[i] = s[i + 1]
  OBVIOUS

LEMMA TornType ==
  ASSUME NEW m \in Event, NEW kind \in TornKinds
  PROVE  Torn(m, kind) \in Event /\ Torn(m, kind).id = m.id /\ Torn(m, kind).kind = kind
  BY DEF Torn, TornKinds, Message, Event

\* What the client may still read is the beginning of what was written, its last
\* message perhaps torn.
LEMMA WireCut ==
  ASSUME NEW s \in Seq(Event), NEW n \in 0..Len(s),
         NEW kind \in TornKinds,
         NEW t, t = SubSeq(s, 1, n) \/ (n > 0 /\ t = [SubSeq(s, 1, n) EXCEPT ![n] = Torn(@, kind)])
  PROVE  /\ t \in Seq(Event)
         /\ DOMAIN t = 1..n /\ DOMAIN s = 1..Len(s) /\ n <= Len(s)
         /\ \A i \in 1..n : /\ t[i].id = s[i].id
                            /\ t[i].kind = s[i].kind \/ (i = n /\ t[i].kind \in TornKinds)
<1> DEFINE b == SubSeq(s, 1, n)
<1>1. b \in Seq(Event) /\ Len(b) = n /\ \A i \in 1..n : b[i] = s[i]
  BY SMT
<1>2. DOMAIN b = 1..n /\ \A i \in 1..n : b[i] \in Event
  BY <1>1
<1>3. CASE t = b
  BY <1>1, <1>2, <1>3
<1>4. CASE n > 0 /\ t = [b EXCEPT ![n] = Torn(@, kind)]
  <2>1. Torn(b[n], kind) \in Event /\ Torn(b[n], kind).id = b[n].id /\ Torn(b[n], kind).kind = kind
    BY <1>2, <1>4, TornType
  <2>2. DOMAIN t = 1..n /\ \A i \in 1..n : t[i] = IF i = n THEN Torn(b[n], kind) ELSE b[i]
    BY <1>2, <1>4
  <2>3. t \in [1..n -> Event]
    <3>1. t = [i \in 1..n |-> t[i]]
      BY <1>4, <2>2, <1>2
    <3>2. \A i \in 1..n : t[i] \in Event
      BY <2>1, <2>2, <1>2
    <3> QED BY <3>1, <3>2
  <2>4. t \in Seq(Event)
    BY <2>3, <1>1, SeqDef
  <2> QED BY <1>1, <2>1, <2>2, <2>4
<1> QED BY <1>3, <1>4
-----------------------------------------------------------------------------
(* Type correctness                                                        *)

LEMMA MessageTypes ==
  /\ Connected \in Event /\ Gap \in Event /\ Nothing \in Event
  /\ Connected.id = 0 /\ Gap.id = 0 /\ Nothing.id = 0
  /\ \A n \in 1..MaxEvents : Entry(n) \in Event /\ Entry(n).id = n /\ Entry(n).kind = "hook"
  BY RelayAssumption DEF Connected, Gap, Nothing, Entry, Message, Event

LEMMA Numbers ==
  ASSUME TypeOK
  PROVE  /\ first \in Nat \ {0} /\ last \in Nat /\ readAfter \in Nat /\ next \in Nat
         /\ upto \in Nat /\ from \in Nat /\ ckpt \in Nat /\ file \in Nat /\ cur.id \in Nat
         /\ wire \in Seq(Event) /\ Len(wire) \in Nat /\ DOMAIN wire = 1..Len(wire)
         /\ \A i \in DOMAIN wire : wire[i].id \in Nat
         /\ last <= MaxEvents /\ MaxEvents \in Nat
<1>1. wire \in Seq(Event) /\ cur \in Event
  BY DEF TypeOK, ClientTypeOK, RelayTypeOK
<1>2. \A i \in DOMAIN wire : wire[i] \in Event
  BY <1>1
<1>3. cur.id \in Nat /\ \A i \in DOMAIN wire : wire[i].id \in Nat
  BY <1>1, <1>2 DEF Event
<1> QED BY <1>1, <1>3, RelayAssumption DEF TypeOK, ClientTypeOK, RelayTypeOK

\* The handler's comparison of IDs is the order of the stream.
LEMMA MissedByRank ==
  ASSUME TypeOK, asked # 0
  PROVE  Missed <=> first <= last /\ asked < first
<1>1. asked \in 1..MaxEvents /\ first \in Nat \ {0} /\ last \in 0..MaxEvents /\ MaxEvents \in Nat
  BY RelayAssumption DEF TypeOK, RelayTypeOK
<1> SUFFICES ASSUME first <= last
             PROVE  CompareRedisStreamIDs(IDOf[asked], IDOf[first]) = -1 <=> asked < first
  BY DEF Missed
<1>2. first \in 1..MaxEvents
  BY <1>1
<1> DEFINE a == IDOf[asked]
           b == IDOf[first]
<1>3. a \in StreamID /\ b \in StreamID
  BY <1>1, <1>2, RelayAssumption
<1>4. a[1] \in Nat /\ a[2] \in Nat /\ b[1] \in Nat /\ b[2] \in Nat
  BY <1>3 DEF StreamID
<1>5. /\ asked < first => a[1] < b[1] \/ (a[1] = b[1] /\ a[2] < b[2])
      /\ first < asked => b[1] < a[1] \/ (b[1] = a[1] /\ b[2] < a[2])
      /\ first = asked => a = b
  BY <1>1, <1>2, RelayAssumption
<1> HIDE DEF a, b
<1>6. CompareRedisStreamIDs(a, b) = -1 <=> asked < first
  BY <1>1, <1>4, <1>5 DEF CompareRedisStreamIDs
<1> QED BY <1>6 DEF a, b

\* What the steps of the environment and the server do to the types.
LEMMA TypesInit == Init => TypeOK /\ Bounds
<1> SUFFICES ASSUME Init PROVE TypeOK /\ Bounds OBVIOUS
<1>1. ClientTypeOK /\ cur.id = 0
  BY ClientAssumption, MessageTypes DEF Init, ClientInit, ClientTypeOK, ClientStates
<1>2. RelayTypeOK
  <2>1. wire \in Seq(Event)
    BY DEF Init, RelayInit
  <2>2. gap \in BOOLEAN
    BY Zenon DEF Init, RelayInit
  <2> QED BY <2>1, <2>2, RelayAssumption DEF Init, RelayInit, RelayTypeOK
<1> QED BY <1>1, <1>2, FaultAssumption DEF Init, ClientInit, RelayInit, TypeOK, Bounds

LEMMA TypesProcess ==
  ASSUME TypeOK, Bounds, Records, Process
  PROVE  TypeOK' /\ Bounds'
<1>1. ClientTypeOK /\ RelayTypeOK /\ (ExecStep \/ OtherStep)
  BY DEF TypeOK, Process
<1>2. ClientTypeOK'
  BY <1>1, ClientStepType
<1>3. cur' = cur /\ ckpt' \in {ckpt, cur.id} /\ file' \in {file, cur.id}
  BY <1>1, ClientStepCases DEF GoesOn, LetsGo, Drops, Settles, Moves, Stops
<1>4. UNCHANGED faults
  BY DEF Process
<1>5. CASE UNCHANGED <<relayVars, conn>>
  BY <1>1, <1>2, <1>3, <1>4, <1>5
  DEF TypeOK, RelayTypeOK, Bounds, relayVars, streamVars
<1>6. CASE ClientHangsUp /\ conn' = "closed"
  BY <1>1, <1>2, <1>3, <1>4, <1>6
  DEF TypeOK, RelayTypeOK, Bounds, ClientHangsUp, streamVars
<1> QED BY <1>5, <1>6 DEF Process

LEMMA TypesTake ==
  ASSUME TypeOK, Bounds, Take
  PROVE  TypeOK' /\ Bounds'
<1>1. wire \in Seq(Event) /\ wire # <<>>
  BY DEF TypeOK, RelayTypeOK, Take
<1>2. /\ cur' = wire[1] /\ wire[1] \in Event
      /\ wire' \in Seq(Event)
      /\ DOMAIN wire = 1..Len(wire) /\ Len(wire) \in Nat \ {0}
      /\ DOMAIN wire' = 1..Len(wire) - 1
      /\ \A i \in 1..Len(wire) - 1 : wire'[i] = wire[i + 1]
  BY <1>1, WireTaken DEF Take, Dispatch
<1>3. ClientTypeOK'
  BY <1>2 DEF TypeOK, ClientTypeOK, Take, Dispatch, ClientStates
<1>4. RelayTypeOK'
  BY <1>2 DEF TypeOK, RelayTypeOK, Take, streamVars
<1>5. Bounds'
  BY <1>2 DEF Bounds, Take, Dispatch, streamVars
<1> QED BY <1>3, <1>4, <1>5 DEF TypeOK, Take

LEMMA TypesConnect ==
  ASSUME TypeOK, Bounds, Connect
  PROVE  TypeOK' /\ Bounds'
<1>1. ClientTypeOK'
  BY DEF TypeOK, ClientTypeOK, Connect, clientVars
<1>2. RelayTypeOK'
  <2>0. wire' \in Seq(Event)
    BY DEF Connect, Request
  <2>1. gap' \in BOOLEAN
    BY Zenon DEF Connect, Request
  <2>2. asked' \in 0..MaxEvents
    BY RelayAssumption DEF TypeOK, RelayTypeOK, ClientTypeOK, Bounds, Connect, Request
  <2> QED BY <2>0, <2>1, <2>2 DEF TypeOK, RelayTypeOK, Connect, Request, streamVars
<1>3. Bounds'
  BY DEF Bounds, Connect, Request, streamVars, clientVars
<1> QED BY <1>1, <1>2, <1>3 DEF TypeOK, Connect

LEMMA TypesEndOfStream ==
  ASSUME TypeOK, Bounds, EndOfStream
  PROVE  TypeOK' /\ Bounds'
  BY DEF TypeOK, ClientTypeOK, RelayTypeOK, Bounds, EndOfStream, clientVars, relayVars, streamVars

LEMMA TypesStartClient ==
  ASSUME TypeOK, Bounds, StartClient
  PROVE  TypeOK' /\ Bounds'
<1>1. ClientTypeOK' /\ cur'.id = 0 /\ ckpt' = file
  BY MessageTypes DEF TypeOK, ClientTypeOK, ClientStates, StartClient, Restart
<1> QED BY <1>1 DEF TypeOK, RelayTypeOK, Bounds, StartClient, Restart, relayVars, streamVars

LEMMA TypesKill ==
  ASSUME TypeOK, Bounds, Kill
  PROVE  TypeOK' /\ Bounds'
<1>1. ClientTypeOK' /\ cur' = cur /\ ckpt' = ckpt /\ file' = file
  BY DEF TypeOK, ClientTypeOK, ClientStates, Kill, Crash
<1>2. RelayTypeOK'
  BY DEF TypeOK, RelayTypeOK, Kill, ClientHangsUp, streamVars
<1> QED BY <1>1, <1>2, FaultAssumption DEF TypeOK, RelayTypeOK, Bounds, Kill, Fault, ClientHangsUp, streamVars

LEMMA CutWire ==
  ASSUME TypeOK, RequestEnds
  PROVE  \E n \in Nat :
           /\ wire' \in Seq(Event)
           /\ DOMAIN wire' = 1..n /\ DOMAIN wire = 1..Len(wire)
           /\ Len(wire) \in Nat /\ n <= Len(wire)
           /\ \A i \in 1..n : /\ wire'[i].id = wire[i].id
                              /\ \/ wire'[i].kind = wire[i].kind
                                 \/ i = n /\ wire'[i].kind \in TornKinds
<1>1. wire \in Seq(Event)
  BY DEF TypeOK, RelayTypeOK
<1>2. PICK n \in 0..Len(wire), kind \in TornKinds :
        \/ wire' = SubSeq(wire, 1, n)
        \/ n > 0 /\ wire' = [SubSeq(wire, 1, n) EXCEPT ![n] = Torn(@, kind)]
  BY DEF RequestEnds, TornKinds
<1>3. Len(wire) \in Nat /\ n \in Nat
  BY <1>1
<1>4. /\ wire' \in Seq(Event)
      /\ DOMAIN wire' = 1..n /\ DOMAIN wire = 1..Len(wire) /\ n <= Len(wire)
      /\ \A i \in 1..n : /\ wire'[i].id = wire[i].id
                         /\ wire'[i].kind = wire[i].kind \/ (i = n /\ wire'[i].kind \in TornKinds)
  BY <1>1, <1>2, WireCut
<1> QED BY <1>3, <1>4

LEMMA TypesCut ==
  ASSUME TypeOK, Bounds, Cut
  PROVE  TypeOK' /\ Bounds'
<1>1. RequestEnds /\ UNCHANGED clientVars /\ Fault /\ UNCHANGED conn
  BY DEF Cut
<1>2. PICK n \in Nat :
        /\ wire' \in Seq(Event)
        /\ DOMAIN wire' = 1..n /\ DOMAIN wire = 1..Len(wire)
        /\ Len(wire) \in Nat /\ n <= Len(wire)
        /\ \A i \in 1..n : /\ wire'[i].id = wire[i].id
                           /\ \/ wire'[i].kind = wire[i].kind
                              \/ i = n /\ wire'[i].kind \in TornKinds
  BY <1>1, CutWire
<1>3. \A i \in DOMAIN wire' : wire'[i].id <= last
  BY <1>2 DEF Bounds
<1>4. ClientTypeOK'
  BY <1>1 DEF TypeOK, ClientTypeOK, clientVars
<1>5. RelayTypeOK'
  BY <1>1, <1>2 DEF TypeOK, RelayTypeOK, RequestEnds, streamVars
<1>6. Bounds'
  BY <1>1, <1>3 DEF Bounds, RequestEnds, streamVars, clientVars
<1> QED BY <1>1, <1>4, <1>5, <1>6, FaultAssumption DEF TypeOK, Fault

LEMMA TypesPost ==
  ASSUME TypeOK, Bounds, Post
  PROVE  TypeOK' /\ Bounds'
<1>1. last' = last + 1 /\ last < MaxEvents /\ first' \in first..last + 1
  BY RelayAssumption DEF TypeOK, RelayTypeOK, Post, Publish
<1>2. UNCHANGED <<hpc, asked, readAfter, gap, next, upto, wire, unsealed, from>>
  BY DEF Post, Publish
<1>3. ClientTypeOK' /\ UNCHANGED clientVars
  BY DEF TypeOK, ClientTypeOK, Post, clientVars
<1>4. RelayTypeOK'
  BY <1>1, <1>2, RelayAssumption DEF TypeOK, RelayTypeOK
<1>5. last' = 0 \/ first' <= last'
  BY <1>1, Numbers DEF Post, Publish
<1>6. Bounds'
  <2>1. UNCHANGED <<ckpt, file, cur>>
    BY <1>3 DEF clientVars
  <2>2. from <= last + 1 /\ readAfter <= last + 1 /\ upto <= last + 1
        /\ ckpt <= last + 1 /\ file <= last + 1 /\ cur.id <= last + 1
    BY Numbers DEF Bounds
  <2>3. \A i \in DOMAIN wire : wire[i].id <= last + 1
    BY Numbers DEF Bounds
  <2> QED BY <1>1, <1>2, <1>5, <2>1, <2>2, <2>3 DEF Bounds
<1> QED BY <1>3, <1>4, <1>6 DEF TypeOK, Post

LEMMA GreetWire ==
  ASSUME wire \in Seq(Event), Greet
  PROVE  /\ wire' \in Seq(Event)
         /\ \A i \in DOMAIN wire' : (i \in DOMAIN wire /\ wire'[i] = wire[i]) \/ wire'[i].id = 0
<1> DEFINE g == <<Connected>> \o (IF gap THEN <<Gap>> ELSE <<>>)
<1>1. g \in Seq(Event) /\ \A i \in 1..Len(g) : g[i].id = 0
  BY MessageTypes
<1>2. wire' = wire \o g
  BY <1>1 DEF Greet
<1> HIDE DEF g
<1> QED BY <1>1, <1>2

LEMMA TypesServe ==
  ASSUME TypeOK, Bounds, Connection, Serve \/ Unencryptable
  PROVE  TypeOK' /\ Bounds'
<1>1. UNCHANGED clientVars /\ UNCHANGED conn /\ UNCHANGED cur /\ UNCHANGED ckpt /\ UNCHANGED file
  BY DEF Serve, Unencryptable, clientVars
<1>2. ClientTypeOK'
  BY <1>1 DEF TypeOK, ClientTypeOK, clientVars
<1>3. faults' \in 0..MaxFaults
  BY FaultAssumption DEF TypeOK, Serve, Unencryptable, Fault
<1>4. wire \in Seq(Event)
  BY DEF TypeOK, RelayTypeOK
<1>5. CASE NewestID
  BY <1>1, <1>2, <1>3, <1>5, RelayAssumption DEF TypeOK, RelayTypeOK, Bounds, NewestID, streamVars
<1>6. CASE OldestID
  <2>0. Missed \in BOOLEAN
    BY Zenon DEF Missed
  <2>1. gap' \in BOOLEAN
    BY <1>6, <2>0, Zenon DEF OldestID
  <2>2. readAfter' \in 0..MaxEvents /\ readAfter' \in Int
    BY <1>6, RelayAssumption DEF OldestID, TypeOK, RelayTypeOK
  <2>3. RelayTypeOK'
    BY <1>6, <2>1, <2>2 DEF TypeOK, RelayTypeOK, OldestID, streamVars
  <2>4. readAfter' <= last
    BY <1>6, RelayAssumption DEF OldestID, TypeOK, RelayTypeOK, Connection, Bounds
  <2>5. Bounds'
    BY <1>1, <1>6, <2>4 DEF Bounds, OldestID, streamVars
  <2> QED BY <1>1, <1>2, <1>3, <2>3, <2>5 DEF TypeOK
<1>7. CASE Greet
  <2>1. /\ wire' \in Seq(Event)
        /\ \A i \in DOMAIN wire' : (i \in DOMAIN wire /\ wire'[i] = wire[i]) \/ wire'[i].id = 0
    BY <1>4, <1>7, GreetWire
  <2>2. \A i \in DOMAIN wire' : wire'[i].id <= last
    BY <2>1 DEF TypeOK, RelayTypeOK, Bounds
  <2>3. Bounds'
    BY <1>1, <1>7, <2>2 DEF Bounds, Greet, streamVars
  <2>4. RelayTypeOK'
    BY <1>7, <2>1 DEF TypeOK, RelayTypeOK, Greet, streamVars
  <2> QED BY <1>1, <1>2, <1>3, <2>3, <2>4 DEF TypeOK
<1>8. CASE Read
  <2>1. /\ first \in Nat \ {0} /\ last \in Nat /\ last <= MaxEvents /\ first <= last
        /\ readAfter \in Nat /\ readAfter < last /\ ReadCount \in Nat \ {0} /\ MaxEvents \in Nat
    BY <1>8, RelayAssumption DEF TypeOK, RelayTypeOK, Bounds, Read
  <2>2. next' \in 1..last
    BY <1>8, <2>1 DEF Read
  <2>3. upto' \in next'..last
    BY <1>8, <2>1, <2>2 DEF Read
  <2>4. next' \in Nat /\ upto' \in 0..MaxEvents /\ upto' <= last /\ next' \in 1..upto'
    BY <2>1, <2>2, <2>3
  <2>5. RelayTypeOK'
    BY <1>8, <2>4 DEF TypeOK, RelayTypeOK, Read, streamVars
  <2>6. Bounds'
    BY <1>1, <1>8, <2>4 DEF Bounds, Read, streamVars
  <2> QED BY <1>1, <1>2, <1>3, <2>5, <2>6 DEF TypeOK
<1>9. CASE WriteEntry
  <2>1. next \in 1..upto /\ upto <= last /\ last <= MaxEvents /\ upto \in Nat /\ last \in Nat
    BY <1>9, RelayAssumption DEF TypeOK, RelayTypeOK, Bounds, WriteEntry
  <2>2. Entry(next) \in Event /\ Entry(next).id = next
    BY <2>1, MessageTypes, RelayAssumption
  <2>3. /\ wire' \in Seq(Event)
        /\ \A i \in DOMAIN wire' : (i \in DOMAIN wire /\ wire'[i] = wire[i]) \/ wire'[i].id = next
    BY <1>4, <1>9, <2>2, WireGrows DEF WriteEntry
  <2>4. \A i \in DOMAIN wire' : wire'[i].id <= last
    BY <2>1, <2>3 DEF Bounds
  <2>5. Bounds'
    BY <1>1, <1>9, <2>1, <2>4 DEF Bounds, WriteEntry, AfterEntry, streamVars
  <2>6. next' \in Nat /\ readAfter' \in 0..MaxEvents
    BY <1>9, <2>1, RelayAssumption DEF WriteEntry
  <2>7. RelayTypeOK'
    BY <1>9, <2>3, <2>6 DEF TypeOK, RelayTypeOK, WriteEntry, AfterEntry, streamVars
  <2> QED BY <1>1, <1>2, <1>3, <2>5, <2>7 DEF TypeOK
<1>10. CASE SkipEntry
  <2>1. next \in 1..upto /\ upto <= last /\ last <= MaxEvents /\ upto \in Nat /\ last \in Nat
    BY <1>10, RelayAssumption DEF TypeOK, RelayTypeOK, Bounds, SkipEntry
  <2>2. next \in 1..MaxEvents
    BY <2>1, RelayAssumption
  <2> QED BY <1>1, <1>2, <1>3, <1>10, <2>1, <2>2
        DEF TypeOK, RelayTypeOK, Bounds, SkipEntry, AfterEntry, streamVars
<1> QED BY <1>5, <1>6, <1>7, <1>8, <1>9, <1>10 DEF Serve, Unencryptable
-----------------------------------------------------------------------------
(* The invariant is kept                                                   *)

\* No entry is on its way that was not before.
NothingNew == \A n \in Nat \ {0} : OnItsWay(n)' => OnItsWay(n)

\* What was covered or on its way is so still.
NothingForgotten ==
  \A n \in Nat \ {0} : /\ Covered(n) => Covered(n)'
                       /\ OnItsWay(n) => OnItsWay(n)' \/ Covered(n)'

LEMMA OnItsWayInStream ==
  ASSUME TypeOK, Bounds, NEW n \in Nat, OnItsWay(n)
  PROVE  n <= last
  BY Numbers DEF Bounds, OnItsWay

LEMMA SafeSteady ==
  ASSUME NothingForgotten, NEW m \in Nat, SafeUpTo(m)
  PROVE  \A n \in 1..m : Covered(n)' \/ OnItsWay(n)'
<1> TAKE n \in 1..m
<1>1. n \in Nat \ {0} /\ (Covered(n) \/ OnItsWay(n))
  BY DEF SafeUpTo
<1> QED BY <1>1 DEF NothingForgotten

LEMMA WindowSteady ==
  ASSUME TypeOK, Bounds, Window, NothingNew, NothingForgotten
  PROVE  Window'
<1> SUFFICES ASSUME NEW m \in 1..last', OnItsWay(m)', NEW n \in 1..m
             PROVE  Covered(n)' \/ OnItsWay(n)'
  BY DEF Window, SafeUpTo
<1>1. m \in Nat \ {0}
  OBVIOUS
<1>2. OnItsWay(m)
  BY <1>1 DEF NothingNew
<1>3. m \in 1..last
  BY <1>1, <1>2, OnItsWayInStream, Numbers
<1>4. SafeUpTo(m)
  BY <1>2, <1>3 DEF Window
<1> QED BY <1>1, <1>4, SafeSteady

LEMMA BehindSteady ==
  ASSUME TypeOK, Behind, NothingForgotten, ckpt' = ckpt
  PROVE  Behind'
<1> SUFFICES ASSUME NEW n \in 1..ckpt
             PROVE  Covered(n)'
  BY DEF Behind
<1>1. n \in Nat \ {0} /\ Covered(n)
  BY Numbers DEF Behind
<1> QED BY <1>1 DEF NothingForgotten

LEMMA PositionSteady ==
  ASSUME TypeOK, Bounds, Position, NothingNew, NothingForgotten,
         hpc' = hpc, readAfter' = readAfter, ckpt' = ckpt, first' \in Nat, first <= first'
  PROVE  Position'
<1> SUFFICES ASSUME hpc \in {"greet", "read", "write"}
             PROVE  /\ ckpt' <= readAfter' \/ ckpt' < first'
                    /\ \A n \in 1..last' : OnItsWay(n)' => n <= readAfter'
                    /\ SafeUpTo(readAfter)'
  BY DEF Position
<1>1. ckpt' <= readAfter' \/ ckpt' < first'
  BY Numbers DEF Position
<1>2. ASSUME NEW n \in 1..last', OnItsWay(n)'
      PROVE  n <= readAfter'
  <2>1. n \in Nat \ {0} /\ OnItsWay(n)
    BY <1>2 DEF NothingNew
  <2>2. n \in 1..last
    BY <2>1, OnItsWayInStream, Numbers
  <2> QED BY <2>1, <2>2 DEF Position
<1>3. SafeUpTo(readAfter)'
  <2>1. SafeUpTo(readAfter) /\ readAfter \in Nat
    BY Numbers DEF Position
  <2>2. \A m \in Nat : SafeUpTo(m) => \A n \in 1..m : Covered(n)' \/ OnItsWay(n)'
    BY SafeSteady
  <2>3. \A n \in 1..readAfter : Covered(n)' \/ OnItsWay(n)'
    BY <2>1, <2>2
  <2> QED BY <2>3 DEF SafeUpTo
<1> QED BY <1>1, <1>2, <1>3

LEMMA BatchSteady ==
  ASSUME TypeOK, Batch, NothingForgotten,
         hpc' = hpc, readAfter' = readAfter, next' = next, ckpt' = ckpt
  PROVE  Batch'
<1> SUFFICES ASSUME hpc = "write"
             PROVE  next' > readAfter' /\ next' > ckpt' /\ SafeUpTo(next - 1)'
  BY DEF Batch
<1>1. next > readAfter /\ next > ckpt /\ SafeUpTo(next - 1) /\ next - 1 \in Nat
  BY Numbers DEF Batch
<1>2. \A m \in Nat : SafeUpTo(m) => \A n \in 1..m : Covered(n)' \/ OnItsWay(n)'
  BY SafeSteady
<1>3. \A n \in 1..next - 1 : Covered(n)' \/ OnItsWay(n)'
  BY <1>1, <1>2
<1> QED BY <1>1, <1>3 DEF SafeUpTo

\* A client that goes on, without moving its checkpoint.
LEMMA KeptByClient ==
  ASSUME DeliveryInv, GoesOn \/ LetsGo \/ Settles, UNCHANGED <<relayVars, conn, opts>>
  PROVE  (Connection /\ Records /\ StreamOrder /\ Window /\ Behind /\ Position /\ Batch)'
<1> USE DEF DeliveryInv
<1>0. UNCHANGED <<first, last, hpc, asked, readAfter, next, wire, unsealed, from, conn, opts,
                  cur, ckpt, file>>
  BY DEF GoesOn, LetsGo, Settles, relayVars, streamVars
<1>1. /\ Busy /\ (Durable => Busy') /\ cpc' \notin {"exited", "down"} /\ settled \subseteq settled'
      /\ Durable' <=> Durable
      /\ cpc' \in {"checkpointing", "rewriting"} => Durable /\ cur.id \in settled'
  BY DEF GoesOn, LetsGo, Settles, Busy, Durable, Records
<1>2. NothingForgotten
  BY <1>0, <1>1 DEF NothingForgotten, Covered, OnItsWay, Durable
<1>3. NothingNew
  BY <1>0, <1>1 DEF NothingNew, OnItsWay
<1>4. Connection'
  BY <1>0, <1>1 DEF Connection, Busy
<1>5. Records'
  BY <1>0, <1>1 DEF Records
<1>6. StreamOrder'
  BY <1>0, <1>1 DEF StreamOrder
<1>7. Window' /\ Behind' /\ Position' /\ Batch'
  BY <1>0, <1>2, <1>3, WindowSteady, BehindSteady, PositionSteady, BatchSteady, Numbers
<1> QED BY <1>4, <1>5, <1>6, <1>7

\* The checkpoint moves onto a settled event: below it nothing is left.
LEMMA KeptByCheckpoint ==
  ASSUME DeliveryInv, Moves, UNCHANGED <<relayVars, conn, opts>>
  PROVE  (Connection /\ Records /\ StreamOrder /\ Window /\ Behind /\ Position /\ Batch)'
<1> USE DEF DeliveryInv
<1>0. UNCHANGED <<first, last, hpc, asked, readAfter, next, wire, unsealed, from, conn, opts,
                  cur, settled>>
  BY DEF Moves, relayVars, streamVars
<1>1. Busy /\ Durable /\ cur.id \in settled /\ ~Busy' /\ ckpt' = cur.id
  BY DEF Moves, Busy, Records
<1>2. cur.id \in 1..last /\ OnItsWay(cur.id)
  BY <1>1, Numbers DEF Durable, Bounds, OnItsWay
<1>3. NothingForgotten
  BY <1>0, <1>1 DEF NothingForgotten, Covered, OnItsWay
<1>4. NothingNew
  BY <1>0, <1>1 DEF NothingNew, OnItsWay
<1>5. Connection'
  BY <1>0, <1>1 DEF Connection, Busy, Moves
<1>6. Records'
  BY <1>0, <1>1 DEF Records, Moves
<1>7. StreamOrder'
  BY <1>0, <1>1 DEF StreamOrder
<1>8. Behind'
  <2> SUFFICES ASSUME NEW n \in 1..cur.id
               PROVE  Covered(n)'
    BY <1>1 DEF Behind
  <2>1. n \in Nat \ {0} /\ n <= cur.id
    BY Numbers
  <2>2. Covered(n) \/ OnItsWay(n)
    BY <1>2 DEF Window, SafeUpTo
  <2>3. CASE \E i \in DOMAIN wire : wire[i].id = n
    BY <1>1, <2>1, <2>3, Numbers DEF StreamOrder
  <2>4. CASE cur.id = n
    BY <1>0, <1>1, <2>4 DEF Covered
  <2> QED BY <1>3, <2>1, <2>2, <2>3, <2>4 DEF NothingForgotten, OnItsWay
<1>9. Window'
  BY <1>3, <1>4, WindowSteady
<1>10. Position'
  <2> SUFFICES ASSUME hpc \in {"greet", "read", "write"}
               PROVE  /\ ckpt' <= readAfter
                      /\ \A n \in 1..last : OnItsWay(n)' => n <= readAfter
                      /\ \A n \in 1..readAfter : Covered(n)' \/ OnItsWay(n)'
    BY <1>0 DEF Position, SafeUpTo
  <2>1. ckpt' <= readAfter
    BY <1>1, <1>2 DEF Position
  <2>2. \A n \in 1..last : OnItsWay(n)' => n <= readAfter
    BY <1>4, Numbers DEF Position, NothingNew
  <2>3. SafeUpTo(readAfter) /\ readAfter \in Nat
    BY Numbers DEF Position
  <2>4. \A m \in Nat : SafeUpTo(m) => \A n \in 1..m : Covered(n)' \/ OnItsWay(n)'
    BY <1>3, SafeSteady
  <2> QED BY <2>1, <2>2, <2>3, <2>4
<1>11. Batch'
  <2> SUFFICES ASSUME hpc = "write"
               PROVE  next > readAfter /\ next > ckpt' /\ \A n \in 1..next - 1 : Covered(n)' \/ OnItsWay(n)'
    BY <1>0 DEF Batch, SafeUpTo
  <2>1. next > readAfter /\ SafeUpTo(next - 1) /\ next - 1 \in Nat /\ cur.id <= readAfter
    BY <1>2, Numbers DEF Batch, Position
  <2>2. \A m \in Nat : SafeUpTo(m) => \A n \in 1..m : Covered(n)' \/ OnItsWay(n)'
    BY <1>3, SafeSteady
  <2> QED BY <1>1, <2>1, <2>2, Numbers
<1> QED BY <1>5, <1>6, <1>7, <1>8, <1>9, <1>10, <1>11

\* A client that exits or is killed leaves its checkpoint and closes the connection.
LEMMA KeptByStop ==
  ASSUME DeliveryInv, Stops, ClientHangsUp, conn' = "closed", opts' = opts
  PROVE  (Connection /\ Records /\ StreamOrder /\ Window /\ Behind /\ Position /\ Batch)'
<1> USE DEF DeliveryInv
<1>1. /\ UNCHANGED <<first, last, unsealed, from, cur, ckpt, file, settled>>
      /\ ~Busy' /\ hpc' = "none" /\ wire' = <<>> /\ cpc' \in {"exited", "down"}
  BY DEF Stops, ClientHangsUp, streamVars, Busy
<1>2. \A n \in Nat : ~OnItsWay(n)'
  BY <1>1 DEF OnItsWay
<1>3. Connection' /\ Records' /\ StreamOrder' /\ Position' /\ Batch'
  BY <1>1 DEF Connection, Records, StreamOrder, Position, Batch, Busy
<1>4. Window'
  BY <1>1, <1>2, Numbers DEF Window
<1>5. Behind'
  BY <1>1 DEF Behind, Covered
<1> QED BY <1>3, <1>4, <1>5

\* After a webhook of which the data is missing nothing more is on its way.
LEMMA KeptByDrop ==
  ASSUME DeliveryInv, Drops, UNCHANGED <<relayVars, conn, opts>>
  PROVE  (Connection /\ Records /\ StreamOrder /\ Window /\ Behind /\ Position /\ Batch)'
<1> USE DEF DeliveryInv
<1>1. /\ UNCHANGED <<first, last, unsealed, from, cur, ckpt, file, settled, hpc, wire, conn, opts>>
      /\ ~Busy' /\ cpc' = "idle"
  BY DEF Drops, relayVars, streamVars, Busy
<1>2. hpc = "none" /\ wire = <<>>
  BY DEF Drops, TornLast
<1>3. \A n \in Nat : ~OnItsWay(n)'
  BY <1>1, <1>2 DEF OnItsWay
<1>4. Connection' /\ Records' /\ StreamOrder' /\ Position' /\ Batch'
  BY <1>1, <1>2 DEF Connection, Records, StreamOrder, Position, Batch, Busy
<1>5. Window'
  BY <1>1, <1>3, Numbers DEF Window
<1>6. Behind'
  BY <1>1 DEF Behind, Covered
<1> QED BY <1>4, <1>5, <1>6

LEMMA KeptByProcess ==
  ASSUME DeliveryInv, Process
  PROVE  (Connection /\ Records /\ StreamOrder /\ Window /\ Behind /\ Position /\ Batch)'
<1>1. /\ opts' = opts
      /\ GoesOn \/ LetsGo \/ Drops \/ Settles \/ Moves \/ (cpc' = "exited" /\ Stops)
  BY ClientStepCases DEF DeliveryInv, TypeOK, Process
<1>2. CASE GoesOn \/ LetsGo \/ Settles
  <2>1. UNCHANGED <<relayVars, conn, opts>>
    BY <1>1, <1>2 DEF GoesOn, LetsGo, Settles, Process
  <2> QED BY <1>2, <2>1, KeptByClient
<1>3. CASE Moves
  <2>1. UNCHANGED <<relayVars, conn, opts>>
    BY <1>1, <1>3 DEF Moves, Process
  <2> QED BY <1>3, <2>1, KeptByCheckpoint
<1>4. CASE cpc' = "exited" /\ Stops
  BY <1>1, <1>4, KeptByStop DEF Process
<1>5. CASE Drops
  <2>1. UNCHANGED <<relayVars, conn, opts>>
    BY <1>1, <1>5 DEF Drops, Process
  <2> QED BY <1>5, <2>1, KeptByDrop
<1> QED BY <1>1, <1>2, <1>3, <1>4, <1>5

LEMMA KeptByKill ==
  ASSUME DeliveryInv, Kill
  PROVE  (Connection /\ Records /\ StreamOrder /\ Window /\ Behind /\ Position /\ Batch)'
<1>1. Stops /\ ClientHangsUp /\ conn' = "closed" /\ opts' = opts
  BY DEF Kill, Crash, Stops
<1> QED BY <1>1, KeptByStop

\* The first event on the wire becomes the event in hand.
LEMMA KeptByTake ==
  ASSUME DeliveryInv, Take
  PROVE  (Connection /\ Records /\ StreamOrder /\ Window /\ Behind /\ Position /\ Batch)'
<1> USE DEF DeliveryInv
<1>1. /\ cur' = wire[1] /\ DOMAIN wire = 1..Len(wire) /\ Len(wire) \in Nat \ {0}
      /\ DOMAIN wire' = 1..Len(wire) - 1
      /\ \A i \in 1..Len(wire) - 1 : wire'[i] = wire[i + 1]
  BY Numbers, WireTaken DEF Take, Dispatch
<1>2. /\ UNCHANGED <<first, last, hpc, asked, readAfter, next, unsealed, from, conn, opts,
                     ckpt, file, settled>>
      /\ cpc = "idle" /\ cpc' = "processing" /\ conn = "open" /\ wire # <<>>
  BY DEF Take, Dispatch, streamVars
<1>3. ~Busy /\ Busy'
  BY <1>2 DEF Busy
<1>4. \A n \in Nat \ {0} : OnItsWay(n)' <=> OnItsWay(n)
  <2> TAKE n \in Nat \ {0}
  <2>1. ASSUME OnItsWay(n) PROVE OnItsWay(n)'
    <3>1. PICK i \in 1..Len(wire) : wire[i].id = n
      BY <1>1, <1>3, <2>1 DEF OnItsWay
    <3>2. CASE i = 1
      BY <1>1, <1>3, <3>1, <3>2 DEF OnItsWay
    <3>3. CASE i # 1
      <4>1. i - 1 \in 1..Len(wire) - 1 /\ (i - 1) + 1 = i
        BY <1>1, <3>3
      <4>2. i - 1 \in DOMAIN wire' /\ wire'[i - 1] = wire[i]
        BY <1>1, <4>1
      <4> QED BY <3>1, <4>2 DEF OnItsWay
    <3> QED BY <3>2, <3>3
  <2>2. ASSUME OnItsWay(n)' PROVE OnItsWay(n)
    <3>1. CASE cur'.id = n
      BY <1>1, <3>1 DEF OnItsWay
    <3>2. CASE \E i \in DOMAIN wire' : wire'[i].id = n
      <4>1. PICK i \in 1..Len(wire) - 1 : wire[i + 1].id = n
        BY <1>1, <3>2
      <4> QED BY <1>1, <4>1 DEF OnItsWay
    <3> QED BY <2>2, <3>1, <3>2 DEF OnItsWay
  <2> QED BY <2>1, <2>2
<1>5. NothingNew /\ NothingForgotten
  <2>1. \A n \in Nat \ {0} : Covered(n)' <=> Covered(n)
    BY <1>2 DEF Covered
  <2> QED BY <1>4, <2>1 DEF NothingNew, NothingForgotten
<1>6. Connection'
  BY <1>2 DEF Connection
<1>7. Records'
  <2>1. /\ file' = (IF opts'.stateFile THEN ckpt' ELSE 0)
        /\ cpc' \notin {"checkpointing", "rewriting"}
    BY <1>2 DEF Records
  <2>2. \A i \in DOMAIN wire' : wire'[i].id # 0 => wire'[i].kind # "gap"
    <3> TAKE i \in DOMAIN wire'
    <3>1. i + 1 \in DOMAIN wire /\ wire'[i] = wire[i + 1]
      BY <1>1
    <3> QED BY <3>1 DEF Records
  <2>3. cur'.id # 0 => cur'.kind # "gap"
    BY <1>1 DEF Records
  <2>4. Busy' /\ Durable' => cur'.kind # "gap"
    BY <2>3 DEF Durable
  <2> QED BY <2>1, <2>2, <2>4 DEF Records
<1>8. StreamOrder'
  <2>1. Durable' => cur'.id > ckpt
    BY <1>1 DEF StreamOrder, Durable
  <2>2. ASSUME NEW i \in DOMAIN wire', wire'[i].id # 0
        PROVE  wire'[i].id > ckpt /\ cur'.id < wire'[i].id /\ \A j \in 1..i - 1 : wire'[j].id < wire'[i].id
    <3>1. i + 1 \in DOMAIN wire /\ wire'[i] = wire[i + 1] /\ 1 \in 1..(i + 1) - 1 /\ i \in Nat
      BY <1>1
    <3>2. /\ wire[i + 1].id > ckpt
          /\ \A j \in 1..(i + 1) - 1 : wire[j].id < wire[i + 1].id
      BY <2>2, <3>1 DEF StreamOrder
    <3>3. ASSUME NEW j \in 1..i - 1
          PROVE  wire'[j].id < wire'[i].id
      <4>1. j + 1 \in 1..(i + 1) - 1 /\ j \in 1..Len(wire) - 1
        BY <1>1, <3>1
      <4> QED BY <1>1, <3>1, <3>2, <4>1
    <3> QED BY <1>1, <3>1, <3>2, <3>3
  <2> QED BY <1>2, <1>3, <2>1, <2>2 DEF StreamOrder
<1>9. Window' /\ Behind' /\ Position' /\ Batch'
  BY <1>2, <1>5, WindowSteady, BehindSteady, PositionSteady, BatchSteady, Numbers
<1> QED BY <1>6, <1>7, <1>8, <1>9

LEMMA KeptByConnect ==
  ASSUME DeliveryInv, Connect
  PROVE  (Connection /\ Records /\ StreamOrder /\ Window /\ Behind /\ Position /\ Batch)'
<1> USE DEF DeliveryInv
<1>1. /\ UNCHANGED <<first, last, unsealed, from, clientVars>>
      /\ wire = <<>> /\ wire' = <<>> /\ cpc = "idle" /\ conn' = "open"
      /\ hpc' = "start" /\ asked' = ckpt
  BY DEF Connect, Request, streamVars, Connection
<1>2. UNCHANGED <<opts, cpc, cur, ckpt, file, settled>>
  BY <1>1 DEF clientVars
<1>3. NothingNew /\ NothingForgotten
  BY <1>1, <1>2 DEF NothingNew, NothingForgotten, OnItsWay, Covered, Busy
<1>4. Connection'
  BY <1>1, <1>2 DEF Connection
<1>5. Records'
  BY <1>1, <1>2 DEF Records, Busy, Durable, TornKinds
<1>6. StreamOrder'
  BY <1>1, <1>2 DEF StreamOrder, Busy, Durable
<1>7. Window' /\ Behind'
  BY <1>2, <1>3, WindowSteady, BehindSteady
<1> QED BY <1>1, <1>4, <1>5, <1>6, <1>7 DEF Position, Batch

LEMMA KeptByEndOfStream ==
  ASSUME DeliveryInv, EndOfStream
  PROVE  (Connection /\ Records /\ StreamOrder /\ Window /\ Behind /\ Position /\ Batch)'
<1> USE DEF DeliveryInv
<1>1. /\ UNCHANGED <<opts, cpc, cur, ckpt, file, settled>>
      /\ UNCHANGED <<first, last, hpc, asked, readAfter, next, wire, unsealed, from>>
      /\ hpc = "none" /\ wire = <<>> /\ conn' = "closed"
  BY DEF EndOfStream, clientVars, relayVars, streamVars
<1>2. NothingNew /\ NothingForgotten
  BY <1>1 DEF NothingNew, NothingForgotten, OnItsWay, Covered, Busy
<1>3. Connection' /\ Position' /\ Batch'
  BY <1>1 DEF Connection, Position, Batch
<1>4. Records'
  BY <1>1 DEF Records, Busy, Durable
<1>5. StreamOrder'
  BY <1>1 DEF StreamOrder, Busy, Durable
<1>6. Window' /\ Behind'
  BY <1>1, <1>2, WindowSteady, BehindSteady
<1> QED BY <1>3, <1>4, <1>5, <1>6

\* A new client knows the state file, which is never ahead of the old one's memory.
LEMMA KeptByStartClient ==
  ASSUME DeliveryInv, StartClient
  PROVE  (Connection /\ Records /\ StreamOrder /\ Window /\ Behind /\ Position /\ Batch)'
<1> USE DEF DeliveryInv
<1>1. /\ UNCHANGED <<opts, file, settled, conn>>
      /\ UNCHANGED <<first, last, hpc, asked, readAfter, next, wire, unsealed, from>>
      /\ cpc \in {"exited", "down"} /\ cpc' = "idle" /\ ckpt' = file
  BY DEF StartClient, Restart, relayVars, streamVars
<1>2. hpc = "none" /\ wire = <<>> /\ ~Busy /\ ~Busy' /\ conn = "closed"
  BY <1>1 DEF Connection, Busy
<1>3. ckpt' <= ckpt /\ ckpt' \in Nat
  BY <1>1, Numbers DEF Records
<1>4. NothingNew /\ NothingForgotten
  BY <1>1, <1>2 DEF NothingNew, NothingForgotten, OnItsWay, Covered
<1>5. Connection' /\ Position' /\ Batch'
  BY <1>1, <1>2 DEF Connection, Position, Batch
<1>6. Records'
  BY <1>1, <1>2 DEF Records
<1>7. StreamOrder'
  BY <1>1, <1>2 DEF StreamOrder
<1>8. Window'
  BY <1>4, WindowSteady
<1>9. Behind'
  <2> SUFFICES ASSUME NEW n \in 1..ckpt' PROVE Covered(n)'
    BY DEF Behind
  <2>1. n \in Nat \ {0} /\ n \in 1..ckpt
    BY <1>3, Numbers
  <2> QED BY <1>1, <2>1 DEF Behind, Covered
<1> QED BY <1>5, <1>6, <1>7, <1>8, <1>9

\* What is cut off is above all that is kept, because the wire is in order.
LEMMA KeptByCut ==
  ASSUME DeliveryInv, Cut
  PROVE  (Connection /\ Records /\ StreamOrder /\ Window /\ Behind /\ Position /\ Batch)'
<1> USE DEF DeliveryInv
<1>1. /\ UNCHANGED <<opts, cpc, cur, ckpt, file, settled, conn>>
      /\ UNCHANGED <<first, last, asked, readAfter, next, unsealed, from>>
      /\ hpc # "none" /\ hpc' = "none" /\ RequestEnds
  BY DEF Cut, RequestEnds, clientVars, streamVars
<1>2. PICK k \in Nat :
        /\ wire' \in Seq(Event)
        /\ DOMAIN wire' = 1..k /\ DOMAIN wire = 1..Len(wire)
        /\ Len(wire) \in Nat /\ k <= Len(wire)
        /\ \A i \in 1..k : /\ wire'[i].id = wire[i].id
                           /\ \/ wire'[i].kind = wire[i].kind
                              \/ i = k /\ wire'[i].kind \in TornKinds
  BY <1>1, CutWire
<1>3. conn = "open"
  BY <1>1 DEF Connection, TypeOK
<1>4. Connection'
  BY <1>1, <1>3 DEF Connection
<1>5. Records'
  BY <1>1, <1>2 DEF Records, Busy, Durable, TornKinds
<1>6. StreamOrder'
  <2>1. Busy' /\ Durable' => cur'.id > ckpt'
    BY <1>1 DEF StreamOrder, Busy, Durable
  <2>2. ASSUME NEW i \in DOMAIN wire', wire'[i].id # 0
        PROVE  /\ wire'[i].id > ckpt
               /\ Busy => cur.id < wire'[i].id
               /\ \A j \in 1..i - 1 : wire'[j].id < wire'[i].id
    <3>1. i \in DOMAIN wire /\ wire'[i].id = wire[i].id
      BY <1>2
    <3>2. \A j \in 1..i - 1 : wire'[j].id = wire[j].id
      BY <1>2
    <3> QED BY <2>2, <3>1, <3>2 DEF StreamOrder
  <2> QED BY <1>1, <2>1, <2>2 DEF StreamOrder, Busy
<1>7. Behind'
  BY <1>1 DEF Behind, Covered
<1>8. Window'
  <2> SUFFICES ASSUME NEW m \in 1..last, OnItsWay(m)', NEW n \in 1..m
               PROVE  Covered(n)' \/ OnItsWay(n)'
    BY <1>1 DEF Window, SafeUpTo
  <2>1. m \in Nat \ {0} /\ n \in Nat \ {0} /\ n <= m
    OBVIOUS
  <2>2. (Busy /\ cur.id = m) \/ \E i \in 1..k : wire[i].id = m
    BY <1>1, <1>2 DEF OnItsWay, Busy
  <2>3. OnItsWay(m)
    BY <1>2, <2>2 DEF OnItsWay
  <2>4. Covered(n) \/ OnItsWay(n)
    BY <2>3 DEF Window, SafeUpTo
  <2>5. CASE Covered(n)
    BY <1>1, <2>5 DEF Covered
  <2>6. CASE Busy /\ cur.id = n
    BY <1>1, <2>6 DEF OnItsWay, Busy
  <2>7. ASSUME NEW j \in DOMAIN wire, wire[j].id = n
        PROVE  OnItsWay(n)'
    <3>1. j \in 1..k
      <4>1. CASE Busy /\ cur.id = m
        BY <2>1, <2>7, <4>1, Numbers DEF StreamOrder
      <4>2. ASSUME NEW i \in 1..k, wire[i].id = m, ~(j \in 1..k)
            PROVE  FALSE
        <5>1. i \in 1..j - 1 /\ i \in DOMAIN wire
          BY <1>2, <4>2
        <5>2. wire[i].id < wire[j].id
          BY <2>1, <2>7, <5>1 DEF StreamOrder
        <5> QED BY <2>1, <2>7, <4>2, <5>2
      <4> QED BY <2>2, <4>1, <4>2
    <3> QED BY <1>2, <2>7, <3>1 DEF OnItsWay
  <2> QED BY <2>4, <2>5, <2>6, <2>7 DEF OnItsWay
<1> QED BY <1>1, <1>4, <1>5, <1>6, <1>7, <1>8 DEF Position, Batch

LEMMA KeptByPost ==
  ASSUME DeliveryInv, Post
  PROVE  (Connection /\ Records /\ StreamOrder /\ Window /\ Behind /\ Position /\ Batch)'
<1> USE DEF DeliveryInv
<1>1. /\ UNCHANGED <<opts, cpc, cur, ckpt, file, settled, conn>>
      /\ UNCHANGED <<hpc, asked, readAfter, next, wire, unsealed, from>>
      /\ first' \in Nat /\ first <= first'
  BY Numbers DEF Post, Publish, clientVars
<1>2. NothingNew /\ NothingForgotten
  BY <1>1, Numbers DEF NothingNew, NothingForgotten, OnItsWay, Covered, Busy
<1>3. Connection'
  BY <1>1 DEF Connection
<1>4. Records'
  BY <1>1 DEF Records, Busy, Durable
<1>5. StreamOrder'
  BY <1>1 DEF StreamOrder, Busy, Durable
<1>6. Window' /\ Behind' /\ Position' /\ Batch'
  BY <1>1, <1>2, WindowSteady, BehindSteady, PositionSteady, BatchSteady
<1> QED BY <1>3, <1>4, <1>5, <1>6

\* The handler goes on, or skips an entry it cannot encrypt.
LEMMA KeptByServe ==
  ASSUME DeliveryInv, Serve \/ Unencryptable
  PROVE  (Connection /\ Records /\ StreamOrder /\ Window /\ Behind /\ Position /\ Batch)'
<1> USE DEF DeliveryInv
<1>1. UNCHANGED <<opts, cpc, cur, ckpt, file, settled, conn>>
  BY DEF Serve, Unencryptable, clientVars
<1>2. hpc # "none" /\ UNCHANGED <<first, last, asked>>
  BY DEF Serve, Unencryptable, NewestID, OldestID, Greet, Read, WriteEntry, SkipEntry, streamVars
<1>3. conn = "open"
  BY <1>2 DEF Connection, TypeOK
<1>4. CASE NewestID
  <2>1. hpc = "start" /\ asked = 0 /\ hpc' = "greet" /\ readAfter' = last /\ from' = last
        /\ UNCHANGED <<wire, unsealed, next>>
    BY <1>4 DEF NewestID
  <2>2. cpc = "idle" /\ wire = <<>> /\ ckpt = 0
    BY <2>1 DEF Connection
  <2>3. \A n \in Nat : ~OnItsWay(n) /\ ~OnItsWay(n)'
    BY <1>1, <2>1, <2>2 DEF OnItsWay, Busy
  <2>4. NothingNew /\ NothingForgotten
    BY <1>1, <1>2, <2>1, <2>3, Numbers DEF NothingNew, NothingForgotten, Covered, Bounds
  <2>5. Connection' /\ Batch'
    BY <1>1, <1>2, <2>1, <2>2, <1>3 DEF Connection, Batch
  <2>6. Records' /\ StreamOrder'
    BY <1>1, <2>1 DEF Records, StreamOrder, Busy, Durable
  <2>7. Window' /\ Behind'
    BY <1>1, <2>4, WindowSteady, BehindSteady
  <2>8. Position'
    BY <1>1, <1>2, <2>1, <2>2, <2>3, Numbers DEF Position, SafeUpTo, Covered
  <2> QED BY <2>5, <2>6, <2>7, <2>8
<1>5. CASE OldestID
  <2>1. hpc = "start" /\ hpc' = "greet" /\ UNCHANGED <<wire, unsealed, next, from>>
        /\ (readAfter' = asked \/ (readAfter' = 0 /\ asked < first))
    BY <1>5, MissedByRank DEF OldestID
  <2>2. cpc = "idle" /\ wire = <<>> /\ asked = ckpt
    BY <2>1 DEF Connection
  <2>3. \A n \in Nat : ~OnItsWay(n) /\ ~OnItsWay(n)'
    BY <1>1, <2>1, <2>2 DEF OnItsWay, Busy
  <2>4. NothingNew /\ NothingForgotten
    BY <1>1, <1>2, <2>1, <2>3 DEF NothingNew, NothingForgotten, Covered
  <2>5. Connection' /\ Batch'
    BY <1>1, <1>2, <2>1, <1>3 DEF Connection, Batch
  <2>6. Records' /\ StreamOrder'
    BY <1>1, <2>1 DEF Records, StreamOrder, Busy, Durable
  <2>7. Window' /\ Behind'
    BY <1>1, <2>4, WindowSteady, BehindSteady
  <2>8. \A n \in 1..readAfter' : Covered(n)'
    BY <1>1, <2>1, <2>2, <2>7 DEF Behind
  <2>9. Position'
    BY <1>1, <1>2, <2>1, <2>2, <2>3, <2>8, Numbers DEF Position, SafeUpTo
  <2> QED BY <2>5, <2>6, <2>7, <2>9
<1>6. CASE Greet
  <2>1. hpc = "greet" /\ hpc' = "read" /\ UNCHANGED <<unsealed, next, from, readAfter>>
    BY <1>6 DEF Greet
  <2>2. cpc = "idle" /\ wire = <<>>
    BY <2>1 DEF Connection
  <2>3. \A i \in DOMAIN wire' : wire'[i].id = 0
    BY <1>6, <2>2, GreetWire, Numbers
  <2>4. \A n \in Nat \ {0} : ~OnItsWay(n) /\ ~OnItsWay(n)'
    BY <1>1, <2>2, <2>3 DEF OnItsWay, Busy
  <2>5. NothingNew /\ NothingForgotten
    BY <1>1, <1>2, <2>1, <2>4 DEF NothingNew, NothingForgotten, Covered
  <2>6. Connection' /\ Batch'
    BY <1>1, <2>1, <1>3 DEF Connection, Batch
  <2>7. Records' /\ StreamOrder'
    BY <1>1, <2>1, <2>2, <2>3 DEF Records, StreamOrder, Busy, Durable
  <2>8. Window' /\ Behind'
    BY <1>1, <2>5, WindowSteady, BehindSteady
  <2>9. SafeUpTo(readAfter) /\ readAfter \in Nat /\ (ckpt <= readAfter \/ ckpt < first)
    BY <2>1, Numbers DEF Position
  <2>10. \A m \in Nat : SafeUpTo(m) => \A n \in 1..m : Covered(n)' \/ OnItsWay(n)'
    BY <2>5, SafeSteady
  <2>11. \A n \in 1..last' : ~OnItsWay(n)'
    BY <1>2, <2>4, Numbers
  <2>12. SafeUpTo(readAfter)'
    BY <2>1, <2>9, <2>10 DEF SafeUpTo
  <2>13. Position'
    BY <1>1, <1>2, <2>1, <2>9, <2>11, <2>12 DEF Position
  <2> QED BY <2>6, <2>7, <2>8, <2>13
<1>7. CASE Read
  <2>1. /\ hpc = "read" /\ hpc' = "write" /\ UNCHANGED <<wire, unsealed, from, readAfter>>
        /\ next' = IF readAfter < first THEN first ELSE readAfter + 1
    BY <1>7 DEF Read
  <2>2. NothingNew /\ NothingForgotten
    BY <1>1, <1>2, <2>1 DEF NothingNew, NothingForgotten, Covered, OnItsWay, Busy
  <2>3. Connection' /\ Records' /\ StreamOrder'
    BY <1>1, <1>3, <2>1 DEF Connection, Records, StreamOrder, Busy, Durable
  <2>4. Window' /\ Behind'
    BY <1>1, <2>2, WindowSteady, BehindSteady
  <2>5. /\ ckpt <= readAfter \/ ckpt < first
        /\ \A n \in 1..last : OnItsWay(n) => n <= readAfter
        /\ SafeUpTo(readAfter) /\ readAfter \in Nat
    BY <2>1, Numbers DEF Position
  <2>6. \A m \in Nat : SafeUpTo(m) => \A n \in 1..m : Covered(n)' \/ OnItsWay(n)'
    BY <2>2, SafeSteady
  <2>7. SafeUpTo(readAfter)'
    BY <2>1, <2>5, <2>6 DEF SafeUpTo
  <2>8. \A n \in 1..last' : OnItsWay(n)' => n <= readAfter'
    BY <1>2, <2>1, <2>2, <2>5, Numbers DEF NothingNew
  <2>9. Position'
    BY <1>1, <1>2, <2>1, <2>5, <2>7, <2>8 DEF Position
  <2>10. next' > readAfter' /\ next' > ckpt'
    BY <1>1, <2>1, <2>5, Numbers
  <2>11. SafeUpTo(next - 1)'
    <3> SUFFICES ASSUME NEW n \in 1..next' - 1 PROVE Covered(n)' \/ OnItsWay(n)'
      BY DEF SafeUpTo
    <3>1. CASE n <= readAfter
      BY <2>5, <2>6, <3>1
    <3>2. CASE n > readAfter
      <4>1. n < first'
        BY <1>2, <2>1, <2>5, <3>2, Numbers
      <4> QED BY <4>1 DEF Covered
    <3> QED BY <2>5, <3>1, <3>2, <2>10, <2>1, Numbers
  <2>12. Batch'
    BY <2>10, <2>11 DEF Batch
  <2> QED BY <2>3, <2>4, <2>9, <2>12
<1>8. CASE WriteEntry
  <2>1. /\ hpc = "write" /\ hpc' \in {"read", "write"} /\ UNCHANGED <<unsealed, from>>
        /\ wire' = Append(wire, Entry(next)) /\ readAfter' = next /\ next' = next + 1
    BY <1>8 DEF WriteEntry, AfterEntry
  <2>2. next \in 1..last /\ next \in 1..MaxEvents
    BY <2>1, Numbers DEF Bounds
  <2>3. Entry(next) \in Event /\ Entry(next).id = next /\ Entry(next).kind = "hook"
    BY <2>2, MessageTypes
  <2> DEFINE l == Len(wire)
  <2>4. /\ l \in Nat /\ DOMAIN wire = 1..l /\ DOMAIN wire' = 1..l + 1
        /\ \A i \in 1..l : wire'[i] = wire[i]
        /\ wire'[l + 1].id = next /\ wire'[l + 1].kind = "hook"
    BY <2>1, <2>3, WireGrows, Numbers
  <2> HIDE DEF l
  <2>5. \A n \in Nat : OnItsWay(n)' <=> OnItsWay(n) \/ n = next
    BY <1>1, <2>4 DEF OnItsWay, Busy
  <2>6. /\ next > readAfter /\ next > ckpt /\ SafeUpTo(next - 1)
        /\ \A n \in 1..last : OnItsWay(n) => n <= readAfter
        /\ readAfter \in Nat /\ ckpt \in Nat
    BY <2>1, Numbers DEF Batch, Position
  <2>7. NothingForgotten
    BY <1>1, <1>2, <2>1, <2>5 DEF NothingForgotten, Covered
  <2>8. \A m \in Nat : SafeUpTo(m) => \A n \in 1..m : Covered(n)' \/ OnItsWay(n)'
    BY <2>7, SafeSteady
  <2>9. \A n \in 1..next : Covered(n)' \/ OnItsWay(n)'
    <3> TAKE n \in 1..next
    <3>1. CASE n = next
      BY <2>2, <2>5, <3>1
    <3>2. CASE n # next
      <4>1. next - 1 \in Nat /\ n \in 1..next - 1
        BY <2>2, <3>2
      <4> QED BY <2>6, <2>8, <4>1
    <3> QED BY <3>1, <3>2
  <2>10. \A n \in Nat \ {0} : OnItsWay(n) => n <= readAfter
    <3> SUFFICES ASSUME NEW n \in Nat \ {0}, OnItsWay(n) PROVE n <= readAfter
      OBVIOUS
    <3>1. n \in 1..last
      BY OnItsWayInStream, Numbers
    <3> QED BY <2>6, <3>1
  <2>11. Connection'
    BY <1>1, <1>3, <2>1 DEF Connection
  <2>12. Records'
    <3>1. \A i \in DOMAIN wire' : wire'[i].id # 0 => wire'[i].kind # "gap"
      BY <2>4 DEF Records
    <3> QED BY <1>1, <3>1 DEF Records, Busy, Durable
  <2>13. StreamOrder'
    <3>1. ASSUME NEW i \in DOMAIN wire', wire'[i].id # 0
          PROVE  /\ wire'[i].id > ckpt
                 /\ Busy => cur.id < wire'[i].id
                 /\ \A j \in 1..i - 1 : wire'[j].id < wire'[i].id
      <4>1. CASE i \in 1..l
        <5>1. \A j \in 1..i - 1 : wire'[j] = wire[j]
          BY <2>4, <4>1
        <5>2. wire'[i] = wire[i] /\ i \in DOMAIN wire
          BY <2>4, <4>1
        <5> QED BY <3>1, <5>1, <5>2 DEF StreamOrder
      <4>2. CASE i = l + 1
        <5>1. Busy => cur.id < next
          <6>1. CASE cur.id = 0
            BY <2>2, <6>1
          <6>2. CASE cur.id # 0 /\ Busy
            <7>1. cur.id \in Nat \ {0} /\ OnItsWay(cur.id)
              BY <6>2, Numbers DEF OnItsWay
            <7> QED BY <2>2, <2>6, <2>10, <7>1
          <6> QED BY <6>1, <6>2
        <5>2. ASSUME NEW j \in 1..i - 1
              PROVE  wire'[j].id < next
          <6>0. j \in 1..l
            BY <2>4, <4>2
          <6>1. j \in 1..l /\ wire'[j] = wire[j] /\ wire[j].id \in Nat
            BY <2>4, <6>0, Numbers
          <6>2. CASE wire[j].id = 0
            BY <2>2, <6>1, <6>2
          <6>3. CASE wire[j].id # 0
            <7>1. OnItsWay(wire[j].id)
              BY <2>4, <6>1 DEF OnItsWay
            <7> QED BY <2>2, <2>6, <2>10, <6>1, <6>3, <7>1
          <6> QED BY <6>2, <6>3
        <5> QED BY <2>4, <2>6, <4>2, <5>1, <5>2
      <4> QED BY <2>4, <4>1, <4>2
    <3> QED BY <1>1, <3>1 DEF StreamOrder, Busy, Durable
  <2>14. Behind'
    BY <1>1, <2>7, BehindSteady
  <2>15. Window'
    <3> SUFFICES ASSUME NEW m \in 1..last', OnItsWay(m)', NEW n \in 1..m
                 PROVE  Covered(n)' \/ OnItsWay(n)'
      BY DEF Window, SafeUpTo
    <3>1. CASE m = next
      BY <2>9, <3>1
    <3>2. CASE OnItsWay(m)
      <4>1. SafeUpTo(m) /\ m \in Nat
        BY <1>2, <3>2 DEF Window
      <4> QED BY <2>8, <4>1
    <3> QED BY <2>5, <3>1, <3>2
  <2>16. Position'
    <3>1. SafeUpTo(readAfter)'
      BY <2>1, <2>9 DEF SafeUpTo
    <3>2. \A n \in 1..last' : OnItsWay(n)' => n <= readAfter'
      <4> SUFFICES ASSUME NEW n \in 1..last', OnItsWay(n)' PROVE n <= next
        BY <2>1
      <4>1. n \in Nat \ {0} /\ (n = next \/ OnItsWay(n))
        BY <2>5
      <4> QED BY <2>2, <2>6, <2>10, <4>1
    <3> QED BY <1>1, <2>1, <2>2, <2>6, <3>1, <3>2 DEF Position
  <2>17. Batch'
    <3>1. next' - 1 = next
      BY <2>1, <2>2
    <3>2. \A n \in 1..next' - 1 : Covered(n)' \/ OnItsWay(n)'
      BY <2>9, <3>1
    <3> QED BY <1>1, <2>1, <2>2, <2>6, <3>2 DEF Batch, SafeUpTo
  <2> QED BY <2>11, <2>12, <2>13, <2>14, <2>15, <2>16, <2>17
<1>9. CASE SkipEntry
  <2>1. /\ hpc = "write" /\ hpc' \in {"read", "write"} /\ UNCHANGED <<wire, from, readAfter>>
        /\ unsealed' = unsealed \cup {next} /\ next' = next + 1
    BY <1>9 DEF SkipEntry, AfterEntry
  <2>2. NothingNew /\ NothingForgotten
    BY <1>1, <1>2, <2>1 DEF NothingNew, NothingForgotten, Covered, OnItsWay, Busy
  <2>3. Connection' /\ Records' /\ StreamOrder'
    BY <1>1, <1>3, <2>1 DEF Connection, Records, StreamOrder, Busy, Durable
  <2>4. Window' /\ Behind'
    BY <1>1, <2>2, WindowSteady, BehindSteady
  <2>5. /\ ckpt <= readAfter \/ ckpt < first
        /\ \A n \in 1..last : OnItsWay(n) => n <= readAfter
        /\ SafeUpTo(readAfter) /\ readAfter \in Nat
        /\ next > readAfter /\ next > ckpt /\ SafeUpTo(next - 1) /\ next \in Nat /\ ckpt \in Nat
    BY <2>1, Numbers DEF Position, Batch
  <2>6. \A m \in Nat : SafeUpTo(m) => \A n \in 1..m : Covered(n)' \/ OnItsWay(n)'
    BY <2>2, SafeSteady
  <2>7. Position'
    <3>1. SafeUpTo(readAfter)'
      BY <2>1, <2>5, <2>6 DEF SafeUpTo
    <3>2. \A n \in 1..last' : OnItsWay(n)' => n <= readAfter'
      BY <1>2, <2>1, <2>2, <2>5, Numbers DEF NothingNew
    <3> QED BY <1>1, <1>2, <2>1, <2>5, <3>1, <3>2 DEF Position
  <2>8. Batch'
    <3>1. ASSUME NEW n \in 1..next' - 1 PROVE Covered(n)' \/ OnItsWay(n)'
      <4>1. CASE n = next
        BY <2>1, <4>1 DEF Covered
      <4>2. CASE n # next
        <5>1. next - 1 \in Nat /\ n \in 1..next - 1
          BY <2>1, <2>5, <4>2
        <5> QED BY <2>5, <2>6, <5>1
      <4> QED BY <4>1, <4>2
    <3> QED BY <1>1, <2>1, <2>5, <3>1 DEF Batch, SafeUpTo
  <2> QED BY <2>3, <2>4, <2>7, <2>8
<1> QED BY <1>4, <1>5, <1>6, <1>7, <1>8, <1>9 DEF Serve, Unencryptable
-----------------------------------------------------------------------------
(* Theorems                                                                *)

LEMMA InvInit == Init => DeliveryInv
<1> SUFFICES ASSUME Init PROVE DeliveryInv OBVIOUS
<1>1. TypeOK /\ Bounds
  BY TypesInit
<1>2. ckpt = 0 /\ file = 0 /\ last = 0 /\ wire = <<>> /\ hpc = "none" /\ cpc = "idle" /\ conn = "closed"
  BY DEF Init, ClientInit, RelayInit
<1> QED BY <1>1, <1>2
  DEF DeliveryInv, Connection, Records, TornLast, StreamOrder, Window, Behind, Position, Batch, Busy

LEMMA TornLastKept ==
  ASSUME DeliveryInv, [Next]_vars
  PROVE  TornLast'
<1> USE DEF DeliveryInv
<1>0. wire \in Seq(Event) /\ DOMAIN wire = 1..Len(wire) /\ Len(wire) \in Nat
  BY Numbers
<1>1. ASSUME UNCHANGED <<hpc, wire, cur>>, Busy' => Busy PROVE TornLast'
  BY <1>1 DEF TornLast, Durable
<1>2. ASSUME ~Busy', wire' = <<>> PROVE TornLast'
  BY <1>2 DEF TornLast
<1>3. CASE Process
  <2>1. (Busy' => Busy) /\ cur' = cur
    BY <1>3, ClientStepCases DEF TypeOK, Process, GoesOn, LetsGo, Drops, Settles, Moves, Stops, Busy
  <2>2. CASE UNCHANGED <<relayVars, conn>>
    BY <1>1, <2>1, <2>2 DEF relayVars
  <2>3. CASE ClientHangsUp
    BY <2>1, <2>3 DEF ClientHangsUp, TornLast
  <2> QED BY <1>3, <2>2, <2>3 DEF Process
<1>4. CASE Take
  <2>1. /\ cur' = wire[1] /\ hpc' = hpc /\ Len(wire) \in Nat \ {0}
        /\ wire' \in Seq(Event) /\ DOMAIN wire' = 1..Len(wire) - 1
        /\ \A i \in 1..Len(wire) - 1 : wire'[i] = wire[i + 1]
    BY <1>0, <1>4, WireTaken DEF Take, Dispatch
  <2>2. Len(wire') = Len(wire) - 1
    BY <2>1
  <2>3. Durable' /\ cur'.kind = "control" => hpc' = "none" /\ wire' = <<>>
    BY <1>0, <2>1, <2>2 DEF TornLast, Durable
  <2>4. \A i \in DOMAIN wire' : i + 1 \in DOMAIN wire /\ wire'[i] = wire[i + 1]
    BY <1>0, <2>1
  <2>5. \A i \in DOMAIN wire' : wire'[i].id # 0 /\ wire'[i].kind = "control" =>
          hpc' = "none" /\ i + 1 = Len(wire)
    BY <2>1, <2>4 DEF TornLast
  <2>6. \A i \in DOMAIN wire' : i + 1 = Len(wire) => i = Len(wire')
    BY <2>1, <2>2
  <2> QED BY <2>3, <2>5, <2>6 DEF TornLast
<1>5. CASE Connect
  BY <1>2, <1>5 DEF Connect, Request, Busy, clientVars
<1>6. CASE EndOfStream \/ UNCHANGED vars
  BY <1>1, <1>6 DEF EndOfStream, Busy, clientVars, relayVars, vars
<1>7. CASE StartClient
  <2>1. ~Busy' /\ wire' = wire /\ wire = <<>>
    BY <1>7 DEF StartClient, Restart, Busy, relayVars, Connection
  <2> QED BY <1>2, <2>1
<1>8. CASE Kill
  BY <1>2, <1>8 DEF Kill, Crash, ClientHangsUp, Busy
<1>9. CASE Cut
  <2>1. /\ UNCHANGED <<cpc, cur>> /\ hpc # "none" /\ hpc' = "none" /\ RequestEnds
    BY <1>9 DEF Cut, RequestEnds, clientVars
  <2>2. PICK k \in Nat :
          /\ wire' \in Seq(Event)
          /\ DOMAIN wire' = 1..k /\ DOMAIN wire = 1..Len(wire)
          /\ Len(wire) \in Nat /\ k <= Len(wire)
          /\ \A i \in 1..k : /\ wire'[i].id = wire[i].id
                             /\ \/ wire'[i].kind = wire[i].kind
                                \/ i = k /\ wire'[i].kind \in TornKinds
    BY <2>1, CutWire
  <2>3. Len(wire') = k
    BY <2>2
  <2>4. ~(Busy' /\ Durable' /\ cur'.kind = "control")
    BY <2>1 DEF TornLast, Busy, Durable
  <2>5. \A i \in DOMAIN wire' : wire'[i].id # 0 /\ wire'[i].kind = "control" => i = k
    BY <2>1, <2>2 DEF TornLast
  <2> QED BY <2>1, <2>3, <2>4, <2>5 DEF TornLast
<1>10. CASE Post
  BY <1>1, <1>10 DEF Post, Publish, Busy, clientVars
<1>11. CASE Serve \/ Unencryptable
  <2>1. UNCHANGED <<cpc, cur>> /\ hpc # "none"
    BY <1>11 DEF Serve, Unencryptable, NewestID, OldestID, Greet, Read, WriteEntry, SkipEntry, clientVars
  <2>2. ~(Busy' /\ Durable' /\ cur'.kind = "control")
    BY <2>1 DEF TornLast, Busy, Durable
  <2>3. \A i \in DOMAIN wire : ~(wire[i].id # 0 /\ wire[i].kind = "control")
    BY <2>1 DEF TornLast
  <2>4. CASE wire' = wire
    BY <2>2, <2>3, <2>4 DEF TornLast
  <2>5. CASE Greet
    <3>1. \A i \in DOMAIN wire' : (i \in DOMAIN wire /\ wire'[i] = wire[i]) \/ wire'[i].id = 0
      BY <1>0, <2>5, GreetWire
    <3> QED BY <2>2, <2>3, <3>1 DEF TornLast
  <2>6. CASE WriteEntry
    <3>1. next \in 1..MaxEvents
      BY <2>6, Numbers DEF WriteEntry, Bounds
    <3>2. Entry(next) \in Event /\ Entry(next).kind = "hook"
      BY <3>1, MessageTypes
    <3>3. \A i \in DOMAIN wire' : (i \in DOMAIN wire /\ wire'[i] = wire[i]) \/ wire'[i] = Entry(next)
      BY <1>0, <2>6, <3>2, WireGrows DEF WriteEntry
    <3> QED BY <2>2, <2>3, <3>2, <3>3 DEF TornLast
  <2> QED BY <1>11, <2>4, <2>5, <2>6 DEF Serve, Unencryptable, NewestID, OldestID, Read, SkipEntry
<1> QED BY <1>3, <1>4, <1>5, <1>6, <1>7, <1>8, <1>9, <1>10, <1>11 DEF Next

LEMMA InvStep == DeliveryInv /\ [Next]_vars => DeliveryInv'
<1> SUFFICES ASSUME DeliveryInv, [Next]_vars PROVE DeliveryInv' OBVIOUS
<1>0. TypeOK /\ Bounds /\ Connection /\ Records
  BY DEF DeliveryInv
<1>1. CASE Process
  BY <1>0, <1>1, TornLastKept, TypesProcess, KeptByProcess DEF DeliveryInv
<1>2. CASE Take
  BY <1>0, <1>2, TornLastKept, TypesTake, KeptByTake DEF DeliveryInv
<1>3. CASE Connect
  BY <1>0, <1>3, TornLastKept, TypesConnect, KeptByConnect DEF DeliveryInv
<1>4. CASE EndOfStream
  BY <1>0, <1>4, TornLastKept, TypesEndOfStream, KeptByEndOfStream DEF DeliveryInv
<1>5. CASE StartClient
  BY <1>0, <1>5, TornLastKept, TypesStartClient, KeptByStartClient DEF DeliveryInv
<1>6. CASE Kill
  BY <1>0, <1>6, TornLastKept, TypesKill, KeptByKill DEF DeliveryInv
<1>7. CASE Cut
  BY <1>0, <1>7, TornLastKept, TypesCut, KeptByCut DEF DeliveryInv
<1>8. CASE Post
  BY <1>0, <1>8, TornLastKept, TypesPost, KeptByPost DEF DeliveryInv
<1>9. CASE Serve \/ Unencryptable
  BY <1>0, <1>9, TornLastKept, TypesServe, KeptByServe DEF DeliveryInv
<1>10. CASE UNCHANGED vars
  BY <1>10 DEF vars, clientVars, relayVars, streamVars, DeliveryInv, TypeOK, ClientTypeOK, RelayTypeOK,
     Connection, Bounds, Records, TornLast, StreamOrder, Window, Behind, Position, Batch, SafeUpTo, OnItsWay,
     Covered, Busy, Durable
<1> QED BY <1>1, <1>2, <1>3, <1>4, <1>5, <1>6, <1>7, <1>8, <1>9, <1>10 DEF Next

THEOREM Inductive == Spec => []DeliveryInv
<1>1. Init => DeliveryInv
  BY InvInit
<1>2. DeliveryInv /\ [Next]_vars => DeliveryInv'
  BY InvStep
<1> QED BY <1>1, <1>2, PTL DEF Spec

\* Every reachable state has the declared types, whatever the bounds.
THEOREM TypeCorrect == Spec => []TypeOK
<1>1. DeliveryInv => TypeOK
  BY DEF DeliveryInv
<1> QED BY <1>1, Inductive, PTL

\* Delivery is at least once within the retention window: the checkpoint passes a
\* retained entry only when it was processed, was there before the client began, or
\* could not be encrypted, whatever is cut, killed, trimmed or torn (client.go and
\* handleRedisEventsGet together).
THEOREM NoLoss == Spec => []NoLossWithinRetention
<1>1. DeliveryInv => NoLossWithinRetention
  <2> SUFFICES ASSUME DeliveryInv, NEW n \in Skipped PROVE n <= from
    BY DEF NoLossWithinRetention
  <2>1. /\ n \in first..last /\ n <= ckpt /\ n \notin settled \cup unsealed
        /\ first \in Nat \ {0} /\ ckpt \in Nat /\ last \in Nat
    BY Numbers DEF Skipped, DeliveryInv
  <2>2. n \in 1..ckpt /\ ~(n < first)
    BY <2>1
  <2> QED BY <2>1, <2>2 DEF DeliveryInv, Behind, Covered
<1> QED BY <1>1, Inductive, PTL

\* What a connection brings is above the checkpoint, in the order of the stream and
\* without repetition.
THEOREM OrderCorrect == Spec => []StreamOrder
<1>1. DeliveryInv => StreamOrder
  BY DEF DeliveryInv
<1> QED BY <1>1, Inductive, PTL

LEMMA CheckpointStep ==
  ASSUME DeliveryInv, [Next]_vars
  PROVE  [ckpt' >= ckpt \/ (~opts.stateFile /\ cpc \in {"exited", "down"})]_vars
<1>0. ckpt \in Nat /\ TypeOK /\ Records /\ StreamOrder
  BY Numbers DEF DeliveryInv
<1>1. CASE Process
  <2>1. GoesOn \/ LetsGo \/ Drops \/ Settles \/ Moves \/ (cpc' = "exited" /\ Stops)
    BY <1>0, <1>1, ClientStepCases DEF TypeOK, Process
  <2>2. CASE Moves
    <3>1. Busy /\ Durable /\ ckpt' = cur.id /\ cur.id \in Nat
      BY <1>0, <2>2, Numbers DEF Moves, Busy, Records
    <3> QED BY <1>0, <3>1 DEF StreamOrder
  <2> QED BY <1>0, <2>1, <2>2 DEF GoesOn, LetsGo, Drops, Settles, Stops
<1>2. CASE StartClient
  BY <1>0, <1>2 DEF StartClient, Restart, Records
<1>3. CASE Kill
  BY <1>0, <1>3 DEF Kill, Crash
<1>4. CASE Take
  BY <1>0, <1>4 DEF Take, Dispatch
<1>5. CASE Connect \/ EndOfStream \/ Cut \/ Post \/ Serve \/ Unencryptable
  BY <1>0, <1>5 DEF Connect, EndOfStream, Cut, Post, Serve, Unencryptable, clientVars
<1>6. CASE UNCHANGED vars
  BY <1>6
<1> QED BY <1>1, <1>2, <1>3, <1>4, <1>5, <1>6 DEF Next

\* The client's checkpoint never moves back while it runs, nor over a restart when it
\* has a state file (resumeState).
THEOREM CheckpointCorrect == Spec => CheckpointNeverBack
<1>1. DeliveryInv /\ [Next]_vars =>
        [ckpt' >= ckpt \/ (~opts.stateFile /\ cpc \in {"exited", "down"})]_vars
  BY CheckpointStep
<1> QED BY <1>1, Inductive, PTL DEF Spec, CheckpointNeverBack

\* Whoever reconnects is told of what is missing, and only then, and misses nothing else
\* (handleRedisEventsGet), for all stream IDs that only grow.
THEOREM GapCorrect == Spec => HonestGap
<1>1. DeliveryInv /\ [Next]_vars =>
        [hpc = "start" /\ hpc' = "greet" /\ ckpt # 0 =>
           IF gap' THEN ckpt < first /\ readAfter' < first
                   ELSE readAfter' = ckpt /\ (ckpt < last => first <= ckpt + 1)]_vars
  <2> SUFFICES ASSUME DeliveryInv, [Next]_vars, hpc = "start", hpc' = "greet", ckpt # 0
               PROVE  IF gap' THEN ckpt < first /\ readAfter' < first
                              ELSE readAfter' = ckpt /\ (ckpt < last => first <= ckpt + 1)
    OBVIOUS
  <2>1. /\ TypeOK /\ Bounds /\ asked = ckpt
        /\ first \in Nat \ {0} /\ last \in Nat /\ ckpt \in Nat /\ (last = 0 \/ first <= last)
    BY Numbers DEF DeliveryInv, Connection, Bounds
  <2>2. OldestID
    BY <2>1 DEF Next, vars, relayVars, Connect, Request, Take, EndOfStream, Process, ClientHangsUp,
      StartClient, Cut, RequestEnds, Kill, Unencryptable, SkipEntry, Post, Publish, Serve,
      NewestID, OldestID, Greet, Read, WriteEntry, AfterEntry
  <2>3. Missed <=> first <= last /\ asked < first
    BY <2>1, MissedByRank
  <2>4. CASE Missed
    <3>1. gap' /\ readAfter' = 0
      BY <2>2, <2>4 DEF OldestID
    <3> QED BY <2>1, <2>3, <2>4, <3>1
  <2>5. CASE ~Missed
    <3>1. ~gap' /\ readAfter' = asked
      BY <2>2, <2>5 DEF OldestID
    <3> QED BY <2>1, <2>3, <2>5, <3>1
  <2> QED BY <2>4, <2>5
<1> QED BY <1>1, Inductive, PTL DEF Spec, HonestGap

LEMMA PromiseInit == Init => Promise!Init
  BY DEF Init, ClientInit, RelayInit, Promise!Init

LEMMA PromiseStep ==
  ASSUME DeliveryInv, DeliveryInv', [Next]_vars
  PROVE  [Promise!Next]_Promise!vars
<1> DEFINE handled == settled \cup unsealed
<1>0. /\ first \in Nat \ {0} /\ last \in Nat /\ ckpt \in Nat /\ from \in Nat /\ cur.id \in Nat
      /\ TypeOK /\ Bounds /\ Records /\ StreamOrder /\ Connection
  BY Numbers DEF DeliveryInv
<1>1. CASE Process
  <2>1. GoesOn \/ LetsGo \/ Drops \/ Settles \/ Moves \/ (cpc' = "exited" /\ Stops)
    BY <1>0, <1>1, ClientStepCases DEF TypeOK, Process
  <2>2. UNCHANGED <<first, last, unsealed, from>>
    BY <1>1 DEF Process, ClientHangsUp, relayVars, streamVars
  <2>3. CASE GoesOn \/ LetsGo \/ Drops \/ Stops
    BY <2>2, <2>3 DEF GoesOn, LetsGo, Drops, Stops, Promise!vars
  <2>4. CASE Settles
    <3>1. cur.id \in 1..last
      BY <1>0, <2>4 DEF Settles, Durable, Bounds
    <3>2. handled' = handled \cup {cur.id} /\ ckpt' = ckpt
      BY <2>2, <2>4 DEF Settles
    <3>3. Promise!Handle
      BY <2>2, <3>1, <3>2 DEF Promise!Handle
    <3> QED BY <3>3 DEF Promise!Next
  <2>5. CASE Moves
    <3>1. Busy /\ Durable /\ ckpt' = cur.id /\ settled' = settled
      BY <1>0, <2>5 DEF Moves, Busy, Records
    <3>2. cur.id \in ckpt + 1..last
      BY <1>0, <3>1 DEF StreamOrder, Bounds
    <3>3. Promise!Behind(cur.id) \subseteq handled
      <4> SUFFICES ASSUME NEW n \in first..last, from < n, n <= cur.id
                   PROVE  n \in handled
        BY DEF Promise!Behind
      <4>1. n \in 1..ckpt' /\ ~(n <= from) /\ ~(n < first)
        BY <1>0, <3>1
      <4>2. Covered(n)'
        BY <4>1 DEF DeliveryInv, Behind
      <4> QED BY <2>2, <3>1, <4>1, <4>2 DEF Covered
    <3>4. Promise!MoveMark
      BY <2>2, <3>1, <3>2, <3>3 DEF Promise!MoveMark
    <3> QED BY <3>4 DEF Promise!Next
  <2> QED BY <2>1, <2>3, <2>4, <2>5
<1>2. CASE StartClient
  <2>1. UNCHANGED <<first, last, unsealed, from, settled>> /\ ckpt' = file /\ file \in {ckpt, 0}
    BY <1>0, <1>2 DEF StartClient, Restart, Records, relayVars, streamVars
  <2>2. CASE ckpt' = ckpt
    BY <2>1, <2>2 DEF Promise!vars
  <2>3. CASE ckpt' = 0
    BY <2>1, <2>3 DEF Promise!LoseMark, Promise!Next
  <2> QED BY <2>1, <2>2, <2>3
<1>3. CASE Post
  <2>1. UNCHANGED <<unsealed, from, settled, ckpt>> /\ last' = last + 1 /\ first' \in first..last + 1
    BY <1>0, <1>3 DEF Post, Publish, clientVars
  <2> QED BY <2>1 DEF Promise!Append, Promise!Next
<1>4. CASE Unencryptable
  <2>1. UNCHANGED <<first, last, from, settled, ckpt>> /\ unsealed' = unsealed \cup {next}
    BY <1>4 DEF Unencryptable, SkipEntry, streamVars, clientVars
  <2>2. next \in 1..last
    BY <1>0, <1>4, Numbers DEF Unencryptable, SkipEntry, Bounds
  <2>3. handled' = handled \cup {next}
    BY <2>1
  <2> QED BY <2>1, <2>2, <2>3 DEF Promise!Handle, Promise!Next
<1>5. CASE Serve
  <2>1. UNCHANGED <<first, last, unsealed, settled, ckpt>>
    BY <1>5 DEF Serve, NewestID, OldestID, Greet, Read, WriteEntry, streamVars, clientVars
  <2>2. CASE NewestID
    <3>1. ckpt = 0 /\ from' = last
      BY <1>0, <2>2 DEF NewestID, Connection
    <3> QED BY <2>1, <3>1 DEF Promise!BeginAnew, Promise!Next
  <2>3. CASE ~NewestID
    <3>1. from' = from
      BY <1>5, <2>3 DEF Serve, OldestID, Greet, Read, WriteEntry
    <3> QED BY <2>1, <3>1 DEF Promise!vars
  <2> QED BY <2>2, <2>3
<1>6. CASE Take \/ Connect \/ EndOfStream \/ Cut \/ Kill
  BY <1>6 DEF Take, Dispatch, Connect, Request, EndOfStream, Cut, RequestEnds, Kill, Crash, ClientHangsUp,
     clientVars, relayVars, streamVars, Promise!vars
<1>7. CASE UNCHANGED vars
  BY <1>7 DEF vars, clientVars, relayVars, streamVars, Promise!vars
<1> QED BY <1>1, <1>2, <1>3, <1>4, <1>5, <1>6, <1>7 DEF Next

\* The composition of handler, wire and client implements the at-least-once log: its
\* mark moves past a retained entry only when the entry was handled.
THEOREM PromiseKept == Spec => KeepsPromise
<1>1. Init => Promise!Init
  BY PromiseInit
<1>2. DeliveryInv /\ DeliveryInv' /\ [Next]_vars => [Promise!Next]_Promise!vars
  BY PromiseStep
<1> QED BY <1>1, <1>2, Inductive, PTL DEF Spec, KeepsPromise, Promise!Spec
=============================================================================
