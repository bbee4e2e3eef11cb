-------------------------- MODULE DurableDelivery --------------------------
(***************************************************************************)
(* Redis Streams mode from end to end: the stream and the handler that     *)
(* reads it (RedisRelay), the response that carries what the handler       *)
(* writes, and the client that processes it (ClientProcessing) and         *)
(* connects again and again (runSSEClient, consumeSSEStream).              *)
(*                                                                         *)
(* The connection may be cut and the client killed at any time, but only   *)
(* MaxFaults times.                                                        *)
(***************************************************************************)
EXTENDS ClientProcessing, RedisRelay

CONSTANT MaxFaults   \* bound: requests cut, clients killed, encryptions failed

ASSUME FaultAssumption == MaxFaults \in Nat

VARIABLES
  conn,    \* the client holds a response: "open" or "closed"
  faults   \* faults so far

vars == <<clientVars, relayVars, conn, faults>>

TypeOK ==
  /\ ClientTypeOK
  /\ RelayTypeOK
  /\ conn \in {"open", "closed"}
  /\ faults \in 0..MaxFaults

Init ==
  /\ ClientInit
  /\ RelayInit
  /\ conn = "closed"
  /\ faults = 0

-----------------------------------------------------------------------------
\* consumeSSEStream sends its request, with the checkpoint as Last-Event-ID.
Connect ==
  /\ cpc = "idle"
  /\ conn = "closed"
  /\ Request(ckpt)
  /\ conn' = "open"
  /\ UNCHANGED <<clientVars, faults>>

\* It reads one event to its end and dispatches it.
Take ==
  /\ conn = "open"
  /\ wire # <<>>
  /\ Dispatch(Head(wire))
  /\ wire' = Tail(wire)
  /\ UNCHANGED <<streamVars, hpc, asked, readAfter, gap, next, upto, unsealed, from,
                 conn, faults>>

\* The stream is over: runSSEClient will connect again.
EndOfStream ==
  /\ cpc = "idle"
  /\ conn = "open"
  /\ hpc = "none"
  /\ wire = <<>>
  /\ conn' = "closed"
  /\ UNCHANGED <<clientVars, relayVars, faults>>

\* A step of the retry loop.  A client that exits closes its connection.
Process ==
  /\ ExecStep \/ OtherStep
  /\ IF cpc' = "exited" THEN ClientHangsUp /\ conn' = "closed"
                        ELSE UNCHANGED <<relayVars, conn>>
  /\ UNCHANGED faults

Fault ==
  /\ faults < MaxFaults
  /\ faults' = faults + 1

Cut == Fault /\ RequestEnds /\ UNCHANGED <<clientVars, conn>>

Kill == Fault /\ Crash /\ ClientHangsUp /\ conn' = "closed"

Unencryptable == Fault /\ SkipEntry /\ UNCHANGED <<clientVars, conn>>

StartClient == Restart /\ UNCHANGED <<relayVars, conn, faults>>

Post == Publish /\ UNCHANGED <<clientVars, conn, faults>>

Serve == (NewestID \/ OldestID \/ Greet \/ Read \/ WriteEntry)
           /\ UNCHANGED <<clientVars, conn, faults>>

Next == \/ Connect \/ Take \/ EndOfStream \/ Process \/ StartClient
        \/ Cut \/ Kill \/ Unencryptable \/ Post \/ Serve

(* The server's handler goes on while its request lives, and the client    *)
(* while its process does.  Nobody has to post, and nothing has to fail.   *)
Fairness ==
  /\ WF_vars(Serve)
  /\ WF_vars(Connect) /\ WF_vars(Take) /\ WF_vars(EndOfStream)
  /\ WF_vars(Process) /\ WF_vars(StartClient)

Spec == Init /\ [][Next]_vars /\ Fairness
-----------------------------------------------------------------------------
(* Properties                                                              *)

\* What the client will not ask for again although Redis still has it.
Skipped == {n \in first..last : n <= ckpt} \ (settled \cup unsealed)

\* "Delivery is at least once within the Redis retention window": whatever was cut,
\* killed, trimmed or torn, an entry that is retained and that the checkpoint has
\* passed was processed to the end, unless it was there before the client began
\* without a checkpoint, or could not be encrypted.
NoLossWithinRetention == \A n \in Skipped : n <= from

\* The checkpoint never moves back, and with a state file no restart moves it back.
CheckpointNeverBack ==
  [][ckpt' >= ckpt \/ (~opts.stateFile /\ cpc \in {"exited", "down"})]_vars

\* What a connection brings is newer than the checkpoint and comes in the order of the
\* stream: the event in hand before what is on the wire, and nothing twice.
StreamOrder ==
  /\ Busy /\ Durable => cur.id > ckpt
  /\ \A i \in DOMAIN wire : wire[i].id # 0 =>
       /\ wire[i].id > ckpt
       /\ Busy => cur.id < wire[i].id
       /\ \A j \in 1..i - 1 : wire[j].id < wire[i].id

\* "If a client reconnects with a Last-Event-ID older than the oldest retained event,
\* gosmee sends a gosmee-gap SSE event and continues from the oldest retained entry":
\* without a gap message nothing after the client's checkpoint is gone and nothing of it
\* is left out, with one the entry of the checkpoint is gone and nothing retained is left
\* out.
HonestGap ==
  [][hpc = "start" /\ hpc' = "greet" /\ ckpt # 0 =>
       IF gap' THEN ckpt < first /\ readAfter' < first
               ELSE readAfter' = ckpt /\ (ckpt < last => first <= ckpt + 1)]_vars

\* The abstract promise is kept, with an unencryptable entry counted as handled.
Promise == INSTANCE AtLeastOnce WITH handled <- settled \cup unsealed, mark <- ckpt

KeepsPromise == Promise!Spec

\* The target takes a webhook, and the disk a checkpoint, when it is tried often enough.
Recovers == SF_vars(Process /\ Succeeds("forward")) /\ SF_vars(Process /\ Advance)

\* If target and disk recover, an entry the client was in time for is processed, or
\* trimmed before that: no sequence of cuts, kills and failures leaves it behind.
ProcessedInTheEnd ==
  Recovers =>
    \A n \in 1..MaxEvents :
      n \in first..last ~> n \in settled \cup unsealed \/ n < first \/ n <= from
=============================================================================
