-------------------------- MODULE ClientConnection --------------------------
(***************************************************************************)
(* `gosmee client` from its start to the events it reads: clientSetup,     *)
(* prepareSubscription, runSSEClient and consumeSSEStream                  *)
(* (gosmee/client.go), with the handler that writes to its connection      *)
(* (gosmee/server.go).                                                     *)
(*                                                                         *)
(* An event is read line by line and then processed, which                 *)
(* ClientProcessing has in detail: here it is done in the end, or fails    *)
(* for good and ends the client.  The connection may break or end at any   *)
(* time and anywhere in the text.                                          *)
(***************************************************************************)
EXTENDS Payloads, SequencesExt

CONSTANTS Setups,        \* the ways a client may be set up
          Allowed,       \* the keys of a protected channel
          Webhooks,      \* the requests posted to the channel: [headers, body, replay]
          IgnoreEvents,  \* --ignore-event
          MaxRetryDelay, \* seconds (30 in the code)
          MaxMessages    \* bound: messages on one connection

ASSUME ConnectionAssumption ==
  /\ Allowed \subseteq Keys
  /\ MaxRetryDelay \in Nat \ {0}
  /\ MaxMessages \in Nat
  /\ \A s \in Setups :
       /\ s.server \in {"gosmee", "smee.io"}
       /\ s.keyFile \in {"none", "unusable", "pair"}
       /\ s.public \in Keys /\ s.private \in Keys
       /\ {s.stateUsable, s.redis, s.protected} \subseteq BOOLEAN

\* A header's value is a text, which is not taken for the mark of an envelope (a Boolean).
ASSUME WebhooksAssumption ==
  \A w \in Webhooks :
    /\ "sealedFor" \notin DOMAIN w.headers
    /\ \A h \in EventHeaders \cap DOMAIN w.headers : EventType(w.headers[h]) \in Types

VARIABLES
  setup,    \* the options, the files they name, the mode of the server; fixed
  phase,    \* where the client is
  backoff,  \* reconnectBackoff.next
  wire,     \* the lines that were written and not yet read
  ended,    \* "no": the response goes on; "eof": it ended; "broken": with an error
  reader,   \* event and dataLines
  sent,     \* what was written on this connection, and is meant by it (history)
  taken     \* what was dispatched of it (history)

vars == <<setup, phase, backoff, wire, ended, reader, sent, taken>>
streamVars == <<wire, ended, reader, sent, taken>>

TypeOK ==
  /\ setup \in Setups
  /\ phase \in {"setup", "connect", "read", "process", "flush", "wait", "exited"}
  /\ backoff \in 1..MaxRetryDelay
  /\ \A i \in DOMAIN wire : wire[i].field \in {"id", "event", "data", "comment", "blank"}
  /\ ended \in {"no", "eof", "broken"}
  /\ reader.id \in 0..MaxMessages
  /\ Len(sent) <= MaxMessages
  /\ Len(taken) <= Len(sent)
  /\ \A i \in DOMAIN taken : taken[i] \in Event

Init ==
  /\ setup \in Setups
  /\ phase = "setup"
  /\ backoff = 1
  /\ wire = <<>>
  /\ ended = "eof"
  /\ reader = NoEvent
  /\ sent = <<>>
  /\ taken = <<>>

-----------------------------------------------------------------------------
(* clientSetup: the version of the server only makes it warn.              *)

\* prepareSubscription refuses a key file for smee.io and one that does not load;
\* newResumeState refuses a state file it cannot read or that holds no stream ID.
SetupError ==
  \/ setup.keyFile # "none" /\ setup.server = "smee.io"
  \/ setup.keyFile = "unusable"
  \/ ~setup.stateUsable

PubKey == IF setup.keyFile = "pair" THEN setup.public ELSE NoKey
PrivateKey == IF setup.keyFile = "pair" THEN setup.private ELSE NoKey

ClientSetup ==
  /\ phase = "setup"
  /\ phase' = IF SetupError THEN "exited" ELSE "connect"
  /\ UNCHANGED <<setup, backoff, streamVars>>

-----------------------------------------------------------------------------
(* The server                                                              *)

\* authorizeEventSubscriber: anyone may read an open channel, and only a key of its own
\* a protected one.
Authorized ==
  setup.server = "gosmee" /\ setup.protected => PubKey \in Allowed

\* The key events are encrypted to.
SubscriberKey ==
  IF setup.server = "gosmee" /\ setup.protected THEN PubKey ELSE NoKey

\* The types it may be taken for follow from the names its headers give the event.
Meaning(id, kind, names) ==
  [id |-> id, kind |-> kind,
   types |-> IF names = {} THEN {NoType} ELSE {EventType(name) : name \in names}]

\* One message or more, each with what it means.
Write(lines, meanings) ==
  /\ ended = "no"
  /\ Len(sent) + Len(meanings) <= MaxMessages
  /\ wire' = wire \o lines
  /\ sent' = sent \o meanings
  /\ UNCHANGED <<setup, phase, backoff, ended, reader, taken>>

Greeting(word) == Json([message |-> <<word>>])
Control == Meaning(0, "control", {})

\* "connected" and "ready", and the gap if there is one.  smee.io names its events.
Greet ==
  /\ sent = <<>>
  /\ IF setup.server = "smee.io"
     THEN Write(WriteSSEEvent(0, "ready", Json(<<>>)), <<Control>>)
     ELSE \E gap \in {FALSE, setup.redis} :
            Write(WriteSSEEvent(0, None, Greeting("connected"))
                    \o WriteSSEEvent(0, None, Greeting("ready"))
                    \o (IF gap
                        THEN WriteSSEEvent(0, "gosmee-gap", Json([error |-> <<"missed_history">>]))
                        ELSE <<>>),
                  <<Control, Control>>
                    \o (IF gap THEN <<Meaning(0, "gap", {})>> ELSE <<>>))

\* Every 30 seconds without an event; the next one once the last is read.
Keepalive ==
  /\ sent # <<>>
  /\ wire = <<>>
  /\ IF setup.server = "smee.io"
     THEN Write(WriteSSEEvent(0, "ping", Json(<<>>)), <<Control>>)
     ELSE Write(WriteSSEComment, <<>>)

ObjectOf(webhook) ==
  IF webhook.replay THEN HandleReplayPost(webhook.headers, webhook.body)
                    ELSE HandleWebhookPost(webhook.headers, webhook.body)

Named(webhook) == {webhook.headers[h] : h \in EventHeaders \cap DOMAIN webhook.headers}

\* A webhook, with a stream ID when it comes from Redis.  It can be read with the other
\* half of the key it is encrypted to.
WriteWebhook ==
  /\ sent # <<>>
  /\ \E webhook \in Webhooks :
       LET id == IF setup.redis THEN Len(sent) + 1 ELSE 0
           readable == SubscriberKey \in {NoKey, PrivateKey}
       IN  Write(WriteSSEEvent(id, None, EncryptRelayEvent(ObjectOf(webhook), SubscriberKey)),
                 <<IF readable THEN Meaning(id, "hook", Named(webhook))
                               ELSE Meaning(id, "garbled", {})>>)

\* The handler is done, the replica dies, or a proxy or the network gives up.
StreamEnds ==
  /\ ended = "no"
  /\ ended' \in {"eof", "broken"}
  /\ wire' \in Beginnings(wire)
  /\ UNCHANGED <<setup, phase, backoff, reader, sent, taken>>

-----------------------------------------------------------------------------
(* consumeSSEStream                                                        *)

\* A 2xx: the request is another one, and the backoff starts from the beginning.
Accepted ==
  /\ phase = "connect"
  /\ Authorized
  /\ phase' = "read"
  /\ backoff' = 1
  /\ wire' = <<>> /\ ended' = "no" /\ reader' = NoEvent
  /\ sent' = <<>> /\ taken' = <<>>
  /\ UNCHANGED setup

\* Fault: the doubled delay is not capped.
BackoffUncapped ==
  /\ phase' = "wait"
  /\ backoff' = 2 * backoff

\* retryBackoff.Next
Pause ==
  /\ phase' = "wait"
  /\ backoff' = IF 2 * backoff > MaxRetryDelay THEN MaxRetryDelay ELSE 2 * backoff

\* No connection, or another status.
NotAccepted ==
  /\ phase = "connect"
  /\ Pause
  /\ UNCHANGED <<setup, streamVars>>

\* Hand the event to processClientEventWithRetry, and be at this phase then.
Dispatch(then) ==
  /\ phase' = then
  /\ \E u \in Understand(reader.event, Data(reader), PrivateKey) :
       taken' = Append(taken, Message(reader.id, u[1], u[2]))

\* Fault: data alone is not an event.
ReadLineDropsUnnamed ==
  /\ phase = "read"
  /\ wire # <<>>
  /\ wire' = Tail(wire)
  /\ reader' = Feed(reader, Head(wire))
  /\ IF Head(wire).field = "blank" /\ (reader.event # None \/ reader.id # 0)
     THEN Dispatch("process")
     ELSE UNCHANGED <<phase, taken>>
  /\ UNCHANGED <<setup, backoff, ended, sent>>

ReadLine ==
  /\ phase = "read"
  /\ wire # <<>>
  /\ wire' = Tail(wire)
  /\ reader' = Feed(reader, Head(wire))
  /\ IF Head(wire).field = "blank" /\ reader # NoEvent
     THEN Dispatch("process")
     ELSE UNCHANGED <<phase, taken>>
  /\ UNCHANGED <<setup, backoff, ended, sent>>

\* At the end of the stream the data read so far is an event.
EndOfStream ==
  /\ phase = "read"
  /\ wire = <<>>
  /\ ended = "eof"
  /\ reader.data # <<>>
  /\ Dispatch("flush")
  /\ UNCHANGED <<setup, backoff, wire, ended, reader, sent>>

\* Fault: a stream that ends without an error is read on.
StreamLostWithError ==
  /\ phase = "read"
  /\ wire = <<>>
  /\ ended = "broken"
  /\ Pause
  /\ UNCHANGED <<setup, streamVars>>

\* After that, or without data, or after an error, consumeSSEStream returns.
StreamLost ==
  /\ phase = "read"
  /\ wire = <<>>
  /\ \/ ended = "broken"
     \/ ended = "eof" /\ reader.data = <<>>
  /\ Pause
  /\ UNCHANGED <<setup, streamVars>>

Current == taken[Len(taken)]

\* Fault: what was read of the event before is left over.
ProcessedKeepsFields ==
  /\ phase \in {"process", "flush"}
  /\ Current.kind # "garbled"
  /\ IF phase = "process"
     THEN phase' = "read" /\ reader' = [reader EXCEPT !.data = <<>>] /\ UNCHANGED backoff
     ELSE Pause /\ UNCHANGED reader
  /\ UNCHANGED <<setup, wire, ended, sent, taken>>

\* The event is done or left; the next one begins with nothing.
Processed ==
  /\ phase \in {"process", "flush"}
  /\ Current.kind # "garbled"
  /\ IF phase = "process"
     THEN phase' = "read" /\ reader' = NoEvent /\ UNCHANGED backoff
     ELSE Pause /\ UNCHANGED reader
  /\ UNCHANGED <<setup, wire, ended, sent, taken>>

\* A permanent error: what cannot be understood, and a stream event the target refuses.
FailsForGood ==
  /\ phase \in {"process", "flush"}
  /\ \/ Current.kind = "garbled"
     \/ /\ Current.kind = "hook" /\ Current.id # 0
        /\ ~ShouldIgnoreEvent(Current.type, IgnoreEvents)
  /\ phase' = "exited"
  /\ wire' = <<>> /\ ended' = "broken"
  /\ UNCHANGED <<setup, backoff, reader, sent, taken>>

\* The sleep of the backoff is over.
WakeUp ==
  /\ phase = "wait"
  /\ phase' = "connect"
  /\ UNCHANGED <<setup, backoff, streamVars>>

Client == ClientSetup \/ ReadLine \/ EndOfStream \/ StreamLost \/ WakeUp
Connecting == Accepted \/ NotAccepted
Processing == Processed \/ FailsForGood
Server == Greet \/ Keepalive \/ WriteWebhook \/ StreamEnds

Next == Client \/ Connecting \/ Processing \/ Server

(* The client's own steps.  A request has no deadline, nor has the         *)
(* processing of a stream event, and nobody has to write.                  *)
Spec == Init /\ [][Next]_vars /\ WF_vars(Client)

-----------------------------------------------------------------------------
(* Properties                                                              *)

\* The lines carry messages: in order, once, each whole and as it is meant, and one cut
\* short at the end of the stream at most, which keeps its ID.
Carried == INSTANCE MessageStream WITH over <- ended # "no"

CarriesMessages == Carried!Spec

\* Every event is done or fails in the end.
Processes == WF_vars(Processing)

Listening == phase = "read" /\ ended = "no"

\* The client has given up for a reason: it was not set up to begin, it could not
\* understand what it dispatched, or the target refused an event with a stream ID.
GaveUp ==
  /\ phase = "exited"
  /\ SetupError \/ Current.kind = "garbled" \/ (Current.kind = "hook" /\ Current.id # 0)

\* Then the client never stays where it is, whatever happens to its connections: again
\* and again it asks for a connection or listens to one, until it has given up.
KeepsTrying ==
  Processes => []<>(phase = "connect" \/ Listening \/ GaveUp)

\* "Configured reconnection strategy to retry indefinitely": the loss of a connection is
\* survived, wherever it comes, and a message the client could have read whole does not
\* end it because it was not.
RetriesIndefinitely ==
  phase = "exited" /\ taken # <<>> /\ sent[Len(taken)].kind # "garbled"
    => Current.kind # "garbled"

\* And what was written is taken, unless the connection is lost or the client exits.
WrittenIsTaken ==
  Processes =>
    \A n \in 1..MaxMessages :
      n <= Len(sent) ~> n <= Len(taken) \/ ended # "no" \/ phase = "exited"
=============================================================================
