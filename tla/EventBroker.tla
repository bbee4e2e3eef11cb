---------------------------- MODULE EventBroker ----------------------------
(***************************************************************************)
(* The in-memory relay of `gosmee server` without Redis: the EventBroker   *)
(* registry of gosmee/server.go, the goroutines that serve                 *)
(* GET /events/{channel} (handleEventsGet) and the goroutines that serve   *)
(* POST /{channel} and POST /replay/{channel}, which publish through       *)
(* localPayloadRelay.                                                      *)
(*                                                                         *)
(* A handler is one GET request, from its admission to the return of       *)
(* handleEventsGet.  Its Subscriber object lives exactly as long as the    *)
(* request does, so the handler stands for both.  A publisher is a webhook *)
(* source that posts to one channel URL, one request after the other.  The *)
(* broker's lock protects only the registry: PublishEvent copies the slice *)
(* under RLock and then sends to one subscriber after the other with the   *)
(* lock released, while handlers come, read and go.  Each critical section *)
(* and each channel operation is one action.                               *)
(***************************************************************************)
EXTENDS Naturals, Sequences, SequencesExt

CONSTANTS Channels,     \* the channel names that requests use
          Handlers,     \* the GET /events requests
          Request,      \* handler |-> the channel and public key it asks with
          Publishers,   \* the webhook sources
          PostsTo,      \* publisher |-> the channel of its URL
          Keys,         \* the public keys clients hold
          NoKey,        \* no key in the request; the nil Subscriber.PublicKey
          Allowed,      \* protected channel |-> its allowed public keys
          BufferSize,   \* capacity of Subscriber.Events (100 in the code)
          MaxPosts      \* bound: publisher |-> how many webhooks it posts

ASSUME BrokerAssumption ==
  /\ NoKey \notin Keys
  /\ Request \in [Handlers -> [chan : Channels, pubkey : Keys \cup {NoKey}]]
  /\ PostsTo \in [Publishers -> Channels]
  /\ DOMAIN Allowed \subseteq Channels
  /\ \A c \in DOMAIN Allowed : Allowed[c] \subseteq Keys
  /\ BufferSize \in Nat \ {0}
  /\ MaxPosts \in [Publishers -> Nat]

VARIABLES
  registry,   \* eb.subscribers: channel |-> its subscribers, in order
  buffer,     \* handler |-> what is queued in its Subscriber.Events
  closed,     \* the handlers whose Subscriber.Events is closed
  hpc,        \* handler |-> where handleEventsGet is
  writing,    \* handler |-> the event in writeSSEEvent, alone, or <<>>
  received,   \* handler |-> the events written to its response
  ppc,        \* publisher |-> "idle" or "sending"
  posted,     \* publisher |-> how many webhooks it posted
  snapshot,   \* publisher |-> the subscribers PublishEvent has still to serve
  accepted,   \* the webhooks answered 202 (history)
  owed,       \* <<handler, webhook>>: told "connected" before the post (history)
  missed      \* <<handler, webhook>>: skipped on purpose (history)

publisherVars == <<ppc, posted, snapshot>>
historyVars == <<accepted, owed, missed>>
handlerVars == <<hpc, writing, received>>
vars == <<registry, buffer, closed, handlerVars, publisherVars, historyVars>>

Protected == DOMAIN Allowed

\* A webhook is known by its source and its rank among that source's posts.
Webhook == [from : Publishers, num : Nat]
Current(p) == [from |-> p, num |-> posted[p]]

\* Fault: the payload is never replaced by the copy made for the subscriber.
SealedNever(ev, key) == ev

\* What a subscriber is sent: a webhook and the key it was encrypted for.
Message == [from : Publishers, num : Nat, seal : Keys \cup {NoKey}]
Sealed(ev, key) == [from |-> ev.from, num |-> ev.num, seal |-> key]
Opened(msg) == [from |-> msg.from, num |-> msg.num]

HandlerStates == {"new", "rejected", "subscribed", "streaming", "closing", "done"}
Registered == {"subscribed", "streaming", "closing"}

TypeOK ==
  /\ DOMAIN registry \subseteq Channels
  /\ \A c \in DOMAIN registry : registry[c] \in Seq(Handlers)
  /\ buffer \in [Handlers -> Seq(Message)]
  /\ closed \subseteq Handlers
  /\ hpc \in [Handlers -> HandlerStates]
  /\ writing \in [Handlers -> Seq(Message)]
  /\ \A h \in Handlers : Len(writing[h]) <= 1
  /\ received \in [Handlers -> Seq(Message)]
  /\ ppc \in [Publishers -> {"idle", "sending"}]
  /\ posted \in [Publishers -> Nat]
  /\ snapshot \in [Publishers -> Seq(Handlers)]
  /\ accepted \subseteq Webhook
  /\ owed \subseteq Handlers \X Webhook
  /\ missed \subseteq Handlers \X Webhook

Init ==
  /\ registry = [c \in {} |-> <<>>]
  /\ buffer = [h \in Handlers |-> <<>>]
  /\ closed = {}
  /\ hpc = [h \in Handlers |-> "new"]
  /\ writing = [h \in Handlers |-> <<>>]
  /\ received = [h \in Handlers |-> <<>>]
  /\ ppc = [p \in Publishers |-> "idle"]
  /\ posted = [p \in Publishers |-> 0]
  /\ snapshot = [p \in Publishers |-> <<>>]
  /\ accepted = {}
  /\ owed = {}
  /\ missed = {}

-----------------------------------------------------------------------------
(* The registry                                                            *)

SubscribersOf(c) == IF c \in DOMAIN registry THEN registry[c] ELSE <<>>

\* Fault: one request registers its subscriber twice.
WithSubscriberTwice(c, h) ==
  [d \in DOMAIN registry \cup {c} |->
     IF d = c THEN Append(Append(SubscribersOf(c), h), h) ELSE registry[d]]

\* append(eb.subscribers[channel], subscriber)
WithSubscriber(c, h) ==
  [d \in DOMAIN registry \cup {c} |->
     IF d = c THEN Append(SubscribersOf(c), h) ELSE registry[d]]

\* Fault: the slice shifts before the delete, and the neighbour is taken out.
WithoutNeighbour(c, h) ==
  LET i == CHOOSE j \in DOMAIN registry[c] : registry[c][j] = h
      rest == IF Len(registry[c]) = 1 THEN <<>>
              ELSE RemoveAt(registry[c], (i % Len(registry[c])) + 1)
  IN  [d \in {e \in DOMAIN registry : e # c \/ rest # <<>>} |->
         IF d = c THEN rest ELSE registry[d]]

\* Fault: the channel is deleted with its last subscriber or not.
WithoutChannel(c, h) == [d \in DOMAIN registry \ {c} |-> registry[d]]

\* Fault: the result of slices.Delete is not stored.
WithoutNobody(c, h) == registry

\* slices.Delete of the subscriber, then delete of a channel left empty.
WithoutSubscriber(c, h) ==
  LET i == CHOOSE j \in DOMAIN registry[c] : registry[c][j] = h
      rest == RemoveAt(registry[c], i)
  IN  [d \in {e \in DOMAIN registry : e # c \/ rest # <<>>} |->
         IF d = c THEN rest ELSE registry[d]]

-----------------------------------------------------------------------------
(* GET /events/{channel}                                                   *)

\* protectedChannels.Has(channel) demands an allowed key (IsAllowed refuses nil).
Authorized(h) ==
  Request[h].chan \in Protected => Request[h].pubkey \in Allowed[Request[h].chan]

\* Fault: whoever brings a key has his events encrypted.
KeyOfRequest(h) == Request[h].pubkey

\* The key authorizeEventSubscriber returns: an open channel's events are plain
\* even when the request brings a key.
SubscriberKey(h) ==
  IF Request[h].chan \in Protected THEN Request[h].pubkey ELSE NoKey

\* A protected channel and no allowed key: 404, and no trace in the broker.
Reject(h) ==
  /\ hpc[h] = "new"
  /\ ~Authorized(h)
  /\ hpc' = [hpc EXCEPT ![h] = "rejected"]
  /\ UNCHANGED <<registry, buffer, closed, writing, received, publisherVars, historyVars>>

\* EventBroker.Subscribe, under the write lock.
Subscribe(h) ==
  /\ hpc[h] = "new"
  /\ Authorized(h)
  /\ registry' = WithSubscriber(Request[h].chan, h)
  /\ hpc' = [hpc EXCEPT ![h] = "subscribed"]
  /\ UNCHANGED <<buffer, closed, writing, received, publisherVars, historyVars>>

\* The "connected" and "ready" messages reach the client.
Greet(h) ==
  /\ hpc[h] = "subscribed"
  /\ hpc' = [hpc EXCEPT ![h] = "streaming"]
  /\ UNCHANGED <<registry, buffer, closed, writing, received, publisherVars, historyVars>>

\* The select takes a queued event; its place in the buffer is free again.
ReceiveEvent(h) ==
  /\ hpc[h] = "streaming"
  /\ writing[h] = <<>>
  /\ buffer[h] # <<>>
  /\ writing' = [writing EXCEPT ![h] = <<Head(buffer[h])>>]
  /\ buffer' = [buffer EXCEPT ![h] = Tail(@)]
  /\ UNCHANGED <<registry, closed, hpc, received, publisherVars, historyVars>>

\* writeSSEEvent returns: the client is sent the event.
WriteEvent(h) ==
  /\ hpc[h] = "streaming"
  /\ writing[h] # <<>>
  /\ received' = [received EXCEPT ![h] = Append(@, Head(writing[h]))]
  /\ writing' = [writing EXCEPT ![h] = <<>>]
  /\ UNCHANGED <<registry, buffer, closed, hpc, publisherVars, historyVars>>

\* Fault: a failed write is logged and the loop goes on.
WriteEventSkips(h) ==
  /\ hpc[h] = "streaming"
  /\ writing[h] # <<>>
  /\ writing' = [writing EXCEPT ![h] = <<>>]
  /\ UNCHANGED <<registry, buffer, closed, hpc, received, publisherVars, historyVars>>

\* writeSSEEvent fails: the event is gone and the handler returns.
WriteEventFails(h) ==
  /\ hpc[h] = "streaming"
  /\ writing[h] # <<>>
  /\ writing' = [writing EXCEPT ![h] = <<>>]
  /\ hpc' = [hpc EXCEPT ![h] = "closing"]
  /\ UNCHANGED <<registry, buffer, closed, received, publisherVars, historyVars>>

\* The request's context is done, or the greeting or a keepalive cannot be written.
ClientGone(h) ==
  /\ hpc[h] \in {"subscribed", "streaming"}
  /\ writing[h] = <<>>
  /\ hpc' = [hpc EXCEPT ![h] = "closing"]
  /\ UNCHANGED <<registry, buffer, closed, writing, received, publisherVars, historyVars>>

\* The deferred EventBroker.Unsubscribe, under the write lock.
Unsubscribe(h) ==
  /\ hpc[h] = "closing"
  /\ registry' = WithoutSubscriber(Request[h].chan, h)
  /\ closed' = closed \cup {h}
  /\ hpc' = [hpc EXCEPT ![h] = "done"]
  /\ UNCHANGED <<buffer, writing, received, publisherVars, historyVars>>

-----------------------------------------------------------------------------
(* POST /{channel} and POST /replay/{channel}, from PublishEvent on        *)

\* The copy of the channel's slice, under the read lock.
BeginPublish(p) ==
  /\ ppc[p] = "idle"
  /\ posted[p] < MaxPosts[p]
  /\ posted' = [posted EXCEPT ![p] = @ + 1]
  /\ snapshot' = [snapshot EXCEPT ![p] = SubscribersOf(PostsTo[p])]
  /\ ppc' = [ppc EXCEPT ![p] = "sending"]
  /\ owed' = owed \cup {<<h, Current(p)'>> :
                h \in {g \in Handlers : /\ hpc[g] = "streaming"
                                        /\ Request[g].chan = PostsTo[p]}}
  /\ UNCHANGED <<registry, buffer, closed, handlerVars, accepted, missed>>

Serving(p) == ppc[p] = "sending" /\ snapshot[p] # <<>>

NextSubscriber(p) == Head(snapshot[p])

\* The non-blocking send succeeds.
Queue(p) ==
  LET h == NextSubscriber(p)
  IN  /\ Serving(p)
      /\ h \notin closed
      /\ Len(buffer[h]) < BufferSize
      /\ buffer' = [buffer EXCEPT ![h] = Append(@, Sealed(Current(p), SubscriberKey(h)))]
      /\ snapshot' = [snapshot EXCEPT ![p] = Tail(@)]
      /\ UNCHANGED <<registry, closed, handlerVars, ppc, posted, historyVars>>

\* The select's default branch: the buffer is full, the event is dropped.
DropWhenFull(p) ==
  LET h == NextSubscriber(p)
  IN  /\ Serving(p)
      /\ h \notin closed
      /\ Len(buffer[h]) >= BufferSize
      /\ missed' = missed \cup {<<h, Current(p)>>}
      /\ snapshot' = [snapshot EXCEPT ![p] = Tail(@)]
      /\ UNCHANGED <<registry, buffer, closed, handlerVars, ppc, posted, accepted, owed>>

\* Encrypt returns an error: the subscriber is skipped, whatever its channel's state.
SkipUnencryptable(p) ==
  LET h == NextSubscriber(p)
  IN  /\ Serving(p)
      /\ SubscriberKey(h) # NoKey
      /\ missed' = missed \cup {<<h, Current(p)>>}
      /\ snapshot' = [snapshot EXCEPT ![p] = Tail(@)]
      /\ UNCHANGED <<registry, buffer, closed, handlerVars, ppc, posted, accepted, owed>>

\* A send on a closed Go channel panics, full or not.  The router's Recoverer
\* answers 500; the subscribers left in the snapshot are not served.
PanicOnClosed(p) ==
  /\ Serving(p)
  /\ NextSubscriber(p) \in closed
  /\ snapshot' = [snapshot EXCEPT ![p] = <<>>]
  /\ ppc' = [ppc EXCEPT ![p] = "idle"]
  /\ UNCHANGED <<registry, buffer, closed, handlerVars, posted, historyVars>>

\* Fault: the answer waits until every subscriber has read what is queued for it.
AcceptOnceRead(p) ==
  /\ ppc[p] = "sending"
  /\ snapshot[p] = <<>>
  /\ \A h \in ToSet(SubscribersOf(PostsTo[p])) : buffer[h] = <<>>
  /\ ppc' = [ppc EXCEPT ![p] = "idle"]
  /\ accepted' = accepted \cup {Current(p)}
  /\ UNCHANGED <<registry, buffer, closed, handlerVars, posted, snapshot, owed, missed>>

\* PublishEvent returns and the POST is answered 202.
Accept(p) ==
  /\ ppc[p] = "sending"
  /\ snapshot[p] = <<>>
  /\ ppc' = [ppc EXCEPT ![p] = "idle"]
  /\ accepted' = accepted \cup {Current(p)}
  /\ UNCHANGED <<registry, buffer, closed, handlerVars, posted, snapshot, owed, missed>>

-----------------------------------------------------------------------------
HandlerStep(h) == \/ Reject(h) \/ Subscribe(h) \/ Greet(h) \/ ReceiveEvent(h)
                  \/ WriteEvent(h) \/ WriteEventFails(h) \/ ClientGone(h) \/ Unsubscribe(h)

PublishStep(p) == \/ Queue(p) \/ DropWhenFull(p) \/ SkipUnencryptable(p)
                  \/ PanicOnClosed(p) \/ Accept(p)

Next == \/ \E h \in Handlers : HandlerStep(h)
        \/ \E p \in Publishers : BeginPublish(p) \/ PublishStep(p)

(* The Go scheduler runs every goroutine that can run: a publisher inside  *)
(* PublishEvent proceeds, and a handler that is returning runs its         *)
(* deferred call.  Nothing is assumed of the clients: none has to come or  *)
(* leave, and a write to a client may block for ever.                      *)
Fairness ==
  /\ \A p \in Publishers : WF_vars(PublishStep(p))
  /\ \A h \in Handlers : WF_vars(Unsubscribe(h))

Spec == Init /\ [][Next]_vars /\ Fairness
-----------------------------------------------------------------------------
(* Properties                                                              *)

\* What a handler's client was sent, is being sent and has queued for it, oldest first.
Got(h) == received[h] \o (writing[h] \o buffer[h])

\* The registry lists a handler exactly while its request is open, once, under
\* its own channel, and no channel is left with an empty slice: Unsubscribe takes
\* out the caller, not a neighbour that slid into its place.
RegistryMatchesRequests ==
  /\ \A c \in DOMAIN registry : registry[c] # <<>>
  /\ \A c \in DOMAIN registry : IsInjective(registry[c])
  /\ \A h \in Handlers : \A c \in Channels :
       h \in ToSet(SubscribersOf(c)) <=> hpc[h] \in Registered /\ Request[h].chan = c

\* Everything a subscriber is sent came in on its channel.  On a protected channel
\* it is encrypted for the very key the client asked with, and the channel allows
\* that key; on an open one it is plain.
OnlyForItsReader ==
  \A h \in Handlers : \A msg \in ToSet(Got(h)) :
    /\ PostsTo[msg.from] = Request[h].chan
    /\ IF Request[h].chan \in Protected
         THEN msg.seal = Request[h].pubkey /\ msg.seal \in Allowed[Request[h].chan]
         ELSE msg.seal = NoKey

\* A subscriber gets the webhooks of one source in the order they were posted and
\* none of them twice, however the source's posts interleave with others' and with
\* the subscriber's own reads.
SourceOrder ==
  \A h \in Handlers :
    \A i, j \in DOMAIN Got(h) :
      i < j /\ Got(h)[i].from = Got(h)[j].from => Got(h)[i].num < Got(h)[j].num

\* A client was served a webhook when it was sent or queued, or left out on purpose,
\* or when its own request is over.
Served(h, ev) ==
  \/ \E msg \in ToSet(Got(h)) : Opened(msg) = ev
  \/ <<h, ev>> \in missed
  \/ hpc[h] \in {"closing", "done"}

\* When a POST is answered 202, every client that had read "connected" before it
\* has the webhook written or queued, unless its buffer was full, encryption failed
\* for it, or its own request is over.
AcceptedReachesGreeted ==
  \A h \in Handlers : \A ev \in accepted :
    <<h, ev>> \in owed => Served(h, ev)

\* PublishEvent returns whatever the subscribers do: a slow client, a stuck one or
\* one that left never blocks the webhook source.
PublisherNeverBlocks == \A p \in Publishers : ppc[p] = "sending" ~> ppc[p] = "idle"

\* A client whose connection takes every write, or fails it, in the end: the
\* select of handleEventsGet then gets to what is queued.
WritesComplete(h) ==
  WF_vars(Greet(h) \/ ReceiveEvent(h) \/ WriteEvent(h) \/ WriteEventFails(h))

\* A queued webhook is written to such a client or its stream ends, and no other
\* client can hold it up.
QueuedIsWritten ==
  \A h \in Handlers : WritesComplete(h) =>
    \A p \in Publishers : \A n \in 1..MaxPosts[p] :
      LET Holds(s) == \E msg \in ToSet(s) : msg.from = p /\ msg.num = n
      IN  Holds(buffer[h]) ~> Holds(received[h]) \/ hpc[h] \in {"closing", "done"}

\* A stream that ended leaves nothing of itself in the registry.
StreamEndIsCleanedUp ==
  \A h \in Handlers :
    hpc[h] = "closing" ~> h \notin ToSet(SubscribersOf(Request[h].chan))

\* "PublishEvent sends an event to all subscribers of a channel", and the only
\* exception it names is a full buffer: when it is over, by return or by panic, every
\* client that had read "connected" before the post and is still there was served.
PublishServesAll ==
  \A h \in Handlers : \A p \in Publishers : \A n \in 1..posted[p] :
    LET ev == [from |-> p, num |-> n]
    IN  <<h, ev>> \in owed /\ (n < posted[p] \/ ppc[p] = "idle") => Served(h, ev)
=============================================================================
