------------------------- MODULE EventBrokerProofs -------------------------
(***************************************************************************)
(* What the in-memory relay guarantees for any number of channels,         *)
(* requests, sources and posts and any buffer size: type correctness, the  *)
(* registry invariant, isolation of channels and readers, per-source order *)
(* and the promise behind a 202 answer.                                    *)
(***************************************************************************)
EXTENDS EventBroker, SequenceLemmas

-----------------------------------------------------------------------------
(* Type correctness                                                        *)

LEMMA WithSubscriberType ==
  ASSUME TypeOK, NEW c \in Channels, NEW h \in Handlers
  PROVE  /\ DOMAIN WithSubscriber(c, h) = DOMAIN registry \cup {c}
         /\ \A d \in DOMAIN WithSubscriber(c, h) :
              WithSubscriber(c, h)[d] \in Seq(Handlers)
<1>1. SubscribersOf(c) \in Seq(Handlers)
  BY EmptySeq DEF SubscribersOf, TypeOK
<1>2. Append(SubscribersOf(c), h) \in Seq(Handlers)
  BY <1>1, AppendToSet
<1> QED BY <1>2 DEF WithSubscriber, TypeOK

LEMMA WithoutSubscriberType ==
  ASSUME TypeOK, NEW c \in DOMAIN registry, NEW h \in Handlers,
         IsInjective(registry[c]), h \in ToSet(registry[c])
  PROVE  /\ DOMAIN WithoutSubscriber(c, h) \subseteq DOMAIN registry
         /\ \A d \in DOMAIN registry \ {c} :
              d \in DOMAIN WithoutSubscriber(c, h) /\ WithoutSubscriber(c, h)[d] = registry[d]
         /\ c \notin DOMAIN WithoutSubscriber(c, h) => ToSet(registry[c]) = {h}
         /\ c \in DOMAIN WithoutSubscriber(c, h) =>
              /\ WithoutSubscriber(c, h)[c] \in Seq(Handlers)
              /\ WithoutSubscriber(c, h)[c] # <<>>
              /\ IsInjective(WithoutSubscriber(c, h)[c])
              /\ ToSet(WithoutSubscriber(c, h)[c]) = ToSet(registry[c]) \ {h}
<1> DEFINE i == CHOOSE j \in DOMAIN registry[c] : registry[c][j] = h
           rest == RemoveAt(registry[c], i)
<1>1. i \in DOMAIN registry[c] /\ registry[c][i] = h
  BY DEF ToSet
<1>2. registry[c] \in Seq(Handlers)
  BY DEF TypeOK
<1>3. /\ rest \in Seq(Handlers) /\ IsInjective(rest)
      /\ ToSet(rest) = ToSet(registry[c]) \ {h}
  <2> HIDE DEF i
  <2> QED BY <1>1, <1>2, RemoveAtToSet
<1>4. WithoutSubscriber(c, h) =
        [d \in {e \in DOMAIN registry : e # c \/ rest # <<>>} |->
           IF d = c THEN rest ELSE registry[d]]
  BY DEF WithoutSubscriber
<1>5. rest = <<>> => ToSet(registry[c]) = {h}
  BY <1>3 DEF ToSet
<1> HIDE DEF rest
<1> QED BY <1>3, <1>4, <1>5

\* The key a handler's events are sealed with, and the message it is sent, have
\* the types the code gives them.
LEMMA SealedType ==
  ASSUME TypeOK, NEW p \in Publishers, NEW h \in Handlers
  PROVE  /\ SubscriberKey(h) \in Keys \cup {NoKey}
         /\ Current(p) \in Webhook
         /\ Sealed(Current(p), SubscriberKey(h)) \in Message
  BY BrokerAssumption DEF TypeOK, SubscriberKey, Current, Webhook, Sealed, Message
\* A request that the broker knows of was admitted by authorizeEventSubscriber.
AdmittedOnly ==
  \A h \in Handlers : hpc[h] \in Registered \cup {"done"} => Authorized(h)

\* Type correctness alone is not inductive: that Unsubscribe finds the caller in
\* the slice it cuts, and that the slice has no duplicate, is needed to know what
\* the registry holds afterwards.
RegistryInv ==
  TypeOK /\ RegistryMatchesRequests /\ AdmittedOnly

LEMMA RegistryInit == Init => RegistryInv
<1> SUFFICES ASSUME Init PROVE RegistryInv OBVIOUS
<1>1. TypeOK
  <2>1. \A S : <<>> \in Seq(S) /\ Len(<<>>) = 0 BY EmptySeq
  <2> QED BY <2>1 DEF Init, TypeOK, HandlerStates
<1>2. RegistryMatchesRequests
  BY DEF Init, RegistryMatchesRequests, SubscribersOf, ToSet, Registered
<1>3. AdmittedOnly
  BY DEF Init, AdmittedOnly, Registered
<1> QED BY <1>1, <1>2, <1>3 DEF RegistryInv

\* A step that leaves the registry alone and moves no request into or out of it.
LEMMA RegistryUnmoved ==
  ASSUME RegistryMatchesRequests, UNCHANGED registry,
         \A h \in Handlers : hpc'[h] \in Registered <=> hpc[h] \in Registered
  PROVE  RegistryMatchesRequests'
<1>1. \A c \in Channels : SubscribersOf(c)' = SubscribersOf(c)
  BY DEF SubscribersOf
<1> QED BY <1>1 DEF RegistryMatchesRequests

LEMMA SubscribeRegistry ==
  ASSUME RegistryInv, NEW h \in Handlers, Subscribe(h)
  PROVE  RegistryInv'
<1> DEFINE c == Request[h].chan
<1>1. c \in Channels
  BY BrokerAssumption
<1>2. registry' = WithSubscriber(c, h) /\ hpc[h] = "new"
  BY DEF Subscribe
<1>3. hpc' = [hpc EXCEPT ![h] = "subscribed"] /\ hpc \in [Handlers -> HandlerStates]
  BY DEF Subscribe, RegistryInv, TypeOK
<1>4. TypeOK'
  <2>1. /\ DOMAIN registry' \subseteq Channels
        /\ \A d \in DOMAIN registry' : registry'[d] \in Seq(Handlers)
    <3>1. TypeOK BY DEF RegistryInv
    <3>2. /\ DOMAIN WithSubscriber(c, h) = DOMAIN registry \cup {c}
          /\ \A d \in DOMAIN WithSubscriber(c, h) : WithSubscriber(c, h)[d] \in Seq(Handlers)
      BY <3>1, <1>1, WithSubscriberType
    <3> QED BY <3>1, <3>2, <1>1, <1>2 DEF TypeOK
  <2> QED BY <2>1, <1>3
        DEF RegistryInv, TypeOK, Subscribe, HandlerStates, publisherVars, historyVars
<1>5. h \notin ToSet(SubscribersOf(c))
  BY <1>1, <1>2 DEF RegistryInv, RegistryMatchesRequests, Registered
<1>6. /\ SubscribersOf(c) \in Seq(Handlers)
      /\ IsInjective(SubscribersOf(c))
  <2>1. CASE c \in DOMAIN registry
    BY <2>1 DEF RegistryInv, TypeOK, RegistryMatchesRequests, SubscribersOf
  <2>2. CASE c \notin DOMAIN registry
    BY <2>2, EmptySeq DEF SubscribersOf, IsInjective
  <2> QED BY <2>1, <2>2
<1>7. /\ Append(SubscribersOf(c), h) # <<>>
      /\ IsInjective(Append(SubscribersOf(c), h))
      /\ ToSet(Append(SubscribersOf(c), h)) = ToSet(SubscribersOf(c)) \cup {h}
  BY <1>5, <1>6, AppendToSet
<1>8. /\ DOMAIN registry' = DOMAIN registry \cup {c}
      /\ registry'[c] = Append(SubscribersOf(c), h)
      /\ \A d \in DOMAIN registry \ {c} : registry'[d] = registry[d]
  BY <1>2 DEF WithSubscriber
<1>9. \A d \in Channels :
        ToSet(SubscribersOf(d))' = IF d = c THEN ToSet(SubscribersOf(c)) \cup {h}
                                            ELSE ToSet(SubscribersOf(d))
  <2> SUFFICES ASSUME NEW d \in Channels
               PROVE  ToSet(SubscribersOf(d)') =
                        IF d = c THEN ToSet(SubscribersOf(c)) \cup {h}
                                 ELSE ToSet(SubscribersOf(d))
    BY DEF ToSet
  <2>1. CASE d = c
    <3>1. SubscribersOf(d)' = Append(SubscribersOf(c), h)
      BY <2>1, <1>8 DEF SubscribersOf
    <3> QED BY <3>1, <2>1, <1>7
  <2>2. CASE d # c
    <3>1. SubscribersOf(d)' = SubscribersOf(d)
      BY <2>2, <1>8 DEF SubscribersOf
    <3> QED BY <3>1, <2>2
  <2> QED BY <2>1, <2>2
<1>10. RegistryMatchesRequests'
  <2>1. \A d \in DOMAIN registry' : registry'[d] # <<>> /\ IsInjective(registry'[d])
    BY <1>7, <1>8 DEF RegistryInv, RegistryMatchesRequests
  <2>2. ASSUME NEW g \in Handlers, NEW d \in Channels
        PROVE  g \in ToSet(SubscribersOf(d))'
                 <=> hpc'[g] \in Registered /\ Request[g].chan = d
    <3>1. g \in ToSet(SubscribersOf(d))
            <=> hpc[g] \in Registered /\ Request[g].chan = d
      BY DEF RegistryInv, RegistryMatchesRequests
    <3>2. CASE g = h
      BY <3>1, <3>2, <1>2, <1>3, <1>9 DEF Registered
    <3>3. CASE g # h
      BY <3>1, <3>3, <1>3, <1>9
    <3> QED BY <3>2, <3>3
  <2> QED BY <2>1, <2>2 DEF RegistryMatchesRequests
<1>11. AdmittedOnly'
  BY <1>2, <1>3 DEF RegistryInv, Subscribe, AdmittedOnly, Registered, Authorized, TypeOK,
                    Protected
<1> QED BY <1>4, <1>10, <1>11 DEF RegistryInv

LEMMA UnsubscribeRegistry ==
  ASSUME RegistryInv, NEW h \in Handlers, Unsubscribe(h)
  PROVE  RegistryInv'
<1> DEFINE c == Request[h].chan
           new == WithoutSubscriber(c, h)
<1>1. c \in Channels
  BY BrokerAssumption
<1>2. registry' = new /\ hpc[h] = "closing" /\ closed' = closed \cup {h}
  BY DEF Unsubscribe
<1>3. hpc' = [hpc EXCEPT ![h] = "done"] /\ hpc \in [Handlers -> HandlerStates]
  BY DEF Unsubscribe, RegistryInv, TypeOK
<1>4. h \in ToSet(SubscribersOf(c))
  BY <1>1, <1>2 DEF RegistryInv, RegistryMatchesRequests, Registered
<1>5. c \in DOMAIN registry /\ h \in ToSet(registry[c]) /\ IsInjective(registry[c])
  BY <1>4 DEF SubscribersOf, ToSet, RegistryInv, RegistryMatchesRequests
<1>6. /\ DOMAIN new \subseteq DOMAIN registry
      /\ \A d \in DOMAIN registry \ {c} : d \in DOMAIN new /\ new[d] = registry[d]
      /\ c \notin DOMAIN new => ToSet(registry[c]) = {h}
      /\ c \in DOMAIN new => /\ new[c] \in Seq(Handlers)
                             /\ new[c] # <<>>
                             /\ IsInjective(new[c])
                             /\ ToSet(new[c]) = ToSet(registry[c]) \ {h}
  BY <1>5, WithoutSubscriberType DEF RegistryInv
<1> HIDE DEF new
<1>7. TypeOK'
  <2>1. /\ DOMAIN registry' \subseteq Channels
        /\ \A d \in DOMAIN registry' : registry'[d] \in Seq(Handlers)
    BY <1>2, <1>6 DEF RegistryInv, TypeOK
  <2> QED BY <2>1, <1>2, <1>3
        DEF RegistryInv, TypeOK, Unsubscribe, HandlerStates, publisherVars, historyVars
<1>8. \A d \in Channels :
        ToSet(SubscribersOf(d)') = IF d = c THEN ToSet(SubscribersOf(c)) \ {h}
                                            ELSE ToSet(SubscribersOf(d))
  <2> SUFFICES ASSUME NEW d \in Channels
               PROVE  ToSet(SubscribersOf(d)') =
                        IF d = c THEN ToSet(SubscribersOf(c)) \ {h}
                                 ELSE ToSet(SubscribersOf(d))
    OBVIOUS
  <2>1. CASE d = c /\ c \in DOMAIN new
    <3>1. SubscribersOf(d)' = new[c] /\ SubscribersOf(c) = registry[c]
      BY <2>1, <1>2, <1>5 DEF SubscribersOf
    <3> QED BY <3>1, <2>1, <1>6
  <2>2. CASE d = c /\ c \notin DOMAIN new
    <3>1. SubscribersOf(d)' = <<>> /\ SubscribersOf(c) = registry[c]
      BY <2>2, <1>2, <1>5 DEF SubscribersOf
    <3> QED BY <3>1, <2>2, <1>6 DEF ToSet
  <2>3. CASE d # c
    <3>1. SubscribersOf(d)' = SubscribersOf(d)
      BY <2>3, <1>2, <1>6 DEF SubscribersOf
    <3> QED BY <3>1, <2>3
  <2> QED BY <2>1, <2>2, <2>3
<1>9. RegistryMatchesRequests'
  <2>1. \A d \in DOMAIN registry' : registry'[d] # <<>> /\ IsInjective(registry'[d])
    BY <1>2, <1>6 DEF RegistryInv, RegistryMatchesRequests
  <2>2. ASSUME NEW g \in Handlers, NEW d \in Channels
        PROVE  g \in ToSet(SubscribersOf(d)')
                 <=> hpc'[g] \in Registered /\ Request[g].chan = d
    <3>1. g \in ToSet(SubscribersOf(d))
            <=> hpc[g] \in Registered /\ Request[g].chan = d
      BY DEF RegistryInv, RegistryMatchesRequests
    <3>2. CASE g = h
      BY <3>1, <3>2, <1>2, <1>3, <1>8 DEF Registered
    <3>3. CASE g # h
      BY <3>1, <3>3, <1>3, <1>8
    <3> QED BY <3>2, <3>3
  <2> QED BY <2>1, <2>2 DEF RegistryMatchesRequests, ToSet
<1>10. AdmittedOnly'
  BY <1>2, <1>3 DEF RegistryInv, AdmittedOnly, Registered, Authorized, TypeOK, Protected
<1> QED BY <1>7, <1>9, <1>10 DEF RegistryInv

LEMMA RegistryStep == RegistryInv /\ [Next]_vars => RegistryInv'
<1> SUFFICES ASSUME RegistryInv, [Next]_vars PROVE RegistryInv'
  OBVIOUS
<1>0. TypeOK /\ RegistryMatchesRequests /\ AdmittedOnly
  BY DEF RegistryInv
<1> DEFINE Quiet == \A g \in Handlers : /\ hpc'[g] \in Registered <=> hpc[g] \in Registered
                                        /\ hpc'[g] = "done" <=> hpc[g] = "done"
\* A step that keeps the registry and opens or ends no request.
<1>1. ASSUME TypeOK', UNCHANGED registry, Quiet PROVE RegistryInv'
  <2>1. RegistryMatchesRequests' BY <1>1, <1>0, RegistryUnmoved
  <2>2. AdmittedOnly' BY <1>1, <1>0 DEF AdmittedOnly, TypeOK, Authorized, Protected
  <2> QED BY <1>1, <2>1, <2>2 DEF RegistryInv
<1>2. CASE UNCHANGED vars
  <2>1. TypeOK' BY <1>2, <1>0
    DEF TypeOK, vars, publisherVars, historyVars, handlerVars
  <2> QED BY <2>1, <1>2, <1>1 DEF vars, handlerVars
<1>3. ASSUME NEW h \in Handlers, HandlerStep(h) PROVE RegistryInv'
  <2>1. CASE Reject(h)
    <3>1. TypeOK' BY <2>1, <1>0 DEF TypeOK, Reject, HandlerStates, publisherVars, historyVars
    <3>2. Quiet BY <2>1, <1>0 DEF TypeOK, Reject, Registered
    <3> QED BY <3>1, <3>2, <2>1, <1>1 DEF Reject
  <2>2. CASE Subscribe(h) BY <2>2, SubscribeRegistry
  <2>3. CASE Greet(h)
    <3>1. TypeOK' BY <2>3, <1>0 DEF TypeOK, Greet, HandlerStates, publisherVars, historyVars
    <3>2. Quiet BY <2>3, <1>0 DEF TypeOK, Greet, Registered
    <3> QED BY <3>1, <3>2, <2>3, <1>1 DEF Greet
  <2>4. CASE ReceiveEvent(h) \/ WriteEvent(h)
    <3>1. TypeOK'
      <4>1. CASE ReceiveEvent(h)
        <5>1. buffer[h] \in Seq(Message) /\ buffer[h] # <<>>
          BY <4>1, <1>0 DEF TypeOK, ReceiveEvent
        <5>2. /\ Tail(buffer[h]) \in Seq(Message)
              /\ <<Head(buffer[h])>> \in Seq(Message) /\ Len(<<Head(buffer[h])>>) = 1
          BY <5>1, TailToSet
        <5>3. /\ writing' = [writing EXCEPT ![h] = <<Head(buffer[h])>>]
              /\ buffer' = [buffer EXCEPT ![h] = Tail(buffer[h])]
              /\ UNCHANGED <<registry, closed, hpc, received, publisherVars, historyVars>>
          BY <4>1 DEF ReceiveEvent
        <5>4. /\ writing' \in [Handlers -> Seq(Message)]
              /\ \A g \in Handlers : Len(writing'[g]) <= 1
          BY <5>2, <5>3, <1>0 DEF TypeOK
        <5>5. buffer' \in [Handlers -> Seq(Message)] BY <5>2, <5>3, <1>0 DEF TypeOK
        <5> QED BY <5>3, <5>4, <5>5, <1>0 DEF TypeOK, publisherVars, historyVars
      <4>2. CASE WriteEvent(h)
        <5>1. writing[h] \in Seq(Message) /\ writing[h] # <<>>
          BY <4>2, <1>0 DEF TypeOK, WriteEvent
        <5>2. Append(received[h], Head(writing[h])) \in Seq(Message)
          BY <5>1, <1>0, TailToSet, AppendProperties DEF TypeOK
        <5>3. <<>> \in Seq(Message) /\ Len(<<>>) = 0 BY EmptySeq
        <5>4. /\ writing' = [writing EXCEPT ![h] = <<>>]
              /\ received' = [received EXCEPT ![h] = Append(received[h], Head(writing[h]))]
              /\ UNCHANGED <<registry, buffer, closed, hpc, publisherVars, historyVars>>
          BY <4>2 DEF WriteEvent
        <5>5. /\ writing' \in [Handlers -> Seq(Message)]
              /\ \A g \in Handlers : Len(writing'[g]) <= 1
          BY <5>3, <5>4, <1>0 DEF TypeOK
        <5>6. received' \in [Handlers -> Seq(Message)] BY <5>2, <5>4, <1>0 DEF TypeOK
        <5> QED BY <5>4, <5>5, <5>6, <1>0 DEF TypeOK, publisherVars, historyVars
      <4> QED BY <2>4, <4>1, <4>2
    <3>2. Quiet BY <2>4 DEF ReceiveEvent, WriteEvent
    <3> QED BY <3>1, <3>2, <2>4, <1>1 DEF ReceiveEvent, WriteEvent
  <2>5. CASE WriteEventFails(h)
    <3>1. <<>> \in Seq(Message) /\ Len(<<>>) = 0 BY EmptySeq
    <3>2. /\ writing' = [writing EXCEPT ![h] = <<>>] /\ hpc' = [hpc EXCEPT ![h] = "closing"]
          /\ UNCHANGED <<registry, buffer, closed, received, publisherVars, historyVars>>
      BY <2>5 DEF WriteEventFails
    <3>3. /\ writing' \in [Handlers -> Seq(Message)]
          /\ \A g \in Handlers : Len(writing'[g]) <= 1
      BY <3>1, <3>2, <1>0 DEF TypeOK
    <3>4. TypeOK'
      BY <3>2, <3>3, <1>0 DEF TypeOK, HandlerStates, publisherVars, historyVars
    <3>5. Quiet BY <2>5, <1>0 DEF TypeOK, WriteEventFails, Registered
    <3> QED BY <3>2, <3>4, <3>5, <1>1
  <2>6. CASE ClientGone(h)
    <3>1. TypeOK' BY <2>6, <1>0 DEF TypeOK, ClientGone, HandlerStates, publisherVars, historyVars
    <3>2. Quiet BY <2>6, <1>0 DEF TypeOK, ClientGone, Registered
    <3> QED BY <3>1, <3>2, <2>6, <1>1 DEF ClientGone
  <2>7. CASE Unsubscribe(h) BY <2>7, UnsubscribeRegistry
  <2> QED BY <1>3, <2>1, <2>2, <2>3, <2>4, <2>5, <2>6, <2>7 DEF HandlerStep
<1>4. ASSUME NEW p \in Publishers, BeginPublish(p) \/ PublishStep(p) PROVE RegistryInv'
  <2>1. UNCHANGED <<registry, closed, hpc>>
    BY <1>4 DEF BeginPublish, PublishStep, Queue, DropWhenFull, SkipUnencryptable,
                PanicOnClosed, Accept, handlerVars
  <2>2. Quiet BY <2>1
  <2>3. TypeOK'
    <3>1. CASE BeginPublish(p)
      <4>1. SubscribersOf(PostsTo[p]) \in Seq(Handlers)
        BY <1>0, EmptySeq DEF TypeOK, SubscribersOf
      <4>2. Current(p)' \in Webhook
        BY <3>1, <1>0 DEF TypeOK, BeginPublish, Current, Webhook
      <4> QED BY <4>1, <4>2, <3>1, <1>0 DEF TypeOK, BeginPublish, handlerVars
    <3>2. CASE Queue(p)
      <4>1. snapshot[p] \in Seq(Handlers) /\ snapshot[p] # <<>>
        BY <3>2, <1>0 DEF TypeOK, Queue, Serving
      <4>2. NextSubscriber(p) \in Handlers /\ Tail(snapshot[p]) \in Seq(Handlers)
        BY <4>1, TailToSet DEF NextSubscriber
      <4>3. Sealed(Current(p), SubscriberKey(NextSubscriber(p))) \in Message
        BY <4>2, <1>0, SealedType
      <4>4. Append(buffer[NextSubscriber(p)],
                   Sealed(Current(p), SubscriberKey(NextSubscriber(p)))) \in Seq(Message)
        BY <4>2, <4>3, <1>0, AppendProperties DEF TypeOK
      <4>5. /\ buffer' = [buffer EXCEPT ![NextSubscriber(p)] =
                            Append(buffer[NextSubscriber(p)],
                                   Sealed(Current(p), SubscriberKey(NextSubscriber(p))))]
            /\ snapshot' = [snapshot EXCEPT ![p] = Tail(snapshot[p])]
            /\ UNCHANGED <<writing, received, ppc, posted, historyVars>>
        BY <3>2 DEF Queue, handlerVars
      <4>6. buffer' \in [Handlers -> Seq(Message)] BY <4>2, <4>4, <4>5, <1>0 DEF TypeOK
      <4>7. snapshot' \in [Publishers -> Seq(Handlers)]
        BY <4>2, <4>5, <1>0 DEF TypeOK
      <4>8. /\ UNCHANGED <<registry, closed, hpc, writing, received, ppc, posted>>
            /\ UNCHANGED <<accepted, owed, missed>>
        BY <4>5, <2>1 DEF historyVars
      <4> QED BY <4>6, <4>7, <4>8, <1>0 DEF TypeOK
    <3>3. CASE DropWhenFull(p) \/ SkipUnencryptable(p)
      <4>1. snapshot[p] \in Seq(Handlers) /\ snapshot[p] # <<>>
        BY <3>3, <1>0 DEF TypeOK, DropWhenFull, SkipUnencryptable, Serving
      <4>2. NextSubscriber(p) \in Handlers /\ Tail(snapshot[p]) \in Seq(Handlers)
        BY <4>1, TailToSet DEF NextSubscriber
      <4>3. Current(p) \in Webhook BY <4>2, <1>0, SealedType
      <4>4. /\ missed' = missed \cup {<<NextSubscriber(p), Current(p)>>}
            /\ snapshot' = [snapshot EXCEPT ![p] = Tail(snapshot[p])]
            /\ UNCHANGED <<registry, buffer, closed, hpc, writing, received, ppc, posted>>
            /\ UNCHANGED <<accepted, owed>>
        BY <3>3 DEF DropWhenFull, SkipUnencryptable, handlerVars
      <4>5. snapshot' \in [Publishers -> Seq(Handlers)]
        BY <4>2, <4>4, <1>0 DEF TypeOK
      <4>6. missed' \subseteq Handlers \X Webhook
        BY <4>2, <4>3, <4>4, <1>0 DEF TypeOK
      <4> QED BY <4>4, <4>5, <4>6, <1>0 DEF TypeOK
    <3>4. CASE PanicOnClosed(p)
      BY <3>4, <1>0, EmptySeq DEF TypeOK, PanicOnClosed, historyVars, handlerVars
    <3>5. CASE Accept(p)
      <4>1. Current(p) \in Webhook BY <1>0 DEF TypeOK, Current, Webhook
      <4> QED BY <4>1, <3>5, <1>0 DEF TypeOK, Accept, handlerVars
    <3> QED BY <1>4, <3>1, <3>2, <3>3, <3>4, <3>5 DEF PublishStep
  <2> QED BY <2>1, <2>2, <2>3, <1>1
<1> QED BY <1>2, <1>3, <1>4 DEF Next

-----------------------------------------------------------------------------
(* What a subscriber gets                                                  *)

LEMMA GotType ==
  ASSUME TypeOK, NEW h \in Handlers
  PROVE  /\ received[h] \in Seq(Message) /\ buffer[h] \in Seq(Message)
         /\ writing[h] \in Seq(Message) /\ writing[h] \o buffer[h] \in Seq(Message)
         /\ Got(h) \in Seq(Message)
         /\ \A msg \in ToSet(Got(h)) : msg \in Message
<1>1. /\ received[h] \in Seq(Message) /\ buffer[h] \in Seq(Message)
      /\ writing[h] \in Seq(Message)
  BY DEF TypeOK
<1>2. writing[h] \o buffer[h] \in Seq(Message)
  BY <1>1, ConcatProperties
<1>3. Got(h) \in Seq(Message)
  BY <1>1, <1>2, ConcatProperties DEF Got
<1>4. \A i \in DOMAIN Got(h) : Got(h)[i] \in Message
  BY <1>3, ElementOfSeq, LenProperties
<1> QED BY <1>1, <1>2, <1>3, <1>4 DEF ToSet

\* What a client got changes in three ways only: a webhook is queued at the end,
\* a webhook is lost with the stream, or not at all (receiving and writing move it over).
LEMMA GotSteps ==
  ASSUME TypeOK, [Next]_vars, NEW g \in Handlers
  PROVE  \/ Got(g)' = Got(g)
         \/ /\ hpc'[g] = "closing" /\ UNCHANGED <<publisherVars, historyVars>>
            /\ \E k \in DOMAIN Got(g) : Got(g)' = RemoveAt(Got(g), k)
         \/ \E p \in Publishers :
              /\ Queue(p) /\ g = NextSubscriber(p)
              /\ Got(g)' = Append(Got(g), Sealed(Current(p), SubscriberKey(g)))
<1>1. /\ received \in [Handlers -> Seq(Message)] /\ buffer \in [Handlers -> Seq(Message)]
      /\ writing \in [Handlers -> Seq(Message)]
      /\ \A h \in Handlers : Len(writing[h]) <= 1
      /\ hpc \in [Handlers -> HandlerStates]
  BY DEF TypeOK
<1>2. ASSUME UNCHANGED <<received, writing, buffer>> PROVE Got(g)' = Got(g)
  BY <1>2 DEF Got
<1> DEFINE ahead == writing[g] \o buffer[g]
<1>a. ahead \in Seq(Message) BY GotType
\* The event in hand, when there is one, is the first of those not yet sent.
<1>b. ASSUME writing[g] # <<>>
      PROVE  /\ ahead # <<>> /\ Head(ahead) = Head(writing[g]) /\ Tail(ahead) = buffer[g]
             /\ <<>> \o buffer[g] = buffer[g]
  BY <1>b, <1>1, InHandFirst, ConcatEmptySeq
<1>3. ASSUME NEW h \in Handlers, ReceiveEvent(h) \/ WriteEvent(h) PROVE Got(g)' = Got(g)
  <2>1. CASE h = g /\ ReceiveEvent(g)
    <3>1. /\ buffer[g] # <<>> /\ writing[g] = <<>>
          /\ received'[g] = received[g] /\ writing'[g] = <<Head(buffer[g])>>
          /\ buffer'[g] = Tail(buffer[g])
      BY <2>1, <1>1 DEF ReceiveEvent
    <3>2. <<Head(buffer[g])>> \o Tail(buffer[g]) = buffer[g]
      BY <3>1, <1>1, HeadTailProperties
    <3>3. <<>> \o buffer[g] = buffer[g] BY <1>1, ConcatEmptySeq
    <3> QED BY <3>1, <3>2, <3>3 DEF Got
  <2>2. CASE h = g /\ WriteEvent(g)
    <3>1. /\ writing[g] # <<>> /\ writing'[g] = <<>> /\ buffer'[g] = buffer[g]
          /\ received'[g] = Append(received[g], Head(writing[g]))
      BY <2>2, <1>1 DEF WriteEvent
    <3>2. /\ ahead # <<>> /\ Head(ahead) = Head(writing[g]) /\ Tail(ahead) = buffer[g]
          /\ <<>> \o buffer[g] = buffer[g]
      BY <3>1, <1>b
    <3> HIDE DEF ahead
    <3>3. Append(received[g], Head(ahead)) \o Tail(ahead) = received[g] \o ahead
      BY <3>2, <1>1, <1>a, HeadMovesOver
    <3> QED BY <3>1, <3>2, <3>3 DEF Got, ahead
  <2>3. CASE h # g
    <3>1. received'[g] = received[g] /\ writing'[g] = writing[g] /\ buffer'[g] = buffer[g]
      BY <2>3, <1>3, <1>1 DEF ReceiveEvent, WriteEvent
    <3> QED BY <3>1 DEF Got
  <2> QED BY <1>3, <2>1, <2>2, <2>3
<1>4. ASSUME NEW h \in Handlers, WriteEventFails(h)
      PROVE  \/ Got(g)' = Got(g)
             \/ /\ hpc'[g] = "closing" /\ UNCHANGED <<publisherVars, historyVars>>
                /\ \E k \in DOMAIN Got(g) : Got(g)' = RemoveAt(Got(g), k)
  <2>1. CASE h = g
    <3>1. /\ writing[g] # <<>> /\ writing'[g] = <<>>
          /\ received'[g] = received[g] /\ buffer'[g] = buffer[g]
          /\ hpc'[g] = "closing" /\ UNCHANGED <<publisherVars, historyVars>>
      BY <2>1, <1>4, <1>1 DEF WriteEventFails
    <3>2. ahead # <<>> /\ Tail(ahead) = buffer[g] /\ <<>> \o buffer[g] = buffer[g]
      BY <3>1, <1>b
    <3> HIDE DEF ahead
    <3>3. /\ Len(received[g]) + 1 \in DOMAIN (received[g] \o ahead)
          /\ received[g] \o Tail(ahead) = RemoveAt(received[g] \o ahead, Len(received[g]) + 1)
      BY <3>2, <1>1, <1>a, HeadIsLost
    <3> QED BY <3>1, <3>2, <3>3 DEF Got, ahead
  <2>2. CASE h # g
    <3>1. received'[g] = received[g] /\ writing'[g] = writing[g] /\ buffer'[g] = buffer[g]
      BY <2>2, <1>4, <1>1 DEF WriteEventFails
    <3> QED BY <3>1 DEF Got
  <2> QED BY <2>1, <2>2
<1>5. ASSUME NEW p \in Publishers, Queue(p)
      PROVE  \/ Got(g)' = Got(g)
             \/ /\ g = NextSubscriber(p)
                /\ Got(g)' = Append(Got(g), Sealed(Current(p), SubscriberKey(g)))
  <2>1. /\ received'[g] = received[g] /\ writing'[g] = writing[g]
        /\ buffer' = [buffer EXCEPT ![NextSubscriber(p)] =
                        Append(buffer[NextSubscriber(p)],
                               Sealed(Current(p), SubscriberKey(NextSubscriber(p))))]
    BY <1>5 DEF Queue, handlerVars
  <2>2. CASE NextSubscriber(p) = g
    <3> DEFINE msg == Sealed(Current(p), SubscriberKey(g))
    <3>1. buffer'[g] = Append(buffer[g], msg) BY <2>1, <2>2, <1>1
    <3>2. msg \in Message BY SealedType
    <3> HIDE DEF msg
    <3>3. writing[g] \o Append(buffer[g], msg) = Append(ahead, msg)
      BY <3>2, <1>1, ConcatAppend
    <3> HIDE DEF ahead
    <3>4. received[g] \o Append(ahead, msg) = Append(received[g] \o ahead, msg)
      BY <3>2, <1>1, <1>a, ConcatAppend
    <3>5. Got(g)' = received[g] \o (writing[g] \o Append(buffer[g], msg))
      BY <2>1, <3>1 DEF Got
    <3>6. Got(g) = received[g] \o ahead BY DEF Got, ahead
    <3>7. Got(g)' = Append(Got(g), msg) BY <3>3, <3>4, <3>5, <3>6
    <3> QED BY <3>7, <2>2 DEF msg
  <2>3. CASE NextSubscriber(p) # g
    <3>1. buffer'[g] = buffer[g] BY <2>1, <2>3, <1>1
    <3> QED BY <2>1, <3>1 DEF Got
  <2> QED BY <2>2, <2>3
<1>6. CASE UNCHANGED vars
  BY <1>6, <1>2 DEF vars, handlerVars
<1>7. ASSUME NEW h \in Handlers, HandlerStep(h),
             ~ReceiveEvent(h), ~WriteEvent(h), ~WriteEventFails(h)
      PROVE  Got(g)' = Got(g)
  BY <1>7, <1>2 DEF HandlerStep, Reject, Subscribe, Greet, ClientGone, Unsubscribe
<1>8. ASSUME NEW p \in Publishers, BeginPublish(p) \/ PublishStep(p), ~Queue(p)
      PROVE  Got(g)' = Got(g)
  BY <1>8, <1>2 DEF BeginPublish, PublishStep, DropWhenFull, SkipUnencryptable,
                    PanicOnClosed, Accept, handlerVars
<1> QED BY <1>3, <1>4, <1>5, <1>6, <1>7, <1>8 DEF Next, PublishStep

\* A publisher's snapshot holds readers of its channel only, none of them twice,
\* and nobody once PublishEvent is over.
SnapshotInv ==
  \A p \in Publishers :
    /\ IsInjective(snapshot[p])
    /\ ppc[p] = "idle" => snapshot[p] = <<>>
    /\ \A h \in ToSet(snapshot[p]) : Request[h].chan = PostsTo[p] /\ Authorized(h)

\* How a step moves the loop of PublishEvent: it begins with the registered readers
\* of the channel, it takes its next subscriber, it ends, or it is somebody else's.
LEMMA SnapshotSteps ==
  ASSUME RegistryInv, [Next]_vars, NEW p \in Publishers
  PROVE  \/ /\ posted'[p] = posted[p] /\ snapshot'[p] = snapshot[p] /\ ppc'[p] = ppc[p]
         \/ BeginPublish(p)
         \/ /\ Queue(p) \/ DropWhenFull(p) \/ SkipUnencryptable(p)
            /\ posted'[p] = posted[p] /\ ppc[p] = "sending" /\ ppc'[p] = "sending"
            /\ snapshot[p] # <<>> /\ snapshot'[p] = Tail(snapshot[p])
         \/ /\ posted'[p] = posted[p] /\ ppc[p] = "sending" /\ ppc'[p] = "idle"
            /\ snapshot'[p] = <<>>
<1>1. /\ ppc \in [Publishers -> {"idle", "sending"}] /\ posted \in [Publishers -> Nat]
      /\ snapshot \in [Publishers -> Seq(Handlers)]
  BY DEF RegistryInv, TypeOK
<1>2. ASSUME UNCHANGED publisherVars
      PROVE  posted'[p] = posted[p] /\ snapshot'[p] = snapshot[p] /\ ppc'[p] = ppc[p]
  BY <1>2 DEF publisherVars
<1>3. CASE UNCHANGED vars BY <1>2, <1>3 DEF vars
<1>4. ASSUME NEW h \in Handlers, HandlerStep(h) PROVE UNCHANGED publisherVars
  BY <1>4 DEF HandlerStep, Reject, Subscribe, Greet, ReceiveEvent, WriteEvent, WriteEventFails,
              ClientGone, Unsubscribe
<1>5. ASSUME NEW q \in Publishers, q # p, BeginPublish(q) \/ PublishStep(q)
      PROVE  posted'[p] = posted[p] /\ snapshot'[p] = snapshot[p] /\ ppc'[p] = ppc[p]
  BY <1>5, <1>1 DEF BeginPublish, PublishStep, Queue, DropWhenFull, SkipUnencryptable,
                    PanicOnClosed, Accept
<1>6. CASE Queue(p) \/ DropWhenFull(p) \/ SkipUnencryptable(p)
  <2>1. /\ ppc[p] = "sending" /\ snapshot[p] # <<>>
        /\ snapshot' = [snapshot EXCEPT ![p] = Tail(snapshot[p])]
        /\ UNCHANGED <<ppc, posted>>
    BY <1>6 DEF Queue, DropWhenFull, SkipUnencryptable, Serving
  <2>2. snapshot'[p] = Tail(snapshot[p]) /\ ppc'[p] = "sending" /\ posted'[p] = posted[p]
    BY <2>1, <1>1
  <2> QED BY <2>1, <2>2, <1>6
<1>7. CASE PanicOnClosed(p) BY <1>7, <1>1 DEF PanicOnClosed, Serving
<1>8. CASE Accept(p) BY <1>8, <1>1 DEF Accept
<1> QED BY <1>2, <1>3, <1>4, <1>5, <1>6, <1>7, <1>8 DEF Next, PublishStep

LEMMA SnapshotBegins ==
  ASSUME RegistryInv, NEW p \in Publishers, BeginPublish(p)
  PROVE  /\ snapshot'[p] = SubscribersOf(PostsTo[p])
         /\ posted'[p] = posted[p] + 1 /\ ppc[p] = "idle" /\ ppc'[p] = "sending"
         /\ IsInjective(SubscribersOf(PostsTo[p]))
         /\ \A h \in Handlers : h \in ToSet(SubscribersOf(PostsTo[p])) <=>
              hpc[h] \in Registered /\ Request[h].chan = PostsTo[p]
         /\ ToSet(SubscribersOf(PostsTo[p])) \subseteq Handlers
<1>1. PostsTo[p] \in Channels BY BrokerAssumption
<1>2. IsInjective(SubscribersOf(PostsTo[p])) /\ SubscribersOf(PostsTo[p]) \in Seq(Handlers)
  BY <1>1, EmptySeq
  DEF RegistryInv, RegistryMatchesRequests, TypeOK, SubscribersOf, IsInjective
<1>3. ToSet(SubscribersOf(PostsTo[p])) \subseteq Handlers
  BY <1>2, ElementOfSeq, LenProperties DEF ToSet
<1> QED BY <1>1, <1>2, <1>3
        DEF BeginPublish, RegistryInv, RegistryMatchesRequests, TypeOK

LEMMA SnapshotStep == RegistryInv /\ SnapshotInv /\ [Next]_vars => SnapshotInv'
<1> SUFFICES ASSUME RegistryInv, SnapshotInv, [Next]_vars, NEW p \in Publishers
             PROVE  /\ IsInjective(snapshot[p])'
                    /\ ppc'[p] = "idle" => snapshot'[p] = <<>>
                    /\ \A h \in ToSet(snapshot[p])' :
                         Request[h].chan = PostsTo[p] /\ Authorized(h)
  BY DEF SnapshotInv, Authorized, Protected
<1>1. /\ snapshot[p] \in Seq(Handlers) /\ IsInjective(snapshot[p])
      /\ ppc[p] = "idle" => snapshot[p] = <<>>
      /\ \A h \in ToSet(snapshot[p]) : Request[h].chan = PostsTo[p] /\ Authorized(h)
  BY DEF RegistryInv, TypeOK, SnapshotInv
<1>2. CASE snapshot'[p] = snapshot[p] /\ ppc'[p] = ppc[p]
  BY <1>1, <1>2 DEF ToSet, IsInjective
<1>3. CASE BeginPublish(p)
  <2>1. /\ snapshot'[p] = SubscribersOf(PostsTo[p]) /\ ppc'[p] = "sending"
        /\ IsInjective(SubscribersOf(PostsTo[p]))
        /\ \A h \in ToSet(SubscribersOf(PostsTo[p])) :
             h \in Handlers /\ hpc[h] \in Registered /\ Request[h].chan = PostsTo[p]
    BY <1>3, SnapshotBegins
  <2>2. \A h \in Handlers : hpc[h] \in Registered => Authorized(h)
    BY DEF RegistryInv, AdmittedOnly
  <2> QED BY <2>1, <2>2 DEF ToSet, IsInjective
<1>4. CASE ppc'[p] = "sending" /\ snapshot[p] # <<>> /\ snapshot'[p] = Tail(snapshot[p])
  <2>1. IsInjective(Tail(snapshot[p])) /\ ToSet(Tail(snapshot[p])) \subseteq ToSet(snapshot[p])
    BY <1>1, <1>4, TailToSet
  <2> QED BY <2>1, <1>1, <1>4 DEF ToSet, IsInjective
<1>5. CASE snapshot'[p] = <<>>
  BY <1>5 DEF ToSet, IsInjective
<1> QED BY <1>2, <1>3, <1>4, <1>5, SnapshotSteps

\* The isolation of channels and readers, with what it rests on.
IsolationInv == RegistryInv /\ SnapshotInv /\ OnlyForItsReader

LEMMA IsolationInit == Init => IsolationInv
<1> SUFFICES ASSUME Init PROVE SnapshotInv /\ OnlyForItsReader
  BY RegistryInit DEF IsolationInv
<1>1. SnapshotInv BY DEF Init, SnapshotInv, ToSet, IsInjective
<1>2. \A h \in Handlers : Got(h) = <<>>
  BY EmptySeq, ConcatEmptySeq DEF Init, Got
<1> QED BY <1>1, <1>2 DEF OnlyForItsReader, ToSet

\* What Queue(p) sends to the head of the snapshot may be read there.
LEMMA SealedForReader ==
  ASSUME RegistryInv, SnapshotInv, NEW p \in Publishers, Queue(p)
  PROVE  LET h   == NextSubscriber(p)
             msg == Sealed(Current(p), SubscriberKey(h))
         IN  /\ h \in Handlers /\ h \in ToSet(snapshot[p]) /\ msg \in Message
             /\ msg.from = p /\ msg.num = posted[p] /\ Opened(msg) = Current(p)
             /\ PostsTo[p] = Request[h].chan
             /\ IF Request[h].chan \in Protected
                  THEN msg.seal = Request[h].pubkey /\ msg.seal \in Allowed[Request[h].chan]
                  ELSE msg.seal = NoKey
<1>1. snapshot[p] \in Seq(Handlers) /\ snapshot[p] # <<>>
  BY DEF RegistryInv, TypeOK, Queue, Serving
<1>2. NextSubscriber(p) \in Handlers /\ NextSubscriber(p) \in ToSet(snapshot[p])
  BY <1>1, TailToSet DEF NextSubscriber
<1>3. PostsTo[p] = Request[NextSubscriber(p)].chan /\ Authorized(NextSubscriber(p))
  BY <1>2 DEF SnapshotInv
<1>4. Sealed(Current(p), SubscriberKey(NextSubscriber(p))) \in Message
  BY <1>2, SealedType DEF RegistryInv
<1> QED BY <1>2, <1>3, <1>4 DEF Sealed, Opened, Current, SubscriberKey, Authorized

LEMMA IsolationStep == IsolationInv /\ [Next]_vars => IsolationInv'
<1> SUFFICES ASSUME IsolationInv, [Next]_vars PROVE OnlyForItsReader'
  BY RegistryStep, SnapshotStep DEF IsolationInv
<1>0. RegistryInv /\ TypeOK /\ SnapshotInv /\ OnlyForItsReader
  BY DEF IsolationInv, RegistryInv
<1> SUFFICES ASSUME NEW g \in Handlers, NEW msg \in ToSet(Got(g)')
             PROVE  /\ PostsTo[msg.from] = Request[g].chan
                    /\ IF Request[g].chan \in Protected
                         THEN /\ msg.seal = Request[g].pubkey
                              /\ msg.seal \in Allowed[Request[g].chan]
                         ELSE msg.seal = NoKey
  BY DEF OnlyForItsReader, ToSet, Protected
<1>1. CASE msg \in ToSet(Got(g))
  BY <1>1, <1>0 DEF OnlyForItsReader
<1>2. ASSUME NEW p \in Publishers, Queue(p), g = NextSubscriber(p),
             msg = Sealed(Current(p), SubscriberKey(g))
      PROVE  /\ PostsTo[msg.from] = Request[g].chan
             /\ IF Request[g].chan \in Protected
                  THEN msg.seal = Request[g].pubkey /\ msg.seal \in Allowed[Request[g].chan]
                  ELSE msg.seal = NoKey
  BY <1>2, <1>0, SealedForReader
<1>3. Got(g) \in Seq(Message) BY <1>0, GotType
<1>4. CASE Got(g)' = Got(g) BY <1>4, <1>1
<1>5. ASSUME NEW k \in DOMAIN Got(g), Got(g)' = RemoveAt(Got(g), k)
      PROVE  msg \in ToSet(Got(g))
  <2>1. /\ DOMAIN Got(g)' = 1..(Len(Got(g)) - 1)
        /\ \A i \in 1..(Len(Got(g)) - 1) : Got(g)'[i] = Got(g)[i] \/ Got(g)'[i] = Got(g)[i + 1]
    BY <1>3, <1>5, RemoveAtElements
  <2>2. PICK i \in 1..(Len(Got(g)) - 1) : msg = Got(g)'[i] BY <2>1 DEF ToSet
  <2>3. i \in DOMAIN Got(g) /\ i + 1 \in DOMAIN Got(g) BY <2>2, <1>3, LenProperties
  <2> QED BY <2>1, <2>2, <2>3 DEF ToSet
<1>6. ASSUME NEW p \in Publishers, Queue(p), g = NextSubscriber(p),
             Got(g)' = Append(Got(g), Sealed(Current(p), SubscriberKey(g)))
      PROVE  msg \in ToSet(Got(g)) \/ msg = Sealed(Current(p), SubscriberKey(g))
  <2>1. Sealed(Current(p), SubscriberKey(g)) \in Message BY <1>0, SealedType
  <2> QED BY <2>1, <1>3, <1>6, AppendToSet
<1> QED BY <1>0, <1>1, <1>2, <1>4, <1>5, <1>6, GotSteps

\* Ranks: nothing queued is ahead of its source's last post, and that post is not
\* yet queued for a subscriber the source has still to serve.
RankInv ==
  \A h \in Handlers : \A msg \in ToSet(Got(h)) :
    /\ msg.num <= posted[msg.from]
    /\ h \in ToSet(snapshot[msg.from]) => msg.num < posted[msg.from]

\* Order is inductive only with the ranks, which say that what is appended next is
\* later than all that its source sent before.
OrderInv == IsolationInv /\ RankInv /\ SourceOrder

LEMMA OrderInit == Init => OrderInv
<1> SUFFICES ASSUME Init PROVE RankInv /\ SourceOrder
  BY IsolationInit DEF OrderInv
<1>1. \A h \in Handlers : Got(h) = <<>>
  BY EmptySeq, ConcatEmptySeq DEF Init, Got
<1> QED BY <1>1 DEF RankInv, SourceOrder, ToSet

LEMMA RankStep == RegistryInv /\ SnapshotInv /\ RankInv /\ [Next]_vars => RankInv'
<1> SUFFICES ASSUME RegistryInv, SnapshotInv, RankInv, [Next]_vars,
                    NEW g \in Handlers, NEW msg \in ToSet(Got(g)')
             PROVE  /\ msg.num <= posted'[msg.from]
                    /\ g \in ToSet(snapshot'[msg.from]) => msg.num < posted'[msg.from]
  BY DEF RankInv, ToSet
<1>0. TypeOK /\ Got(g) \in Seq(Message) BY GotType DEF RegistryInv
\* What was there already keeps its rank.
<1>1. ASSUME msg \in ToSet(Got(g))
      PROVE  /\ msg.num <= posted'[msg.from]
             /\ g \in ToSet(snapshot'[msg.from]) => msg.num < posted'[msg.from]
  <2>1. /\ msg.from \in Publishers /\ msg.num \in Nat
        /\ posted[msg.from] \in Nat /\ snapshot[msg.from] \in Seq(Handlers)
    BY <1>0, <1>1, GotType DEF TypeOK, Message
  <2>2. /\ msg.num <= posted[msg.from]
        /\ g \in ToSet(snapshot[msg.from]) => msg.num < posted[msg.from]
    BY <1>1 DEF RankInv
  <2>3. \/ posted'[msg.from] = posted[msg.from] + 1
        \/ /\ posted'[msg.from] = posted[msg.from]
           /\ ToSet(snapshot'[msg.from]) \subseteq ToSet(snapshot[msg.from])
    <3>1. CASE BeginPublish(msg.from) BY <3>1, <2>1, SnapshotBegins
    <3>2. CASE snapshot[msg.from] # <<>> /\ snapshot'[msg.from] = Tail(snapshot[msg.from])
               /\ posted'[msg.from] = posted[msg.from]
      BY <3>2, <2>1, TailToSet
    <3>3. CASE snapshot'[msg.from] = <<>> /\ posted'[msg.from] = posted[msg.from]
      BY <3>3 DEF ToSet
    <3> QED BY <2>1, <3>1, <3>2, <3>3, SnapshotSteps
  <2> QED BY <2>1, <2>2, <2>3
\* What Queue appends is its source's last post, and its reader has just been served.
<1>2. ASSUME NEW p \in Publishers, Queue(p), g = NextSubscriber(p),
             msg = Sealed(Current(p), SubscriberKey(g))
      PROVE  /\ msg.num <= posted'[msg.from]
             /\ g \in ToSet(snapshot'[msg.from]) => msg.num < posted'[msg.from]
  <2>1. msg.from = p /\ msg.num = posted[p] BY <1>2, SealedForReader
  <2>2. /\ posted' = posted /\ posted[p] \in Nat
        /\ snapshot[p] \in Seq(Handlers) /\ snapshot[p] # <<>> /\ IsInjective(snapshot[p])
        /\ snapshot'[p] = Tail(snapshot[p])
    BY <1>2, <1>0 DEF Queue, Serving, TypeOK, SnapshotInv
  <2>3. g \notin ToSet(snapshot'[p])
    BY <1>2, <2>2, TailToSet DEF NextSubscriber
  <2> QED BY <2>1, <2>2, <2>3
<1>3. CASE Got(g)' = Got(g) BY <1>3, <1>1
<1>4. ASSUME NEW k \in DOMAIN Got(g), Got(g)' = RemoveAt(Got(g), k)
      PROVE  msg \in ToSet(Got(g))
  <2>1. /\ DOMAIN Got(g)' = 1..(Len(Got(g)) - 1)
        /\ \A i \in 1..(Len(Got(g)) - 1) : Got(g)'[i] = Got(g)[i] \/ Got(g)'[i] = Got(g)[i + 1]
    BY <1>0, <1>4, RemoveAtElements
  <2>2. PICK i \in 1..(Len(Got(g)) - 1) : msg = Got(g)'[i] BY <2>1 DEF ToSet
  <2>3. i \in DOMAIN Got(g) /\ i + 1 \in DOMAIN Got(g) BY <2>2, <1>0, LenProperties
  <2> QED BY <2>1, <2>2, <2>3 DEF ToSet
<1>5. ASSUME NEW p \in Publishers, Queue(p), g = NextSubscriber(p),
             Got(g)' = Append(Got(g), Sealed(Current(p), SubscriberKey(g)))
      PROVE  msg \in ToSet(Got(g)) \/ msg = Sealed(Current(p), SubscriberKey(g))
  <2>1. Sealed(Current(p), SubscriberKey(g)) \in Message BY <1>0, SealedType
  <2> QED BY <2>1, <1>0, <1>5, AppendToSet
<1> QED BY <1>0, <1>1, <1>2, <1>3, <1>4, <1>5, GotSteps

LEMMA OrderStep == OrderInv /\ [Next]_vars => OrderInv'
<1> SUFFICES ASSUME OrderInv, [Next]_vars PROVE SourceOrder'
  BY IsolationStep, RankStep DEF OrderInv, IsolationInv
<1>0. RegistryInv /\ TypeOK /\ SnapshotInv /\ RankInv /\ SourceOrder
  BY DEF OrderInv, IsolationInv, RegistryInv
<1> SUFFICES ASSUME NEW g \in Handlers, NEW i \in DOMAIN Got(g)', NEW j \in DOMAIN Got(g)',
                    i < j, Got(g)'[i].from = Got(g)'[j].from
             PROVE  Got(g)'[i].num < Got(g)'[j].num
  BY DEF SourceOrder
<1>1. /\ Got(g) \in Seq(Message) /\ DOMAIN Got(g) = 1..Len(Got(g)) /\ Len(Got(g)) \in Nat
      /\ \A k \in DOMAIN Got(g) : Got(g)[k] \in Message /\ Got(g)[k] \in ToSet(Got(g))
  BY <1>0, GotType, LenProperties, ElementOfSeq DEF ToSet
<1>2. \A k, l \in DOMAIN Got(g) :
        k < l /\ Got(g)[k].from = Got(g)[l].from => Got(g)[k].num < Got(g)[l].num
  BY <1>0 DEF SourceOrder
<1>3. CASE Got(g)' = Got(g) BY <1>3, <1>2
<1>4. ASSUME NEW k \in DOMAIN Got(g), Got(g)' = RemoveAt(Got(g), k)
      PROVE  Got(g)'[i].num < Got(g)'[j].num
  <2>1. /\ DOMAIN Got(g)' = 1..(Len(Got(g)) - 1)
        /\ \A l \in 1..(Len(Got(g)) - 1) :
             Got(g)'[l] = IF l < k THEN Got(g)[l] ELSE Got(g)[l + 1]
    BY <1>1, <1>4, RemoveAtElements
  <2> DEFINE up(l) == IF l < k THEN l ELSE l + 1
  <2>2. /\ up(i) \in DOMAIN Got(g) /\ up(j) \in DOMAIN Got(g) /\ up(i) < up(j)
    BY <2>1, <1>1
  <2>3. Got(g)'[i] = Got(g)[up(i)] /\ Got(g)'[j] = Got(g)[up(j)]
    BY <2>1
  <2> HIDE DEF up
  <2> QED BY <2>2, <2>3, <1>2
<1>5. ASSUME NEW p \in Publishers, Queue(p), g = NextSubscriber(p),
             Got(g)' = Append(Got(g), Sealed(Current(p), SubscriberKey(g)))
      PROVE  Got(g)'[i].num < Got(g)'[j].num
  <2> DEFINE msg == Sealed(Current(p), SubscriberKey(g))
             n   == Len(Got(g))
  <2>1. /\ msg \in Message /\ msg.from = p /\ msg.num = posted[p]
        /\ g \in ToSet(snapshot[p])
    BY <1>0, <1>5, SealedForReader
  <2> HIDE DEF msg
  <2>2. Got(g)' = Append(Got(g), msg) BY <1>5 DEF msg
  <2>3. /\ DOMAIN Got(g)' = 1..(n + 1) /\ Got(g)'[n + 1] = msg
        /\ \A l \in 1..n : Got(g)'[l] = Got(g)[l]
    BY <2>1, <2>2, <1>1, AppendProperties, LenProperties
  <2>4. CASE j = n + 1
    <3>1. i \in DOMAIN Got(g) /\ Got(g)'[i] = Got(g)[i] /\ Got(g)'[j] = msg
      BY <2>3, <2>4, <1>1
    <3>2. Got(g)[i].from = p BY <3>1, <2>1
    <3>3. Got(g)[i].num < posted[p] BY <3>1, <3>2, <2>1, <1>0, <1>1 DEF RankInv
    <3> QED BY <3>1, <3>3, <2>1
  <2>5. CASE j # n + 1
    <3>1. /\ i \in DOMAIN Got(g) /\ j \in DOMAIN Got(g)
          /\ Got(g)'[i] = Got(g)[i] /\ Got(g)'[j] = Got(g)[j]
      BY <2>3, <2>5, <1>1
    <3> QED BY <3>1, <1>2
  <2> QED BY <2>4, <2>5
<1> QED BY <1>0, <1>3, <1>4, <1>5, GotSteps

\* PublishEvent is serving this webhook.
InFlight(ev) == ppc[ev.from] = "sending" /\ ev.num = posted[ev.from]

\* The promise of a 202 is inductive only with what holds before the answer: whoever
\* is owed a webhook in flight is served or still in the snapshot.  That answers and
\* debts are of past posts keeps the next post clear of them.
PromiseInv ==
  /\ \A ev \in accepted : ev.num <= posted[ev.from]
  /\ \A h \in Handlers : \A ev \in Webhook : <<h, ev>> \in owed =>
       /\ ev.num <= posted[ev.from]
       /\ InFlight(ev) => Served(h, ev) \/ h \in ToSet(snapshot[ev.from])
  /\ AcceptedReachesGreeted

\* Nobody is served and then not.
LEMMA ServedStays ==
  ASSUME RegistryInv, [Next]_vars, NEW h \in Handlers, NEW ev, Served(h, ev)
  PROVE  Served(h, ev)'
<1>0. TypeOK BY DEF RegistryInv
<1>1. CASE hpc[h] \in {"closing", "done"}
  <2>1. hpc'[h] \in {"closing", "done"}
    <3>1. CASE UNCHANGED hpc BY <3>1, <1>1
    <3>2. ASSUME NEW g \in Handlers, HandlerStep(g) PROVE hpc'[h] \in {"closing", "done"}
      BY <3>2, <1>1, <1>0
      DEF HandlerStep, TypeOK, Reject, Subscribe, Greet, ReceiveEvent, WriteEvent, WriteEventFails,
          ClientGone, Unsubscribe
    <3>3. ASSUME NEW p \in Publishers, BeginPublish(p) \/ PublishStep(p) PROVE UNCHANGED hpc
      BY <3>3 DEF BeginPublish, PublishStep, Queue, DropWhenFull, SkipUnencryptable,
                  PanicOnClosed, Accept, handlerVars
    <3> QED BY <3>1, <3>2, <3>3 DEF Next, vars, handlerVars
  <2> QED BY <2>1 DEF Served
<1>2. CASE <<h, ev>> \in missed
  <2>1. missed \subseteq missed'
    BY DEF Next, vars, HandlerStep, PublishStep, Reject, Subscribe, Greet, ReceiveEvent, WriteEvent,
           WriteEventFails, ClientGone, Unsubscribe, BeginPublish, Queue, DropWhenFull,
           SkipUnencryptable, PanicOnClosed, Accept, historyVars
  <2> QED BY <2>1, <1>2 DEF Served
<1>3. ASSUME NEW msg \in ToSet(Got(h)), Opened(msg) = ev PROVE Served(h, ev)'
  <2>1. CASE Got(h)' = Got(h) BY <2>1, <1>3 DEF Served, Opened
  <2>2. CASE hpc'[h] = "closing" BY <2>2 DEF Served
  <2>3. ASSUME NEW p \in Publishers, Queue(p), h = NextSubscriber(p),
               Got(h)' = Append(Got(h), Sealed(Current(p), SubscriberKey(h)))
        PROVE  Served(h, ev)'
    <3>1. /\ Sealed(Current(p), SubscriberKey(h)) \in Message /\ Got(h) \in Seq(Message)
      BY <1>0, SealedType, GotType
    <3>2. msg \in ToSet(Got(h)') BY <3>1, <2>3, <1>3, AppendToSet
    <3> QED BY <3>2, <1>3 DEF Served, Opened
  <2> QED BY <1>0, <2>1, <2>2, <2>3, GotSteps
<1> QED BY <1>1, <1>2, <1>3 DEF Served

\* The subscriber whose turn it is has been served when its turn is over, unless the
\* loop ended in a panic.
LEMMA TurnServes ==
  ASSUME RegistryInv, SnapshotInv, NEW p \in Publishers,
         Queue(p) \/ DropWhenFull(p) \/ SkipUnencryptable(p),
         NEW h, h = NextSubscriber(p), NEW ev, ev = Current(p)
  PROVE  Served(h, ev)'
<1>1. CASE Queue(p)
  <2> DEFINE msg == Sealed(Current(p), SubscriberKey(h))
  <2>1. h \in Handlers /\ msg \in Message /\ Opened(msg) = ev
    BY <1>1, SealedForReader
  <2>2. /\ buffer \in [Handlers -> Seq(Message)]
        /\ received[h] \in Seq(Message) /\ writing[h] \in Seq(Message)
        /\ buffer' = [buffer EXCEPT ![h] = Append(buffer[h], msg)]
        /\ received' = received /\ writing' = writing
    BY <2>1, <1>1 DEF RegistryInv, TypeOK, Queue, handlerVars
  <2> HIDE DEF msg
  <2>3. Got(h)' = received[h] \o (writing[h] \o Append(buffer[h], msg))
    BY <2>1, <2>2 DEF Got
  <2>4. /\ received[h] \o writing[h] \in Seq(Message) /\ buffer[h] \in Seq(Message)
        /\ Append(buffer[h], msg) \in Seq(Message)
    BY <2>1, <2>2, ConcatProperties, AppendProperties
  <2>5. received[h] \o (writing[h] \o Append(buffer[h], msg)) =
          (received[h] \o writing[h]) \o Append(buffer[h], msg)
    <3> DEFINE sent == received[h]  hand == writing[h]  queued == Append(buffer[h], msg)
    <3>1. sent \in Seq(Message) /\ hand \in Seq(Message) /\ queued \in Seq(Message)
      BY <2>2, <2>4
    <3> HIDE DEF sent, hand, queued
    <3>2. (sent \o hand) \o queued = sent \o (hand \o queued)
      BY <3>1, ConcatAssociative
    <3> QED BY <3>2 DEF sent, hand, queued
  <2>6. msg \in ToSet((received[h] \o writing[h]) \o Append(buffer[h], msg))
    BY <2>1, <2>4, LastOfConcat
  <2>7. msg \in ToSet(Got(h)') BY <2>3, <2>5, <2>6
  <2> QED BY <2>1, <2>7 DEF Served, Opened
<1>2. CASE DropWhenFull(p) \/ SkipUnencryptable(p)
  BY <1>2 DEF DropWhenFull, SkipUnencryptable, Served
<1> QED BY <1>1, <1>2

LEMMA PromiseInit == Init => PromiseInv
  BY DEF Init, PromiseInv, AcceptedReachesGreeted

LEMMA PromiseStep == RegistryInv /\ SnapshotInv /\ PromiseInv /\ [Next]_vars => PromiseInv'
<1> SUFFICES ASSUME RegistryInv, SnapshotInv, PromiseInv, [Next]_vars PROVE PromiseInv'
  OBVIOUS
<1>0. TypeOK BY DEF RegistryInv
\* Only BeginPublish incurs debts, to readers in its snapshot, and only Accept answers.
<1>1. ASSUME NEW h \in Handlers, NEW ev \in Webhook, <<h, ev>> \in owed'
      PROVE  \/ <<h, ev>> \in owed
             \/ /\ BeginPublish(ev.from) /\ ev.num = posted[ev.from] + 1
                /\ h \in ToSet(snapshot'[ev.from])
  <2>1. CASE UNCHANGED owed BY <2>1, <1>1
  <2>2. ASSUME NEW g \in Handlers, HandlerStep(g) PROVE UNCHANGED owed
    BY <2>2 DEF HandlerStep, Reject, Subscribe, Greet, ReceiveEvent, WriteEvent, WriteEventFails,
                ClientGone, Unsubscribe, historyVars
  <2>3. ASSUME NEW p \in Publishers, PublishStep(p) PROVE UNCHANGED owed
    BY <2>3 DEF PublishStep, Queue, DropWhenFull, SkipUnencryptable, PanicOnClosed, Accept,
                historyVars
  <2>4. ASSUME NEW p \in Publishers, BeginPublish(p), <<h, ev>> \notin owed
        PROVE  /\ BeginPublish(ev.from) /\ ev.num = posted[ev.from] + 1
               /\ h \in ToSet(snapshot'[ev.from])
    <3>1. /\ ev = Current(p)' /\ hpc[h] = "streaming" /\ Request[h].chan = PostsTo[p]
      BY <2>4, <1>1 DEF BeginPublish
    <3>2. ev.from = p /\ ev.num = posted[p] + 1
      BY <3>1, <2>4, SnapshotBegins DEF Current
    <3>3. h \in ToSet(SubscribersOf(PostsTo[p])) /\ snapshot'[p] = SubscribersOf(PostsTo[p])
      BY <3>1, <2>4, SnapshotBegins DEF Registered
    <3> QED BY <3>2, <3>3, <2>4
  <2> QED BY <1>1, <2>1, <2>2, <2>3, <2>4 DEF Next, vars, historyVars
<1>2. ASSUME NEW ev \in accepted', ev \notin accepted
      PROVE  /\ InFlight(ev) /\ snapshot[ev.from] = <<>>
             /\ UNCHANGED <<posted, snapshot, owed>> /\ ev \in Webhook
  <2>1. ASSUME NEW g \in Handlers, HandlerStep(g) PROVE UNCHANGED accepted
    BY <2>1 DEF HandlerStep, Reject, Subscribe, Greet, ReceiveEvent, WriteEvent, WriteEventFails,
                ClientGone, Unsubscribe, historyVars
  <2>2. ASSUME NEW p \in Publishers, BeginPublish(p) \/ PublishStep(p), ~Accept(p)
        PROVE  UNCHANGED accepted
    BY <2>2 DEF BeginPublish, PublishStep, Queue, DropWhenFull, SkipUnencryptable,
                PanicOnClosed, historyVars
  <2>3. ASSUME NEW p \in Publishers, Accept(p)
        PROVE  /\ InFlight(ev) /\ snapshot[ev.from] = <<>>
               /\ UNCHANGED <<posted, snapshot, owed>> /\ ev \in Webhook
    <3>1. ev = Current(p) BY <2>3, <1>2 DEF Accept
    <3>2. ev \in Webhook /\ ev.from = p /\ ev.num = posted[p]
      BY <3>1, <1>0 DEF Current, Webhook, TypeOK
    <3> QED BY <3>2, <2>3 DEF Accept, InFlight
  <2> QED BY <1>2, <2>1, <2>2, <2>3 DEF Next, PublishStep, vars, historyVars
<1>3. \A p \in Publishers : posted[p] \in Nat /\ posted'[p] \in Nat /\ posted[p] <= posted'[p]
  <2> SUFFICES ASSUME NEW p \in Publishers
               PROVE  posted[p] \in Nat /\ posted'[p] \in Nat /\ posted[p] <= posted'[p]
    OBVIOUS
  <2>1. posted[p] \in Nat BY <1>0 DEF TypeOK
  <2>2. posted'[p] = posted[p] \/ posted'[p] = posted[p] + 1
    BY SnapshotSteps, SnapshotBegins
  <2> QED BY <2>1, <2>2
<1>4. \A ev \in accepted : ev \in Webhook BY <1>0 DEF TypeOK
<1>5. \A ev \in accepted' : ev.num <= posted'[ev.from]
  <2> SUFFICES ASSUME NEW ev \in accepted' PROVE ev.num <= posted'[ev.from]
    OBVIOUS
  <2>1. CASE ev \in accepted
    BY <2>1, <1>3, <1>4 DEF PromiseInv, Webhook
  <2>2. CASE ev \notin accepted
    BY <2>2, <1>2, <1>3 DEF InFlight, Webhook
  <2> QED BY <2>1, <2>2
<1>6. ASSUME NEW h \in Handlers, NEW ev \in Webhook, <<h, ev>> \in owed'
      PROVE  /\ ev.num <= posted'[ev.from]
             /\ InFlight(ev)' => Served(h, ev)' \/ h \in ToSet(snapshot'[ev.from])
  <2>0. ev.from \in Publishers /\ ev.num \in Nat BY DEF Webhook
  <2>1. CASE BeginPublish(ev.from) /\ ev.num = posted[ev.from] + 1
             /\ h \in ToSet(snapshot'[ev.from])
    BY <2>0, <2>1, <1>3, SnapshotBegins
  <2>2. CASE <<h, ev>> \in owed
    <3> DEFINE p == ev.from
    <3>1. /\ ev.num <= posted[p]
          /\ InFlight(ev) => Served(h, ev) \/ h \in ToSet(snapshot[p])
      BY <2>2 DEF PromiseInv
    <3>2. ev.num <= posted'[p] BY <3>1, <2>0, <1>3
    <3>3. ASSUME InFlight(ev)' PROVE Served(h, ev)' \/ h \in ToSet(snapshot'[p])
      <4>1. CASE posted'[p] = posted[p] /\ snapshot'[p] = snapshot[p] /\ ppc'[p] = ppc[p]
        BY <4>1, <3>1, <3>3, ServedStays DEF InFlight
      <4>2. CASE BeginPublish(p)
        BY <4>2, <3>1, <3>3, <2>0, <1>3, SnapshotBegins DEF InFlight
      <4>3. CASE /\ Queue(p) \/ DropWhenFull(p) \/ SkipUnencryptable(p)
                 /\ posted'[p] = posted[p] /\ ppc[p] = "sending" /\ snapshot[p] # <<>>
                 /\ snapshot'[p] = Tail(snapshot[p])
        <5>1. InFlight(ev) /\ ev = Current(p)
          BY <4>3, <3>3 DEF InFlight, Current, Webhook
        <5>2. CASE Served(h, ev) BY <5>2, ServedStays
        <5>3. CASE h \in ToSet(snapshot[p])
          <6>1. h = NextSubscriber(p) \/ h \in ToSet(Tail(snapshot[p]))
            BY <5>3, <4>3, <2>0, <1>0, TailToSet DEF TypeOK, NextSubscriber
          <6>2. CASE h = NextSubscriber(p)
            BY <6>2, <4>3, <5>1, <2>0, TurnServes
          <6> QED BY <6>1, <6>2, <4>3
        <5> QED BY <5>1, <5>2, <5>3, <3>1
      <4>4. CASE ppc'[p] = "idle" BY <4>4, <3>3 DEF InFlight
      <4> QED BY <2>0, <4>1, <4>2, <4>3, <4>4, SnapshotSteps
    <3> QED BY <3>2, <3>3
  <2> QED BY <1>1, <1>6, <2>1, <2>2
<1>7. AcceptedReachesGreeted'
  <2> SUFFICES ASSUME NEW h \in Handlers, NEW ev \in accepted', <<h, ev>> \in owed'
               PROVE  Served(h, ev)'
    BY DEF AcceptedReachesGreeted
  <2>1. CASE ev \in accepted
    <3>1. ev \in Webhook /\ ev.num <= posted[ev.from] BY <2>1, <1>4 DEF PromiseInv
    <3>2. <<h, ev>> \in owed BY <3>1, <1>1, <1>3 DEF Webhook
    <3>3. Served(h, ev) BY <3>2, <2>1 DEF PromiseInv, AcceptedReachesGreeted
    <3> QED BY <3>3, ServedStays
  <2>2. CASE ev \notin accepted
    <3>1. /\ InFlight(ev) /\ snapshot[ev.from] = <<>> /\ <<h, ev>> \in owed /\ ev \in Webhook
      BY <2>2, <1>2
    <3>2. Served(h, ev) BY <3>1 DEF PromiseInv, ToSet
    <3> QED BY <3>2, ServedStays
  <2> QED BY <2>1, <2>2
<1> QED BY <1>5, <1>6, <1>7 DEF PromiseInv, InFlight

\* Every variable keeps its type: what BeginPublish, Queue and the handlers store is
\* what the Go declarations say.
THEOREM TypeCorrect == Spec => []TypeOK
<1>1. RegistryInv => TypeOK BY DEF RegistryInv
<1> QED BY <1>1, RegistryInit, RegistryStep, PTL DEF Spec

\* The registry lists exactly the open requests, each once and under its channel:
\* Subscribe and Unsubscribe agree whatever the interleaving.
THEOREM RegistryCorrect == Spec => []RegistryMatchesRequests
<1>1. RegistryInv => RegistryMatchesRequests BY DEF RegistryInv
<1> QED BY <1>1, RegistryInit, RegistryStep, PTL DEF Spec

\* For any set of channels, keys and requests: a webhook reaches readers of its own
\* channel only, and on a protected channel only sealed for an allowed reader's key.
THEOREM IsolationCorrect == Spec => []OnlyForItsReader
<1>1. IsolationInv => OnlyForItsReader BY DEF IsolationInv
<1> QED BY <1>1, IsolationInit, IsolationStep, PTL DEF Spec

\* For any number of sources and readers: each reader gets a source's webhooks in
\* order and at most once.
THEOREM OrderCorrect == Spec => []SourceOrder
<1>1. OrderInv => SourceOrder BY DEF OrderInv
<1> QED BY <1>1, OrderInit, OrderStep, PTL DEF Spec

\* For any number of sources, readers and posts and any buffer size: a webhook answered
\* 202 was served to everyone who had read "connected" before it was posted.
THEOREM PromiseCorrect == Spec => []AcceptedReachesGreeted
<1> DEFINE Inv == RegistryInv /\ SnapshotInv /\ PromiseInv
<1>1. Init => Inv BY RegistryInit, IsolationInit, PromiseInit DEF IsolationInv
<1>2. Inv /\ [Next]_vars => Inv' BY RegistryStep, SnapshotStep, PromiseStep
<1>3. Inv => AcceptedReachesGreeted BY DEF PromiseInv
<1> HIDE DEF Inv
<1> QED BY <1>1, <1>2, <1>3, PTL DEF Spec

=============================================================================
