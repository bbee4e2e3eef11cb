# gosmee in TLA+

gosmee forwards webhooks. A **server** takes them by POST on a channel and relays them
to the **clients** that hold a `GET /events/{channel}` open; a client posts each one to
a local target, may save it and may run a command for it. `gosmee replay` does the same
for the deliveries GitHub keeps of a hook. The server relays in memory (`EventBroker`)
or through Redis Streams, and in the second mode a client can resume where it stopped.

These modules model that program as it is in `gosmee/*.go`. TLC checks them on small
instances; TLAPS proves every safety property and every refinement they are checked for,
for every value of the constants. Liveness is TLC's.
`PROJECT.json` lists which definition models which lines.

- [The system](#the-system)
- [Modules](#modules)
- [Runs](#runs)
- [Fairness](#fairness)
- [Proofs](#proofs)
- [Disagreements found](#disagreements-found)
- [What is not modelled](#what-is-not-modelled)
- [Plan](#plan)

## The system

| Component | State | Operations | Works with |
|---|---|---|---|
| In-memory relay: `EventBroker`, `handleEventsGet`, `localPayloadRelay` (`server.go`, `server_relay.go`) | the registry channel → subscribers; each subscriber's buffered channel | `Subscribe`, `Unsubscribe`, `PublishEvent`; greet, write, leave | one goroutine per request; shares the registry under a lock, sends outside of it |
| Redis relay: `redisPayloadRelay`, `handleRedisEventsGet` | the stream (in Redis); per request the position `readAfterID` | XADD with trimming, XREAD, handshake with `Last-Event-ID`, gap message | replicas share only the stream |
| Client processing: `processClientEvent`, `processClientEventWithRetry`, `resumeState` (`client.go`) | event, attempt, checkpoint and its file | decode, save, forward, exec, retry, checkpoint | target, disk, command |
| Client connection: `clientSetup`, `runSSEClient`, `consumeSSEStream` | the open response, the event being read, the backoff | set up, connect, read a line, dispatch, reconnect | server and client processing |
| Payloads: `handleWebhookPost`, `encryptRelayEvent`, `parse`, `crypto.go` | – | make, seal, open, understand an object | relay, client |
| Replay from GitHub: `replayHooks`, `chooseDeliveries` (`replay.go`) | `sinceTime`, the batch | list, get, post, save, exec, sleep | GitHub's API, target, disk |
| Saved files: `saveData` (`client.go`) | two files per event | create, write, make executable | client and replay |
| Admission: `ipRestrictMiddleware`, `handleWebhookPost`, `handleReplayPost` | none of its own | check address, signature, token, body | options, relay |
| Protected channels: `protected_channels.go`, `serve`, `authorizeEventSubscriber`, `serveIndex` | `protectedChannels` | load the file; let a reader in, show a page, hand out a URL | options, pages and events |
| Configuration: `LoadConfig`, `validateConfig`, `ApplyConfigToContext` (`config.go`, `flags.go`) | `loadedConfig`, the flags | load, validate, apply | every command, before it begins |
| Arguments: `resolveClientURLs`, `replay` (`app.go`, `replay.go`) | – | resolve URLs, repository, hook | configuration, environment |

What is hard here, and what must be right in spite of it:

- **Publishing overlaps with joining and leaving.** `PublishEvent` copies the slice of
  subscribers under the lock and sends with the lock released, while requests come and
  go and `Unsubscribe` closes channels. The registry must list exactly the open
  requests, each subscriber must get its channel's events only, in each source's order
  and once, sealed for its own key on a protected channel; a 202 must mean that whoever
  was connected was served; and no reader may hold up a webhook's source.
- **Positions outlive connections.** In Redis mode there are four notions of how far a
  client is: the checkpoint file, the checkpoint in memory, the position of the handler
  and what is on the wire. Connections are cut, clients are killed, streams are trimmed
  between any two steps. Nothing retained may be skipped, the checkpoint may never move
  back, and what is posted must be processed in the end.
- **A response ends anywhere.** Inside the ID, the name or the data of an event, with an
  error or without one, and what the client has read by then may count as an event. What
  is left in its variables must not become part of the next one, and it must notice, wait
  and connect again.
- **Stages fail one at a time.** A webhook may be saved and not forwarded, forwarded and
  not checkpointed. The checkpoint may follow only one whole attempt, and the retry
  budget of an event without stream ID must be honoured in both directions.
- **Polling by time stamps.** Replay lists pages of a log that grows while it is read, and
  goes on from a second.
- **Sources of options.** Command line, environment, two levels of a file and arguments
  meet in a loop over a Go map and in two functions that resolve the same target.
- **A channel is protected by a file.** Its path comes from any of those sources, its keys are
  texts of which several stand for one key; one mistake in it must stop the server, which
  must never run with fewer protected channels than it was asked for.

## Modules

| Module | Models |
|---|---|
| `EventBroker` | the in-memory relay; one action per critical section and channel operation |
| `StreamEvents` | the messages between server and client |
| `StreamIDs` | the order of stream IDs |
| `RedisRelay` | the stream of one channel and the handler of one reader |
| `ClientProcessing` | the client and one event after the other, its checkpoint, its restart |
| `DurableDelivery` | composes `RedisRelay`, the connection and `ClientProcessing` |
| `AtLeastOnce` | abstract: a trimmed log and a reader with a mark to resume from |
| `EventLines`, `Payloads` | the lines of an event stream; the objects in them, sealed or not |
| `ClientConnection` | a client from its start to the events it reads, and the handler that writes them |
| `MessageStream` | abstract: a connection carries whole messages in order |
| `SavedFiles` | the files of `--saveDir` |
| `ReplayPoller` | the polling loop of replay, over `SavedFiles` |
| `Configuration` | options from their four sources |
| `Arguments` | arguments of client and replay, over `Configuration` |
| `ProtectedChannels` | `serve`, the file of protected channels, and the GETs it decides, over `Configuration` |
| `Admission` | what the server's POST handlers let through, over `Configuration` |
| `Startup` | composes the last four: a process from its command line to its work |
| `MC…` | instances for TLC |
| `SequenceLemmas`, `EventBrokerProofs`, `ClientProcessingProofs`, `DurableDeliveryProofs`, `ClientConnectionProofs`, `ReplayPollerProofs`, `StartupProofs` | proofs |

**EventBroker.** `registry` is `eb.subscribers`, `buffer[h]` the channel
`Subscriber.Events` of request `h`, `closed` the closed ones. `hpc` follows
`handleEventsGet`: `new`, then rejected or `subscribed` (the defer is armed),
`streaming` after "connected" was written, `closing` when the loop is left, `done` after
the deferred `Unsubscribe`. `ReceiveEvent` is the select taking an event out of the buffer, where
its place is free again, and `writing[h]` the event in `writeSSEEvent`, a write that may block,
succeed (`WriteEvent`) or fail (`WriteEventFails`). (Only the handler's own `Unsubscribe` closes its
channel, so the select never meets a closed one: its `!ok` branch has no action.) A publisher is a webhook source that posts one request after
the other; `BeginPublish` is the critical section of `PublishEvent`, and each turn of its
loop is one action: `Queue` a sealed message, `DropWhenFull`, `SkipUnencryptable`, or
`PanicOnClosed`, after which the source is answered 500 by the router's Recoverer.
`accepted`, `owed` and `missed` are history: what was answered 202, who had read
"connected" before the post, and who was left out on purpose.

**RedisRelay.** An entry is known by the rank of its XADD, and 0 is "0-0" and no ID; `IDOf` gives
each rank its stream ID, a pair of numbers that grows with it, and where the code compares
IDs (`Missed`) the model compares those, as `compareRedisStreamIDs` does. `first` and
`last` bound the stream, for XADD appends and trims at the other end, as much as it likes
down to `MaxLen` (`MAXLEN ~`). `Request`, `NewestID`/`OldestID`, `Greet`, `Read`,
`WriteEntry`/`SkipEntry` are `handleRedisEventsGet` in order, and `RequestEnds` is every way
a request ends. What the client gets of a cut response is a prefix, whose last message
may be torn: `consumeSSEStream` dispatches the lines it has at EOF, and then it is a message
that says nothing or one that cannot be understood, under its own ID (`TornKinds`).

**ClientProcessing.** `cpc` follows `processClientEventWithRetry`. `Dispatch` takes an event,
`PassOver` a message of the server, `Refuse` one that cannot be decrypted or parsed, and
each of the stages save, forward and exec succeeds or fails on its own: `LocalFailure`
for disk and command, `TargetFails` for what is worth a retry, `TargetRefuses` for
what is not. `Advance` is the write and rename of the state file with the memory after
it, `AdvanceFails` either half failing; `Crash` may come in between anything.

**DurableDelivery** joins them: `Connect` sends the checkpoint as `Last-Event-ID`, `Take` is
the client reading one message from the wire, `Process` a step of the client (which hangs up
when it exits), `Cut` and `Kill` are faults. Under the refinement `handled <- settled ∪
unsealed`, `mark <- ckpt` it implements `AtLeastOnce`.

**ClientConnection.** `phase` follows the client: `setup`, `connect`, `read`, `process` (or `flush`, for
what is dispatched at the end of the response), `wait` for the backoff, `exited`. `wire` holds
the lines that are written and not yet read, `reader` is `event` and `dataLines`. `WriteWebhook`,
`Greet` and `Keepalive` are what the three kinds of server (in memory, Redis, smee.io) write;
`StreamEnds` leaves any beginning of it, cut in the middle of a line too. `Understand` is what
`processClientEvent` makes of the lines: a control message, a gap, a webhook with its type, or
garbage. `sent` and `taken` are history, and with them it implements `MessageStream`, which is
what `DurableDelivery` takes for granted of a connection. How an event is processed is
`ClientProcessing`'s subject: here it is done in the end, or ends the client.

**ReplayPoller.** A delivery is its rank, `at[d]` the second GitHub gives for it. A poll lists
the newest page, `ChooseDeliveries` cuts it at `since` and reverses it, and each delivery
goes through three GETs, the POST, the save and the command. The file name of a saved
event is its type and its time stamp as the code formats it, without the seconds.

**Configuration, Arguments, ProtectedChannels, Admission, Startup.** An option is worth the place it was found
in, so two sources never agree by accident. `LoadConfig` and its two failures, then
one action per key of the merged configuration, in any order as Go's `range` has it:
`Skip`, `Set`, `SetFails`. `pc` then is the command: `ClientStarts` or `ClientRefuses`, `Lists`,
`ReplayStarts` or `ReplayRefuses`, `Keygen`, `Serves`. `Serves` reads what it finds at the path of
`--encrypted-channels-file` (`listed`, history) and keeps the keys its texts stand for
(`protected`); a GET is answered by that in one step. A server takes one request after the other
through the address check, the checks of its handler and the relay; handlers share
nothing but the relay, which is `EventBroker`'s and `RedisRelay`'s subject. The tables of
flags are complete.

## Runs

All runs take less than five minutes with two workers.

| Run | Instance | Shows |
|---|---|---|
| `broker` | three requests on a protected channel, one with a key it does not allow; a source that posts twice; buffers of 1 | registry, order and the promise of a 202 in every interleaving; publishers never block; what is queued is written or the stream ends; an ended stream is cleaned up |
| `broker_channels` | two readers of the protected channel, one of an open one with the key of one of them; a post to the one channel, two to the other | isolation: nothing crosses channels, events are sealed for their reader on the protected channel and plain on the open one |
| `broker_panic` | three requests on the protected channel, one on the open one | *violation*: see below |
| `client` | every combination of options, `--target-retries 2`, three types: one with a command, one without, one ignored | checkpoint only after one whole attempt, no durable event given up, the budget honoured and used up, events without ID finished |
| `client_exec` | the same | *violation* |
| `durable` | three webhooks, `MaxLen` 1, batches of 2, protected channel, two faults, with and without state file | nothing retained is lost, order, checkpoint never back, a gap reported when there is one and only then, `AtLeastOnce` implemented, everything processed in the end |
| `durable_tail` | three webhooks, no trimming, one fault | *violation* |
| `connection` | ten clients (with and without keys, of open and protected channels, of smee.io, and wrongly set up), four webhooks, four messages on a connection | a connection that ends anywhere carries whole messages or one torn one; a client connects again and again until it gives up, for one of three named reasons; what is written is taken |
| `connection_exit` | the same | *violation* |
| `replay` | four deliveries in three seconds, two of them in a minute, pages of 2, all stages | deliveries once and in order, passed over for two reasons only, lost on disk to a namesake only, none waits for ever |
| `replay_since` | two deliveries in two seconds | *violation* |
| `startup` | 7907 invocations; 182 POSTs and 60 GETs to each of the servers among them, twelve files of protected channels | precedence of all sources, mistakes stop every command, arguments, admission, readers of protected channels |

Bounds and why they are enough:

- *Broker.* A slice is shifted in place only from two subscribers on, a neighbour can be
  mistaken for the caller only then, and a publisher can be overtaken by leave and join
  while it sends: two readers of one channel, a third who is turned away and two posts of one
  source meet all of it. One buffer slot already is empty, full and overflowing. For
  isolation a protected reader has a neighbour with another key and a reader of the open channel
  with the same key, and the fan-outs of both channels overlap. The proofs need none of these bounds.
- *Client.* Two retries give a first, a middle and a last attempt. An event is forgotten
  when it is done, so one at a time says all; stream IDs take two values to tell forward
  from back.
- *Durable.* Three entries with `MaxLen` 1 let a batch of two be trimmed under the handler,
  a gap open before and after the checkpoint, and a second batch follow; two faults allow a
  cut during the recovery from a cut. The IDs are 9-9, 9-10 and 10-0, so that texts and
  numbers disagree twice. The proofs lift the bounds, for any IDs that grow.
- *Connection.* Four messages are the greeting and two more, or a gap and a webhook: an event
  after another and one that is cut. A keepalive is written when the last one was read
  (unread ones would only pile up). `MaxRetryDelay` is 4 seconds, two doublings, where the code
  has 30. A webhook names its event in one header, in two at once, in Bitbucket's way or not at
  all.
- *Replay.* With pages of two and four deliveries a page overflows between polls, and three
  seconds hold two deliveries in one and two in different seconds of one minute (of two
  seconds here; the code's has 60).
- *Startup.* Each family of `MCStartup` varies all that one part of the code tells apart: four
  sources of two flags with good, bad and null values; arguments, variables and file for
  the URLs; every kind of mistake at every place, with a file that is there or not, asked
  for or not. Requests have each signature header alone and each pair of them; the files of
  protected channels make each mistake once, and two texts stand for one key. XADD is
  repeated once (`MaxAttempts` 2; go-redis: up to three times).

Deadlock is not checked where the system may come to rest: nobody has to post or connect,
commands end, and bounds run out. It is checked in `client` and `client_exec`, where the
client always has something to do.

## Fairness

Weak fairness means that a goroutine that can go on does, which Go's scheduler gives.

- `EventBroker`: on each publisher's steps and on the deferred `Unsubscribe`, which wait for
  nothing. Not on reading: a connection may stall. `QueuedIsWritten` assumes of one
  client, in the property, that its writes complete or fail.
- `ClientProcessing`: on the client's own steps. That a command of `--exec` returns is assumed in
  the property that needs it (`ExecReturns`), for nothing bounds its time.
- `DurableDelivery`: on the handler's steps, while the request lives, on connecting, reading and
  processing, and on the client being started again. `ProcessedInTheEnd` assumes in addition
  (`Recovers`) that the target takes a webhook and the disk a checkpoint when tried often enough:
  strong fairness, as the retry loop tries again and again and is interrupted each time.
- `ClientConnection`: on the client's own steps, reading included, since a line that is there is read;
  not on connecting, for a request has no deadline, and not on the server. That an event is
  processed in the end (`Processes`) is assumed in the two properties that need it.
- `ReplayPoller`: on the loop's own steps; that GitHub, target and command answer is assumed in
  `NewOnesAreTried` (`Responsive`).

Nobody has to post, connect, fail or leave.

## Proofs

The theorems are of `Spec`, for every value of the constants that meets the named
assumptions `BrokerAssumption` (keys, the channel of every request and source, a buffer of
one at least), `RelayAssumption`, `ClientAssumption` and `FaultAssumption` (bounds are
naturals, batches not empty), `InvocationAssumption` (flags belong to their command, no key
twice in one map of the file), `AdmissionAssumption` (addresses are not the marks for
"none" and "bad"), `ChannelsAssumption` (the shape of files and GETs; no text, no key),
`ConnectionAssumption` and `KeysAssumption` (the shape of a client's setup; no key is a key),
`TypesAssumption` (no type is a type), `WebhooksAssumption` (a header is a text, so none of them
is the Boolean that marks an envelope in `IsEncrypted`, and what it names is among the types),
`PollerAssumption` (a page of one at least, a type for each delivery) and `MinuteAssumption` (a
minute has seconds). The runs evaluate all of them.

**`EventBrokerProofs`**: any number of channels, readers, sources and posts, any buffer.

| Theorem | Property |
|---|---|
| `TypeCorrect`, `RegistryCorrect` | `TypeOK`, `RegistryMatchesRequests` |
| `IsolationCorrect` | `OnlyForItsReader` |
| `OrderCorrect` | `SourceOrder` |
| `PromiseCorrect` | `AcceptedReachesGreeted` |

Each property needs more than itself. `RegistryInv` puts type, registry and admission
together: what `Unsubscribe` leaves behind is known only if the slice holds
the caller, and holds it once. `SnapshotInv` says of the copies what the registry says of
the slices, since a copy outlives what it was made of; with it isolation is inductive. For the
order, `RankInv` bounds the numbers that are queued by what their source has posted, and
strictly so for readers who are still in the copy. For the promise, `PromiseInv` says of
the webhook in flight that whoever is owed it has been served or is still in the copy, and
that answers and debts are of posts already made. The lemmas about sequences (`RemoveAt`,
`Tail`, `Append`, moving a head into the hand) are in `SequenceLemmas`.

**`ClientProcessingProofs`**: any stream of events (`AnyStream`: any event at any time), any
options, any number of retries.

| Theorem | Property |
|---|---|
| `ClientTypeCorrect` | `ClientTypeOK` |
| `BudgetCorrect`, `GivesUpCorrect` | `BudgetHonoured`, `GivesUpWhenSpent` |
| `CheckpointCorrect`, `DurableCorrect` | `CheckpointAfterWork`, `DurableNotAbandoned` |

`Budget` ties the two counters the code keeps apart: in the middle of an attempt there is a
request for each attempt before it, and one more once it was forwarded. `WorkDone` says
that a checkpoint is at hand only when one attempt got through all stages.

**`DurableDeliveryProofs`**: any number of webhooks, faults and clients' options, any
batch size, any trimming.

| Theorem | Property |
|---|---|
| `TypeCorrect` | `TypeOK` |
| `NoLoss` | `NoLossWithinRetention` |
| `OrderCorrect` | `StreamOrder` |
| `CheckpointCorrect` | `CheckpointNeverBack` |
| `GapCorrect` | `HonestGap` |
| `PromiseKept` | `KeepsPromise`: `AtLeastOnce` without its fairness is implemented |

One invariant, `DeliveryInv`, carries them all. Its middle is `SafeUpTo(m)`: every entry up
to `m` is covered (settled, not for this client, or trimmed) or on its way (on the wire or
in hand). `Window` says so up to each entry on its way, which is why the client may
checkpoint any entry it completes; `Position` and `Batch` say so up to the handler's
position, which is why its next entry may join the wire; `Behind` says that up to the
checkpoint all is covered, which is `NoLossWithinRetention`. `Connection`, `Bounds` and
`Records` are the facts about one component the others lean on, `TornLast` says where on the
wire a torn message can be, and `StreamOrder` is needed
for it and proved with it. `ClientStepCases` reduces the dozen actions of the
client to the five effects the composition can see.

**`ClientConnectionProofs`**: any clients and servers, keys, webhooks, number of messages and
longest backoff.

| Theorem | Property |
|---|---|
| `TypeCorrect` | `TypeOK` |
| `MessagesCarried` | `CarriesMessages`: `MessageStream` is implemented |

The difficulty is that lines say nothing by themselves: what a line of data means depends on
what the reader holds when it comes, and what is written now is read much later. So the
invariant, `InStep`, reads ahead. `Ahead` asks for a way to read all that is on the wire from
where the reader stands: a sequence of readers `rd` and one of counts `cnt`, one step per line
(`Turn`), in which each blank line that ends an event is the next message that was sent
(`Says`). A stream that goes on is read to its last message and leaves nothing in the reader
(`Whole`); one that ended leaves at worst the next message torn (`Cut`). Each step is then a
lemma on sequences of lines: what the server writes is whole (`EventWhole`, `CommentWhole`), two
whole texts are one (`WholeConcat`), the first line of either can be read off (`WholeTail`,
`CutTail`), and every beginning of a whole text is a cut one (`WholeCut`), whichever line it ends
in. What a text means to which client is `SaysControl`, `SaysGap` and `SaysWebhook`, where keys,
headers and envelopes come in. `ReadNext` is why `Processed` must reset the reader: after an event
the text is read on from `NoEvent`. `CarriedStep` maps every step to a step of `MessageStream`
or to none.

**`ReplayPollerProofs`**: any number of deliveries of any types and seconds, any page, any
time to begin, whatever is answered.

| Theorem | Property |
|---|---|
| `TypeCorrect` | `TypeOK` |
| `OrderCorrect` | `OldestFirstOnce` |
| `PassedOverCorrect` | `PassedOverOnlyNearby` |
| `SavedCorrect` | `LostOnlyToNamesake` |

`PollerInv` says how far each poll gets. `Batch`: the list that is worked on is one stretch of the
hook's deliveries, none of it is old, and what is before it is old or had been pushed off the
page; that is what `ChooseDeliveries` makes of a page (`Chosen`), as the hook's
deliveries are in the order of their seconds (`Clock`). `Posted`: between polls all that was posted
is old for the next one, and within a batch it lies before the delivery in hand, so nothing is
posted again. `Since`: a poll begins a second after a delivery that was tried; the others of
that second are the ones that may be passed over, and no more. `Saved`: a delivery is saved
once, so the one that takes over a name is a later one. `Tries` is needed for the types only: the
GETs would otherwise be counted past the last. Induction over lists is replaced by the least
number of a set (`LeastElement`): the first neighbour out of order, the first old delivery.

**`StartupProofs`**: any set of invocations, any requests, secrets and addresses.

| Theorem | Property |
|---|---|
| `TypeCorrect` | `TypeOK` |
| `PrecedenceCorrect`, `MistakeCorrect` | `Precedence`, `MistakeStopsAll` |
| `ArgumentsCorrect`, `ClientsHaveWork` | `ArgumentPrecedence`, `ClientHasWork` |
| `ReadersCorrect` | `ReadersAreNamed` |
| `GenuineOnly`, `GenuineNotRefused` | `OnlyGenuine`, `GenuineTaken` |

`ConfigInv` says where the value of each flag comes from in the middle of the loop
(`FlagRight`): a key that is still pending has not moved its flag, so the order in which Go
ranges does not matter. For the arguments, `TypedPlaces` counts out what is typed for which
number of arguments and `ConfigString` says what the section has, so that each of the five
arguments is one choice among the same three. `ArgumentInv` and `AdmissionInv` remember what the command found
when it began and what a request had passed when it got where it is; `ReadersInv` says that
what was loaded is what the file says and every answer was given by it; that an option the
proof finds in a flag was given in one of the places it counts in is `GivenIsAsked`.

Only model-checked are the liveness properties, as fairness and `ENABLED` are beyond the proof
system: `PublisherNeverBlocks`, `QueuedIsWritten`, `StreamEndIsCleanedUp`, `NonDurableFinishes`,
`ProcessedInTheEnd`, `KeepsTrying`, `WrittenIsTaken`, `NewOnesAreTried`. The fairness of
`AtLeastOnce` is not proved to be implemented, only its initial state and its steps.

## Disagreements found

Five runs end in a counterexample, each of a sentence in the repository (sources are in
`gosmee/`).

| Run | Source | What the code does |
|---|---|---|
| `broker_panic` | `server.go:147` | `PublishEvent` sends to a copy of the subscribers while `Unsubscribe` closes their channels. A send on a closed channel panics; the source is answered 500, and the subscribers after it in the copy get nothing, though "PublishEvent sends an event to all subscribers of a channel" (`server.go:124`). |
| `client_exec` | `client.go:1077` | A failing `--exec` is an ordinary error, and an event with a stream ID is tried again without limit: "A non-zero exit code is logged as an error but does not stop processing further events" (`README.md:304`). |
| `durable_tail` | `server.go:846` | A client without a checkpoint that reconnects starts at the newest entry and skips what was posted while it was away, though it had been connected: "Delivery is at least once within the Redis retention window" (`README.md:383`). |
| `connection_exit` | `client.go:1267` | At the end of a response that ends without an error the lines of data read so far are dispatched. Cut inside a line they cannot be parsed, which is a permanent error: the client exits, after "Configured reconnection strategy to retry indefinitely" (`client.go:1297`). |
| `replay_since` | `replay.go:132` | The next poll starts a second after the last delivery seen, and a later one of the same second is never replayed: "This will listen to all **new** events" (`README.md:602`). |

What remains true is stated by properties that hold. After a panic: a webhook that is answered
202 was served to all (`AcceptedReachesGreeted`). With a late second: a delivery is passed over
only for a close neighbour or when a page overflows (`PassedOverOnlyNearby`). With a torn
message: the client is at it again until it gives up, and it gives up only when it was not set
up to begin, when the target refuses an event with a stream ID, or over something it cannot
understand (`KeepsTrying`): a webhook sealed for a key whose other half it does not have, or a
message the end of the response has cut.

Four more have no run of their own. In each, a property that holds states what the code does
do:

- *A replay's target.* A replay prefers `GOSMEE_TARGET_URL` to the target among its arguments
  (`replay.go:208`), where a client does the opposite (`app.go:115-121`): "CLI flags beat
  environment variables, which beat the config file" (`README.md:518`). `ArgumentPrecedence`
  states both orders, this exception by name (`EnvironmentFirst`).
- *A gap that opens late.* The oldest ID is read first, then the client is greeted, then the
  stream is read (`server.go:858-904`). What is trimmed in between is skipped without a
  message: "If a client reconnects with a `Last-Event-ID` older than the oldest retained event,
  gosmee sends a `gosmee-gap` SSE event" (`README.md:394`). `HonestGap` holds of the moment at
  which that ID was read, and `NoLossWithinRetention` all the same, as what was trimmed is not
  retained.
- *Names of saved events.* The layout of time stamps has the month where the seconds should be
  (`client.go:52`), so the names of saved events repeat within a minute, and one event replaces
  another: "Save payloads to `DIR` populated with shell scripts to replay easily"
  (`flags.go:35`). `LostOnlyToNamesake` says that nothing else does.
- *The type of an event* is the first word its header names (`client.go:141`), so Bitbucket's
  "pr:opened" has the type "pr", and `--ignore-event pr:opened` ignores nothing: "You can ignore
  certain events (identified by GitLab/GitHub/Bitbucket)" (`README.md:256`). `CarriesMessages`
  says that a webhook has one of the types the code makes of its headers.

## What is not modelled

- *Bytes.* The arithmetic of encryption (a sealed object is the object and a key), base64 but for
  the several texts of one key, letter case, signatures as HMACs (a signature is the secret it was
  made with). A string is its words.
- *Key pairs.* How `keygen` makes and saves one; the modes of files.
- *Libraries.* urfave/cli (what it has put into the flags is where the model starts), go-redis
  (repeats an XADD), Redis (one stream, appended to and trimmed), GitHub's API (pages of a
  log), chi and net/http. They are marked external where the map names them.
- *Options before the name of the command*, and the environment variables of a flag
  one by one: a flag has one or has none. An option that is given is not empty.
- *Text that no property tells apart.* An empty list for a flag that takes several values sets nothing
  (`config.go:247-252`; here a value is not empty). A message whose data is the bare word `ready`
  (`client.go:998-1000`), which no server here writes. An object with a body and no headers, which
  `parse` takes and `processClientEvent` refuses (`client.go:1058-1060`): a server always sends headers.
  The prefix `sha256=`, which some of the signature headers must have, some may and some must not
  (`server.go:243`, `261`, `266`): a signature is well formed or forged.
- *A `--time-since` in the future* (`replay.go:232-243`).
- *Time.* A sleep ends, a keepalive is a write that may fail, and a timeout is a failure. A
  connection that is dead and not closed is one on which nothing more is written: the
  response has no deadline (`client.go:1174`), and the client cannot tell the two apart.
- *The version check.* `clientSetup` warns of an old server, and nothing else depends on it.
- *Pages, logs, shell completion, `--list-hooks` and `--list-deliveries`.* They print.

## Plan

1. **Sharper instances.** Two clients of one stream; two sources on a protected channel.
2. **The connection under `DurableDelivery`.** Its wire carries whole messages of which the last may
   be torn, which is what `MessageStream` promises of a connection; that the one is the other is
   said here and in the comments, and could be a refinement that is proved.

Things met while modelling that no sentence of the repository decides, and no property
states: `gosmee replay` accepts `--noReplay` and `--ignore-event` and ignores them; it takes its target
from three arguments and not from four (`replay.go:210`); a delivery whose three GETs fail is
dereferenced as nil (`replay.go:68`); an attempt to save an event again truncates the copy the
first attempt saved, and a save that fails may leave an older script beside a new payload
(`client.go:262-280`); a payload may be stored twice, or stored and answered 500, when Redis's answer
to an XADD is lost (`server_relay.go:124`; "Duplicates can happen after reconnects or failures",
`README.md:383`); a null `smee-url` becomes the URL `<nil>` (`config.go:270`); a server ignores a
top-level `output` or `log-level`.
