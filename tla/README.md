# coap-server-rs in TLA+

Models, model-checking runs and machine-checked proofs for the CoAP server library `coap-server` and its tokio and
embassy transports. File names below are relative to `src/`; `app/` is `coap-server/src/app/`. `PROJECT.json` maps each
definition to the lines it stands for and lists runs, mutants, findings, hazards and theorems.

## 1. The system

| Component | State | Operations | Talks to |
|---|---|---|---|
| Transport: `coap-server/src/transport.rs`, `coap-server-tokio/src/transport/{udp,udp_framed_fork}.rs`, `coap-server-embassy/src/transport/udp.rs` | multicast joins and default interfaces, then read and write buffer, destination, `flushed` | the tokio builder, `bind`, then `poll_next`, `poll_ready`, `start_send`, `poll_flush` | socket below, server above |
| Server: `coap-server/src/server.rs` | binding, relay channel of 32 items, one task per packet | `bind`, `serve` (a `select!` over reading and relaying), `gen_and_send_responses` | spawns `PacketHandler::handle`, takes responses from a bounded channel |
| App and resource builder, discovery: `app/{app_builder,resource_builder,core_handler,core_link,coap_utils,request_type_key}.rs` | table of resources, list of links with attributes | the calls of both builders, `from_builder`, `GET /.well-known/core` with a query | built once into the app handler |
| Path matcher: `app/path_matcher.rs` | map from segment lists | `lookup`, `match_all`, `insert`, `remove` | routing; holder of observers |
| App handler, resource handler: `app/{app_handler,resource_handler}.rs` | one task per packet, its unbounded response channel | dispatch, route, run the handler, register, loop of an observation | all of the below |
| Observe registry and observers: `app/{observe_handler,observers,observable_resource}.rs` | registrations by path and client, a watch channel and a sequence number per path, attached observers | register, deregister, `on_active` life cycle, `attach`, `stay_active`, `detach`, `notify_change(_for_path)` | the loop of the resource handler listens on the channel and a termination signal |
| Retransmission manager: `app/retransmission_manager.rs` | next message ID, table of unacknowledged messages, a watch channel per send | `send_reliably`, the future it returns, `maybe_handle_reply` | loops send notifications with it; the dispatch gives it Acknowledgements and Resets |
| 24-bit integers `app/u24.rs` | - | wrapping, checked and panicking operators, conversions | sequence numbers |
| Block transfer `app/block_handler_util.rs` | coap-lite's `BlockHandler` (not in this repository) | intercepts requests and responses | resource handler |
| Errors, crate roots, examples | - | conversions | - |

How a request travels: the binding yields a packet with its peer; `serve` spawns a task that calls `handle`; the app
handler spawns a second task, which answers over an unbounded channel and, if the request registers an observer, stays in
a loop that turns changes into Confirmable notifications; the first task moves what comes over that channel into the
relay channel; `serve` takes it from there and sends it, one item at a time, before it reads again. A notification is
copied by the future of `send_reliably` until a *different* packet, an Acknowledgement or Reset with a task of its own,
finds its key in the table.

What is hard here, and where properties look:

- **Interleaving**: two `notify_change` calls; a registration that meets the end of `on_active`; a reply that meets a
  timeout; changes between `changed()` and `borrow()`, during a handler or during a send.
- **Order and staleness**: numbers that are published after their mutex is released, a response that is rendered before
  its subscription, a loop that hears of its termination late.
- **Delivery**: lost, repeated and very late replies, message IDs that come around again.
- **Partial failure**: a multicast group that cannot be joined after others were, a datagram that cannot be sent, a
  packet that cannot be encoded, a handler that fails while it makes a notification, a server that ends below its tasks.
- **Limits**: the relay channel, 16-bit message IDs, 24-bit sequence numbers.
- **Liveness**: sends return, loops stop, idle paths are released, requests are answered, responses leave.

## 2. Modules

| Detailed | implements | composed of | proofs in |
|---|---|---|---|
| `Retransmission` | `ReliableSend` | - | `RetransmissionProofs` |
| `Observe` | `Observations` | `PathMatcher`, `U24` | `ObserveProofs`, `NotificationProofs` |
| `Server` | `ResponseRelay` | `UdpTransport`, `TokioUdp`, `EmbassyUdp` over `FramedBinding` | `ServerProofs`, `RelayProofs` |
| `AppHandler` | - | `AppBuilder` over `PathMatcher` and `CoreLink`, `Retransmission` | `AppProofs` |
| `ObservedApp` | `AppHandler`, `Observe` | both | `ObservedAppProofs` |
| `U24` | - | - | `U24Proofs` |

The `MC` modules hold values of constants only. Operators named as mutants in a comment ("Mutant: ...") are used by no
action; each is a definition of the code changed the way a bug would change it.

### Retransmission (`app/retransmission_manager.rs`)

The mutex around the manager makes `send_reliably` (`Send`) and `maybe_handle_reply` (`HandleReply`) atomic. The future
is cut where it awaits: `Start` is its first poll, `Timeout` and `Wake` are the two branches of the `select!`, and
`Transmit` is one turn of the attempt loop up to the next `select!`. Each turn clones `reply_rx`, and a clone that has not
seen a value reports it at once: if a reply came in before, the future returns in the same poll. Durations are left out,
so a timeout may happen at any time a send waits, and also when a reply is ready, as `select!` polls in random order.

The network is `HandleReply(s, t)`: the peer answers a copy of `s` that went out, any number of times, at any later time,
or never; loss needs no action. The reply carries the key of `s`, and finds whichever send owns that key *now*. If the
owner's future is gone, the code unwraps an error and the packet's task panics (`panicked`). `Displace` is the "re-used
message key" path of an insert. `CloseStream(S)` drops the stream that receives the copies of one request's sends.

`ReliableSend` is what callers rely on: a bounded number of copies, the first thing heard counts, one outcome, which what
was heard justifies, nothing sent after the outcome. The mapping is `copies <- attempt`, `heard <- event`,
`outcome <- Outcomes`.

### Observe (`app/observe_handler.rs`, `app/observers.rs`, the loop of `app/resource_handler.rs`)

The resource is a version number, and a message carries the version its handler read. A request task goes through
`Respond` (handler), `Lock` (lock of the registry, first observer creates the channel and spawns `on_active`), `Subscribe`
(new receiver), `Register` or `Deregister` (table, termination of what was there, unlock), then the loop: `Wake`, `Borrow`,
`Notify`, `SendReturns`, `Terminated`. `act`, `seen` and `base` are the state of `notify_rx`: whose channel, what it has
seen, what the channel held at the subscription. `Value` is the Observe value of a message: the handler's own, if it set
one, else the number of the channel. An activation is named by the request that created it and goes through `Attach`,
`StayActive`, `Detach` and `Remove`: the `on_active` that the documentation of `ObserversHolder` gives. The entry it makes
in the holder is under the relative key that `path_key.replace(prefix, "")` yields (`WithoutPrefix`, `RelKey`).
Notifiers are tasks of the application, as in `examples/app_observable.rs`: `Change` the resource, take the holder's read
lock and collect what is attached (`NotifyChange`, or `NotifyChangeForPath` with the matches of a path), then for each
`Bump` the number under its mutex and `Publish` it after the release. A publication to a channel without receivers leaves
its value, which is what tokio's `watch::Sender::send` does. How a send is delivered is not in this module (`SendReturns`
may succeed or fail); `AppHandler` has it, and `ObservedApp` has both.

`Observations` is what a client relies on, without registry, channels or locks: one observation per client and path is
on, a later request of the same client replaces or cancels it *in the same step*, the resource may give a path up with
all who observe it, an observation that was ended or is over never comes back, and what an observer is told is the state
of that moment. The mapping is `mode <- Modes` (from the place of the task and its termination signal), `told <- body`.

### AppBuilder, PathMatcher, CoreLink, AppHandler

A path is a sequence of segments; as written it has an `Empty` segment for each slash too many. An app is what the calls
of the builders make (`NewApp`, `AddResources`, `MethodHandler`, `LinkAttr`, ...), and `FromBuilder` builds it.
`Tables(app)` is the set of tables `from_builder` may build: the map by string keeps the last resource of a string, and of
strings that normalise to one key any one may stay, because the iteration order of a `HashMap` decides. `Lookup` is the
descending search as a recursive function. `CoreLink` has links with their attributes twice, as the code has them: in the
link that is shown, where all stay, and in the map that queries are compared with, where the last value of a key stays.

An exchange is a packet and its task. `Handle` spawns it; `HandlePacket` dispatches over class and type and finds resource
and method; `Respond` and `Fail` end the part in which the block handler and the application's handler run (both external:
they answer, fail with a code, or fail without one, in which case nothing is sent); `Notify`, `SendReturns` and
`Terminate` are the loop. An exchange sends through the *real* manager: the module instantiates `Retransmission` with
the pairs (exchange, number) as its sends, and `SendStep` and `HandleReply` are that module's actions. `DropStream` is the
end of the server seen from a task; a response to a dropped stream panics, a notification fails.

### ObservedApp (`do_handle` of `app/resource_handler.rs`, with everything it talks to)

The task of a packet in `AppHandler` *is* the task of a request in `Observe`: `task` and `pc` are two views of one place
in `do_handle`, the requests of `Observe` are the exchanges and its clients the pairs of a peer and a token. Each step of
`do_handle` is a step of both modules (`Finish`: the registry has entered or ended a registration and the response goes
out; `Inform`: the handler has run and the manager is asked to send; `Resume`: the send returned, and what it returned
decides for both; `Stop`), or of one while the other one waits (`Report`, `Proceed`, `FailFirst`). What others do
(`AppStep`, `ResourceStep`) leaves the other module alone. What `Observe` leaves open, whether a send returns Ok, is here
what the manager makes of the replies; what `AppHandler` leaves open, when there is something to notify and when a loop
is told to stop, is here what the registry and the resource make of it. `carried` is a history variable: the state in each
notification. The server runs throughout (no `DropStream`), and one resource at most is observable.

### Server, UdpTransport, FramedBinding, TokioUdp, EmbassyUdp

`UdpTransport` is the builder of the tokio transport and its `bind`: the socket, then each group in turn, on the
interface that `Interface` finds, where the system may refuse at any point. `FramedBinding` has the state of a binding and
its socket; `TokioUdp` and `EmbassyUdp` give it the two versions of `poll_next`, `poll_ready`, `start_send` and
`poll_flush`. Their differences are kept: tokio *appends* to the write buffer and skips empty datagrams, embassy clears
buffer and destination before it encodes and unwraps the destination when it flushes. `Server` composes one of them with
the loop: `Start` (bind and `serve`), `Receive` and `Break` (items and fatal errors of the stream), `Respond` and
`EndTask` (the tasks), `TakeRelay` and `SendStep` (`SinkExt::send` as its three stages). While a send is in progress no
other branch of the loop runs; peers may send from the moment the socket exists, served or not.

`ResponseRelay` is what handlers and peers rely on, without sockets, tasks or buffers: responses are settled in the order
in which they were handed over, each is sent whole to the peer that asked or reported as failed, and a reported one may
still go out later, but only before any that follows it. The mapping is `log <- accepted`, `reported <- lost`,
`out <- wire` and `settled <- Settled`, the number of responses neither in the channel nor being sent.

### U24 (`app/u24.rs`)

The operators over a number kept in a wider integer, with the widths as parameters (2^24 in 2^32 in the code): masking,
the conversions that may fail, and `None` where the code returns an error or panics. `Backwards` is RFC 7641's comparison.

## 3. Runs

Deadlock is not checked in any run: all of them bound the number of requests, messages or changes, and when these are
used up the system rests.

| Run | Instance | Distinct states | Shows |
|---|---|---|---|
| `retransmission` | 3 sends, 2 peers, 2 message IDs, up to 2 copies; symmetric | 846 k | types, `PendingSendIsReachable`, `OutcomeIsJustified`, `AnswerMatchesSend`, `AnswerBelongsToSend`, the inductive `IInv`, `OnlyAbandonedSendsPanic`, the refinement `PromiseSpec` |
| `observe` | 3 requests, 2 clients, 1 path, 1 change; symmetric | 552 k | types, `OnActiveIsNotConcurrent`, `LifecycleFindsItsPath`, `ListenersAreRegistered`, `DetachFindsItsEntry`, the inductive `RegistryInv`, the refinement `ObservationsSpec` |
| `observe_sequence` | 2 requests, 2 paths with one relative key, 1 notifier, 2 changes, a handler that numbers one path itself | 729 k | `NotifiedObserverIsCurrent`, `SequenceNeverRunsBackwards` |
| `server` | 2 datagrams of 2 peers, 2 responses each, channel for 1, both bindings, 4 transports on 2 addresses | 136 k | types, `BoundAsConfigured`, `RepliesGoToTheirRequester`, `RepliesAreInOrder`, `NothingVanishes`, `OnlyUnencodableResponsesPanic`, the refinement `RelaySpec`, `RequestsAreServed`, `ResponsesLeave` |
| `app` | 3 apps, 2 exchanges with any of 10 packets, 3 notifications, 2 message IDs | 361 k | types, `RoutedToMostSpecific`, `DiscoveryIsServed`, `DiscoveryMatchesQuery`, `AnsweredOnce`, `NotificationsInTurn`, `AcknowledgedByItsClient`, `ObservationsGoOn`, `RequestsAreAnswered` |
| `observed` | 1 observable resource, 2 exchanges of 2 peers that register, deregister or only ask, 1 change, 1 message ID | 222 k | `LastPublicationWasAcknowledged`, `ObserversCatchUp`, `TerminatedLoopStops`, `IdlePathIsReleased` |
| `retransmission_late_reply` | 1 send | - | finding, below |
| `observe_race`, `observe_stay_active`, `observe_for_path`, `observe_stale_registration` | 1 or 2 requests | - | findings, below |
| `server_poison` | as `server` | - | finding, below |

Why the bounds are enough. *Message IDs*: with fewer IDs than sends every wrap-around case occurs: the third send takes
the key of the first while that one waits, has returned, or was answered; with two peers the same ID also occurs under
different keys. *Sequence numbers*: they start at the last value, so that the first change wraps around; 8 numbers stand
for 2^24 (the proofs about `U24` are for all widths). *Requests*: two of one client give registration over an existing
one, the third registers or deregisters while the path ends and starts again; two clients distinguish the entries.
*Paths*: two that share an entry of the holder, or one below the other. *Relay channel*: one place, two tasks: it is full
as soon as both respond. *Sends to a peer*: one peer can always be reached, the other one may fail or be cut short each
time. *Transports*: none, default and added groups on sockets of both families, with an interface for the
transport, for the group, for both (which must not be mixed up) and for neither. *Apps*:
nested paths with a doubled slash and a link attribute set twice; two strings of one key beside a resource at the root;
an app without discovery. *Retransmissions* in `app`: none, as `retransmission` has them; a send still times out, is
answered, rejected, or loses its stream.
*One notification per exchange* in `observed`: there is one change, so that a second notification could only follow the
end of the activation, whose loops were told to stop before. With one message ID two exchanges of one peer meet in one
entry of the manager's table, and with two peers the same ID belongs to both. The longer histories (a third request, two
changes, two paths) are those of `observe` and `observe_sequence`; what is checked there holds here by
`ObservedAppIsObserve`.

Fairness. `AppHandler`: weak fairness of each task's next step, because the runtime polls a ready future, timers fire and
the application's handlers return; one condition per task suffices, since the kinds of steps exclude each other. No
fairness of the network: replies may never come. `ObservedApp`: weak fairness of everything but peers and changes, taken
together: the runtime runs some task that can run, and as requests and changes are bounded, each runs in time. Strong
fairness of the termination branch only, as `select!` polls its branches in random order and the channel branch may be
ready each time. None of the peers.
`Server`: weak fairness of a send that is in progress (the socket becomes writable), strong fairness of both branches of
the `select!`, for the same reason, and weak fairness of the start: `bind` returns, and the application calls `serve` after
it, as all examples do.

Each property has a mutant in `PROJECT.json`: a definition of the code changed the way a bug would change it, for which
TLC finds the property violated under the run's own configuration.

## 4. Findings

Each is shown by a run that is expected to fail.

1. `LateReplyIsHarmless`: a send that returns `NoReply` or `TransmissionError` keeps its entry in the table; a reply
   that arrives later meets a dropped receiver, and `unwrap` panics the task of that packet (`retransmission_manager.rs:73`).
2. `SequenceNeverRunsBackwards` with two notifiers: the number is taken under the mutex and published outside it, so
   that an observer can be sent n+2 and then n+1 (`observers.rs:156-163`).
3. `StayActiveKeepsObservers`: an observer that subscribes after `stay_active` returned is ended with the activation
   (`observable_resource.rs:15-17`, `observe_handler.rs:128,174`).
4. `RelevantPathsAreNotified`: `notify_change_for_path("resources/abc")` does not reach observers of paths below it
   (`observers.rs:75-77`).
5. `RestingObserverIsCurrent`: a change that is published between the handler's response and the subscription is not
   seen by the new observer until a later change (`observe_handler.rs:128`, `observers.rs:143-145`).
6. `ReachablePeersAreServed`: a send that failed stays in the binding's buffer, and the next response, for whatever
   peer, is lost with its next failure (`transport.rs:61-63`, `udp_framed_fork.rs:156`).

Differences that were met and have no run of their own:

- `NoReply` may be returned although a reply is in the channel, when the last timeout wins the `select!` (the message
  says "no remote reply", `retransmission_manager.rs:217`).
- A loop that ends on a failed send leaves its registration ("unregistering observer...", `resource_handler.rs:140`): it
  stays in the table until its client registers again or the path is released, so also as long as others observe.
- A client that registers again can have one notification of the old and one of the new loop in flight
  (`resource_handler.rs:128-130`). `Observations` admits it: an observation that is ending may still tell.
- Paths with the same relative key share an entry of the holder: `path_key.replace(prefix, "")` maps `counter` and
  `counter/counter` to one key (`observe_handler.rs:107`), and the second `detach` unwraps `None`. `DetachFindsItsEntry`
  is stated for paths with keys of their own.
- A path that `get_path` joined has no slash in front, so a resource that was written with one keeps its own segments in
  the relative keys; a path relative to the resource, as `observers.rs:80-81` describes it, does not match them.
- A handler that fails while it makes a notification has its error sent under the message ID of the original request,
  which was answered before (`app_handler.rs:157-166`): `AnsweredOnce` admits exactly this second message. The
  registration stays.
- An Observe option that is neither 0 nor 1 is refused with 4.00, but after the method's handler has run
  (`observe_handler.rs:73`).
- The registration ignores the method (`resource_handler.rs:198`), while `resource_builder.rs:129` speaks of Get and
  Fetch: an observed PUT runs again for each notification.
- `AppBuilder::disable_block_transfer` sets a value that nothing reads (`app_builder.rs:71-78`); a per-resource override
  of `not_discoverable` (44-45) does not exist; links are joined by a newline (`core_handler.rs:47`), not by ","
  (`resource_builder.rs:183-185`).
- A link attribute that is set twice is shown twice, and compared by its last value only. A query option without an
  equals sign asks for nothing, and what follows a second one is dropped.
- A handler that starts from `new_response` for a request of a type that has no responses panics.
- A group without an interface panics the IPv4 join on an IPv6 socket, instead of failing `bind`.
- An encode error in the embassy binding makes the next `poll_ready` unwrap a missing destination
  (`coap-server-embassy/src/transport/udp.rs:204`) and ends the server; it is an outcome of `EmbassyUdp!Flush`.
  `OnlyUnencodableResponsesPanic` says that nothing else makes the loop panic while it has a response at hand.
- When a read error ends `serve`, each task that still makes a response panics (`server.rs:113`, `EndTask`). That is what
  the `expect` asks for; `NothingVanishes` says what the end costs: the responses in the channel and the one at hand.

## 5. Proofs

All theorems hold for every value of the constants under the named assumptions of the modules, which TLC evaluates in the
runs: the bounds are numbers, the sets that must not be empty are not, `None` is no request, client, peer, item or
number, the paths, queries and groups of the configuration are sequences. Every safety invariant and every safety action
property of a passing run is a theorem.

`RetransmissionProofs`:

- `Invariance`: `Spec => []IInv`. The properties are not inductive alone. That a waiting send owns its entry is
  preserved by a reply only if an entry names a send *under that send's key* and one that has heard nothing yet
  (`EntriesNameTheirSend`); that results are justified needs that a future's stage, attempt and result agree
  (`StagesAreConsistent`). One lemma per kind of step: `SendIInv`, `FutureIInv` (start, timeout and wake-up change one
  send's own fields only), `HandleReplyIInv`.
- From it `TypeCorrect`, `WaitingSendsAreReachable`, `OutcomesAreJustified`, `AnswersMatchSends` and the refinement
  `KeepsPromise`, where each step maps to a step of `ReliableSend` or a stutter.
- `PanicsComeFromAbandonedSends`: a reply panics only for a send that is over and is still in the table. Its entry says
  that it has heard nothing (`EntriesNameTheirSend`, which says so of sends that are over, too), and `StagesAreConsistent`
  what such a send can have returned. The entry is removed before the panic, so a second reply does not find it.
- `AnswersBelongToSends`: until as many messages were sent as there are IDs, an answer belongs to *the very message* and
  not only to its key. The invariant, `AgesDiffer`, counts: on the circle of IDs each send has an age (`Age`), all ages
  are at most the number of sends, and two sends with one ID would have one age. A new send makes all others one older;
  its own ID was not in use, as that would be an age of a whole turn.

`ObserveProofs`, `NotificationProofs`:

- `Invariance`: `Spec => []RegistryInv`. `OnActiveIsNotConcurrent` follows from a correspondence that is stronger than
  it: the path's entry and its live activation name each other (`PathsNameActivations`). Registration preserves this only
  because of what holds inside the critical section (`CriticalSection`: the lock's holder, whose path is registered from
  the first half-step on) and because a request that has not locked yet has created no activation. From it `TypeCorrect`,
  `PathsStayRegistered`, `OneOnActivePerPath`, `ListenersStayRegistered`.
- `ImplementsObservations`: `Spec => ObservationsSpec`. A registration, a Deregister and the end of an activation must
  end exactly the observations that the abstract step ends. That they end *all* of them is `ListenersAreRegistered`; that
  they end *no other* needs `EntriesNameTheirRequest` (a registration names a request of its client for its path), and
  that a new observation starts out on needs `Fresh` (nobody who is not registered was told to stop).
- `NotifiedObserversAreCurrent`: a loop that sends or rests and has seen everything holds the state of the last
  publication or a later one (`UpToDate`). A publication makes every receiver's count stale, which takes `Counts`
  (nobody has seen more than was published); waking up marks as seen only what the handler is about to read.
- `DetachFindsEntry`: with keys that differ, what is attached has its entry (`Entered`), because two live activations
  have different paths (`OwnKey`, from `PathsNameActivations`). `DetachNeverPanics` says which paths have such keys: those
  that do not contain the resource's own path as it was written (`PrefixIsForeign`). Their relative key is the path itself
  (`OwnKeys`: nothing is removed, `ForeignStays`, and splitting what was joined gives the segments, `JoinedHasItsSegments`).
  The paths of `observe_for_path` meet the hypotheses; those of `observe_sequence` do not, and there the panic is reachable.
- `SequencesKeepForward`: `SequenceNeverRunsBackwards` under three hypotheses. `OneNotifier`: with two the property is
  false (finding 2). `NumbersSuffice`: at most half as many changes as numbers, since RFC 7641 compares no further.
  `EitherNumbers`: a path is numbered by its channel throughout, or by a handler that counts on, as a handler that picks
  any numbers makes any order. The instance of `observe_sequence` meets all three. `SequenceInv` places the last value
  sent, the one at hand, the one in the channel and the next one in this order on the circle (`Follows`, `Tells`), and
  bounds the distance between channel and next number by the number of changes (`Paced`), with the number that was taken
  and is not published yet counted once (`Due`, `InHand`). `Ahead` is the distance; `U24Proofs` is about the same order.

`ServerProofs`, `RelayProofs`, for both bindings:

- `Invariance`: `Spec => []ServerInv`. A datagram goes to the peer that asked only if everything before it is addressed
  right: the datagrams in the socket and the tasks (`Asked`), channel and item in progress (`Addressed`), and the buffer
  (`Buffered`): it is empty when it is flushed, else it holds one item and that item's destination, whatever failed
  before. From it `TypeCorrect` and `RequestersGetTheirReplies`.
- `ImplementsRelay`: `Spec => RelaySpec`, from `RelayInv`: responses are numbered, so that no two are the same
  (`Numbered`), the channel holds the last of them and the send in progress the one before these (`Queued`), what a
  failed send left in the buffer was reported, and nothing that follows it was sent (`Left`), and nothing is sent before
  its turn (`OnlySettled`).
- `ResponsesKeepTheirOrder` and `ResponsesAreAccountedFor`, from `OrderInvariance`: the log has the numbers of each
  request in ascending order and without a gap (`NumbersAscend`), the wire follows the log (`WireAscends`), and what had
  its turn was sent or reported (`SettledIsKnown`). Wire, buffer, item in progress and channel are then a part of the log
  in its order (`Within`, an increasing function from places to places), for whichever of them is empty.
- `ServersAreBoundAsConfigured`: while `bind` goes through the groups, those to join are the end of the wanted ones and
  those joined the beginning (`Joined`), so that after the last one nothing is missing and nothing was added. Which groups
  and interfaces these are is said in `ConfiguredGroups` and `ConfiguredFor` without the operators that model the choice
  of the code (`Wanted`, `Interface`); that the choice is the right one is `WantedIsConfigured` and
  `MembershipIsConfigured`, the latter for groups that have an interface, which `Joined` says of all that were joined.
- `PanicsFollowEncodingErrors`: the buffer waits for a flush without a destination only if the last response that had its
  turn could not be encoded (`NoDestination`). Any other failed send keeps its destination, and `poll_flush` of the item
  at hand always has one, by `Left` and `BufferMatches`.

`AppProofs`:

- Paths: `LookupIsLongest` (the search returns the longest prefix of the path that is in the map, or none if there is
  none) and `KeyIsSegments` (`key_from_path` is the sequence of the named segments), for every path and map. What a
  recursive function computes is proved by the least argument for which it would be wrong (`LeastNumber`, from
  `WFMin` of `WellFoundedInduction`): the function exists, its CHOOSE is one that satisfies the equation, and the least
  counterexample contradicts it.
- `ControlInv`: what was sent on the stream of an exchange, by where its task is (`Told`), the packet of a task is one that
  arrived (`Given`). From it and the lemmas about tables (`TableIsWhole`) and about `Collected` (`CollectedLast`) follow
  `RequestsAreAnsweredOnce`, `RequestsAreRouted`, `DiscoveredResourcesAreServed` and `ListingsMatchQueries`, for any set
  of apps (`Apps`).
- `ManagerIsRetransmission`: each step of the exchanges is a step of `Retransmission` over the pairs (exchange, number), or
  a stutter for it. Its theorems are then used through an instance of `RetransmissionProofs` (`RP`), whose assumptions
  are proved (`ManagerAssumption`): `ManagerInvariance`, the rest of `TypeCorrect`, and `NotificationsAreReliable`: the
  promise of `ReliableSend` holds for the notifications of all exchanges together.
- `ObservationsNotifyInTurn`: `Turn` ties the number of notifications of an exchange to the stages of the manager's sends
  and says that all but the last one have the result Ok; it needs `IInv` to know that a result does not change.
- `ObservationsHearTheirClient`: a notification goes to the peer of its exchange (`SentToItsClient`), and an Ok comes from
  an Acknowledgement of that peer (`RepliesAreCredited`, by `EventsComeFromReplies` of `RetransmissionProofs`).

`ObservedAppProofs`, over `AppProofs` and an instance of `NotificationProofs` (`OP`), whose assumption is proved
(`RegistryAssumption`):

- `ObservedAppIsApp` and `ObservedAppIsObserve`: each step of the composition is a step of `AppHandler` or a stutter, and
  a step of `Observe` or a stutter. The second needs `ControlInv` of the first: a packet that reached a handler is one
  of `Packets`, so that what the registry is asked for is one of its paths and clients. All theorems about the two
  modules hold for the composition, among them `OneOnActivePerPath`, `NotifiedObserversAreCurrent` and
  `ObservationsHearTheirClient`.
- `PublicationsAreDelivered`: `ObservedSpec => []LastPublicationWasAcknowledged`. `NotifiedObserversAreCurrent` ends at
  what a loop hands to its send, and `ObservationsHearTheirClient` says who acknowledged without saying what. The
  invariant that joins them, `JointInv`, says that a task is at the same place for both modules and registered for its
  own peer (`Together`), that its last notification carries what its loop was last told, and that a loop that rests
  after a change has sent one (`Carries`). `Turn` of `AppProofs` then says that this last one returned Ok, and `UpToDate`
  of `NotificationProofs` that its state is not behind the last publication. One lemma per kind of step (`ReportJoint` to
  `UntouchedJoint`), over `OneTaskMoves`: what is said of the other tasks stays.

`U24Proofs`: `WrappingAddWraps` (addition modulo the space although it goes through a wider integer that wraps around
itself), `WrappingSubUndoes`, `AddIsExactOrFails`, `ConversionsAreExactOrFail`, `BytesAreNumbers` (`from_le_bytes` never
fails) and `SequencesAreOrdered` (less than half the space of steps ahead is never taken for older). They assume the
relation of the widths (`Sizes`).

Only model-checked: liveness, which needs fairness and ENABLED, out of the prover's reach (`RequestsAreServed`,
`ResponsesLeave`, `ObservationsGoOn`, `RequestsAreAnswered`, `ObserversCatchUp`, `TerminatedLoopStops`,
`IdlePathIsReleased`). `Observe` has no liveness of its own: that its sends return is a matter of the manager, so
these properties are stated of `ObservedApp`, each as what holds again and again. For the last two that is the same as
"leads to": a loop that was told to stop stays so until it is over, and an activation that ended does not come back.
What `WithoutPrefix` computes for a string that has the prefix in it is not proved either, only that others stay.

## 6. Not modelled

- Durations, `AckTimeout` and its random factor: only their order matters to the properties.
- Payloads, options other than Observe and queries, the text of links, log messages.
- `coap-lite` (packets, block transfer) and `tokio` (channels, locks, runtime): modelled where the code uses them. The
  constructor of the block handler (`app/block_handler_util.rs`) has no state of its own.
- Deduplication of requests, which the code does not do (a repeated request is another exchange).
- An `on_active` other than attach, stay_active, detach.
- `poll_close` (never called by the server), the buffers and wakers of the embassy socket, conversions between error
  types.
- A crash and restart: nothing is persisted.

## 7. Plan

Built in this order, the most important behaviour first: (1) `Retransmission` with `ReliableSend` and its proofs;
(2) `Observe` and the proofs of its registry; (3) the bindings and `Server`; (4) `PathMatcher`, `AppBuilder`,
`AppHandler` over `Retransmission`; (5) `U24`, `UdpTransport`, `CoreLink`; (6) `ResponseRelay` and `Observations`, with
the refinements checked and proved; (7) the proofs of all safety properties, `AppProofs` among them; (8) `ObservedApp`,
with the theorems that join those of its parts. Next:

1. An abstract specification of a whole observation, from its registration to its end, that `ObservedApp` implements, with
   `ImplementsObservations` and `NotificationsAreReliable` as its lemmas.
2. `ObservedApp` behind `Server`: the streams that `serve` drops when it ends, which `AppHandler` has (`DropStream`) and
   `ObservedApp` leaves out.
