# TLA+ models of the moleculer-go transit engine and broker lifecycle

This directory holds TLA+ models of the Go source under `src/`. It has
TLC configurations that model-check them on small instances, and TLAPS proofs
of their main safety properties. `PROJECT.json` maps every modelling
definition to the source lines it translates. It also lists the runs, the
mutants that show each checked property can fail, the findings and the
hazards.

## The system

`src/transit/transit.go` is the Transit engine. Each node (process) has one
`TransitImpl`, and its parts are these:

* **Connect** (lines 312-328) creates the transport. It then starts a
  goroutine that waits for `transport.Connect()` and, on success, calls
  `subscribe()` (294-309). `subscribe()` registers one handler per command on
  the node's own channel and on the broadcast channels.
* **Request** (`requestImpl`, 144-168) serializes the call. It panics if the
  call cannot be encoded. Otherwise it stores a pending entry under the
  call's context id in `pendingRequests` and publishes `REQ` to the target.
* **REQ handler** (`requestHandler`, 216-223, and `sendResponse`, 191-210)
  invokes the action and publishes `RES` back to the caller.
* **RES handler** (`reponseHandler`, 174-189) reads the entry (180), deletes
  it (181), and sends the result from a new goroutine (185-187). It holds no
  lock between these steps.
* **$node.disconnected** (`onNodeDisconnected`, 59-65) is meant to cancel the
  pending calls to a node that went away.
* **Transport**: only the interface and the self-filter of `CreateTransport`
  (86-89) are in the repository. The filter drops every message whose
  `sender` is the receiving node.
* **Heartbeat, discovery, node info, ping/pong and events** are
  fire-and-forget publishes and replies (116-142, 226-292).

`src/unnamed/part_000` holds two packages:

* The JSON serializer (lines 1-261): stateless accessors over `gjson`.
* The broker (262-616): `FromConfig` with `mergeConfigs`, then `AddService`,
  `Start` and `Stop`. `startService` polls `waitForDependencies` until the
  dependencies are known, the timeout passes or the broker is not started.
  `Call`, `Emit` and `Broadcast` panic on a broker that is not started.

How the parts interact:

* Transit handlers run concurrently, one invocation per delivered message per
  live subscription, on transport goroutines.
* The pending map is shared by the caller's `Request`, the RES handlers and
  the disconnect handler.
* The broker's methods run on the user's goroutine. The registry, a
  collaborator outside `src/`, discovers remote services meanwhile.

## Modules

| module | models | state | actions |
|---|---|---|---|
| `Transit` | transit.go: connect, subscribe, request/response, disconnect | `status` (up, left, or a panic cause), `hasTransport`, `isConnected`, `connects`, `connecting`, `subs` (live subscription sets), `joined`, `pending` (keys of the map, per node), `net` (message copies in flight), `resThreads` (RES handlers between read and delete), `sends` (values sent per call), `notified`, history `ctx` | `Connect`, `ConnectDone`, `Request`, `RequestEncodeFails`, `ReqHandle`, `ResLookup`, `ResDeliver`, `NodeDisconnected`, `NodeLeave`, `LoseMsg` |
| `MCTransit` | TLC instance of `Transit` | | |
| `TransitProofs` | TLAPS proofs about `Transit` | | |
| `Calls` | the abstract call lifecycle the engine promises | `phase` (unissued, pending, resolved per call), `results` | `Issue`, `Resolve`, `Resend` |
| `TransitCalls` | the refinement mapping from `Transit` to `Calls` | | |
| `MCTransitCalls` | TLC instance of `TransitCalls` | | |
| `TransitCallsProofs` | TLAPS proof that `Transit` refines `Calls` | | |
| `Gossip` | transit.go: HEARTBEAT, DISCOVER, INFO, PING, `DiscoverNodes`, `onBrokerStarted`, the registry and discover handlers, on top of `Transit` | Transit's state plus `gnet` (copies in flight), `heard` (what each registry handler was handed), `found`, `gsent`, histories `asked`, `announced`, `pinged` | `SendHeartbeat`, `DiscoverNode`, `DiscoverNodes`, `SendPing`, `OnBrokerStarted`, `RegistryDelegate`, `DiscoverHandle`, `GLoseMsg`, and every Transit action |
| `MCGossip` | TLC instance of `Gossip` | | |
| `GossipProofs` | TLAPS proofs about `Gossip`, and of its composition with `Transit` and `Calls` | | |
| `PongSkew` | transit.go: the PING and PONG messages and the skew estimate of `pongHandler` | one exchange: `pinger`, `t0`, `up`, `down`, `skew`, and the emitted `event` | none: each initial state is one exchange |
| `MCPongSkew` | TLC instance of `PongSkew` | | |
| `Broker` | part_000 broker lifecycle | `started`, `services` (the slice, in order), `svcState`, `regRunning`, `localSvcs`, `remoteKnown`, and the user goroutine's `pc`, `caller`, `idx`, `cur`, `waited` | `AddService`, `Start`, `StartNext`, `StartDone`, `WaitSleep`, `ServiceStarted`, `Stop`, `Invoke`, `RemoteDiscovered` |
| `MCBroker` | TLC instance of `Broker` | | |
| `BrokerProofs` | TLAPS proofs about `Broker` | | |

How Transit's state and actions correspond to the code:

* Payloads are abstracted to a record: command, `sender` field, the node whose
  channel the message was published on, and correlation id.
* `Copies` is the number of handler invocations one publish causes:
  * none if the self-filter drops the message;
  * otherwise one per live subscription set of the receiver.
  Duplicate subscriptions therefore duplicate handling, as in the code.
* A Go panic is a terminal `status` naming its cause. The panicking node's
  subscriptions die with it.
* The RES handler is two actions. `ResLookup` is the read at line 180: it
  records whether the entry was found. `ResDeliver` is the delete and send at
  lines 181-187. Two handlers can therefore interleave between them.
* `NodeDisconnected(n, t)` looks up `t`, a node ID, in the table of call ids,
  as line 62 does. Node ids and call ids are disjoint (`IdAssumption`), so
  the lookup misses.
* `ReqHandle` replies on the channel of the REQ's `sender` field. The code
  replies to the context's caller node, and `CreateContext`, which builds
  that context from the REQ, is not under src/. That it takes the caller
  from `sender` is an assumption of the model.
* `ReqHandle` leaves out the panic of `sendResponse` when the response
  cannot be serialized (lines 202-205). Only a call's REQ can fail to
  encode (`RequestEncodeFails`); every response in the model encodes.
* `Subscribe(n)` is `subscribe()` (lines 294-309). `ConnectDone` applies it
  when the connect goroutine (lines 320-326) succeeds.

How Calls is read off Transit (`TransitCalls`):

* `CallPhase[id]` is "unissued" while the call has no context, "pending"
  while its caller's `pendingRequests` holds its key, and "resolved" after.
* `results` is `sends`, the values sent on the call's result channel.
* `Request` is `Issue`. A `ResDeliver` that found its entry is `Resolve`, or
  `Resend` when a second handler of the same RES deletes an entry already
  gone. Every other step of Transit is a stutter of Calls.

How Gossip corresponds to the code:

* A copy in `gnet` is a record of command, `sender` field, the channel's
  node ID (`Bcast` for the broadcast channel ""), and the receiving node.
  `GCopies` applies the same accept filter and subscription count as
  Transit's `Copies`.
* Every send operation is guarded by `Sending(n)`, a bound of `MaxSends`
  calls per node. Before Connect the transport is nil and the publish
  panics (`NilTransport`), as `transport.Publish` through a nil pointer does.
* `RegistryDelegate` is `registryDelegateHandler`, recorded in `heard`.
  `DiscoverHandle` is `discoverHandler`: it answers with INFO on the
  prober's channel.
* `OnBrokerStarted` is the `$broker.started` handler. In this repository
  `broadcastLocal` is an empty TODO (part_000 line 430), so nothing fires the
  event; the model lets it fire at any time, to cover a local bus that does,
  and the handler itself reads `isConnected` when it runs.
* The PING and PONG handlers are not actions: SendPing's PING never reaches
  a handler (see the `gossip_ping` run). `PongSkew` evaluates them as
  operators on the messages the code builds.

How PongSkew corresponds to the code:

* `PingMsg`, `PongOf` and `PongEvent` are the message SendPing builds, the
  PONG pingHandler returns, and the event pongHandler emits.
* Clocks are integer seconds (`time.Now().Unix()`). `RoundHalf(h)` is
  `math.Round(h / 2)` for an integer `h`: the half is exact in float64, and
  `math.Round` rounds it away from zero.

How Broker corresponds to the code:

* `pc` is where the user goroutine is: between calls, in Start's range loop,
  or in the polling loop of `startService`.
* One `WaitSleep` is one 100 ms sleep. `MaxWait` rounds stand for
  `WaitForDependenciesTimeout`.

## Runs

There are twelve runs: six pass and six find a violation.

* `transit_safety` (`Transit_safety.cfg` on `MCTransitCalls`) checks
  `TypeOK` and the refinement `Refinement` of Calls as a temporal property.
  * Instance: two nodes, three calls (one unencodable), up to two Connects per
    node.
  * Loss, departures and calls before connect are all enabled. This reaches
    the doubled subscriptions, duplicate RES handling, panics of every kind,
    and a RES arriving after its entry was deleted.
  * Result: every behaviour is a behaviour of Calls. A call gets a result
    only after its REQ was sent, and at most one result. Its pending entry
    goes away only with that result, or with the caller's panic or leave.
* `transit_live` (`Transit_live.cfg`) checks `CallEventuallyAnswered`.
  * Instance: two calls over a lossless transport, calls only after the
    caller's own connect.
  * Result: a call is answered unless its caller or its target goes down.
    With loss it is not, and the code has no timeout (see hazards).
* Three Transit violation runs each check one statement of the spec, and TLC
  finds each violated:
  * `Transit_UnmatchedResponseIsNoop.cfg`: an unmatched RES panics.
  * `Transit_AtMostOneDelivery.cfg`: two results are sent for one call.
  * `Transit_DisconnectCancelsPending.cfg`: a disconnect panics instead of
    cancelling.
* `gossip_safety` (`Gossip_safety.cfg`) checks `GTypeOK` and
  `InfoAnswersDiscover`.
  * Instance: two nodes, one Connect each, two sends per node; loss,
    departures and sends before connect enabled; no calls.
  * Result: node info on a node's own channel comes only from a node that one
    of its DISCOVER publishes reached. Breaking this takes a probe, its
    delivery, the answer's publish and that answer's delivery, by two nodes.
* `gossip_live` (`Gossip_live.cfg`) checks `DiscoveryAnswered`: over a
  lossless transport, a DISCOVER that reached a node is answered by an INFO
  the prober's registry is handed, unless one of the two goes down. With
  probes allowed before the prober's own connect it fails (a hazard).
* `gossip_ping` (`Gossip_PingIsDelivered.cfg`) is a violation run:
  `SendPing` publishes on the pinger's own channel, and the accept filter
  drops the copy, so no PING is ever delivered.
* `pong_rounds_half_up` (`PongSkew_RoundsHalfUp.cfg`) is a violation run:
  `math.Round` gives -1 where the documented round-half-up gives 0.
* `broker_safety` (`Broker_safety.cfg`) checks `TypeOK` and
  `LifecycleConsistent`.
  * Instance: two services, where `s1` needs remote `r1` and `s2` needs `s1`.
    The timeout is two rounds.
  * Result: between calls, the held services are running exactly when the
    broker says it is started. This covers every order of AddService, Start,
    Stop and calls.
* `broker_live` (`Broker_live.cfg`) checks `MethodsReturn`: Start and
  AddService always return.
* `broker_deps` (`Broker_DependenciesBeforeStart.cfg`) is a violation run.
  During `Start` a service is started before its dependency is known, because
  `started` is still false (line 415 against line 512).

TLC also showed, while the model was being built, four disagreements now
recorded as findings without a run of their own: a second Connect
subscribes again (line 314); no Connect broadcasts node info (line 320);
`DiscoverNodes` yields true whatever answers (line 112); and the PONG names
the pinger rather than the peer (line 267).

Why the bounds are enough:

* Two nodes give a caller and a target, a prober and a peer.
* Two Connects give one duplicate subscription, and with it two concurrent
  handlers of the same message. Gossip uses one Connect: its duplicate
  handling is that of Transit's `Copies`, already checked there, and two
  Connects with two sends per node give millions of states.
* Two sends per node let a node probe and then answer or heartbeat, so
  every handler sees a copy from each peer.
* Three calls let two calls be in flight while a third fails to encode.
* Two polling rounds separate a wait that ends by discovery from one that ends
  by the timeout.
* PongSkew is proved for all values; its run only needs the one-second
  asymmetry that shows the rounding.

## Fairness

Transit assumes weak fairness on these steps:

* `ConnectDone`: `transport.Connect()` answers.
* `ReqHandle` and `ResLookup` per message: the transport keeps delivering to
  live subscriptions.
* `ResDeliver` per handler: the Go scheduler runs a runnable goroutine.

Gossip adds weak fairness on `RegistryDelegate` and `DiscoverHandle` per
copy, for the same reason as Transit's handlers.

Calls, sends, departures, disconnect events and losses belong to the
environment and get no fairness.

Broker assumes weak fairness only on the steps inside a method the user has
called. The polling loop only sleeps, so the goroutine keeps running.

## Proofs

TLAPS proves each of the following for every value of the constants that
satisfies the module's `ASSUME`s.

`TransitProofs`:

* `TypeCorrect`: `Spec => []TypeOK`. `TypeOK` is inductive by itself.
* `IInv` and `IInv2` are the inductive invariants behind
  `TransitRefinesCalls` below. `NextIInv` and `NextIInv2` prove that every
  action preserves them, with one step per action and one per conjunct the
  action can disturb. `IInv` is `TypeOK` together with these conjuncts:
  * `NoStaleEntry`: no pending entry is kept for a call whose result was
    sent.
  * `PendingAtCaller`: an entry for a call is held only by that call's caller.
  * `MsgsAtCaller`: every REQ in flight has the caller as sender, and every
    RES in flight is addressed to the caller.
  * `ThreadsAtCaller`: every RES handler of a call runs on the caller.
  * `FreshUnsent`: a call not yet issued has no result sent.

  `IInv2` is `IInv` plus `UnfoundAbsent`. A RES handler that found no entry
  at its read (line 180) still finds none at its delete (line 181). This
  holds because the call already has a context and cannot be issued again.

`Calls` and `TransitCallsProofs`:

* `ResultIffResolvedHolds` (in `Calls`): a call has been sent a value
  exactly when it is resolved. The invariant with `TypeOK` is inductive.
* `TransitRefinesCalls`: `Spec => Refinement`. The initial state maps to
  Calls' initial state (`InitRefines`), and under `IInv2` every step maps to
  a Calls step or a stutter (`NextRefines`). `IInv2` is needed for three
  facts: the handler that sends runs on the call's caller
  (`ThreadsAtCaller`), so the deletion touches the entry `CallPhase` reads;
  a handler that found nothing deletes nothing (`UnfoundAbsent`); and a
  call not issued has nothing sent (`FreshUnsent`). The lemma `PhaseUpdate`
  says a step that changes one call's table membership changes only that
  call's phase.
* `ResolvedIffAnsweredHolds`: Calls' invariant carried over through the
  refinement, with no further induction on Transit.

`GossipProofs`:

* `GTypeCorrect`: `GSpec => []GTypeOK`. It is inductive, with the lemmas
  `GPublishType` and `NilTransportType` for the publish and the panic of a
  send before Connect.
* `InfoAnswersDiscoverHolds`. The property is not inductive alone: a
  registry step hands on what a copy in flight says. The inductive invariant
  `GIInv` adds two conjuncts. `HeardOnlyPeers` says no registry was handed
  its own node's messages. `CopyInv` says three things of every copy in
  flight (`CopyOK`):
  * its sender is not its receiver, since the accept filter drops it;
  * a DISCOVER copy's receiver is among the nodes its sender's probes
    reached (`asked`);
  * an INFO copy on its receiver's own channel comes from a node that the
    receiver's probes reached, because discoverHandler answers a DISCOVER
    copy from the node that received it.

  The lemma `PublishCopyInv` reduces each publish to the copies it adds.
  `asked` only grows (`AskedGrows`), so what a copy says stays true.
* `GossipRefinesCalls` (`GSpec => Refinement`). This is the composition. A gossip step keeps
  every variable of the call engine, or panics its node, which changes only
  `status` and `subs` (`GossipStepFrame`). None of `IInv2`'s conjuncts other
  than `TypeOK` reads those two, so `IInv2` survives (`IInv2Frame`), and
  every gossip step is a stutter of Calls.

`PongSkew`:

* `SkewErrorBoundedHolds`: for every send time, latency and skew, the skew
  pongHandler reports is the negated true skew to within half the latency
  asymmetry, rounded up. It rests on `RoundHalfError` (`math.Round` of a
  half-integer is off by at most one half) and `ExchangeBounded`.
* `SymmetricLegsExact`: with equal latencies the estimate is exact. This
  follows from the bound, because `2 * |e| <= 1` forces `e = 0`.

`BrokerProofs`:

* `BrokerTypeCorrect`: `Spec => []TypeOK`.
* `LifecycleConsistentHolds`: `Spec => []LifecycleConsistent`.
Both go through `IInv`, which is `TypeOK` and `LifecycleConsistent` together
with these conjuncts:

* `UnheldNew`: an instance not yet added was never started or stopped.
* `PcInv`: what the user goroutine has done so far.
  * In Start's loop the broker is not started, and the services before `idx`
    are running.
  * In the wait of a service that `AddService` added, the broker is started,
    the service is the last one held, and all before it are running.
* The lemma `HeldAppend` says that appending a service adds exactly that
  service to the held set.

TLC checked every `IInv` above as an invariant of the safety instance before
it was proved.

The following stay with TLC, because the prover cannot handle them:

* the liveness properties (`CallEventuallyAnswered`, `MethodsReturn`,
  `DiscoveryAnswered`);
* the properties that fail (the violation runs).

## Not modelled

* The `EVENT` handler (lines 226-232) and the `DISCONNECT` subscription: the
  handler's body is commented out, and nothing in the repository publishes
  either command, so they change no state.
* The PING and PONG handlers as steps of a run: they are unreachable
  through the transport (see `gossip_ping`), and `PongSkew` covers what
  they compute.
* `mergeConfigs` and the JSON accessors, logger setup and `DiscoverNodeID`.
  They are pure conversions, library configuration and randomness, and hold
  no control state.
* Concurrent callers of the broker's methods, and the Go runtime's detection
  of concurrent map writes.
