# TLA+ verification of the TelAF simulation

The repository simulates the modem and the application processor that the
TelAF services talk to. Two families of programs exchange JSON envelopes over
an MQTT broker:

* the **platform adapter** (`src/pa/telaf-pa-simula/component`, C++), a library
  loaded by the services: a state-chart framework (`chart`), an MQTT RPC and
  event router (`common/ModemBridge`), and one manager per SDK interface
  (`data`, `net`, `power`, `sim`, `tel`, `platform`);
* the **simulator** (`src/sml`, Python): an MQTT client, one active object per
  modem or host subsystem (`mpss/*`, `apss/power`), and a scenario runner that
  drives them on a timeline (`runtime`).

Every component of both is an *active object*: a worker thread that takes one
event at a time from a FIFO and feeds it to a hierarchical state machine.
Concurrency therefore is never inside a handler; it lies in the order in which
other threads (network, timers, callers) post events, and in the state that
changes between posting and handling. This is what the models keep.

## Inventory

| Part | Source | State that matters | Status |
|---|---|---|---|
| ModemBridge | `component/common/ModemBridge.cpp` | chart state, `in_flight_`, `deferred_`, `subscriptions_`, observers, timers, link | modelled, proved |
| ActiveObject, TimerService, defer queue | `component/chart/include/chart` | queue, `running_`, timer heap | modelled as the bridge uses them |
| Hsm dispatch | `chart/hsm.hpp` | current state, lineage | its effect only |
| Domain managers as bridge clients | `power/TcuActivityManager.cpp`, `tel/CallManager.cpp` | life cycle, captured callbacks | start and destructor only |
| Data calls | `data/DataConnectionManager.cpp`, `sml/mpss/data/connection.py` | session charts on both sides, timers, interface pool | modelled, composed, proved |
| Power rounds | `sml/apss/power` | request queue, acknowledgement round, machine registry | modelled, proved |
| Power, adapter side | `power/TcuActivityManager.cpp` | pending callback, acknowledgements | as a bridge client only |
| eCall | `sml/mpss/ecall` | call slot, HLAP timers, redial | modelled for one phone, proved |
| Scenario runner | `sml/runtime/scenario_runner.py` | next step, pause, pending step timer | not modelled |
| Simulator MQTT client | `sml/common/mqtt_client.py` | link state, back-off, subsystem start-up | not modelled |
| Network settings, SIM, radio, wakeup | `net`, `sim`, `sml/mpss/{net,sim,radio,wakeup}` | tables of values | left out |
| Loader, configuration, registries, tools | `sml/runtime/loader.py`, `sml/config`, `sml/tools` | none that lives | left out: parsing, I/O, generated code |
| Stubs, SDK bypass, `sdk-include` | `src/stub`, `src/bypass` | single-threaded doubles; headers | left out |

`PROJECT.json` lists the same parts with their files, and under `hazards` the
places where each is hard to test.

## Modules

| File | Contents |
|---|---|
| `ModemBridge.tla` | the router, its framework, its clients, libmosquitto and the broker; properties |
| `RpcContract.tla` | what the bridge keeps towards a caller of `send_request`, per request, and nothing else; weaker than the header |
| `MCModemBridge.tla` | constants for TLC: topic and owner assignments, symmetry |
| `ModemBridgeProofs.tla` | facts about events and sequences; type correctness; custody of one-way messages |
| `ModemBridgeRpcProofs.tla` | the RPC path: lemmas on the queues, the inductive invariant and four safety theorems |
| `ModemBridgePubSubProofs.tla` | the link and the broker's subscriptions; the life of a manager |
| `ModemBridgeContractProofs.tla` | observers, subscribers and `drain()`; the refinement of `RpcContract` |
| `DataLink.tla` | what lies between the data manager and the modem: the bridge as `RpcContract` lets its callers see it, and the broker |
| `DataModem.tla` | the modem's data connection object |
| `DataConnectionManager.tla` | the adapter's data manager and its sessions |
| `DataCall.tla` | the composition of the three; properties |
| `DataProofs.tla` | its inductive invariant; types, the modem's pool and timers, the manager's slots |
| `DataCallProofs.tla` | what clients and listeners hear: answers and notices |
| `PowerSubsystem.tla`, `MCPower.tla` | the power subsystem; its instance for TLC |
| `PowerProofs.tla` | the theorems about it |
| `EcallSession.tla` | the procedures of one emergency call, as operators |
| `EcallManager.tla`, `MCEcall.tla` | the manager that owns the call, its queue and its timers; its instance for TLC |
| `EcallProofs.tla` | one lemma per session procedure, the inductive invariant of the manager and the theorems |

### ModemBridge: state and actions

| Model | Code |
|---|---|
| `q`, `running` | `ActiveObject::q_`, `running_` |
| `st` | the chart's leaf state; the parents `NotOperational` and `Connected` are sets of leaves |
| `deferred`, `inFlight`, `subscriptions`, `observers` | the members of the same name |
| `rspTimer`, `connectTimer` | timers: `armed` on the heap, `firing` once taken off it (no longer cancellable), `off` |
| `loop`, `link`, `wire`, `retained` | network thread, connection, the broker's view of this session (external) |
| `pc`, `stopper` | where a manager's life, and `stop()`, stand |
| `calls`, `answered`, `replied`, `lost`, `ow`, `told`, `late` | history for the properties |

The worker has one action per state function (`Disconnected_St`,
`Connecting_St`, `Connected_St`, `Subscribing_St`, `Operational_St`,
`Backoff_St`, `NotOperational_St`, `ShuttingDown_St`) with one disjunct per
signal; a transition is one step with the exits and entries it crosses. The one
exception is the entry of `Subscribing`: the network thread can post between the
subscribe batch and `AllSubAcked`, so `SubscribingEntered` is a step of its own.
`top` takes what neither a leaf nor its parent handles. `ShuttingDown_St`
swallows everything but a drain.

The other threads: `send_request`, `publish_oneway`, `Manager` (subscribe at
start; unsubscribe and `drain` in the destructor, one post per step), `start`
(launch the worker, then post Start: a second factory already sees `running()`
in between), `stop` (post Stop, drain, clear `running_`, join), `TimerTaken`/`TimerFires`
(a cancel in between comes too late), `onConnect_`, `Refused`, `onDisconnect_`,
`onMessage_`, `onRetained`.

Data: a request is its corrId; an incoming message is what parsing and schema
validation make of it (`valid`, `invalid`, `garbled`), plus whether `dest` is
this process. A request past its deadline, one that fails its schema and one
`mosquitto_publish` refuses end alike, so `doSendRequest_` offers the failure as
an alternative.

### Data calls: state and actions

| Model | Code |
|---|---|
| `mst`, `mq` | the manager's leaf state (`NotReady`, `Ready`) and queue |
| `ses[p]` | the entry of `active_sessions_`: the session's chart state, queue, deferred stop, call status, armed timer, callbacks |
| `erasing` | the manager is inside `active_sessions_.erase`, joining the session's worker |
| `rpc`, `held`, `lastId`, `link` | the RPC each session waits for, requests the bridge deferred, corrIds, the bridge's connectivity |
| `wire`, `fifo` | messages to the bridge; the modem object's queue with the messages on their way to it |
| `modem`, `call`, `ifname`, `inUse`, `delay` | the modem object, its `CallSession` per profile, `IfnamePool`, the scheduled timer of each session |
| `answers`, `notified`, `told`, `killed` | history for the properties |

Each session state function is an action (`Idle_St` to `Reconciling_St`,
`Active_St` for the stop requests its tail states leave to it, `Swallow` for
what `top` and `Terminal` discard), each signal of the manager another, each
handler and timer of the modem another. Two things are split because other
threads can act in between: a failed start posts `SessionFinished` from the
handler and again from the entry of `Terminal` (state `Ending`), and erasing a
session waits until its worker has drained its queue (`Joined`).

A reply goes from the bridge to the session, an indication through the manager,
so they can overtake each other. An RPC ends by its reply, by a timeout, by the
loss of the link or, when its deadline passed while it was held, as the link
comes back. Only `CONNECTED` and `NO_NET` indications are kept: no
session state reacts to the others, except that `Connected` refreshes addresses
and bearer, which are data.

### PowerSubsystem: state and actions

`queue` is `_request_queue`, `round` the `_pending_*` members, `timer` and
`running` the uuid in `_pending_timer_uuid` and the timers that will still post
(a timer whose uuid is forgotten keeps running), `ftimer` the retry. A round that
finishes starts the next by a recursive call; `pc` splits that chain into the
steps `_finish_set_state_round` and `_process_next_queued`, during which other
threads only post. `owes` counts the updates each machine was told and has not
answered; answers may be late, negative or never come, and `force_slave_ack`
injects others. `_handle_set_state`, `_record_ack`, `_on_ack_timeout`,
`_retry_local_confirm`, `_apply_add_machine`, `_apply_remove_machine` and
`smfn_stopping` are the handlers of the same name.

### eCall: state and actions

A session procedure runs to completion on the manager's thread and calls other
procedures, so `EcallSession` writes each as an operator from a record (the
session and what its callbacks did so far) to a record; the names are those of
`session.py`. `EcallManager` has one action per handler of the manager; `Before`
and `After` turn the state into such a record and back. A timer is a delayed
post. `armed` are those that run and can be cancelled, `loose` counts those that
run although their uuid was dropped, which happens when a stale expiry of the
same timer is handled. Redial tables are kept by their length. The module
follows one phoneId: phones share only the queue and the configuration.

## Runs

| Run | Checks | Shows |
|---|---|---|
| `bridge_rpc` | `TypeOK`, `OneCustodian`, `OnewayCustody`, `InFlightIsTimed`, `StopLeavesNothing`, `OnlyOurReplies`, `ImplementsContract` | two requests and a oneway through connect, loss, reply, timeout, stop and restart; the bridge refines `RpcContract` |
| `bridge_pubsub` | `WireCoversMap`, `ObserversInformed`, `SubscriberKept`, `DrainFence` | two managers with a topic each start and are destroyed over a failing link |
| `bridge_live` | `EveryCallEnds`, `SettlesOperational`, `DrainReturns`, `StopReturns` | with a reachable broker every request ends, by its callback or discarded by `stop()`, and the bridge comes up; without one, the blocking calls still return |
| `data_call` | `TypeOK`, `AtMostOneAnswer`, `FailedStartIsSilent`, `FinalNotice`, `SlotFreed`, `PoolMatchesCalls`, `NoStuckCall`, `SessionSettles` | three client calls on one profile, another process on a second one, and one disturbance: lost link, early timeout, forced drop, foreign start, change of radio technology or stop of the modem |
| `power` | `TypeOK`, `RoundIsHead`, `RoundIsTimed`, `RequestAccounted`, `NoIdleRound`, `EveryRequestAnswered` | three requests over two machines, with every answer, silence, stale timeout and one control action |
| `ecall` | `TypeOK`, `LiveCallIsOwned`, `EndIsFinal`, `WaitIsTimed`, `MsdIsResolved`, `WaitEnds` | two calls in the same slot, with and without an MSD, with hangups, MSD pulls, failing timers, redial and stale expiries |
| `data_erase` | `ErasedWhenFinished`, violated | see below |
| `data_no_net` | `EndsWithNoNet`, violated | see below |
| `bridge_stop_deferred` | `DeferredCallEnds`, violated | see below |
| `bridge_deadline` | `DeadlineHonoured`, violated | see below |
| `bridge_captured_this` | `DrainFence`, violated | see below |
| `bridge_shared_topic` | `SubscriberKept`, violated | see below |

Six statements of the repository do not hold of the code:

* `IModemBridge.hpp:60-62` says that `stop()` fails every in-flight and deferred
  request, and lines 75-78 that `cb` gets `std::nullopt` when the bridge stops
  first. A request deferred in `Subscribing` is reposted by `recall_all` when the
  bridge becomes `Operational`, behind a `Stop` that was queued behind
  `AllSubAcked`; `ShuttingDown` finds the defer queue empty and then swallows the
  request, whose callback never runs (`bridge_stop_deferred`). A request made
  while `stop()` runs is lost the same way. `RpcContract` therefore has a `Drop`
  that the header does not allow, confined to a bridge that is closing.
* `IModemBridge.hpp:75-78` promises a callback when the deadline of a queued
  request elapses. The deadline is looked at only when the request is finally
  sent, and the timer is armed only then: with the broker down, the callback
  waits for ever (`bridge_deadline`).
* `IModemBridge.hpp:161` says that after `drain()` no callback can reach the
  manager. That holds for event and connectivity callbacks (`bridge_pubsub`) but
  not for RPC callbacks that capture `this`, which stay in `in_flight_`
  (`tel/CallManager.cpp:682`, `bridge_captured_this`).
* `PowerFactory.cpp:32-36` gives master and slave managers indications of their
  own, but both subscribe to the same topics and the table keeps one callback
  per topic (`bridge_shared_topic`).
* `DataConnectionManager.cpp:1115-1118` says the manager drops the session on
  the `SessionFinished` that the entry of `Terminal` posts. A failed start posts
  one before as well (lines 736 and 747). If a client's next start for the
  profile is queued between the two, the second one erases the new session with
  its request in flight, and the client's callback never runs (`data_erase`).
* `connection.py:146` describes a call session as ending through `Disconnecting`
  and `Terminal`, and `test_disconnect_timer_fires_no_net_event` expects a
  `NO_NET` of the disconnect timer. A stop that finds the call still connecting
  is answered with success, but the session ignores it; when the timer fires the
  call is forgotten with `CONNECTING` as its last published status
  (`data_no_net`). The adapter is then freed by its tear-down timer
  (`SessionSettles`).

Smaller observations, not checked as properties. Bridge: a oneway arriving in
`Backoff` is dropped, not deferred as `Signals.hpp` says; schema validation
rejects although `IModemBridge.hpp` calls it log-only; a replayed request is sent
after newer ones that were queued before the replay; after a synchronous failure
of `mosquitto_connect_async` nothing leaves `Backoff`. Data: a stop deferred
while the start is in flight gets no answer when the start fails; a session in
`Connected` stays there when the `NO_NET` of its call is lost. Power: a late
acknowledgement counts for the next round; a machine added during an
`ALL_MACHINES` round is given its state without being told; a stale timeout ends
the next round early. eCall: a redial that succeeds with T5 set to fail waits in
`DecodeSendMSD` for a T5 that only `CallConnect` starts, and a call to a custom
number with T6 set to fail stays in `DecodeMSD`: `Waits` leaves out both, so
`WaitIsTimed` and `WaitEnds` do not speak of them, and each lasts until a hangup;
a call over circuits made without an MSD that gets a pull announces
`MSD_TRANSMISSION_STARTED` and goes on to the conversation with no outcome
(`session.py:288-296`), the one exception `MsdIsResolved` states; an MSD pull
before `SessionStart` makes the call skip `CALL_ACTIVE`; a hangup by the
answering point before `SessionStart` is undone by it; T2 expiring outside the
conversation is ignored. Timers: miros keeps a record of each delayed post in a
deque of 500 that only `cancel_event` shrinks (`scenario_runner.py:283-291`);
`_on_ack_timeout` and the eCall expiry handlers forget the uuid of a timer that
fired instead of cancelling it, so a long run ends in a failing `post_fifo`. The
models take every delayed post to succeed.

### Bounds

`MaxQueue` limits how far the worker falls behind other threads (2 or 3 events;
the worker's own posts and the replay of deferred events are not limited), which
is enough to have a reply, a timeout and a link loss queued together.
`MaxFlaps` = 1 gives one refusal or loss, so each run contains a reconnect;
`MaxMsgs` limits live messages; `MaxStarts` = 2 in `bridge_rpc` gives one
restart. Requests are interchangeable, hence symmetric, in `bridge_rpc`; no
symmetry is used with liveness. `bridge_live` has one request, one manager and a
queue of 2: its properties speak of one request or one thread at a time, and
`bridge_rpc` has two requests for what they share.

`data_call`: three client calls are a start, a stop and a start, the shortest
history in which something of an old session meets a new one; `MaxFaults` = 1
puts one disturbance at every point of it; one interface name and a second
profile used by another process make the pool run empty. `MaxQueue` limits only
what clients post. `power`: three requests put one in its round, one behind it,
and one whose round meets what the first left; two machines have one that answers
and one that does not. `ecall`: two calls are the least in which an expiry
outlives its call; redial tables of length 2 and 1 have a middle and a last
attempt; the kinds are a regulatory call with an MSD, one without and a private
one. What takes two configuration changes, such as the two waits `Waits` leaves
out, is beyond the run; the safety invariants are proved for any number of them.
Stop, control actions, `send_msd` and deregistration come only to an empty queue
(`ArrivesFirst`).

Deadlock is not checked: with every bounded event spent and the queues empty,
these systems are idle.

### Fairness

`LocalFairness` makes each thread that can run do so: the worker, the timer
thread, time itself for deadlines, a thread inside `start()`, `stop()`, or a
manager's start or destructor, and the broker sending retained messages it
owes. Nobody has to call the bridge. `BrokerDownSpec` adds nothing more, so the
broker may stay away; `BrokerReachable`, which `FairSpec` adds and which
`EveryCallEnds` and `SettlesOperational` assume, says that libmosquitto
eventually connects, which its own reconnect loop justifies when the broker is
reachable.

In `data_call` the workers, the modem's thread, both timer services, the RPC
timeout and the delivery of messages are weakly fair, and a lost link comes
back; clients and disturbances are not. In `power` and `ecall` the object's
thread is, and the timers a round or a session waits for: each is a thread that
sleeps and posts. No machine has to acknowledge and no client has to hang up.

## Proofs

For every value of the constants, all bounds included:

| Module | Theorem | States |
|---|---|---|
| `ModemBridgeProofs` | `TypeCorrect` | `Spec => []TypeOK` |
| | `OnewayCustodyHolds` | `Spec => []OnewayCustody` |
| `ModemBridgeRpcProofs` | `Invariance` | `Spec => []Inv` |
| | `CustodyHolds` | `Spec => []OneCustodian` |
| | `TimersHold` | `Spec => []InFlightIsTimed` |
| | `RepliesAreOurs` | `Spec => []OnlyOurReplies` |
| | `StopIsClean` | `Spec => []StopLeavesNothing` |
| `ModemBridgePubSubProofs` | `WireCovers` | `Spec => []WireCoversMap` |
| `ModemBridgeContractProofs` | `ObserversAreInformed` | `Spec => []ObserversInformed` |
| | `SubscribersAreKept` | `Spec => [](starts <= 1 => SubscriberKept)`, when no two managers share a topic |
| | `DrainFences` | `Spec => [](starts <= 1 => DrainFence)`, when no manager owns an RPC |
| | `BridgeImplementsContract` | `Spec => ImplementsContract` |
| `DataProofs` | `DataTypeOK` | `Spec => []TypeOK` |
| | `DataPool` | `Spec => []PoolMatchesCalls` |
| | `DataTimers` | `Spec => []NoStuckCall` |
| | `DataSlots` | `Spec => []SlotFreed` |
| `DataCallProofs` | `DataOneAnswer` | `Spec => []AtMostOneAnswer` |
| | `DataFailedStartIsSilent` | `Spec => []FailedStartIsSilent` |
| | `DataFinalNotice` | `Spec => []FinalNotice` |
| `PowerProofs` | `PowerTypeOK` | `Spec => []TypeOK` |
| | `PowerRoundIsHead` | `Spec => []RoundIsHead` |
| | `PowerRoundIsTimed` | `Spec => []RoundIsTimed` |
| | `PowerRequestAccounted` | `Spec => []RequestAccounted` |
| | `PowerNoIdleRound` | `Spec => []NoIdleRound` |
| `EcallProofs` | `EcallLiveCallIsOwned` | `Spec => []LiveCallIsOwned` |
| | `EcallEndIsFinal` | `Spec => []EndIsFinal` |
| | `EcallWaitIsTimed` | `Spec => []WaitIsTimed` |
| | `EcallMsdIsResolved` | `Spec => []MsdIsResolved` |
| | `EcallTypeOK` | `Spec => []TypeOK` |

With these, every safety property of a passing run is proved.

The assumptions are `ConstantsAssumption` (sentinel values are distinct from real
managers and topics, bounds are naturals), `NamesAssumption` (the local machine
is a machine, `ALL_MACHINES` is not, requests name known states),
`ProfilesAssumption`, `IfnamesAssumption`, `OursAssumption` and `CallsAssumption`
(there is a profile, "no name" is not a name of the pool, clients use known
profiles, the number of calls is a natural) and
`BoundsAssumption` (kinds of calls, redial tables within
`_REDIAL_ATTEMPTS_BOUNDS`, configuration requests of the forms the handlers
accept). TLC evaluates each in the runs of its module.

### ModemBridge

**RPC path.** None of the four properties is inductive alone. The strengthening
has two parts:

* `Stopping`, the protocol of `stop()`: `running_`, `stopper` and the chart agree
  at each stage; the owner's fence is in the queue at most once, only while the
  owner waits, and behind a `Stop` unless the chart already shut down; the defer
  queue holds only requests and oneways. Without it `start()` could throw away a
  queue that still holds requests (custody), and `TimerFires` could post to a
  worker that is gone while the request is still in flight (timers).
* `RepliesQueued`: a valid reply addressed to us that waits in the queue has been
  recorded in `replied`.

`Inv` is the conjunction of `TypeOK`, these two and the properties themselves;
`StopLeavesNothing` follows from it. `ModemBridgeRpcProofs` has one step lemma
per conjunct (`StoppingStep`, `CustodyStep`, `TimedStep`, `RepliesStep`) with one
step per action. Lemmas on what `Append`, `Tail` and concatenation do to the set
of events of a queue (`Image`, `Held`) and to the fence carry the reasoning
about the two queues. `OneCustodian` speaks of a tuple of five sets;
`CustodySpelt` turns it into the equivalent partition the provers can use.

**Refinement.** `status`, what `RpcContract` sees of a request, is a function of
the custody of the request (`StatusFacts`), so a step of the bridge that moves a
request between queues is a stutter of the contract, and a step that runs its
callback or discards it is one of the contract's steps (`AnswerStep`, `FailStep`,
`DropStep`, `IssueStep`). The contract lets a request be dropped only while it is
closing. This needs `Asked`: the terminal state is entered, and `Stop` is queued,
only after `stop()` was called.

**One-way messages.** `Borne` is `OnewayCustody` as a statement about sets, with
the addition that no message is in one queue twice. Without it, the copy left
behind by a publication would break the property.

**The link.** A `LinkUp` can be stale when it is taken: the link went down again.
`LossQueued` says that a link that is gone is about to be noticed: every queued
`LinkUp` has a `LinkDown` behind it, and a connected bridge has a `LinkDown` in
its queue. So the bridge never runs its subscribe batch on a dead link without
the loss being queued, and `WireCoversMap` holds where it claims to.

**Managers.** A manager posts five events in a fixed order: subscribe, observe,
unsubscribe, unobserve, drain. `Lives` says that those in the queue stand in this
order (`Rank`) and that none is ahead of the manager's own progress (`Stage`).
`StepKinds` sorts all steps into thirteen kinds by what managers notice, and the
invariants are shown for the kinds: `Fresh` (a manager whose registration is not
handled is no observer and was told nothing) makes `ObserversInformed` inductive;
`Kept` says that a manager that has started is in the table or has its subscribe
queued; `Present` says that one past its unsubscribe is out of each table unless
the unsubscribe is queued, and that one past `drain()` has nothing queued.

`SubscriberKept` and `DrainFence` are stated for the first `start()` of a bridge.
`ShuttingDown` discards subscribes and unsubscribes: a manager destroyed around
`stop()` stays in the tables, and a second `start()` of the same bridge would call
it. No code of the repository restarts a bridge that has managers. The other
hypotheses mark two of the violations above: a topic shared by two managers
(`bridge_shared_topic`) and RPC callbacks that capture their manager
(`bridge_captured_this`).

### Data calls

`Inv` has the types of every queue (a handler reads fields only its own signal
has), of the sessions and of the calls, and three strengthenings:

* `Pool` adds that a call of the modem holds a name exactly while it exists.
  Without it, releasing the name of one call could release another's.
* `Timed` says which timer ends which state. `NoStuckCall` alone is not
  inductive: a stale `Connect` event that is consumed in `DISCONNECTING` would be
  allowed to be all that is left. A call that is `DISCONNECTING` has the
  `Disconnect` timer scheduled or its event queued.
* `SlotFreed` needs that one session at most is being joined, so that the end of
  the join frees every profile it stood for.

A step is proved on three sides, `ModemSide`, `LinkSide` and `AdapterSide`, which
together are `Inv`: a lemma per handler for the side it changes and a frame lemma
for the others (`SessionsKept`, `LinkKept`, `AdapterKept`).

`DataCallProofs` follows a client's call. `Placed` says that a call without an
answer is carried by at most one event of the manager's queue (`Ids`) or kept by
one session (`Holds`: its start callback until it ran, its stop callback, stops in
its queue or deferred), and that what these carry is unanswered. Every step is one
of a few kinds (`StepKind`): a client's call is accepted or refused, handed from
the manager to a session, answered by the session that held it, or left alone.
An answer therefore goes to an open call. `Heard` ties listeners to answers: a
session that runs has answered its start with success, and one that is over
answered it with an error or told listeners `NO_NET`.

`FinalNotice` speaks of sessions whose own call listeners heard of (`startCb` in
`notified`). The last notice of the profile alone would not do: it may be that of
an earlier session, and a session whose start failed tells listeners nothing.

### PowerSubsystem

`Inv` is `Types` (`TypeOK` with the types of the events and of the round),
`RoundIsHead`, and that a round is being finished only while it is pending.
The last part is what `_finish_set_state_round` needs to answer a request that
exists. `RoundIsTimed` is then inductive on top of `Inv`: a step that keeps the
round keeps its timer or turns it into a queued timeout, and the handler that
consumes a timeout ends the round, whichever round the timeout was for. A lemma
per action shows `Inv` preserved; `NextTimed` goes through the actions once more
for the timer.

`RequestAccounted` counts places; `Placed` says the same with sets (`Ids`) and
sequences without repetition (`Once`): a request on its way or queued is there
once and was not answered, any other request that was made has one answer.

`NoIdleRound` is about a prediction. `_should_enqueue` compares a request with the
state the requests before it will leave. `Foreseen` says that this stays true as
rounds end: every queued request still changes some machine, judged by the states
the machines have now and by the requests ahead of it (`Useful`). A failed round
leaves the predicted state as well, which is why the outcome does not matter. The
proof also showed the condition under which the prediction is right: a request
naming a machine that is not registered gives it a state, which a later
`ALL_MACHINES` request overwrites without the check having foreseen it.
`NoIdleRound` says so, and `MCAsks` contains such a request.

### eCall

A step of the manager runs a chain of session procedures, so the proof goes by
procedure first. The first part of `EcallProofs` states for each what it makes of
a session that is well typed: which state it ends in, which call state it has
announced, that the MSD it announced is resolved when the conversation is reached
(`Resolved`), that the redial attempt stays within the table (`InTable`), and that
a state that waits has its timer scheduled. The second part lifts these to the
manager. `Inv` has three parts:

* `Slot`: the slot is empty or holds a session that is `Sane` between events
  (announced as its state says, numbered with a call that was made); a call that
  is live is that session, and numbers not used yet were never announced;
* `Queue`: the events of the queue carry what their handlers read;
* `Ended`: calls that were ended exist, were announced as ENDED and do not own
  the slot. It needs `Slot`: that a later session has a new number, and that
  announcements go to the session's own number only.

`WaitIsTimed` is inductive on top of `Inv`; the one case that is not local is a
stale expiry, which drops the uuid of a running timer: it moves from `armed` to
`loose` and still falls due.

### Only model-checked

The liveness properties (`EveryCallEnds`, `SettlesOperational`, `DrainReturns`,
`StopReturns`, `SessionSettles`, `EveryRequestAnswered`, `WaitEnds`): temporal
reasoning with fairness is out of the prover's reach. The five violations are
TLC's as well.

## Not modelled

* **SDK headers** (`sdk-include`, some 54,000 of the repository's 86,000 lines):
  declarations of a vendor interface without logic. They bound the share of the
  source any model can stand for.
* **Request handlers over tables** (profiles, VLAN, NAT, L2TP, SOCKS, SIM, radio,
  and the adapter managers in front of them): each request reads or writes one
  table on one thread; there is no timer and no second actor, so unit tests reach
  their states.
* **Parsing and formatting**: envelopes, schemas, scenario files, configuration.
  The models keep the verdict of a validation where control depends on it.
* **Start-up of the simulator's objects** (`Off`, `Starting`, deferred messages)
  and their resubscription: the models begin with the object `Ready`.
* **Power, adapter side**: a manager per machine composed with `PowerSubsystem`
  exceeds thirty million states. The machines of `PowerSubsystem` answer in any
  order or not at all, which includes what the managers do.
* **Scenario runner and simulator MQTT client**: their hazards are listed in
  `PROJECT.json` and no run asks about them yet.
* **eCall**: other phones, requests that only read, `update_hlap_timer`
  (durations), `answer_ecall` (always refused), published timer events.
* **Stubs, bypass, tools**: single-threaded test doubles, constant answers, I/O.
