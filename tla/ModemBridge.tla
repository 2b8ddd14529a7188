---------------------------- MODULE ModemBridge ----------------------------
(***************************************************************************)
(* The MQTT RPC router of the platform adapter                             *)
(* (component/common/ModemBridge.cpp): an active object whose worker       *)
(* thread consumes a FIFO of events posted by the callers of its public    *)
(* methods, by libmosquitto's network thread, by the timer thread and by   *)
(* itself.                                                                 *)
(*                                                                         *)
(* Threads and the steps they take:                                        *)
(*   worker    one action per state function, one event per step; the      *)
(*             entry of Subscribing is the one place cut in two, because   *)
(*             the network thread may post between its two halves;         *)
(*   network   libmosquitto and the broker (external): connect, refuse,    *)
(*             drop, deliver;                                              *)
(*   timer     TimerService: a due timer is taken off the heap first and   *)
(*             posts later, so a cancel in between comes too late;         *)
(*   clients   send_request, publish_oneway, and the domain managers,      *)
(*             which subscribe when they start and unsubscribe and drain   *)
(*             when they are destroyed;                                    *)
(*   owner     start() and stop().                                         *)
(***************************************************************************)
EXTENDS Naturals, Sequences, FiniteSets

CONSTANTS
    Reqs,            \* RPCs; a member is its corrId, each is sent once
    Oneways,         \* publish_oneway messages, each sent once
    Managers,        \* domain managers (subscribers)
    Topics,          \* event topics, each with a retained message
    NoManager,       \* nobody: a callback that captures no manager
    RspWildcards,    \* the two response wildcards, subscribed together
    Topic,           \* the event topic a manager subscribes to
    Owner,           \* the manager an RPC's callback captures by `this`
    ConnectOutcomes, \* results of mosquitto_connect_async to consider
    AllowStop,       \* whether the owner may call stop()
    MaxStarts,       \* bound: calls of start()
    MaxFlaps,        \* bound: refused connections and lost links
    MaxMsgs,         \* bound: live messages the broker delivers
    MaxQueue         \* bound: events queued when another thread posts one

ASSUME ConstantsAssumption ==
    /\ NoManager \notin Managers
    /\ RspWildcards \notin Topics
    /\ Topic \in [Managers -> Topics]
    /\ Owner \in [Reqs -> Managers \cup {NoManager}]
    /\ ConnectOutcomes \subseteq {"ok", "fail"}
    /\ AllowStop \in BOOLEAN
    /\ MaxStarts \in Nat
    /\ MaxFlaps \in Nat
    /\ MaxMsgs \in Nat
    /\ MaxQueue \in Nat

VARIABLES
    running,        \* ActiveObject::running_
    q,              \* ActiveObject::q_
    st,             \* the chart's current leaf state
    busy,           \* worker inside Subscribing's entry, batch issued
    deferred,       \* deferred_
    inFlight,       \* keys of in_flight_
    subscriptions,  \* subscriptions_: topic to the manager its callback captures
    observers,      \* connectivity_observers_
    rspTimer,       \* the response timer of each request
    connectTimer,   \* connect_timeout_
    loop,           \* mosquitto_loop_start's thread exists
    link,           \* the client is connected to the broker
    wire,           \* what the broker has subscribed for this session
    retained,       \* retained messages the broker still owes this session
    published,      \* requests handed to mosquitto_publish
    expired,        \* requests whose deadline has passed
    issued,         \* requests send_request was called for
    calls,          \* history: times the RpcCallback ran
    answered,       \* history: requests whose callback got an envelope
    replied,        \* history: valid replies addressed to us were delivered
    lost,           \* history: requests discarded without a callback
    ow,             \* fate of each oneway
    told,           \* history: last value an observer was given
    late,           \* history: managers called back after their destructor
    pc,             \* where each manager is in its life
    stopper,        \* where stop() is
    starting,       \* a thread is inside start(), before it posts Start
    starts, flaps, msgs

workerVars == <<st, busy, deferred>>
rpcVars    == <<inFlight, rspTimer, published, calls, answered, lost>>
subVars    == <<subscriptions, observers, told>>
netVars    == <<loop, link, wire, retained>>
envVars    == <<expired, issued, replied, pc, stopper, starts, starting, flaps, msgs>>
vars == <<running, q, connectTimer, ow, late, workerVars, rpcVars, subVars,
          netVars, envVars>>

States == {"Disconnected", "Connecting", "Backoff", "Subscribing",
           "Operational", "ShuttingDown"}

(***************************************************************************)
(* Events.                                                                 *)
(***************************************************************************)
Plain(s)     == [sig |-> s]
LinkUp(b)    == [sig |-> "LinkUp", ok |-> b]
SendReq(r)   == [sig |-> "SendReq", req |-> r]
Timeout(r)   == [sig |-> "RspTimeout", req |-> r]
Oneway(o)    == [sig |-> "PublishOneway", msg |-> o]
Sub(s, m)    == [sig |-> s, mgr |-> m]
Drain(m)     == [sig |-> "Drain", who |-> m]
Ind(t, b)    == [sig |-> "Ind", topic |-> t, body |-> b]

\* EvtRecv is split into Rsp, an envelope with `dest` (corrId, whether dest is
\* our id), and Ind; body is what the parsers and validate_ make of it.
Bodies == {"valid", "invalid", "garbled"}
SubSignals == {"SubscribeEvent", "UnsubscribeEvent",
               "SubscribeConnectivity", "UnsubscribeConnectivity"}
Event == [sig : {"Start", "Stop", "LinkDown", "ConnectTimeout", "AllSubAcked"}]
         \cup [sig : {"LinkUp"}, ok : BOOLEAN]
         \cup [sig : {"SendReq", "RspTimeout"}, req : Reqs]
         \cup [sig : {"PublishOneway"}, msg : Oneways]
         \cup [sig : SubSignals, mgr : Managers]
         \cup [sig : {"Drain"}, who : Managers \cup {NoManager}]
         \cup [sig : {"Rsp"}, req : Reqs, ours : BOOLEAN, body : Bodies]
         \cup [sig : {"Ind"}, topic : Topics, body : Bodies]

Image(s) == {s[i] : i \in DOMAIN s}
Held(s)  == {r \in Reqs : SendReq(r) \in Image(s)}

Init ==
    /\ running = FALSE /\ q = <<>> /\ st = "Disconnected" /\ busy = FALSE
    /\ deferred = <<>> /\ inFlight = {}
    /\ subscriptions = [t \in Topics |-> NoManager] /\ observers = {}
    /\ rspTimer = [r \in Reqs |-> "off"] /\ connectTimer = "off"
    /\ loop = FALSE /\ link = FALSE /\ wire = {} /\ retained = {}
    /\ published = {} /\ expired = {} /\ issued = {}
    /\ calls = [r \in Reqs |-> 0] /\ answered = {} /\ replied = {} /\ lost = {}
    /\ ow = [o \in Oneways |-> "new"]
    /\ told = [m \in Managers |-> "none"] /\ late = {}
    /\ pc = [m \in Managers |-> "new"] /\ stopper = "idle"
    /\ starting = FALSE /\ starts = 0 /\ flaps = 0 /\ msgs = 0

(***************************************************************************)
(* ActiveObject: post_fifo drops the event once running_ is false.         *)
(***************************************************************************)
post_fifo(e) == q' = IF running THEN Append(q, e) ELSE q

\* post_fifo as another thread calls it; MaxQueue bounds how far the worker
\* falls behind.
Post(e) == Len(q) < MaxQueue /\ post_fifo(e)

Consume == q' = Tail(q)

\* The worker is free and the head of the queue is one of sigs, in a state of S.
Dispatch(S, sigs) == /\ q # <<>> /\ ~busy
                     /\ st \in S
                     /\ Head(q).sig \in sigs

(***************************************************************************)
(* Callbacks.  late records those that reach a manager whose destructor    *)
(* has returned; every callback invocation goes through one of these.      *)
(***************************************************************************)
Gone == {m \in Managers : pc[m] = "gone"}
Reach(S) == late' = late \cup (S \cap Gone)
Owners(R) == {Owner[r] : r \in R}
Invoke(R) == calls' = [r \in Reqs |-> calls[r] + (IF r \in R THEN 1 ELSE 0)]

notifyConnectivity_(v) ==
    told' = [m \in Managers |-> IF m \in observers THEN v ELSE told[m]]

\* TimerService::cancel: no effect on a timer that was already taken.
Cancel(t) == IF t = "armed" THEN "off" ELSE t

\* Mutant: deferred requests are thrown away without their callbacks.
failAllInFlight_ForgetsDeferred ==
    /\ inFlight' = {}
    /\ deferred' = <<>>
    /\ rspTimer' = [r \in Reqs |-> IF r \in inFlight THEN Cancel(rspTimer[r])
                                                     ELSE rspTimer[r]]
    /\ Invoke(inFlight)
    /\ ow' = [o \in Oneways |-> IF Oneway(o) \in Image(deferred) THEN "dropped"
                                                                ELSE ow[o]]
    /\ UNCHANGED <<published, answered, lost>>

(***************************************************************************)
(* in_flight_ and deferred_ are emptied, every RPC in them gets nullopt,   *)
(* deferred oneways vanish.                                                *)
(***************************************************************************)
failAllInFlight_ ==
    /\ inFlight' = {}
    /\ deferred' = <<>>
    /\ rspTimer' = [r \in Reqs |-> IF r \in inFlight THEN Cancel(rspTimer[r])
                                                     ELSE rspTimer[r]]
    /\ Invoke(inFlight \cup Held(deferred))
    /\ ow' = [o \in Oneways |-> IF Oneway(o) \in Image(deferred) THEN "dropped"
                                                                ELSE ow[o]]
    /\ UNCHANGED <<published, answered, lost>>

\* Operational's exit and the entries of Backoff and ShuttingDown; running it
\* a second time in the same transition changes nothing more.
TearDown ==
    /\ notifyConnectivity_("down")
    /\ failAllInFlight_
    /\ Reach(observers \cup Owners(inFlight \cup Held(deferred)))
    /\ connectTimer' = IF st = "Connecting" THEN Cancel(connectTimer) ELSE connectTimer
    /\ UNCHANGED <<running, busy, subscriptions, observers, envVars>>

ToBackoff ==
    /\ st' = "Backoff"
    /\ TearDown
    /\ Consume
    /\ UNCHANGED netVars

\* mosquitto_disconnect, if the link was up, may still get its on_disconnect
\* through before loop_stop has ended the thread.
ToShuttingDown ==
    /\ st' = "ShuttingDown"
    /\ TearDown
    /\ loop' = FALSE /\ link' = FALSE /\ wire' = {} /\ retained' = {}
    /\ \/ Consume
       \/ link /\ q' = Append(Tail(q), Plain("LinkDown"))

\* mosquitto_subscribe: reaches the broker only over a live link; the broker
\* then owes the topics' retained messages.
mosquitto_subscribe(ts) ==
    /\ wire' = IF link THEN wire \cup ts ELSE wire
    /\ retained' = IF link THEN retained \cup (ts \cap Topics) ELSE retained

\* Mutant: the topics are left to be restored by the library.
ToConnectedWildcardsOnly ==
    /\ st' = "Subscribing"
    /\ busy' = TRUE
    /\ mosquitto_subscribe({RspWildcards})
    /\ connectTimer' = IF st = "Connecting" THEN Cancel(connectTimer) ELSE connectTimer
    /\ Consume
    /\ UNCHANGED <<running, ow, late, deferred, rpcVars, subVars, loop, link, envVars>>

\* issueAllSubscribes_: the first half of Subscribing's entry.
ToConnected ==
    /\ st' = "Subscribing"
    /\ busy' = TRUE
    /\ mosquitto_subscribe({RspWildcards}
                           \cup {t \in Topics : subscriptions[t] # NoManager})
    /\ connectTimer' = IF st = "Connecting" THEN Cancel(connectTimer) ELSE connectTimer
    /\ Consume
    /\ UNCHANGED <<running, ow, late, deferred, rpcVars, subVars, loop, link, envVars>>

\* The second half: AllSubAcked is posted.
SubscribingEntered ==
    /\ busy
    /\ busy' = FALSE
    /\ post_fifo(Plain("AllSubAcked"))
    /\ UNCHANGED <<running, connectTimer, ow, late, st, deferred, rpcVars, subVars,
                   netVars, envVars>>

(***************************************************************************)
(* Handlers several states share.                                          *)
(***************************************************************************)
Defer ==
    /\ deferred' = Append(deferred, Head(q))
    /\ Consume
    /\ UNCHANGED <<running, connectTimer, ow, late, st, busy, rpcVars, subVars,
                   netVars, envVars>>

\* An RpcCallback run with nullopt for a request that is in no table.
FailFast(r) ==
    /\ Invoke({r})
    /\ Reach(Owners({r}))
    /\ Consume
    /\ UNCHANGED <<running, connectTimer, ow, workerVars, inFlight, rspTimer,
                   published, answered, lost, subVars, netVars, envVars>>

\* DrainPld::fulfil releases the thread that waits in drain().
Fulfil(m) ==
    /\ pc' = IF m \in Managers THEN [pc EXCEPT ![m] = "gone"] ELSE pc
    /\ stopper' = IF m = NoManager THEN "fenced" ELSE stopper

HandleDrain ==
    /\ Fulfil(Head(q).who)
    /\ Consume
    /\ UNCHANGED <<running, connectTimer, ow, late, workerVars, rpcVars, subVars, netVars,
                   expired, issued, replied, starts, starting, flaps, msgs>>

Ignore ==
    /\ Consume
    /\ UNCHANGED <<running, connectTimer, ow, late, workerVars, rpcVars, subVars,
                   netVars, envVars>>

\* The subscription and observer tables; all else a handler of theirs leaves.
Tables ==
    /\ Consume
    /\ UNCHANGED <<running, connectTimer, ow, workerVars, rpcVars, loop, link,
                   envVars>>

(***************************************************************************)
(* The worker: one action per state function.                              *)
(***************************************************************************)
NotOperational == {"Disconnected", "Connecting", "Backoff"}
Connected == {"Subscribing", "Operational"}

\* Mutant: a subscribe while the link is down is left for later and forgotten.
NotOperational_StDropsSubscribe ==
    LET e == Head(q) IN
    \/ /\ Dispatch(NotOperational, {"SubscribeConnectivity"})
       /\ observers' = observers \cup {e.mgr}
       /\ Tables /\ UNCHANGED <<subscriptions, told, late, wire, retained>>
    \/ /\ Dispatch(NotOperational, {"UnsubscribeConnectivity"})
       /\ observers' = observers \ {e.mgr}
       /\ Tables /\ UNCHANGED <<subscriptions, told, late, wire, retained>>
    \/ Dispatch(NotOperational, {"SubscribeEvent", "UnsubscribeEvent"}) /\ Ignore
    \/ Dispatch(NotOperational, {"Drain"}) /\ HandleDrain

NotOperational_St ==
    LET e == Head(q) IN
    \/ /\ Dispatch(NotOperational, {"SubscribeConnectivity"})
       /\ observers' = observers \cup {e.mgr}
       /\ Tables /\ UNCHANGED <<subscriptions, told, late, wire, retained>>
    \/ /\ Dispatch(NotOperational, {"UnsubscribeConnectivity"})
       /\ observers' = observers \ {e.mgr}
       /\ Tables /\ UNCHANGED <<subscriptions, told, late, wire, retained>>
    \/ /\ Dispatch(NotOperational, {"SubscribeEvent"})
       /\ subscriptions' = [subscriptions EXCEPT ![Topic[e.mgr]] = e.mgr]
       /\ Tables /\ UNCHANGED <<observers, told, late, wire, retained>>
    \/ /\ Dispatch(NotOperational, {"UnsubscribeEvent"})
       /\ subscriptions' = [subscriptions EXCEPT ![Topic[e.mgr]] = NoManager]
       /\ Tables /\ UNCHANGED <<observers, told, late, wire, retained>>
    \/ Dispatch(NotOperational, {"Drain"}) /\ HandleDrain

\* Connecting's entry.  A synchronous failure of mosquitto_connect_async posts
\* LinkDown to ourselves and starts no network thread.
ToConnecting ==
    /\ st' = "Connecting"
    /\ connectTimer' = "armed"
    /\ \/ "ok" \in ConnectOutcomes /\ loop' = TRUE /\ Consume
       \/ "fail" \in ConnectOutcomes /\ UNCHANGED loop
          /\ q' = Append(Tail(q), Plain("LinkDown"))
    /\ UNCHANGED <<running, ow, late, busy, deferred, rpcVars, subVars, link, wire,
                   retained, envVars>>

Disconnected_St ==
    LET e == Head(q) IN
    \/ Dispatch({"Disconnected"}, {"Start"}) /\ ToConnecting
    \/ Dispatch({"Disconnected"}, {"SendReq"}) /\ FailFast(e.req)
    \/ /\ Dispatch({"Disconnected"}, {"PublishOneway"})
       /\ ow' = [ow EXCEPT ![e.msg] = "dropped"]
       /\ Consume
       /\ UNCHANGED <<running, connectTimer, late, workerVars, rpcVars, subVars, netVars,
                      envVars>>
    \/ Dispatch({"Disconnected"}, {"Stop"}) /\ ToShuttingDown

Connecting_St ==
    \/ Dispatch({"Connecting"}, {"LinkUp"}) /\ Head(q).ok /\ ToConnected
    \/ Dispatch({"Connecting"}, {"LinkUp"}) /\ ~Head(q).ok /\ ToBackoff
    \/ Dispatch({"Connecting"}, {"ConnectTimeout", "LinkDown"}) /\ ToBackoff
    \/ Dispatch({"Connecting"}, {"Stop"}) /\ ToShuttingDown
    \/ Dispatch({"Connecting"}, {"SendReq", "PublishOneway"}) /\ Defer

Connected_St ==
    LET e == Head(q) IN
    \/ Dispatch(Connected, {"LinkDown"}) /\ ToBackoff
    \/ Dispatch(Connected, {"Stop"}) /\ ToShuttingDown
    \/ /\ Dispatch(Connected, {"UnsubscribeConnectivity"})
       /\ observers' = observers \ {e.mgr}
       /\ Tables /\ UNCHANGED <<subscriptions, told, late, wire, retained>>
    \/ Dispatch(Connected, {"Drain"}) /\ HandleDrain
    \/ /\ Dispatch(Connected, {"SubscribeEvent"})
       /\ subscriptions' = [subscriptions EXCEPT ![Topic[e.mgr]] = e.mgr]
       /\ mosquitto_subscribe({Topic[e.mgr]})
       /\ Tables /\ UNCHANGED <<observers, told, late>>
    \/ /\ Dispatch(Connected, {"UnsubscribeEvent"})
       /\ subscriptions' = [subscriptions EXCEPT ![Topic[e.mgr]] = NoManager]
       /\ wire' = wire \ {Topic[e.mgr]}
       /\ retained' = retained \ {Topic[e.mgr]}
       /\ Tables /\ UNCHANGED <<observers, told, late>>

\* Mutant: observers are not told.
ToOperationalSilently ==
    /\ st' = "Operational"
    /\ q' = Tail(q) \o deferred
    /\ deferred' = <<>>
    /\ UNCHANGED <<running, connectTimer, ow, late, busy, rpcVars, subVars, netVars, envVars>>

\* Mutant: what is recalled stays in the defer queue.
ToOperationalKeepsDeferred ==
    /\ st' = "Operational"
    /\ notifyConnectivity_("up")
    /\ Reach(observers)
    /\ q' = Tail(q) \o deferred
    /\ UNCHANGED <<running, connectTimer, ow, busy, deferred, rpcVars, subscriptions,
                   observers, netVars, envVars>>

\* Operational's entry: observers hear "up", recall_all reposts the deferred
\* events behind whatever is queued.
ToOperational ==
    /\ st' = "Operational"
    /\ notifyConnectivity_("up")
    /\ Reach(observers)
    /\ q' = Tail(q) \o deferred
    /\ deferred' = <<>>
    /\ UNCHANGED <<running, connectTimer, ow, busy, rpcVars, subscriptions, observers,
                   netVars, envVars>>

Subscribing_St ==
    LET e == Head(q) IN
    \/ Dispatch({"Subscribing"}, {"AllSubAcked"}) /\ ToOperational
    \/ /\ Dispatch({"Subscribing"}, {"SubscribeConnectivity"})
       /\ observers' = observers \cup {e.mgr}
       /\ Tables /\ UNCHANGED <<subscriptions, told, late, wire, retained>>
    \/ Dispatch({"Subscribing"}, {"SendReq", "PublishOneway"}) /\ Defer

\* Mutant: no response timer is scheduled.
doSendRequest_Untimed(r) ==
    \/ FailFast(r)
    \/ /\ r \notin expired
       /\ inFlight' = inFlight \cup {r}
       /\ published' = published \cup {r}
       /\ Consume
       /\ UNCHANGED <<running, connectTimer, ow, late, workerVars, rspTimer, calls,
                      answered, lost, subVars, netVars, envVars>>

\* A request past its deadline, one whose payload fails its schema and one
\* mosquitto_publish rejects end alike: nullopt, nothing in flight.
doSendRequest_(r) ==
    \/ FailFast(r)
    \/ /\ r \notin expired
       /\ inFlight' = inFlight \cup {r}
       /\ rspTimer' = [rspTimer EXCEPT ![r] = "armed"]
       /\ published' = published \cup {r}
       /\ Consume
       /\ UNCHANGED <<running, connectTimer, ow, late, workerVars, calls, answered, lost,
                      subVars, netVars, envVars>>

\* Mutant: the result of mosquitto_publish is stored as it comes.
doPublishOneway_RawResult(o) ==
    /\ \E fate \in {"published", "MOSQ_ERR_NO_CONN"} : ow' = [ow EXCEPT ![o] = fate]
    /\ Consume
    /\ UNCHANGED <<running, connectTimer, late, workerVars, rpcVars, subVars, netVars,
                   envVars>>

doPublishOneway_(o) ==
    /\ \E fate \in {"published", "dropped"} : ow' = [ow EXCEPT ![o] = fate]
    /\ Consume
    /\ UNCHANGED <<running, connectTimer, late, workerVars, rpcVars, subVars, netVars,
                   envVars>>

\* The RPC leaves in_flight_ and its callback runs, with the envelope or nullopt.
Complete(r, withEnvelope) ==
    /\ inFlight' = inFlight \ {r}
    /\ Invoke({r})
    /\ Reach(Owners({r}))
    /\ answered' = IF withEnvelope THEN answered \cup {r} ELSE answered
    /\ Consume
    /\ UNCHANGED <<running, connectTimer, ow, workerVars, published, lost, subVars,
                   netVars, envVars>>

\* Mutant: corrId is looked up before dest is checked.
EvtRecvRspAnyDest(e) ==
    \/ /\ e.body # "garbled" /\ e.req \in inFlight
       /\ Complete(e.req, e.body = "valid")
       /\ rspTimer' = [rspTimer EXCEPT ![e.req] = Cancel(@)]
    \/ /\ e.body = "garbled" \/ e.req \notin inFlight
       /\ Ignore

EvtRecvRsp(e) ==
    \/ /\ e.body # "garbled" /\ e.ours /\ e.req \in inFlight
       /\ Complete(e.req, e.body = "valid")
       /\ rspTimer' = [rspTimer EXCEPT ![e.req] = Cancel(@)]
    \/ /\ e.body = "garbled" \/ ~e.ours \/ e.req \notin inFlight
       /\ Ignore

EvtRecvInd(e) ==
    \/ /\ e.body = "valid" /\ subscriptions[e.topic] # NoManager
       /\ Reach({subscriptions[e.topic]})
       /\ Consume
       /\ UNCHANGED <<running, connectTimer, ow, workerVars, rpcVars, subscriptions,
                      observers, told, netVars, envVars>>
    \/ /\ e.body # "valid" \/ subscriptions[e.topic] = NoManager
       /\ Ignore

\* Mutant: the callback runs but the entry stays.
RspTimeoutKeepsEntry(r) ==
    \/ /\ r \in inFlight /\ Invoke({r}) /\ Reach(Owners({r})) /\ Consume
       /\ UNCHANGED <<running, connectTimer, ow, workerVars, inFlight, rspTimer, published,
                      answered, lost, subVars, netVars, envVars>>
    \/ r \notin inFlight /\ Ignore

RspTimeout(r) ==
    \/ r \in inFlight /\ Complete(r, FALSE) /\ UNCHANGED rspTimer
    \/ r \notin inFlight /\ Ignore

Operational_St ==
    LET e == Head(q) IN
    \/ Dispatch({"Operational"}, {"SendReq"}) /\ doSendRequest_(e.req)
    \/ Dispatch({"Operational"}, {"PublishOneway"}) /\ doPublishOneway_(e.msg)
    \/ /\ Dispatch({"Operational"}, {"SubscribeConnectivity"})
       /\ told' = [told EXCEPT ![e.mgr] = "up"]
       /\ observers' = observers \cup {e.mgr}
       /\ Reach({e.mgr})
       /\ Tables /\ UNCHANGED <<subscriptions, wire, retained>>
    \/ Dispatch({"Operational"}, {"Rsp"}) /\ EvtRecvRsp(e)
    \/ Dispatch({"Operational"}, {"Ind"}) /\ EvtRecvInd(e)
    \/ Dispatch({"Operational"}, {"RspTimeout"}) /\ RspTimeout(e.req)

\* Mutant: Backoff waits for its old timer instead of on_connect.
Backoff_StDeaf ==
    \/ Dispatch({"Backoff"}, {"LinkUp"}) /\ Ignore
    \/ Dispatch({"Backoff"}, {"Stop"}) /\ ToShuttingDown
    \/ Dispatch({"Backoff"}, {"SendReq"}) /\ Defer
    \/ Dispatch({"Backoff"}, {"LinkDown"}) /\ Ignore

Backoff_St ==
    \/ Dispatch({"Backoff"}, {"LinkUp"}) /\ Head(q).ok /\ ToConnected
    \/ Dispatch({"Backoff"}, {"LinkUp"}) /\ ~Head(q).ok /\ Ignore
    \/ Dispatch({"Backoff"}, {"Stop"}) /\ ToShuttingDown
    \/ Dispatch({"Backoff"}, {"SendReq"}) /\ Defer
    \/ Dispatch({"Backoff"}, {"LinkDown"}) /\ Ignore

\* An event discarded without being looked at: a request's callback never runs.
Discard(e) ==
    /\ lost' = IF e.sig = "SendReq" THEN lost \cup {e.req} ELSE lost
    /\ ow' = IF e.sig = "PublishOneway" THEN [ow EXCEPT ![e.msg] = "dropped"] ELSE ow
    /\ Consume
    /\ UNCHANGED <<running, connectTimer, late, workerVars, inFlight, rspTimer, published,
                   calls, answered, subVars, netVars, envVars>>

\* Mutant: the terminal state swallows the fence too.
ShuttingDown_StSwallowsDrain ==
    Dispatch({"ShuttingDown"}, {Head(q).sig}) /\ Discard(Head(q))

ShuttingDown_St ==
    \/ Dispatch({"ShuttingDown"}, {"Drain"}) /\ HandleDrain
    \/ /\ Dispatch({"ShuttingDown"}, {Head(q).sig})
       /\ Head(q).sig # "Drain"
       /\ Discard(Head(q))

\* Hsm::top: what neither the leaf nor its parent handles.
Handled(s) ==
    CASE s = "Disconnected" -> SubSignals \cup {"Drain", "Start", "SendReq",
                                                "PublishOneway", "Stop"}
      [] s = "Connecting"   -> SubSignals \cup {"Drain", "LinkUp", "ConnectTimeout",
                                 "LinkDown", "Stop", "SendReq", "PublishOneway"}
      [] s = "Backoff"      -> SubSignals \cup {"Drain", "LinkUp", "Stop", "SendReq",
                                                "LinkDown"}
      [] s = "Subscribing"  -> SubSignals \cup {"Drain", "LinkDown", "Stop",
                                 "AllSubAcked", "SendReq", "PublishOneway"}
      [] s = "Operational"  -> SubSignals \cup {"Drain", "LinkDown", "Stop", "SendReq",
                                 "PublishOneway", "Rsp", "Ind", "RspTimeout"}

top ==
    /\ Dispatch(States \ {"ShuttingDown"}, {Head(q).sig})
    /\ Head(q).sig \notin Handled(st)
    /\ Discard(Head(q))

Worker == \/ NotOperational_St \/ Disconnected_St \/ Connecting_St \/ Connected_St
          \/ Subscribing_St \/ SubscribingEntered \/ Operational_St \/ Backoff_St
          \/ ShuttingDown_St \/ top

(***************************************************************************)
(* Callers of the public methods.  Every factory calls start() before it   *)
(* makes a manager, so nothing is called on a bridge that never started.   *)
(***************************************************************************)
\* start() launches the worker and posts Start only then; for other threads the
\* bridge already runs in between.
start_at ==
    /\ ~running /\ ~starting /\ stopper \in {"idle", "stopped"} /\ starts < MaxStarts
    /\ running' = TRUE /\ starting' = TRUE
    /\ st' = "Disconnected"
    /\ stopper' = "idle" /\ starts' = starts + 1
    /\ UNCHANGED q

StartPost ==
    /\ starting
    /\ starting' = FALSE /\ Post(Plain("Start"))
    /\ UNCHANGED <<running, st, stopper, starts>>

start ==
    /\ start_at \/ StartPost
    /\ UNCHANGED <<connectTimer, ow, late, busy, deferred, rpcVars, subVars, netVars,
                   expired, issued, replied, pc, flaps, msgs>>

\* Mutant: the running_ flag is cleared before the worker's fence.
StopDrainSkipped ==
    /\ stopper = "posted"
    /\ stopper' = "draining" /\ running' = FALSE /\ UNCHANGED q

\* Mutant: the worker is fenced without being told to stop.
StopPostForgotten ==
    /\ AllowStop /\ running /\ stopper = "idle"
    /\ stopper' = "posted" /\ UNCHANGED <<running, q>>

\* stop() posts Stop, drains, clears running_ and joins the worker, which
\* leaves its loop only once the queue is empty.
StopPost ==
    /\ AllowStop /\ running /\ stopper = "idle"
    /\ stopper' = "posted" /\ Post(Plain("Stop")) /\ UNCHANGED running

StopDrain ==
    /\ stopper = "posted"
    /\ stopper' = "draining" /\ Post(Drain(NoManager)) /\ UNCHANGED running

StopClear ==
    /\ stopper = "fenced"
    /\ stopper' = "joining" /\ running' = FALSE /\ UNCHANGED q

StopJoin ==
    /\ stopper = "joining" /\ q = <<>> /\ ~busy
    /\ stopper' = "stopped" /\ UNCHANGED <<running, q>>

stop ==
    /\ StopPost \/ StopDrain \/ StopClear \/ StopJoin
    /\ UNCHANGED <<connectTimer, ow, late, workerVars, rpcVars, subVars, netVars, expired,
                   issued, replied, pc, starts, starting, flaps, msgs>>

send_request(r) ==
    /\ starts > 0 /\ r \notin issued
    /\ Owner[r] \in Managers => pc[Owner[r]] = "live"
    /\ issued' = issued \cup {r}
    /\ Post(SendReq(r))
    /\ lost' = IF running THEN lost ELSE lost \cup {r}
    /\ UNCHANGED <<running, connectTimer, ow, late, workerVars, inFlight, rspTimer,
                   published, calls, answered, subVars, netVars, expired, replied, pc,
                   stopper, starts, starting, flaps, msgs>>

publish_oneway(o) ==
    /\ starts > 0 /\ ow[o] = "new"
    /\ ow' = [ow EXCEPT ![o] = IF running THEN "posted" ELSE "dropped"]
    /\ Post(Oneway(o))
    /\ UNCHANGED <<running, connectTimer, late, workerVars, rpcVars, subVars, netVars,
                   envVars>>

\* A manager's start() and destructor, one post at a time.
Advance(m, from, to, e) ==
    /\ pc[m] = from
    /\ pc' = [pc EXCEPT ![m] = to]
    /\ Post(e)

\* Mutant: the fence is posted but not waited for.
drainNoWait(m) == Advance(m, "left", "gone", Drain(m))

\* drain(): no worker, or an event that post_fifo dropped, releases the caller.
drain(m) == Advance(m, "left", IF running THEN "draining" ELSE "gone", Drain(m))

Manager(m) ==
    /\ starts > 0
    /\ \/ Advance(m, "new", "subscribed", Sub("SubscribeEvent", m))
       \/ Advance(m, "subscribed", "live", Sub("SubscribeConnectivity", m))
       \/ Advance(m, "live", "leaving", Sub("UnsubscribeEvent", m))
       \/ Advance(m, "leaving", "left", Sub("UnsubscribeConnectivity", m))
       \/ drain(m)
    /\ UNCHANGED <<running, connectTimer, ow, late, workerVars, rpcVars, subVars, netVars,
                   expired, issued, replied, stopper, starts, starting, flaps, msgs>>

(***************************************************************************)
(* TimerService.                                                           *)
(***************************************************************************)
DeadlinePasses(r) ==
    /\ r \in issued \ expired
    /\ expired' = expired \cup {r}
    /\ UNCHANGED <<running, q, connectTimer, ow, late, workerVars, rpcVars, subVars,
                   netVars, issued, replied, pc, stopper, starts, starting, flaps, msgs>>

\* Off the heap, no longer cancellable; then the callback posts.
TimerTaken(r) ==
    /\ rspTimer[r] = "armed" /\ r \in expired
    /\ rspTimer' = [rspTimer EXCEPT ![r] = "firing"]
    /\ UNCHANGED <<running, q, connectTimer, ow, late, workerVars, inFlight, published,
                   calls, answered, lost, subVars, netVars, envVars>>

TimerFires(r) ==
    /\ rspTimer[r] = "firing"
    /\ rspTimer' = [rspTimer EXCEPT ![r] = "off"]
    /\ Post(Timeout(r))
    /\ UNCHANGED <<running, connectTimer, ow, late, workerVars, inFlight, published,
                   calls, answered, lost, subVars, netVars, envVars>>

ConnectTimer ==
    /\ \/ connectTimer = "armed" /\ connectTimer' = "firing" /\ UNCHANGED q
       \/ connectTimer = "firing" /\ connectTimer' = "off"
          /\ Post(Plain("ConnectTimeout"))
    /\ UNCHANGED <<running, ow, late, workerVars, rpcVars, subVars, netVars, envVars>>

(***************************************************************************)
(* libmosquitto's network thread and the broker (external).                *)
(***************************************************************************)
onConnect_ ==
    /\ loop /\ ~link
    /\ link' = TRUE /\ wire' = {} /\ retained' = {}
    /\ Post(LinkUp(TRUE))
    /\ UNCHANGED <<running, connectTimer, ow, late, workerVars, rpcVars, subVars, loop,
                   envVars>>

\* CONNACK with an error: on_connect(rc), then on_disconnect.
Refused ==
    /\ loop /\ ~link /\ flaps < MaxFlaps
    /\ flaps' = flaps + 1
    /\ Len(q) < MaxQueue
    /\ q' = IF running THEN Append(Append(q, LinkUp(FALSE)), Plain("LinkDown")) ELSE q
    /\ UNCHANGED <<running, connectTimer, ow, late, workerVars, rpcVars, subVars, netVars,
                   expired, issued, replied, pc, stopper, starts, starting, msgs>>

onDisconnect_ ==
    /\ link /\ flaps < MaxFlaps
    /\ flaps' = flaps + 1
    /\ link' = FALSE /\ wire' = {} /\ retained' = {}
    /\ Post(Plain("LinkDown"))
    /\ UNCHANGED <<running, connectTimer, ow, late, workerVars, rpcVars, subVars, loop,
                   expired, issued, replied, pc, stopper, starts, starting, msgs>>

\* A retained message, owed because of a subscribe.
onRetained(t) ==
    /\ link /\ t \in retained
    /\ retained' = retained \ {t}
    /\ Post(Ind(t, "valid"))
    /\ UNCHANGED <<running, connectTimer, ow, late, workerVars, rpcVars, subVars, loop,
                   link, wire, envVars>>

\* A live message: an indication on a subscribed topic, or a response on the
\* shared response topics, for a corrId of a published request, to us or to
\* another process that uses the same corrId.
onMessage_(e) ==
    /\ link /\ msgs < MaxMsgs
    /\ msgs' = msgs + 1
    /\ e.sig = "Ind" => e.topic \in wire
    /\ e.sig = "Rsp" => RspWildcards \in wire /\ e.req \in published
    /\ replied' = IF e.sig = "Rsp" /\ e.ours /\ e.body = "valid" THEN replied \cup {e.req}
                                                                 ELSE replied
    /\ Post(e)
    /\ UNCHANGED <<running, connectTimer, ow, late, workerVars, rpcVars, subVars, netVars,
                   expired, issued, pc, stopper, starts, starting, flaps>>

Messages == [sig : {"Rsp"}, req : Reqs, ours : {TRUE}, body : Bodies]
            \cup [sig : {"Rsp"}, req : Reqs, ours : {FALSE}, body : {"valid"}]
            \cup [sig : {"Ind"}, topic : Topics, body : Bodies]

Timers == \/ ConnectTimer
          \/ \E r \in Reqs : DeadlinePasses(r) \/ TimerTaken(r) \/ TimerFires(r)
Network == \/ onConnect_ \/ Refused \/ onDisconnect_
           \/ \E t \in Topics : onRetained(t)
           \/ \E e \in Messages : onMessage_(e)
Clients == \/ \E r \in Reqs : send_request(r)
           \/ \E o \in Oneways : publish_oneway(o)
           \/ \E m \in Managers : Manager(m)

Next == Worker \/ Timers \/ Network \/ Clients \/ start \/ stop

Spec == Init /\ [][Next]_vars

(***************************************************************************)
(* Fairness: threads that are ready to run do run, time passes, a reachable *)
(* broker is eventually reconnected by libmosquitto and sends what it owes,*)
(* and a thread inside start(), stop() or a manager's start or destructor  *)
(* carries on.  Nobody is obliged to call anything.                        *)
(***************************************************************************)
LocalFairness ==
    /\ WF_vars(Worker)
    /\ WF_vars(ConnectTimer)
    /\ WF_vars(start /\ (starting \/ starts = 0))
    /\ WF_vars(stop /\ stopper # "idle")
    /\ \A r \in Reqs : /\ WF_vars(DeadlinePasses(r))
                       /\ WF_vars(TimerTaken(r))
                       /\ WF_vars(TimerFires(r))
    /\ \A t \in Topics : WF_vars(onRetained(t))
    /\ \A m \in Managers : WF_vars(Manager(m) /\ pc[m] \notin {"new", "live"})

\* The broker may stay down for ever.
BrokerDownSpec == Spec /\ LocalFairness

\* The broker is there whenever the network thread tries.
BrokerReachable == WF_vars(onConnect_)
FairSpec == BrokerDownSpec /\ BrokerReachable

(***************************************************************************)
(* Properties.                                                             *)
(***************************************************************************)

\* Every variable holds a value of its kind.
TypeOK ==
    /\ running \in BOOLEAN /\ q \in Seq(Event) /\ st \in States /\ busy \in BOOLEAN
    /\ deferred \in Seq(Event) /\ inFlight \subseteq Reqs
    /\ subscriptions \in [Topics -> Managers \cup {NoManager}]
    /\ observers \subseteq Managers
    /\ rspTimer \in [Reqs -> {"off", "armed", "firing"}]
    /\ connectTimer \in {"off", "armed", "firing"}
    /\ loop \in BOOLEAN /\ link \in BOOLEAN
    /\ wire \subseteq Topics \cup {RspWildcards} /\ retained \subseteq Topics
    /\ published \subseteq Reqs /\ expired \subseteq Reqs /\ issued \subseteq Reqs
    /\ calls \in [Reqs -> Nat]
    /\ answered \subseteq Reqs /\ replied \subseteq Reqs /\ lost \subseteq Reqs
    /\ ow \in [Oneways -> {"new", "posted", "published", "dropped"}]
    /\ told \in [Managers -> {"none", "up", "down"}]
    /\ late \subseteq Managers
    /\ pc \in [Managers -> {"new", "subscribed", "live", "leaving", "left", "draining",
                            "gone"}]
    /\ stopper \in {"idle", "posted", "draining", "fenced", "joining", "stopped"}
    /\ starting \in BOOLEAN
    /\ starts \in 0..MaxStarts /\ flaps \in 0..MaxFlaps /\ msgs \in 0..MaxMsgs

\* Custody of a callback (send_request, defer, recall_all, in_flight_,
\* failAllInFlight_): at every moment an issued RPC is in exactly one place -
\* the queue, the defer queue, the in-flight table, the discarded ones - or its
\* callback has run, once.
NoRepeat(s) ==
    \A i, j \in DOMAIN s : s[i].sig = "SendReq" /\ s[i] = s[j] => i = j
Called == {r \in Reqs : calls[r] > 0}
Custody == <<Held(q), Held(deferred), inFlight, lost, Called>>
OneCustodian ==
    /\ issued = UNION {Custody[i] : i \in 1..5}
    /\ \A i, j \in 1..5 : i # j => Custody[i] \cap Custody[j] = {}
    /\ NoRepeat(q) /\ NoRepeat(deferred)
    /\ \A r \in Reqs : calls[r] <= 1

\* Custody of a oneway: until it is published or dropped it is in exactly one of
\* the two queues, through deferral, recall and the fall of the link.
OnewayCustody ==
    \A o \in Oneways :
        /\ ow[o] = "posted" <=> Oneway(o) \in Image(q) \cup Image(deferred)
        /\ Oneway(o) \notin Image(q) \cap Image(deferred)

\* An RPC in flight cannot be forgotten: the bridge is Operational and the
\* response timer is armed, firing, or its event is already queued, however the
\* reply, the timeout and the link's fall raced.
InFlightIsTimed ==
    \A r \in inFlight : /\ st = "Operational"
                        /\ rspTimer[r] # "off" \/ Timeout(r) \in Image(q)

\* stop() leaves nothing behind: past its fence the chart is in ShuttingDown with
\* no RPC in either table, and without a worker the queue is empty, so a second
\* start() begins from nothing whatever was posted around the stop.
StopLeavesNothing ==
    /\ stopper \in {"fenced", "joining", "stopped"}
          => st = "ShuttingDown" /\ inFlight = {} /\ deferred = <<>>
    /\ ~running /\ stopper # "joining" => q = <<>>

\* Only a valid reply addressed to this process completes an RPC with an
\* envelope, even when another process uses the same corrId on the shared
\* response topics (the dest check before the corrId lookup).
OnlyOurReplies == answered \subseteq replied

\* Once the batch of Subscribing's entry is out and no link loss is waiting in
\* the queue, the broker forwards every topic that has a callback, and the
\* responses, through any reconnect (a clean session forgets subscriptions).
WireCoversMap ==
    (st \in Connected /\ link /\ Plain("LinkDown") \notin Image(q))
        => {t \in Topics : subscriptions[t] # NoManager} \cup {RspWildcards} \subseteq wire

\* A registered observer was last told "up" exactly while the bridge is
\* Operational: neither a late registration nor a flap leaves it wrong.
ObserversInformed == \A m \in observers : (told[m] = "up") <=> (st = "Operational")

\* drain()'s contract: once a manager's destructor is past drain(), no callback
\* of the bridge reaches it.
DrainFence == late = {}

\* A manager that finished start() and has not begun its destructor keeps its
\* callback in subscriptions_, whatever its siblings do.
SubscriberKept ==
    \A m \in Managers :
        (running /\ st # "ShuttingDown" /\ pc[m] = "live"
            /\ Sub("SubscribeEvent", m) \notin Image(q))
            => subscriptions[Topic[m]] = m

\* send_request with a reachable broker: an RPC's callback eventually runs, or the
\* RPC is among those a stopping bridge discards; none waits for ever in a queue
\* or a table, through flaps and stop().
EveryCallEnds ==
    BrokerReachable => \A r \in Reqs : (r \in issued) ~> (calls[r] > 0 \/ r \in lost)

\* With a reachable broker a started bridge that nobody stops ends up Operational
\* for good once the link stops flapping.
SettlesOperational ==
    BrokerReachable => <>[](st = "Operational") \/ <>(stopper # "idle")

\* drain() returns whatever the bridge is doing, shutdown included.
DrainReturns == \A m \in Managers : (pc[m] = "left") ~> (pc[m] = "gone")

\* stop() returns: its own fence is reached and the worker can be joined.
StopReturns == (stopper = "posted") ~> (stopper = "stopped")

\* send_request implements RpcContract: one outcome per RPC, and only a bridge
\* that is stopping or stopped discards one.  The header promises more: see
\* DeferredCallEnds.
status == [r \in Reqs |-> IF r \notin issued THEN "idle"
                          ELSE IF r \in lost THEN "dropped"
                          ELSE IF calls[r] = 0 THEN "pending"
                          ELSE IF r \in answered THEN "answered" ELSE "failed"]
Contract == INSTANCE RpcContract WITH closing <- (~running \/ stopper # "idle")
ImplementsContract == Contract!Spec

(***************************************************************************)
(* Statements of the header that the code does not keep.                   *)
(***************************************************************************)

\* IModemBridge.hpp: "(or the deadline elapses first) [...] cb is invoked with
\* std::nullopt", also while the link stays down.
DeadlineHonoured == \A r \in Reqs : (r \in expired) ~> (calls[r] > 0)

\* IModemBridge.hpp: "stop() fails every in-flight and deferred RPC": the callback
\* of an RPC in the defer queue runs, whether the bridge comes up or stops first.
\* What recall_all reposts behind a queued Stop is discarded instead.
DeferredCallEnds == \A r \in Reqs : (r \in Held(deferred)) ~> (calls[r] > 0)

=============================================================================
