------------------------- MODULE ModemBridgeProofs -------------------------
(***************************************************************************)
(* Type correctness of ModemBridge, the facts about queues of events that  *)
(* the other proofs rest on, and the custody of one-way messages.          *)
(***************************************************************************)
EXTENDS ModemBridge, TLAPS

\* The constructors build events.
LEMMA EventKinds ==
    /\ \A s \in {"Start", "Stop", "LinkDown", "ConnectTimeout", "AllSubAcked"} :
          Plain(s) \in Event
    /\ \A b \in BOOLEAN : LinkUp(b) \in Event
    /\ \A r \in Reqs : SendReq(r) \in Event /\ Timeout(r) \in Event
    /\ \A o \in Oneways : Oneway(o) \in Event
    /\ \A s \in SubSignals, m \in Managers : Sub(s, m) \in Event
    /\ \A m \in Managers \cup {NoManager} : Drain(m) \in Event
    /\ \A t \in Topics, b \in Bodies : Ind(t, b) \in Event
BY DEF Event, Plain, LinkUp, SendReq, Timeout, Oneway, Sub, Drain, Ind, SubSignals, Bodies

\* Which fields an event of each signal has, and that its constructor rebuilds
\* it.
LEMMA EventFields ==
    ASSUME NEW e \in Event
    PROVE  /\ e.sig = "SendReq" => e.req \in Reqs /\ e = SendReq(e.req)
           /\ e.sig = "RspTimeout" => e.req \in Reqs /\ e = Timeout(e.req)
           /\ e.sig = "PublishOneway" => e.msg \in Oneways /\ e = Oneway(e.msg)
           /\ e.sig \in SubSignals => e.mgr \in Managers
           /\ e.sig = "Drain" => e.who \in Managers \cup {NoManager} /\ e = Drain(e.who)
           /\ e.sig = "Rsp" => e.req \in Reqs
           /\ e.sig = "Ind" => e.topic \in Topics
BY DEF Event, Plain, LinkUp, SendReq, Timeout, Oneway, Sub, Drain, Ind, SubSignals

\* A non-empty queue, its head and its tail, position by position.
LEMMA TailFacts ==
    ASSUME NEW s \in Seq(Event), s # <<>>
    PROVE  /\ Head(s) \in Event
           /\ Tail(s) \in Seq(Event)
           /\ Len(Tail(s)) = Len(s) - 1
           /\ \A i \in DOMAIN Tail(s) : i + 1 \in DOMAIN s /\ Tail(s)[i] = s[i + 1]
           /\ \A i \in DOMAIN s : i = 1 \/ i - 1 \in DOMAIN Tail(s)
           /\ Head(s) = s[1] /\ 1 \in DOMAIN s
OBVIOUS

\* Appending one event, position by position.
LEMMA AppendFacts ==
    ASSUME NEW s \in Seq(Event), NEW e \in Event
    PROVE  /\ Append(s, e) \in Seq(Event)
           /\ DOMAIN Append(s, e) = DOMAIN s \cup {Len(s) + 1}
           /\ \A i \in DOMAIN s : Append(s, e)[i] = s[i]
           /\ Append(s, e)[Len(s) + 1] = e
OBVIOUS

\* Concatenating two queues, position by position.
LEMMA ConcatFacts ==
    ASSUME NEW s \in Seq(Event), NEW t \in Seq(Event)
    PROVE  /\ s \o t \in Seq(Event)
           /\ Len(s \o t) = Len(s) + Len(t)
           /\ \A i \in DOMAIN s : i \in DOMAIN (s \o t) /\ (s \o t)[i] = s[i]
           /\ \A i \in DOMAIN t : Len(s) + i \in DOMAIN (s \o t)
                                  /\ (s \o t)[Len(s) + i] = t[i]
           /\ \A i \in DOMAIN (s \o t) : (i \in DOMAIN s /\ (s \o t)[i] = s[i])
                                         \/ (i \notin DOMAIN s /\ i - Len(s) \in DOMAIN t
                                             /\ (s \o t)[i] = t[i - Len(s)])
           /\ Len(s) \in Nat /\ DOMAIN (s \o t) \subseteq Nat
OBVIOUS

\* What the worker finds in the payload of the event it dispatches.
LEMMA HeadFields ==
    ASSUME TypeOK, q # <<>>
    PROVE  LET e == Head(q) IN
           /\ e \in Event
           /\ e.sig = "SendReq" => e.req \in Reqs /\ e = SendReq(e.req)
           /\ e.sig = "RspTimeout" => e.req \in Reqs
           /\ e.sig = "PublishOneway" => e.msg \in Oneways
           /\ e.sig \in SubSignals => e.mgr \in Managers /\ Topic[e.mgr] \in Topics
           /\ e.sig = "Drain" => e.who \in Managers \cup {NoManager}
           /\ e.sig = "Rsp" => e.req \in Reqs
           /\ e.sig = "Ind" => e.topic \in Topics
<1>1. Head(q) \in Event
  BY TailFacts DEF TypeOK
<1> QED BY <1>1, EventFields, ConstantsAssumption

\* post_fifo keeps the queue a queue of events.
LEMMA PostType ==
    ASSUME TypeOK, NEW e \in Event, post_fifo(e)
    PROVE  q' \in Seq(Event)
BY AppendFacts DEF TypeOK, post_fifo

\* Taking the head keeps the queue a queue of events.
LEMMA ConsumeType ==
    ASSUME TypeOK, q # <<>>
    PROVE  Tail(q) \in Seq(Event) /\ (Consume => q' \in Seq(Event))
BY TailFacts, Zenon DEF TypeOK, Consume

\* TypeOK in the groups of variables the actions change together.
Timer    == {"off", "armed", "firing"}
MiscType == /\ running \in BOOLEAN /\ connectTimer \in Timer
            /\ ow \in [Oneways -> {"new", "posted", "published", "dropped"}]
            /\ late \subseteq Managers
ChartType == st \in States /\ busy \in BOOLEAN
RpcType  == /\ inFlight \subseteq Reqs /\ published \subseteq Reqs /\ answered \subseteq Reqs
            /\ lost \subseteq Reqs /\ rspTimer \in [Reqs -> Timer] /\ calls \in [Reqs -> Nat]
SubType  == /\ subscriptions \in [Topics -> Managers \cup {NoManager}]
            /\ observers \subseteq Managers
            /\ told \in [Managers -> {"none", "up", "down"}]
NetType  == /\ loop \in BOOLEAN /\ link \in BOOLEAN
            /\ wire \subseteq Topics \cup {RspWildcards} /\ retained \subseteq Topics
EnvType  == /\ expired \subseteq Reqs /\ issued \subseteq Reqs /\ replied \subseteq Reqs
            /\ pc \in [Managers -> {"new", "subscribed", "live", "leaving", "left",
                                    "draining", "gone"}]
            /\ stopper \in {"idle", "posted", "draining", "fenced", "joining", "stopped"}
            /\ starting \in BOOLEAN
            /\ starts \in 0..MaxStarts /\ flaps \in 0..MaxFlaps /\ msgs \in 0..MaxMsgs
Groups   == MiscType /\ ChartType /\ RpcType /\ SubType /\ NetType /\ EnvType

\* The grouping says what TypeOK says, now and after the step.
LEMMA TypeGroups ==
    /\ TypeOK <=> q \in Seq(Event) /\ deferred \in Seq(Event) /\ Groups
    /\ TypeOK' <=> q' \in Seq(Event) /\ deferred' \in Seq(Event) /\ Groups'
BY DEF TypeOK, Groups, Timer, MiscType, ChartType, RpcType, SubType, NetType, EnvType

\* What leaving Operational or entering Backoff or ShuttingDown does to the
\* tables.
LEMMA TearDownType ==
    ASSUME Groups, TearDown
    PROVE  MiscType' /\ RpcType' /\ SubType' /\ EnvType' /\ busy' = busy
<1>1. rspTimer' \in [Reqs -> Timer] /\ inFlight' = {} /\ UNCHANGED <<published, answered, lost>>
  BY DEF TearDown, failAllInFlight_, Groups, RpcType, Cancel, Timer
<1>2. calls' \in [Reqs -> Nat]
  BY DEF TearDown, failAllInFlight_, Invoke, Groups, RpcType
<1>3. RpcType'
  BY <1>1, <1>2 DEF Groups, RpcType
<1>4. late' \subseteq Managers /\ running' = running
  BY DEF TearDown, Reach, Gone, Groups, MiscType
<1>5. connectTimer' \in Timer
  BY DEF TearDown, Cancel, Groups, MiscType, Timer
<1>6. ow' \in [Oneways -> {"new", "posted", "published", "dropped"}]
  BY DEF TearDown, failAllInFlight_, Groups, MiscType
<1>7. MiscType'
  BY <1>4, <1>5, <1>6 DEF Groups, MiscType
<1>8. told' \in [Managers -> {"none", "up", "down"}]
  BY DEF TearDown, notifyConnectivity_, Groups, SubType
<1>9. SubType'
  BY <1>8 DEF TearDown, Groups, SubType
<1>10. EnvType' /\ busy' = busy
  BY DEF TearDown, Groups, EnvType, envVars
<1> QED BY <1>3, <1>7, <1>9, <1>10

\* Every step keeps both queues queues of events.
LEMMA QueueType == TypeOK /\ [Next]_vars => q' \in Seq(Event) /\ deferred' \in Seq(Event)
<1> SUFFICES ASSUME TypeOK, [Next]_vars PROVE q' \in Seq(Event) /\ deferred' \in Seq(Event)
  OBVIOUS
<1>d. q \in Seq(Event) /\ deferred \in Seq(Event) /\ <<>> \in Seq(Event)
  BY DEF TypeOK
<1>k. Plain("LinkDown") \in Event /\ Plain("Start") \in Event /\ Plain("AllSubAcked") \in Event
      /\ LinkUp(FALSE) \in Event
  BY EventKinds, Zenon
<1>t. ASSUME q # <<>>
      PROVE  /\ Consume => q' \in Seq(Event)
             /\ Append(Tail(q), Plain("LinkDown")) \in Seq(Event)
             /\ Append(deferred, Head(q)) \in Seq(Event)
             /\ Tail(q) \o deferred \in Seq(Event)
  BY <1>t, <1>d, <1>k, ConsumeType, HeadFields, AppendFacts, ConcatFacts
<1>b. q # <<>> /\ ToBackoff => q' \in Seq(Event) /\ deferred' \in Seq(Event)
  BY <1>t, <1>d DEF ToBackoff, TearDown, failAllInFlight_
<1>s. q # <<>> /\ ToShuttingDown => q' \in Seq(Event) /\ deferred' \in Seq(Event)
  BY <1>t, <1>d, Zenon DEF ToShuttingDown, TearDown, failAllInFlight_
<1>1. CASE NotOperational_St
  BY <1>1, <1>d, <1>t DEF NotOperational_St, HandleDrain, Dispatch, Tables, workerVars
<1>2. CASE Disconnected_St
  BY <1>2, <1>d, <1>t, <1>b, <1>s
  DEF Disconnected_St, Dispatch, ToConnecting, FailFast, workerVars
<1>3. CASE Connecting_St
  BY <1>3, <1>d, <1>t, <1>b, <1>s, Zenon DEF Connecting_St, Dispatch, ToConnected, Defer
<1>4. CASE Connected_St
  BY <1>4, <1>d, <1>t, <1>b, <1>s DEF Connected_St, Dispatch, HandleDrain, Tables, workerVars
<1>5. CASE Subscribing_St
  BY <1>5, <1>d, <1>t, <1>b, <1>s, Zenon
  DEF Subscribing_St, Dispatch, ToOperational, Defer, Tables, workerVars
<1>6. CASE SubscribingEntered
  BY <1>6, <1>d, <1>k, ConsumeType, PostType, EventKinds DEF SubscribingEntered
<1>7. CASE Operational_St
  BY <1>7, <1>d, <1>t, <1>b, <1>s, Zenon
  DEF Operational_St, Dispatch, doSendRequest_, FailFast, doPublishOneway_, Complete,
      EvtRecvRsp, EvtRecvInd, RspTimeout, Ignore, Tables, workerVars
<1>8. CASE Backoff_St
  BY <1>8, <1>d, <1>t, <1>b, <1>s, Zenon
  DEF Backoff_St, Dispatch, ToConnected, Defer, Ignore, workerVars
<1>9. CASE ShuttingDown_St
  BY <1>9, <1>d, <1>t, <1>b, <1>s
  DEF ShuttingDown_St, Dispatch, HandleDrain, Discard, workerVars
<1>10. CASE top
  BY <1>10, <1>d, <1>t, <1>b, <1>s DEF top, Dispatch, Discard, workerVars
<1>11. CASE start
  BY <1>11, <1>d, <1>k, PostType DEF start, start_at, StartPost, Post
<1>12. CASE stop
  BY <1>12, <1>d, <1>k, ConsumeType, PostType, EventKinds
  DEF stop, StopPost, StopDrain, StopClear, StopJoin, Post, workerVars
<1>13. ASSUME NEW r \in Reqs, send_request(r) PROVE q' \in Seq(Event) /\ deferred' \in
    Seq(Event)
  BY <1>13, <1>d, PostType, EventKinds DEF send_request, Post, workerVars
<1>14. ASSUME NEW o \in Oneways, publish_oneway(o) PROVE q' \in Seq(Event) /\ deferred'
    \in Seq(Event)
  BY <1>14, <1>d, PostType, EventKinds DEF publish_oneway, Post, workerVars
<1>15. ASSUME NEW m \in Managers, Manager(m) PROVE q' \in Seq(Event) /\ deferred' \in Seq(Event)
  BY <1>15, <1>d, PostType, EventKinds DEF Manager, Advance, drain, Post, SubSignals, workerVars
<1>16. ASSUME NEW r \in Reqs, DeadlinePasses(r) PROVE q' \in Seq(Event) /\ deferred' \in
    Seq(Event)
  BY <1>16, <1>d, PostType, EventKinds DEF DeadlinePasses, workerVars
<1>17. ASSUME NEW r \in Reqs, TimerTaken(r) PROVE q' \in Seq(Event) /\ deferred' \in Seq(Event)
  BY <1>17, <1>d, PostType, EventKinds DEF TimerTaken, workerVars
<1>18. ASSUME NEW r \in Reqs, TimerFires(r) PROVE q' \in Seq(Event) /\ deferred' \in Seq(Event)
  BY <1>18, <1>d, PostType, EventKinds DEF TimerFires, Post, workerVars
<1>19. ASSUME NEW t \in Topics, onRetained(t) PROVE q' \in Seq(Event) /\ deferred' \in
    Seq(Event)
  BY <1>19, <1>d, PostType, EventKinds DEF onRetained, Post, Bodies, workerVars
<1>20. ASSUME NEW e \in Messages, onMessage_(e) PROVE q' \in Seq(Event) /\ deferred' \in
    Seq(Event)
  <2>1. e \in Event
    BY Zenon DEF Messages, Bodies, Event
  <2> QED BY <1>20, <2>1, <1>d, PostType DEF onMessage_, Post, workerVars
<1>21. CASE ConnectTimer
  BY <1>21, <1>d, PostType, EventKinds DEF ConnectTimer, Post, workerVars
<1>22. CASE onConnect_
  BY <1>22, <1>d, PostType, EventKinds, Zenon DEF onConnect_, Post, workerVars
<1>23. CASE Refused
  BY <1>23, <1>d, <1>k, AppendFacts, Zenon DEF Refused, workerVars
<1>24. CASE onDisconnect_
  BY <1>24, <1>d, PostType, EventKinds DEF onDisconnect_, Post, workerVars
<1>25. CASE UNCHANGED vars
  BY <1>25, <1>d DEF vars, workerVars
<1> QED
  BY <1>1, <1>2, <1>3, <1>4, <1>5, <1>6, <1>7, <1>8, <1>9, <1>10, <1>11, <1>12, <1>13,
      <1>14, <1>15, <1>16, <1>17, <1>18, <1>19, <1>20, <1>21, <1>22, <1>23, <1>24, <1>25
  DEF Next, Worker, Timers, Network, Clients

\* Every step keeps every group in its type.
LEMMA GroupsStep ==
    ASSUME TypeOK, [Next]_vars
    PROVE  Groups'
<1>g. Groups
  BY TypeGroups
<1>e. ASSUME q # <<>>
      PROVE  /\ Head(q).sig \in {"SendReq", "RspTimeout", "Rsp"} => Head(q).req \in Reqs
             /\ Head(q).sig = "PublishOneway" => Head(q).msg \in Oneways
             /\ Head(q).sig \in SubSignals
                  => Head(q).mgr \in Managers /\ Topic[Head(q).mgr] \in Topics
             /\ Head(q).sig = "Drain" => Head(q).who \in Managers \cup {NoManager}
             /\ Head(q).sig = "Ind" => Head(q).topic \in Topics
  BY <1>e, HeadFields
<1>m. UNCHANGED <<running, connectTimer, ow, late>> => MiscType'
  BY <1>g DEF Groups, MiscType
<1>c. UNCHANGED <<st, busy>> => ChartType'
  BY <1>g DEF Groups, ChartType
<1>r. UNCHANGED rpcVars => RpcType'
  BY <1>g DEF Groups, RpcType, rpcVars
<1>s. UNCHANGED subVars => SubType'
  BY <1>g DEF Groups, SubType, subVars
<1>n. UNCHANGED netVars => NetType'
  BY <1>g DEF Groups, NetType, netVars
<1>v. UNCHANGED envVars => EnvType'
  BY <1>g DEF Groups, EnvType, envVars
<1> USE <1>m, <1>c, <1>r, <1>s, <1>n, <1>v
<1>b. ToBackoff \/ ToShuttingDown => Groups'
  <2> SUFFICES ASSUME ToBackoff \/ ToShuttingDown PROVE Groups'
    OBVIOUS
  <2>1. MiscType' /\ RpcType' /\ SubType' /\ EnvType' /\ busy' = busy
    BY <1>g, TearDownType DEF ToBackoff, ToShuttingDown
  <2>2. ChartType'
    BY <1>g, <2>1 DEF ToBackoff, ToShuttingDown, Groups, ChartType, States
  <2>3. NetType'
    BY <1>g, Zenon DEF ToBackoff, ToShuttingDown, Groups, NetType, netVars
  <2> QED BY <2>1, <2>2, <2>3 DEF Groups
<1>o. ToConnected => Groups'
  <2> SUFFICES ASSUME ToConnected PROVE Groups'
    OBVIOUS
  <2>1. MiscType'
    BY <1>g DEF ToConnected, Cancel, Groups, MiscType, Timer
  <2>2. ChartType'
    BY DEF ToConnected, ChartType, States
  <2>3. NetType'
    BY <1>g DEF ToConnected, mosquitto_subscribe, Groups, NetType
  <2> QED BY <2>1, <2>2, <2>3 DEF ToConnected, Groups
<1>i. Ignore \/ Defer => Groups'
  BY DEF Ignore, Defer, Groups, workerVars
<1>w. ASSUME NEW R \in SUBSET Reqs, NEW S, Invoke(R), Reach(S)
      PROVE  calls' \in [Reqs -> Nat] /\ late' \subseteq Managers
  BY <1>w, <1>g DEF Invoke, Reach, Gone, Groups, RpcType, MiscType
<1>f. ASSUME NEW r \in Reqs, FailFast(r) PROVE Groups'
  <2>1. RpcType' /\ MiscType'
    BY <1>f, <1>g, <1>w DEF FailFast, Groups, RpcType, MiscType
  <2> QED BY <1>f, <2>1 DEF FailFast, Groups, workerVars
<1>h. ASSUME q # <<>>, Head(q).sig = "Drain", HandleDrain PROVE Groups'
  <2>1. EnvType'
    BY <1>h, <1>g, <1>e DEF HandleDrain, Fulfil, Groups, EnvType
  <2> QED BY <1>h, <2>1 DEF HandleDrain, Groups, workerVars
<1>x. ASSUME q # <<>>, Discard(Head(q)) PROVE Groups'
  <2>1. MiscType'
    BY <1>x, <1>g, <1>e DEF Discard, Groups, MiscType
  <2>2. RpcType'
    BY <1>x, <1>g, <1>e DEF Discard, Groups, RpcType
  <2> QED BY <1>x, <2>1, <2>2 DEF Discard, Groups, workerVars
<1>y. ASSUME Tables, SubType', late' \subseteq Managers,
             wire' \subseteq Topics \cup {RspWildcards}, retained' \subseteq Topics
      PROVE  Groups'
  <2>1. MiscType'
    BY <1>y, <1>g DEF Tables, Groups, MiscType
  <2>2. NetType'
    BY <1>y, <1>g DEF Tables, Groups, NetType
  <2> QED BY <1>y, <2>1, <2>2 DEF Tables, Groups, workerVars
<1>z. ASSUME Tables, SubType', UNCHANGED <<late, wire, retained>> PROVE Groups'
  BY <1>y, <1>z, <1>g DEF Groups, MiscType, NetType
<1>j. ASSUME NEW m \in Managers, observers' \in {observers \cup {m}, observers \ {m}},
             UNCHANGED <<subscriptions, told>>
      PROVE  SubType'
  BY <1>j, <1>g DEF Groups, SubType
<1>k. ASSUME NEW m \in Managers \cup {NoManager}, NEW t \in Topics,
             subscriptions' = [subscriptions EXCEPT ![t] = m],
             UNCHANGED <<observers, told>>
      PROVE  SubType'
  BY <1>k, <1>g DEF Groups, SubType
<1>1. CASE NotOperational_St
  <2>1. CASE Head(q).sig = "Drain"
    BY <1>1, <2>1, <1>h DEF NotOperational_St, Dispatch
  <2>2. CASE Head(q).sig # "Drain"
    <3>1. /\ q # <<>> /\ Head(q).sig \in SubSignals /\ Tables
          /\ UNCHANGED <<told, late, wire, retained>>
      BY <1>1, <2>2 DEF NotOperational_St, Dispatch, SubSignals, Tables
    <3>2. SubType'
      BY <1>1, <2>2, <3>1, <1>e, <1>j, <1>k DEF NotOperational_St, Dispatch
    <3> QED BY <3>1, <3>2, <1>z
  <2> QED BY <2>1, <2>2
<1>2. CASE Disconnected_St
  <2>1. CASE Head(q).sig = "Start"
    <3>1. ToConnecting
      BY <1>2, <2>1 DEF Disconnected_St, Dispatch
    <3>2. MiscType' /\ ChartType'
      BY <3>1, <1>g DEF ToConnecting, Groups, MiscType, ChartType, Timer, States
    <3>3. NetType'
      BY <3>1, <1>g, Zenon DEF ToConnecting, Groups, NetType
    <3> QED BY <3>1, <3>2, <3>3 DEF ToConnecting, Groups
  <2>2. CASE Head(q).sig = "PublishOneway"
    <3>1. MiscType'
      BY <1>2, <2>2, <1>g, <1>e DEF Disconnected_St, Dispatch, Groups, MiscType
    <3> QED BY <1>2, <2>2, <3>1 DEF Disconnected_St, Dispatch, Groups, workerVars
  <2> QED BY <1>2, <2>1, <2>2, <1>f, <1>b, <1>e DEF Disconnected_St, Dispatch
<1>3. CASE Connecting_St
  BY <1>3, <1>o, <1>b, <1>i DEF Connecting_St, Dispatch
<1>4. CASE Connected_St
  <2>1. CASE Head(q).sig \in {"LinkDown", "Stop", "Drain"}
    BY <1>4, <2>1, <1>b, <1>h DEF Connected_St, Dispatch
  <2>2. CASE Head(q).sig \notin {"LinkDown", "Stop", "Drain"}
    <3>1. /\ q # <<>> /\ Head(q).sig \in SubSignals /\ Tables
          /\ UNCHANGED <<told, late>>
      BY <1>4, <2>2, Zenon DEF Connected_St, Dispatch, SubSignals, Tables
    <3>2. SubType'
      BY <1>4, <2>2, <3>1, <1>e, <1>j, <1>k, Zenon DEF Connected_St, Dispatch
    <3>3. wire' \subseteq Topics \cup {RspWildcards} /\ retained' \subseteq Topics
      BY <1>4, <2>2, <3>1, <1>e, <1>g
      DEF Connected_St, Dispatch, mosquitto_subscribe, Groups, NetType
    <3> QED BY <3>1, <3>2, <3>3, <1>y, <1>g DEF Groups, MiscType
  <2> QED BY <2>1, <2>2
<1>5. CASE Subscribing_St
  <2>1. CASE Head(q).sig = "AllSubAcked"
    <3>1. ToOperational
      BY <1>5, <2>1 DEF Subscribing_St, Dispatch
    <3>2. MiscType' /\ ChartType'
      BY <3>1, <1>g DEF ToOperational, Reach, Gone, Groups, MiscType, ChartType, States
    <3>3. SubType'
      BY <3>1, <1>g DEF ToOperational, notifyConnectivity_, Groups, SubType
    <3> QED BY <3>1, <3>2, <3>3 DEF ToOperational, Groups
  <2>2. CASE Head(q).sig = "SubscribeConnectivity"
    <3>1. q # <<>> /\ Tables /\ observers' = observers \cup {Head(q).mgr}
          /\ UNCHANGED <<subscriptions, told, late, wire, retained>>
      BY <1>5, <2>2 DEF Subscribing_St, Dispatch, Tables
    <3> QED BY <2>2, <3>1, <1>e, <1>j, <1>z DEF SubSignals
  <2> QED BY <1>5, <2>1, <2>2, <1>i DEF Subscribing_St, Dispatch
<1>6. CASE SubscribingEntered
  <2>1. ChartType'
    BY <1>6, <1>g, Zenon DEF SubscribingEntered, Groups, ChartType
  <2> QED BY <1>6, <2>1 DEF SubscribingEntered, Groups
<1>7. CASE Operational_St
  <2>1. ASSUME q # <<>>, Head(q).sig = "SendReq", doSendRequest_(Head(q).req) PROVE Groups'
    <3>1. Head(q).req \in Reqs
      BY <2>1, <1>e
    <3>2. CASE FailFast(Head(q).req)
      BY <3>1, <3>2, <1>f
    <3>3. CASE ~FailFast(Head(q).req)
      <4>1. RpcType'
        BY <2>1, <3>1, <3>3, <1>g, Zenon DEF doSendRequest_, Groups, RpcType, Timer
      <4> QED BY <2>1, <3>3, <4>1 DEF doSendRequest_, Groups, workerVars
    <3> QED BY <3>2, <3>3
  <2>2. ASSUME q # <<>>, Head(q).sig = "PublishOneway", doPublishOneway_(Head(q).msg)
        PROVE  Groups'
    <3>1. MiscType'
      BY <2>2, <1>e, <1>g DEF doPublishOneway_, Groups, MiscType
    <3> QED BY <2>2, <3>1 DEF doPublishOneway_, Groups, workerVars
  <2>3. ASSUME NEW r \in Reqs, NEW b, Complete(r, b), rspTimer' \in [Reqs -> Timer]
        PROVE  Groups'
    <3>1. calls' \in [Reqs -> Nat] /\ late' \subseteq Managers
      BY <2>3, <1>w DEF Complete
    <3>2. RpcType' /\ MiscType'
      BY <2>3, <3>1, <1>g DEF Complete, Groups, RpcType, MiscType
    <3> QED BY <2>3, <3>2 DEF Complete, Groups, workerVars
  <2>4. ASSUME q # <<>>, Head(q).sig = "Rsp", EvtRecvRsp(Head(q)) PROVE Groups'
    <3>1. [rspTimer EXCEPT ![Head(q).req] = Cancel(@)] \in [Reqs -> Timer]
      BY <2>4, <1>e, <1>g, Zenon DEF Cancel, Timer, Groups, RpcType
    <3> QED BY <2>4, <3>1, <2>3, <1>e, <1>i, Zenon DEF EvtRecvRsp
  <2>5. ASSUME q # <<>>, Head(q).sig = "Ind", EvtRecvInd(Head(q)), ~Ignore PROVE Groups'
    <3>1. subscriptions[Head(q).topic] \in Managers
      BY <2>5, <1>e, <1>g DEF EvtRecvInd, Groups, SubType
    <3>2. SubType' /\ MiscType'
      BY <2>5, <3>1, <1>g DEF EvtRecvInd, Reach, Gone, Groups, SubType, MiscType
    <3> QED BY <2>5, <3>2, Zenon DEF EvtRecvInd, Groups, workerVars
  <2>6. ASSUME q # <<>>, Head(q).sig = "RspTimeout", RspTimeout(Head(q).req) PROVE Groups'
    <3>1. rspTimer \in [Reqs -> Timer]
      BY <1>g DEF Groups, RpcType
    <3> QED BY <2>6, <3>1, <2>3, <1>i, <1>e, Zenon DEF RspTimeout
  <2>7. ASSUME q # <<>>, Head(q).sig = "SubscribeConnectivity", Tables,
               told' = [told EXCEPT ![Head(q).mgr] = "up"],
               observers' = observers \cup {Head(q).mgr}, Reach({Head(q).mgr}),
               UNCHANGED <<subscriptions, wire, retained>>
        PROVE  Groups'
    <3>1. SubType' /\ late' \subseteq Managers
      BY <2>7, <1>e, <1>g DEF Tables, Reach, Gone, SubSignals, Groups, SubType, MiscType
    <3> QED BY <2>7, <3>1, <1>y, <1>g, Zenon DEF Groups, NetType
  <2> QED
    BY <1>7, <2>1, <2>2, <2>4, <2>5, <2>6, <2>7, <1>i DEF Operational_St, Dispatch
<1>8. CASE Backoff_St
  BY <1>8, <1>o, <1>i, <1>b DEF Backoff_St, Dispatch
<1>9. CASE ShuttingDown_St
  BY <1>9, <1>h, <1>x DEF ShuttingDown_St, Dispatch
<1>10. CASE top
  BY <1>10, <1>x DEF top, Dispatch
<1>11. CASE start
  <2>1. MiscType' /\ ChartType'
    BY <1>11, <1>g, Zenon DEF start, start_at, StartPost, Groups, MiscType, ChartType, States
  <2>2. starts' \in 0..MaxStarts
    <3>1. CASE start_at
      <4>1. starts < MaxStarts /\ starts' = starts + 1
        BY <3>1 DEF start_at
      <4> QED BY <4>1, <1>g, ConstantsAssumption DEF Groups, EnvType
    <3>2. CASE StartPost
      BY <3>2, <1>g DEF StartPost, Groups, EnvType
    <3> QED BY <1>11, <3>1, <3>2 DEF start
  <2>3. EnvType'
    BY <1>11, <1>g, <2>2, Zenon DEF start, start_at, StartPost, Groups, EnvType
  <2> QED BY <1>11, <1>g, <2>1, <2>3 DEF start, Groups
<1>12. CASE stop
  <2>1. running' \in BOOLEAN
        /\ stopper' \in {"idle", "posted", "draining", "fenced", "joining", "stopped"}
    BY <1>12, <1>g, Zenon DEF stop, StopPost, StopDrain, StopClear, StopJoin, Groups, MiscType, EnvType
  <2>2. MiscType'
    BY <1>12, <2>1, <1>g DEF stop, Groups, MiscType
  <2>3. EnvType'
    BY <1>12, <2>1, <1>g DEF stop, Groups, EnvType
  <2> QED BY <1>12, <2>2, <2>3 DEF stop, Groups, workerVars
<1>13. ASSUME NEW r \in Reqs, send_request(r) PROVE Groups'
  <2>1. RpcType'
    BY <1>13, <1>g, Zenon DEF send_request, Groups, RpcType
  <2>2. EnvType'
    BY <1>13, <1>g DEF send_request, Groups, EnvType
  <2> QED BY <1>13, <2>1, <2>2, Zenon DEF send_request, Groups, workerVars
<1>14. ASSUME NEW o \in Oneways, publish_oneway(o) PROVE Groups'
  <2>1. MiscType'
    BY <1>14, <1>g DEF publish_oneway, Groups, MiscType
  <2> QED BY <1>14, <2>1 DEF publish_oneway, Groups, workerVars
<1>15. ASSUME NEW m \in Managers, Manager(m) PROVE Groups'
  <2>1. EnvType'
    BY <1>15, <1>g DEF Manager, Advance, drain, Groups, EnvType
  <2> QED BY <1>15, <2>1 DEF Manager, Groups, workerVars
<1>16. ASSUME NEW r \in Reqs, DeadlinePasses(r) PROVE Groups'
  <2>1. EnvType'
    BY <1>16, <1>g DEF DeadlinePasses, Groups, EnvType
  <2> QED BY <1>16, <2>1 DEF DeadlinePasses, Groups, workerVars
<1>17. ASSUME NEW r \in Reqs, TimerTaken(r) PROVE Groups'
  <2>1. RpcType'
    BY <1>17, <1>g DEF TimerTaken, Groups, RpcType, Timer
  <2> QED BY <1>17, <2>1 DEF TimerTaken, Groups, workerVars
<1>18. ASSUME NEW r \in Reqs, TimerFires(r) PROVE Groups'
  <2>1. RpcType'
    BY <1>18, <1>g DEF TimerFires, Groups, RpcType, Timer
  <2> QED BY <1>18, <2>1 DEF TimerFires, Groups, workerVars
<1>19. ASSUME NEW t \in Topics, onRetained(t) PROVE Groups'
  <2>1. NetType'
    BY <1>19, <1>g DEF onRetained, Groups, NetType
  <2> QED BY <1>19, <2>1 DEF onRetained, Groups, workerVars
<1>20. ASSUME NEW e \in Messages, onMessage_(e) PROVE Groups'
  <2>1. e.sig = "Rsp" => e.req \in Reqs
    BY Zenon DEF Messages
  <2>2. EnvType'
    <3>0. msgs < MaxMsgs /\ msgs' = msgs + 1
      BY <1>20 DEF onMessage_
    <3>1. msgs' \in 0..MaxMsgs
      BY <3>0, <1>g, ConstantsAssumption DEF Groups, EnvType
    <3> QED BY <1>20, <2>1, <1>g, <3>1, Zenon DEF onMessage_, Groups, EnvType
  <2> QED BY <1>20, <2>2 DEF onMessage_, Groups, workerVars
<1>21. CASE ConnectTimer
  <2>1. MiscType'
    BY <1>21, <1>g DEF ConnectTimer, Groups, MiscType, Timer
  <2> QED BY <1>21, <2>1 DEF ConnectTimer, Groups, workerVars
<1>22. CASE onConnect_
  <2>1. NetType'
    BY <1>22, <1>g DEF onConnect_, Groups, NetType
  <2> QED BY <1>22, <2>1 DEF onConnect_, Groups, workerVars
<1>23. CASE Refused
  <2>1. EnvType'
    <3>0. flaps < MaxFlaps /\ flaps' = flaps + 1
      BY <1>23 DEF Refused
    <3>1. flaps' \in 0..MaxFlaps
      BY <3>0, <1>g, ConstantsAssumption DEF Groups, EnvType
    <3> QED BY <1>23, <1>g, <3>1 DEF Refused, Groups, EnvType
  <2> QED BY <1>23, <2>1 DEF Refused, Groups, workerVars
<1>24. CASE onDisconnect_
  <2>1. EnvType'
    <3>0. flaps < MaxFlaps /\ flaps' = flaps + 1
      BY <1>24 DEF onDisconnect_
    <3>1. flaps' \in 0..MaxFlaps
      BY <3>0, <1>g, ConstantsAssumption DEF Groups, EnvType
    <3> QED BY <1>24, <1>g, <3>1 DEF onDisconnect_, Groups, EnvType
  <2>2. NetType'
    BY <1>24, <1>g, Zenon DEF onDisconnect_, Groups, NetType
  <2> QED BY <1>24, <2>1, <2>2 DEF onDisconnect_, Groups, workerVars
<1>25. CASE UNCHANGED vars
  BY <1>25 DEF vars, workerVars, Groups
<1> QED
  BY <1>1, <1>2, <1>3, <1>4, <1>5, <1>6, <1>7, <1>8, <1>9, <1>10, <1>11, <1>12, <1>13,
     <1>14, <1>15, <1>16, <1>17, <1>18, <1>19, <1>20, <1>21, <1>22, <1>23, <1>24, <1>25
  DEF Next, Worker, Timers, Network, Clients

\* Every step keeps every variable in its type.
LEMMA TypeStep == TypeOK /\ [Next]_vars => TypeOK'
BY QueueType, GroupsStep, TypeGroups

\* The initial state has the right types.
LEMMA InitTypeOK == Init => TypeOK
<1> SUFFICES ASSUME Init PROVE TypeOK
  OBVIOUS
<1>1. <<>> \in Seq(Event)
  OBVIOUS
<1>2. /\ subscriptions \in [Topics -> Managers \cup {NoManager}]
      /\ rspTimer \in [Reqs -> {"off", "armed", "firing"}]
      /\ calls \in [Reqs -> Nat]
      /\ ow \in [Oneways -> {"new", "posted", "published", "dropped"}]
      /\ told \in [Managers -> {"none", "up", "down"}]
      /\ pc \in [Managers -> {"new", "subscribed", "live", "leaving", "left", "draining",
                              "gone"}]
  BY DEF Init
<1>3. starts \in 0..MaxStarts /\ flaps \in 0..MaxFlaps /\ msgs \in 0..MaxMsgs
  BY ConstantsAssumption DEF Init
<1> QED BY <1>1, <1>2, <1>3, Zenon DEF Init, TypeOK, States

\* Every table, queue and timer of ModemBridge.cpp stays well formed, for any
\* number of requests, managers and topics and any bounds.
THEOREM TypeCorrect == Spec => []TypeOK
BY InitTypeOK, TypeStep, PTL DEF Spec

---------------------------------------------------------------------------
\* The events of a queue are its head and the events of its tail.
LEMMA ImageTail ==
    ASSUME NEW s \in Seq(Event), s # <<>>
    PROVE  Image(s) = Image(Tail(s)) \cup {Head(s)}
<1>t. /\ \A i \in DOMAIN Tail(s) : i + 1 \in DOMAIN s /\ Tail(s)[i] = s[i + 1]
      /\ \A i \in DOMAIN s : i = 1 \/ (i - 1 \in DOMAIN Tail(s) /\ Tail(s)[i - 1] = s[i])
      /\ Head(s) = s[1] /\ 1 \in DOMAIN s
  BY TailFacts
<1>1. ASSUME NEW i \in DOMAIN s PROVE s[i] \in Image(Tail(s)) \cup {Head(s)}
  <2>1. CASE i = 1
    BY <2>1, <1>t
  <2>2. CASE i # 1
    BY <2>2, <1>t, Zenon DEF Image
  <2> QED BY <2>1, <2>2
<1>2. ASSUME NEW i \in DOMAIN Tail(s) PROVE Tail(s)[i] \in Image(s)
  BY <1>t DEF Image
<1>3. Head(s) \in Image(s)
  BY <1>t DEF Image
<1>4. Image(s) \subseteq Image(Tail(s)) \cup {Head(s)}
  BY <1>1 DEF Image
<1>5. Image(Tail(s)) \subseteq Image(s)
  BY <1>2 DEF Image
<1> QED BY <1>3, <1>4, <1>5

\* Appending adds exactly the appended event.
LEMMA ImageAppend ==
    ASSUME NEW s \in Seq(Event), NEW e \in Event
    PROVE  Image(Append(s, e)) = Image(s) \cup {e}
BY AppendFacts DEF Image

\* Concatenation holds the events of both parts.
LEMMA ImageConcat ==
    ASSUME NEW s \in Seq(Event), NEW t \in Seq(Event)
    PROVE  Image(s \o t) = Image(s) \cup Image(t)
<1>c. /\ \A i \in DOMAIN s : i \in DOMAIN (s \o t) /\ (s \o t)[i] = s[i]
      /\ \A i \in DOMAIN t : Len(s) + i \in DOMAIN (s \o t)
                             /\ (s \o t)[Len(s) + i] = t[i]
      /\ \A i \in DOMAIN (s \o t) : i \in DOMAIN s
                                    \/ (i - Len(s) \in DOMAIN t
                                        /\ (s \o t)[i] = t[i - Len(s)])
  BY ConcatFacts
<1>1. ASSUME NEW i \in DOMAIN (s \o t) PROVE (s \o t)[i] \in Image(s) \cup Image(t)
  BY <1>c DEF Image
<1>2. ASSUME NEW i \in DOMAIN s PROVE s[i] \in Image(s \o t)
  BY <1>c DEF Image
<1>3. ASSUME NEW i \in DOMAIN t PROVE t[i] \in Image(s \o t)
  BY <1>c, Zenon DEF Image
<1>4. Image(s \o t) \subseteq Image(s) \cup Image(t)
  BY <1>1 DEF Image
<1>5. Image(s) \subseteq Image(s \o t) /\ Image(t) \subseteq Image(s \o t)
  BY <1>2, <1>3, Zenon DEF Image
<1> QED BY <1>4, <1>5

(***************************************************************************)
(* One-way messages.                                                       *)
(***************************************************************************)
Carried(s) == {o \in Oneways : Oneway(o) \in Image(s)}
OnceEach(s) == \A i, j \in DOMAIN s : s[i].sig = "PublishOneway" /\ s[i] = s[j] => i = j

\* OnewayCustody as the step proof uses it, with no message twice in one queue.
Borne == /\ {o \in Oneways : ow[o] = "posted"} = Carried(q) \cup Carried(deferred)
         /\ Carried(q) \cap Carried(deferred) = {}
         /\ OnceEach(q) /\ OnceEach(deferred)

\* Taking a message off a queue without repetitions removes exactly that message.
LEMMA CarriedTail ==
    ASSUME NEW s \in Seq(Event), s # <<>>, OnceEach(s)
    PROVE  /\ OnceEach(Tail(s))
           /\ Head(s).sig = "PublishOneway" =>
                 /\ Head(s).msg \in Carried(s)
                 /\ Carried(Tail(s)) = Carried(s) \ {Head(s).msg}
           /\ Head(s).sig # "PublishOneway" => Carried(Tail(s)) = Carried(s)
<1>t. /\ Head(s) \in Event
      /\ \A i \in DOMAIN Tail(s) : i + 1 \in DOMAIN s /\ Tail(s)[i] = s[i + 1] /\ i \in Nat
      /\ Head(s) = s[1] /\ 1 \in DOMAIN s
  BY TailFacts
<1>1. OnceEach(Tail(s))
  <2> SUFFICES ASSUME NEW i \in DOMAIN Tail(s), NEW j \in DOMAIN Tail(s),
                      Tail(s)[i].sig = "PublishOneway", Tail(s)[i] = Tail(s)[j]
               PROVE  i = j
    BY DEF OnceEach
  <2>1. /\ i + 1 \in DOMAIN s /\ Tail(s)[i] = s[i + 1] /\ i \in Nat
        /\ j + 1 \in DOMAIN s /\ Tail(s)[j] = s[j + 1] /\ j \in Nat
    BY <1>t
  <2>2. i + 1 = j + 1
    BY <2>1 DEF OnceEach
  <2> QED BY <2>1, <2>2
<1>2. Image(s) = Image(Tail(s)) \cup {Head(s)}
  BY ImageTail
<1>3. \A o : Oneway(o).sig = "PublishOneway" /\ Oneway(o).msg = o
  BY Zenon DEF Oneway
<1>4. CASE Head(s).sig = "PublishOneway"
  <2>1. Head(s).msg \in Oneways /\ Head(s) = Oneway(Head(s).msg)
    BY <1>4, <1>t, EventFields
  <2>2. Head(s) \notin Image(Tail(s))
    <3> SUFFICES ASSUME NEW i \in DOMAIN Tail(s), Tail(s)[i] = Head(s) PROVE FALSE
      BY DEF Image
    <3>1. i + 1 \in DOMAIN s /\ s[i + 1] = s[1] /\ i \in Nat /\ i # 0
      BY <1>t
    <3> QED BY <3>1, <1>t, <1>4 DEF OnceEach
  <2> QED BY <1>1, <1>2, <1>3, <1>4, <2>1, <2>2 DEF Carried
<1>5. CASE Head(s).sig # "PublishOneway"
  BY <1>1, <1>2, <1>3, <1>5 DEF Carried
<1> QED BY <1>4, <1>5, Zenon

\* Posting a message that is not in the queue adds exactly that message.
LEMMA CarriedAppend ==
    ASSUME NEW s \in Seq(Event), NEW e \in Event, OnceEach(s),
           e.sig = "PublishOneway" => e.msg \notin Carried(s)
    PROVE  /\ OnceEach(Append(s, e))
           /\ e.sig = "PublishOneway" => Carried(Append(s, e)) = Carried(s) \cup {e.msg}
           /\ e.sig # "PublishOneway" => Carried(Append(s, e)) = Carried(s)
<1>a. /\ DOMAIN Append(s, e) = DOMAIN s \cup {Len(s) + 1}
      /\ \A i \in DOMAIN s : Append(s, e)[i] = s[i]
      /\ Append(s, e)[Len(s) + 1] = e
  BY AppendFacts, Zenon
<1>1. Image(Append(s, e)) = Image(s) \cup {e}
  BY ImageAppend
<1>2. \A o : Oneway(o).sig = "PublishOneway" /\ Oneway(o).msg = o
  BY DEF Oneway
<1>3. e.sig = "PublishOneway" => e.msg \in Oneways /\ e = Oneway(e.msg) /\ e \notin Image(s)
  BY EventFields DEF Carried
<1>4. OnceEach(Append(s, e))
  <2> SUFFICES ASSUME NEW i \in DOMAIN Append(s, e), NEW j \in DOMAIN Append(s, e),
                      Append(s, e)[i].sig = "PublishOneway",
                      Append(s, e)[i] = Append(s, e)[j]
               PROVE  i = j
    BY DEF OnceEach
  <2>1. CASE i \in DOMAIN s /\ j \in DOMAIN s
    BY <2>1, <1>a DEF OnceEach
  <2>2. CASE i = Len(s) + 1 /\ j \in DOMAIN s
    BY <2>2, <1>a, <1>3 DEF Image
  <2>3. CASE i \in DOMAIN s /\ j = Len(s) + 1
    BY <2>3, <1>a, <1>3 DEF Image
  <2> QED BY <1>a, <2>1, <2>2, <2>3, Zenon
<1> QED BY <1>1, <1>2, <1>3, <1>4 DEF Carried

\* recall_all: two queues with no message in common keep one copy of each.
LEMMA CarriedConcat ==
    ASSUME NEW s \in Seq(Event), NEW t \in Seq(Event), OnceEach(s), OnceEach(t),
           Carried(s) \cap Carried(t) = {}
    PROVE  OnceEach(s \o t) /\ Carried(s \o t) = Carried(s) \cup Carried(t)
<1>c. /\ \A i \in DOMAIN (s \o t) : (i \in DOMAIN s /\ (s \o t)[i] = s[i])
                                    \/ (i \notin DOMAIN s /\ i - Len(s) \in DOMAIN t
                                        /\ (s \o t)[i] = t[i - Len(s)])
      /\ Len(s) \in Nat /\ DOMAIN (s \o t) \subseteq Nat
  BY ConcatFacts, Zenon
<1>1. Image(s \o t) = Image(s) \cup Image(t)
  BY ImageConcat
<1>2. \A e \in Event : e.sig = "PublishOneway" => ~(e \in Image(s) /\ e \in Image(t))
  BY EventFields, Zenon DEF Carried
<1>3. /\ \A i \in DOMAIN s : s[i] \in Event /\ s[i] \in Image(s)
      /\ \A i \in DOMAIN t : t[i] \in Event /\ t[i] \in Image(t)
  BY DEF Image
<1>4. OnceEach(s \o t)
  <2> SUFFICES ASSUME NEW i \in DOMAIN (s \o t), NEW j \in DOMAIN (s \o t),
                      (s \o t)[i].sig = "PublishOneway", (s \o t)[i] = (s \o t)[j]
               PROVE  i = j
    BY DEF OnceEach
  <2>1. CASE i \in DOMAIN s /\ j \in DOMAIN s
    BY <2>1, <1>c DEF OnceEach
  <2>2. CASE i \notin DOMAIN s /\ j \notin DOMAIN s
    <3>1. i - Len(s) = j - Len(s)
      BY <2>2, <1>c, Zenon DEF OnceEach
    <3> QED BY <3>1, <1>c
  <2>3. CASE (i \in DOMAIN s) # (j \in DOMAIN s)
    BY <2>3, <1>c, <1>2, <1>3
  <2> QED BY <2>1, <2>2, <2>3
<1> QED BY <1>1, <1>4 DEF Carried

\* Every step hands each message from one queue to at most one other, or
\* settles it.
LEMMA BorneStep ==
    ASSUME TypeOK, Borne, [Next]_vars
    PROVE  Borne'
<1> DEFINE Same == UNCHANGED <<deferred, ow>>
           Kept == Carried(q') = Carried(q) /\ OnceEach(q')
           Msg == Head(q).sig = "PublishOneway"
<1>d. q \in Seq(Event) /\ deferred \in Seq(Event) /\ OnceEach(q) /\ OnceEach(deferred)
  BY DEF TypeOK, Borne
<1>y. \A o \in Oneways : Oneway(o) \in Event /\ Oneway(o).sig = "PublishOneway" /\ Oneway(o).msg = o
  BY EventKinds, Zenon DEF Oneway
<1>l. /\ \A s \in {"Start", "Stop", "LinkDown", "ConnectTimeout", "AllSubAcked"} :
            Plain(s) \in Event /\ Plain(s).sig # "PublishOneway"
      /\ \A b \in BOOLEAN : LinkUp(b) \in Event /\ LinkUp(b).sig # "PublishOneway"
      /\ \A r \in Reqs : /\ SendReq(r) \in Event /\ SendReq(r).sig # "PublishOneway"
                         /\ Timeout(r) \in Event /\ Timeout(r).sig # "PublishOneway"
      /\ \A s \in SubSignals, m \in Managers :
            Sub(s, m) \in Event /\ Sub(s, m).sig # "PublishOneway"
      /\ \A m \in Managers \cup {NoManager} : Drain(m) \in Event /\ Drain(m).sig # "PublishOneway"
      /\ \A t \in Topics : Ind(t, "valid") \in Event /\ Ind(t, "valid").sig # "PublishOneway"
  BY EventKinds, Zenon DEF Plain, LinkUp, SendReq, Timeout, Sub, Drain, Ind, SubSignals, Bodies
<1>c. Same /\ Kept => Borne'
  BY DEF Borne
<1>u. q' = q => Kept
  BY <1>d
<1>a. ASSUME NEW e \in Event, e.sig # "PublishOneway", post_fifo(e) PROVE Kept
  BY <1>a, <1>d, CarriedAppend DEF post_fifo
<1>t. ASSUME q # <<>>
      PROVE  /\ Tail(q) \in Seq(Event) /\ Head(q) \in Event /\ OnceEach(Tail(q))
             /\ Msg => /\ Head(q).msg \in Carried(q) /\ Head(q).msg \in Oneways
                       /\ Carried(Tail(q)) = Carried(q) \ {Head(q).msg}
             /\ ~Msg => Carried(Tail(q)) = Carried(q)
  BY <1>t, <1>d, TailFacts, CarriedTail, Zenon DEF Carried
<1>k. q # <<>> /\ ~Msg /\ Consume => Kept
  BY <1>t DEF Consume
<1>n. ASSUME q # <<>>, ~Msg, q' = Append(Tail(q), Plain("LinkDown")) PROVE Kept
  <2>1. Tail(q) \in Seq(Event) /\ OnceEach(Tail(q)) /\ Carried(Tail(q)) = Carried(q)
    BY <1>n, <1>t
  <2>2. Plain("LinkDown") \in Event /\ Plain("LinkDown").sig # "PublishOneway"
    BY <1>l
  <2>3. /\ OnceEach(Append(Tail(q), Plain("LinkDown")))
        /\ Carried(Append(Tail(q), Plain("LinkDown"))) = Carried(Tail(q))
    BY <2>1, <2>2, CarriedAppend, Zenon
  <2> QED BY <1>n, <2>1, <2>3
<1>e. Carried(<<>>) = {} /\ OnceEach(<<>>)
  BY DEF Carried, OnceEach, Image
<1>z. TearDown /\ Kept => Borne'
  <2> SUFFICES ASSUME TearDown, Kept PROVE Borne'
    OBVIOUS
  <2>1. /\ deferred' = <<>>
        /\ \A o \in Oneways : ow'[o] = IF o \in Carried(deferred) THEN "dropped" ELSE ow[o]
    BY DEF TearDown, failAllInFlight_, Carried
  <2>2. {o \in Oneways : ow'[o] = "posted"} = Carried(q)
    BY <2>1 DEF Borne
  <2> QED BY <2>1, <2>2, <1>e DEF Borne
<1>b. q # <<>> /\ ~Msg /\ (ToBackoff \/ ToShuttingDown) => Borne'
  BY <1>k, <1>n, <1>z DEF ToBackoff, ToShuttingDown
<1>x. ASSUME q # <<>>, Msg, Consume, UNCHANGED deferred,
             NEW fate, fate # "posted", ow' = [ow EXCEPT ![Head(q).msg] = fate]
      PROVE  Borne'
  <2>1. Head(q).msg \in Carried(q) /\ q' = Tail(q) /\ Head(q).msg \in Oneways
    BY <1>x, <1>t, Zenon DEF Consume
  <2>2. ow'[Head(q).msg] = fate /\ \A o \in Oneways : o # Head(q).msg => ow'[o] = ow[o]
    BY <1>x, <2>1 DEF TypeOK
  <2>3. {o \in Oneways : ow'[o] = "posted"} = {o \in Oneways : ow[o] = "posted"} \ {Head(q).msg}
    BY <1>x, <2>2
  <2> QED BY <1>x, <2>1, <2>3, <1>t DEF Borne
<1>g. q # <<>> /\ Defer => Borne'
  <2> SUFFICES ASSUME q # <<>>, Defer PROVE Borne'
    OBVIOUS
  <2>1. q' = Tail(q) /\ UNCHANGED ow /\ deferred' = Append(deferred, Head(q))
    BY DEF Defer, Consume
  <2>2. Msg => Head(q).msg \notin Carried(deferred)
    BY <1>t, Zenon DEF Borne
  <2>3. /\ OnceEach(deferred')
        /\ Msg => Carried(deferred') = Carried(deferred) \cup {Head(q).msg}
        /\ ~Msg => Carried(deferred') = Carried(deferred)
    BY <2>1, <2>2, <1>d, <1>t, CarriedAppend
  <2> QED BY <2>1, <2>3, <1>t, Zenon DEF Borne
<1>v. q # <<>> /\ ~Msg /\ (ToConnected \/ Ignore \/ Tables \/ HandleDrain) => Borne'
  BY <1>k, <1>c DEF ToConnected, Ignore, Tables, HandleDrain, workerVars
<1>w. q # <<>> /\ Discard(Head(q)) => Borne'
  <2> SUFFICES ASSUME q # <<>>, Discard(Head(q)) PROVE Borne'
    OBVIOUS
  <2>1. CASE Msg
    BY <2>1, <1>x, Zenon DEF Discard, workerVars
  <2>2. CASE ~Msg
    BY <2>2, <1>k, <1>c DEF Discard, workerVars
  <2> QED BY <2>1, <2>2
<1>f. ASSUME NEW r, q # <<>>, ~Msg, FailFast(r) PROVE Borne'
  BY <1>f, <1>k, <1>c DEF FailFast, workerVars
<1>m. ASSUME NEW r, NEW b, q # <<>>, ~Msg, Complete(r, b) PROVE Borne'
  BY <1>m, <1>k, <1>c DEF Complete, workerVars
<1>1. CASE NotOperational_St
  BY <1>1, <1>v, Zenon DEF NotOperational_St, Dispatch
<1>2. CASE Disconnected_St
  <2>1. CASE Head(q).sig = "Start"
    BY <1>2, <2>1, <1>k, <1>n, <1>c DEF Disconnected_St, Dispatch, ToConnecting
  <2>2. CASE Msg
    BY <1>2, <2>2, <1>x DEF Disconnected_St, Dispatch, workerVars
  <2> QED BY <1>2, <2>1, <2>2, <1>f, <1>b DEF Disconnected_St, Dispatch
<1>3. CASE Connecting_St
  BY <1>3, <1>v, <1>b, <1>g DEF Connecting_St, Dispatch
<1>4. CASE Connected_St
  BY <1>4, <1>v, <1>b, Zenon DEF Connected_St, Dispatch
<1>5. CASE Subscribing_St
  <2>1. CASE Head(q).sig = "AllSubAcked"
    <3>1. q # <<>> /\ q' = Tail(q) \o deferred /\ deferred' = <<>> /\ ow' = ow
      BY <1>5, <2>1 DEF Subscribing_St, Dispatch, ToOperational
    <3>2. Carried(q') = Carried(q) \cup Carried(deferred) /\ OnceEach(q')
      <4>1. Carried(Tail(q)) = Carried(q) /\ Carried(q) \cap Carried(deferred) = {}
        BY <2>1, <3>1, <1>t DEF Borne
      <4> QED BY <3>1, <4>1, <1>d, <1>t, CarriedConcat, Zenon
    <3> QED BY <3>1, <3>2, <1>e DEF Borne
  <2>2. CASE Head(q).sig # "AllSubAcked"
    BY <1>5, <2>2, <1>v, <1>g DEF Subscribing_St, Dispatch
  <2> QED BY <2>1, <2>2
<1>6. CASE SubscribingEntered
  BY <1>6, <1>a, <1>c, <1>l DEF SubscribingEntered
<1>7. CASE Operational_St
  <2>0. q # <<>>
    BY <1>7 DEF Operational_St, Dispatch
  <2>1. ASSUME ~Msg, doSendRequest_(Head(q).req) PROVE Borne'
    <3>1. CASE FailFast(Head(q).req)
      BY <2>0, <2>1, <3>1, <1>f
    <3>2. CASE ~FailFast(Head(q).req)
      BY <2>0, <2>1, <3>2, <1>k, <1>c, Zenon DEF doSendRequest_, workerVars
    <3> QED BY <3>1, <3>2
  <2>2. ASSUME Msg, doPublishOneway_(Head(q).msg) PROVE Borne'
    BY <2>0, <2>2, <1>x, Zenon DEF doPublishOneway_, workerVars
  <2>3. ASSUME ~Msg, EvtRecvRsp(Head(q)) \/ RspTimeout(Head(q).req) PROVE Borne'
    BY <2>0, <2>3, <1>m, <1>v, Zenon DEF EvtRecvRsp, RspTimeout
  <2>4. ASSUME ~Msg, EvtRecvInd(Head(q)) PROVE Borne'
    BY <2>0, <2>4, <1>k, <1>c, Zenon DEF EvtRecvInd, Ignore, workerVars
  <2> QED BY <1>7, <2>0, <2>1, <2>2, <2>3, <2>4, <1>v DEF Operational_St, Dispatch
<1>8. CASE Backoff_St
  BY <1>8, <1>v, <1>b, <1>g DEF Backoff_St, Dispatch
<1>9. CASE ShuttingDown_St
  BY <1>9, <1>v, <1>w DEF ShuttingDown_St, Dispatch
<1>10. CASE top
  BY <1>10, <1>w DEF top, Dispatch
<1>11. CASE start
  BY <1>11, <1>a, <1>u, <1>c, <1>l DEF start, start_at, StartPost, Post
<1>12. CASE stop
  BY <1>12, <1>a, <1>u, <1>c, <1>l
  DEF stop, StopPost, StopDrain, StopClear, StopJoin, Post, workerVars
<1>13. ASSUME NEW r \in Reqs, send_request(r) PROVE Borne'
  BY <1>13, <1>a, <1>c, <1>l, Zenon DEF send_request, Post, workerVars
<1>14. ASSUME NEW o \in Oneways, publish_oneway(o) PROVE Borne'
  <2>1. /\ ow[o] = "new" /\ post_fifo(Oneway(o)) /\ deferred' = deferred
        /\ ow' = [ow EXCEPT ![o] = IF running THEN "posted" ELSE "dropped"]
    BY <1>14 DEF publish_oneway, Post, workerVars
  <2>2. o \notin Carried(q) /\ o \notin Carried(deferred)
    BY <2>1 DEF Borne
  <2>3. OnceEach(q') /\ Carried(q') = IF running THEN Carried(q) \cup {o} ELSE Carried(q)
    <3>1. OnceEach(Append(q, Oneway(o))) /\ Carried(Append(q, Oneway(o))) = Carried(q) \cup {o}
      BY <2>2, <1>d, <1>y, CarriedAppend
    <3> QED BY <3>1, <2>1, <1>d, Zenon DEF post_fifo
  <2>4. /\ ow'[o] = (IF running THEN "posted" ELSE "dropped")
        /\ \A x \in Oneways : x # o => ow'[x] = ow[x]
    BY <2>1 DEF TypeOK
  <2> QED BY <2>1, <2>2, <2>3, <2>4 DEF Borne
<1>15. ASSUME NEW m \in Managers, Manager(m) PROVE Borne'
  <2>1. Same
    BY <1>15 DEF Manager, workerVars
  <2>2. Kept
    BY <1>15, <1>a, <1>l, Zenon DEF Manager, Advance, drain, Post, SubSignals
  <2> QED BY <2>1, <2>2, <1>c
<1>16. ASSUME NEW r \in Reqs, DeadlinePasses(r) \/ TimerTaken(r) PROVE Borne'
  BY <1>16, <1>u, <1>c, Zenon DEF DeadlinePasses, TimerTaken, workerVars
<1>18. ASSUME NEW r \in Reqs, TimerFires(r) PROVE Borne'
  BY <1>18, <1>a, <1>c, <1>l DEF TimerFires, Post, workerVars
<1>19. ASSUME NEW t \in Topics, onRetained(t) PROVE Borne'
  BY <1>19, <1>a, <1>c, <1>l DEF onRetained, Post, workerVars
<1>20. ASSUME NEW e \in Messages, onMessage_(e) PROVE Borne'
  <2>1. e \in Event /\ e.sig # "PublishOneway"
    BY Zenon DEF Messages, Bodies, Event
  <2> QED BY <1>20, <2>1, <1>a, <1>c, Zenon DEF onMessage_, Post, workerVars
<1>21. CASE ConnectTimer
  BY <1>21, <1>a, <1>u, <1>c, <1>l DEF ConnectTimer, Post, workerVars
<1>22. CASE onConnect_ \/ onDisconnect_
  BY <1>22, <1>a, <1>c, <1>l, Zenon DEF onConnect_, onDisconnect_, Post, workerVars
<1>23. CASE Refused
  <2>1. LinkUp(FALSE) \in Event /\ Plain("LinkDown") \in Event
        /\ LinkUp(FALSE).sig # "PublishOneway" /\ Plain("LinkDown").sig # "PublishOneway"
    BY <1>l, Zenon
  <2>2. /\ OnceEach(Append(q, LinkUp(FALSE))) /\ Carried(Append(q, LinkUp(FALSE))) = Carried(q)
        /\ Append(q, LinkUp(FALSE)) \in Seq(Event)
    BY <1>d, <2>1, AppendFacts, CarriedAppend, Zenon
  <2>3. /\ OnceEach(Append(Append(q, LinkUp(FALSE)), Plain("LinkDown")))
        /\ Carried(Append(Append(q, LinkUp(FALSE)), Plain("LinkDown"))) = Carried(q)
    BY <2>1, <2>2, CarriedAppend, Zenon
  <2> QED BY <1>23, <2>3, <1>d, <1>c, Zenon DEF Refused, workerVars
<1>25. CASE UNCHANGED vars
  BY <1>25, <1>u, <1>c DEF vars, workerVars
<1> QED
  BY <1>1, <1>2, <1>3, <1>4, <1>5, <1>6, <1>7, <1>8, <1>9, <1>10, <1>11, <1>12, <1>13,
     <1>14, <1>15, <1>16, <1>18, <1>19, <1>20, <1>21, <1>22, <1>23, <1>25
  DEF Next, Worker, Timers, Network, Clients

\* publish_oneway, defer and recall_all: until it is published or dropped, each of
\* any number of one-way messages is in exactly one of the two queues.
THEOREM OnewayCustodyHolds == Spec => []OnewayCustody
<1> DEFINE All == TypeOK /\ Borne
<1>1. Init => All
  <2> SUFFICES ASSUME Init PROVE Borne
    BY InitTypeOK
  <2>1. Carried(<<>>) = {} /\ OnceEach(<<>>)
    BY DEF Carried, OnceEach, Image
  <2>2. {o \in Oneways : ow[o] = "posted"} = {}
    BY DEF Init
  <2> QED BY <2>1, <2>2 DEF Init, Borne
<1>2. All /\ [Next]_vars => All'
  BY TypeStep, BorneStep
<1>3. All => OnewayCustody
  BY DEF Borne, Carried, OnewayCustody
<1> HIDE DEF All
<1> QED BY <1>1, <1>2, <1>3, PTL DEF Spec
=============================================================================
