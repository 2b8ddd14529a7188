----------------------- MODULE ModemBridgePubSubProofs -----------------------
(***************************************************************************)
(* The publish/subscribe side of ModemBridge, for any number of managers:  *)
(* what the broker forwards, and the life of a manager as the queue and    *)
(* the tables of the bridge see it.                                        *)
(***************************************************************************)
EXTENDS ModemBridgeRpcProofs

(***************************************************************************)
(* The link.  A LinkUp may be stale when it is taken; the invariant is     *)
(* that its LinkDown is then queued behind it (UpsCovered), so that a link *)
(* that is gone is always about to be noticed.                             *)
(***************************************************************************)
Down == Plain("LinkDown")
Up   == LinkUp(TRUE)

UpsCovered(s) == \A i \in DOMAIN s : s[i] = Up => \E j \in DOMAIN s : i < j /\ s[j] = Down

LossQueued ==
    ~link /\ st # "ShuttingDown" => /\ UpsCovered(q)
                                    /\ st \in Connected => Down \in Image(q)

\* Taking the head leaves every other LinkUp covered; a covered LinkUp that is
\* taken leaves its LinkDown behind.
LEMMA UpsTail ==
    ASSUME NEW s \in Seq(Event), s # <<>>, UpsCovered(s)
    PROVE  UpsCovered(Tail(s)) /\ (Head(s) = Up => Down \in Image(Tail(s)))
<1>t. /\ \A i \in DOMAIN Tail(s) : i + 1 \in DOMAIN s /\ Tail(s)[i] = s[i + 1] /\ i \in Nat
                                   /\ i >= 1
      /\ \A i \in DOMAIN s : i \in Nat /\ i >= 1
             /\ (i = 1 \/ (i - 1 \in DOMAIN Tail(s) /\ Tail(s)[i - 1] = s[i]))
      /\ Head(s) = s[1] /\ 1 \in DOMAIN s
  BY TailFacts
<1>1. ASSUME NEW i \in DOMAIN s, s[i] = Up
      PROVE  \E j \in DOMAIN Tail(s) : i < j + 1 /\ Tail(s)[j] = Down
  <2>1. PICK j \in DOMAIN s : i < j /\ s[j] = Down
    BY <1>1 DEF UpsCovered
  <2>2. j # 1 /\ i \in Nat /\ j \in Nat
    BY <2>1, <1>t
  <2>3. j - 1 \in DOMAIN Tail(s) /\ Tail(s)[j - 1] = Down /\ i < (j - 1) + 1
    BY <2>1, <2>2, <1>t
  <2> QED BY <2>3
<1>2. UpsCovered(Tail(s))
  <2> SUFFICES ASSUME NEW i \in DOMAIN Tail(s), Tail(s)[i] = Up
               PROVE  \E j \in DOMAIN Tail(s) : i < j /\ Tail(s)[j] = Down
    BY DEF UpsCovered
  <2>1. i + 1 \in DOMAIN s /\ s[i + 1] = Up /\ i \in Nat
    BY <1>t
  <2>2. PICK j \in DOMAIN Tail(s) : i + 1 < j + 1 /\ Tail(s)[j] = Down
    BY <2>1, <1>1
  <2>3. j \in Nat
    BY <1>t
  <2>4. i < j
    BY <2>1, <2>2, <2>3
  <2> QED BY <2>2, <2>4
<1>3. Head(s) = Up => Down \in Image(Tail(s))
  BY <1>1, <1>t DEF Image
<1> QED BY <1>2, <1>3

\* Posting anything but a LinkUp keeps the queue covered; posting LinkDown covers
\* it.
LEMMA UpsAppend ==
    ASSUME NEW s \in Seq(Event), NEW e \in Event, e = Down \/ (e # Up /\ UpsCovered(s))
    PROVE  UpsCovered(Append(s, e))
<1>a. /\ DOMAIN Append(s, e) = DOMAIN s \cup {Len(s) + 1}
      /\ \A i \in DOMAIN s : Append(s, e)[i] = s[i] /\ i < Len(s) + 1
      /\ Append(s, e)[Len(s) + 1] = e
  BY AppendFacts
<1>1. Down # Up
  BY DEF Down, Up, Plain, LinkUp
<1> SUFFICES ASSUME NEW i \in DOMAIN Append(s, e), Append(s, e)[i] = Up
             PROVE  \E j \in DOMAIN Append(s, e) : i < j /\ Append(s, e)[j] = Down
  BY DEF UpsCovered
<1>2. i \in DOMAIN s /\ s[i] = Up
  BY <1>a, <1>1
<1>3. CASE e = Down
  BY <1>2, <1>3, <1>a
<1>4. CASE UpsCovered(s)
  <2>1. PICK j \in DOMAIN s : i < j /\ s[j] = Down
    BY <1>2, <1>4 DEF UpsCovered
  <2> QED BY <2>1, <1>a
<1> QED BY <1>3, <1>4

\* Recalled events, none of which is a LinkUp, leave the queue covered.
LEMMA UpsConcat ==
    ASSUME NEW s \in Seq(Event), NEW t \in Seq(Event), UpsCovered(s), Up \notin Image(t)
    PROVE  UpsCovered(s \o t)
<1>c. /\ \A i \in DOMAIN s : i \in DOMAIN (s \o t) /\ (s \o t)[i] = s[i]
      /\ \A i \in DOMAIN (s \o t) : i \in DOMAIN s
                                    \/ (i - Len(s) \in DOMAIN t
                                        /\ (s \o t)[i] = t[i - Len(s)])
  BY ConcatFacts
<1>1. \A i \in DOMAIN (s \o t) : (s \o t)[i] = Up => i \in DOMAIN s /\ s[i] = Up
  BY <1>c DEF Image
<1> QED BY <1>1, <1>c DEF UpsCovered

\* Every step keeps a lost link noticed in time and the broker's subscriptions in
\* step with the table.
LEMMA WireStep ==
    ASSUME TypeOK, Stopping, LossQueued, WireCoversMap, [Next]_vars
    PROVE  LossQueued' /\ WireCoversMap'
<1> DEFINE Goal == LossQueued' /\ WireCoversMap'
           Same == UNCHANGED <<st, link, wire, subscriptions>>
           Keeps == /\ UpsCovered(q) => UpsCovered(q')
                    /\ Down \in Image(q) => Down \in Image(q')
<1>d. q \in Seq(Event) /\ deferred \in Seq(Event) /\ Down \in Event /\ Up \in Event
  BY EventKinds, Zenon DEF TypeOK, Down, Up
<1>l. /\ \A s \in {"Start", "Stop", "LinkDown", "ConnectTimeout", "AllSubAcked"} :
            Plain(s) \in Event /\ Plain(s) # Up
      /\ LinkUp(FALSE) \in Event /\ LinkUp(FALSE) # Up /\ Up.sig = "LinkUp" /\ Down.sig = "LinkDown"
      /\ \A r \in Reqs : /\ SendReq(r) \in Event /\ SendReq(r) # Up
                         /\ Timeout(r) \in Event /\ Timeout(r) # Up
      /\ \A o \in Oneways : Oneway(o) \in Event /\ Oneway(o) # Up
      /\ \A s \in SubSignals, m \in Managers : Sub(s, m) \in Event /\ Sub(s, m) # Up
      /\ \A m \in Managers \cup {NoManager} : Drain(m) \in Event /\ Drain(m) # Up
      /\ \A t \in Topics : Ind(t, "valid") \in Event /\ Ind(t, "valid") # Up
  BY EventKinds, Zenon
  DEF Plain, LinkUp, SendReq, Timeout, Oneway, Sub, Drain, Ind, SubSignals, Bodies, Up, Down
<1>c. Same /\ Keeps => Goal
  BY DEF LossQueued, WireCoversMap, Down
<1>y. st' = "ShuttingDown" => Goal
  BY DEF LossQueued, WireCoversMap, Connected
<1>u. q' = q => Keeps
  OBVIOUS
<1>a. ASSUME NEW e \in Event, e # Up, post_fifo(e) PROVE Keeps
  BY <1>a, <1>d, UpsAppend, ImageAppend DEF post_fifo
<1>t. q # <<>> => /\ Tail(q) \in Seq(Event) /\ Image(q) = Image(Tail(q)) \cup {Head(q)}
                  /\ UpsCovered(q) => UpsCovered(Tail(q))
  BY <1>d, TailFacts, ImageTail, UpsTail
<1>k. q # <<>> /\ Head(q).sig # "LinkDown" /\ Consume => Keeps
  BY <1>t, <1>l DEF Consume
<1>n. ASSUME q # <<>>, q' = Append(Tail(q), Plain("LinkDown")) PROVE UpsCovered(q')
  BY <1>n, <1>t, <1>d, UpsAppend, Zenon DEF Down
<1>x. ASSUME UpsCovered(q) => UpsCovered(q'), UNCHANGED link, st # "ShuttingDown",
             st' \notin Connected
      PROVE  Goal
  BY <1>x DEF LossQueued, WireCoversMap
<1>b. q # <<>> /\ st # "ShuttingDown" /\ ToBackoff => Goal
  <2>1. "Backoff" \notin Connected
    BY DEF Connected
  <2> QED BY <2>1, <1>t, <1>x DEF ToBackoff, Consume, netVars
<1>s. ToShuttingDown => Goal
  BY <1>y DEF ToShuttingDown
<1>o. ASSUME q # <<>>, Head(q).sig = "LinkUp", Head(q).ok, st # "ShuttingDown", ToConnected
      PROVE  Goal
  <2>1. Head(q) \in Event /\ Head(q) = Up
    <3>1. Head(q) \in Event
      BY <1>o, <1>d, TailFacts
    <3> QED BY <1>o, <3>1 DEF Event, Up, LinkUp, SubSignals
  <2>2. /\ q' = Tail(q) /\ st' = "Subscribing" /\ UNCHANGED <<link, subscriptions>>
        /\ link => {t \in Topics : subscriptions[t] # NoManager} \cup {RspWildcards} \subseteq wire'
    BY <1>o DEF ToConnected, mosquitto_subscribe, Consume, subVars
  <2>3. LossQueued'
    BY <1>o, <2>1, <2>2, <1>d, UpsTail DEF LossQueued
  <2> QED BY <2>2, <2>3 DEF WireCoversMap
<1>h. q # <<>> /\ Head(q).sig = "Drain" /\ HandleDrain => Goal
  BY <1>k, <1>c DEF HandleDrain, workerVars, subVars, netVars
<1>i. q # <<>> /\ Head(q).sig # "LinkDown" /\ (Ignore \/ Defer) => Goal
  BY <1>k, <1>c DEF Ignore, Defer, workerVars, subVars, netVars
<1>e. q # <<>> /\ st # "ShuttingDown" /\ Head(q).sig \in SubSignals /\ Tables
         /\ UNCHANGED <<subscriptions, wire>> => Goal
  BY <1>k, <1>c DEF Tables, workerVars, SubSignals
<1>f. ASSUME NEW r, q # <<>>, Head(q).sig # "LinkDown", FailFast(r) PROVE Goal
  BY <1>f, <1>k, <1>c DEF FailFast, workerVars, subVars, netVars
<1>m. ASSUME NEW r, NEW b, q # <<>>, Head(q).sig # "LinkDown", Complete(r, b) PROVE Goal
  BY <1>m, <1>k, <1>c DEF Complete, workerVars, subVars, netVars
<1>1. CASE NotOperational_St
  <2>1. q # <<>> /\ st \in NotOperational
    BY <1>1 DEF NotOperational_St, Dispatch
  <2>2. CASE Head(q).sig = "Drain"
    BY <2>1, <2>2, <1>1, <1>h DEF NotOperational_St, Dispatch
  <2>3. CASE Head(q).sig # "Drain"
    <3>1. Tables /\ Head(q).sig # "LinkDown"
      BY <2>3, <1>1 DEF NotOperational_St, Dispatch
    <3>2. Keeps /\ UNCHANGED <<link, st>>
      BY <2>1, <3>1, <1>k DEF Tables, workerVars
    <3> QED BY <2>1, <3>2, <1>x DEF NotOperational, Connected
  <2> QED BY <2>2, <2>3
<1>2. CASE Disconnected_St
  <2>1. CASE Head(q).sig = "Start"
    <3>1. "Connecting" \notin Connected
      BY DEF Connected
    <3> QED BY <1>2, <2>1, <3>1, <1>k, <1>n, <1>x DEF Disconnected_St, Dispatch, ToConnecting
  <2>2. CASE Head(q).sig = "PublishOneway"
    BY <1>2, <2>2, <1>k, <1>c DEF Disconnected_St, Dispatch, workerVars, subVars, netVars
  <2> QED BY <1>2, <2>1, <2>2, <1>f, <1>s DEF Disconnected_St, Dispatch
<1>3. CASE Connecting_St
  BY <1>3, <1>o, <1>b, <1>s, <1>i DEF Connecting_St, Dispatch
<1>4. CASE Connected_St
  <2>0. q # <<>> /\ st \in Connected /\ st # "ShuttingDown"
    BY <1>4 DEF Connected_St, Dispatch, Connected
  <2>1. CASE Head(q).sig = "SubscribeEvent"
    <3>1. /\ Keeps /\ UNCHANGED <<link, st>> /\ Topic[Head(q).mgr] \in Topics
          /\ subscriptions' = [subscriptions EXCEPT ![Topic[Head(q).mgr]] = Head(q).mgr]
          /\ wire' = IF link THEN wire \cup {Topic[Head(q).mgr]} ELSE wire
      BY <1>4, <2>0, <2>1, <1>k, HeadFields, Zenon
      DEF Connected_St, Dispatch, Tables, workerVars, mosquitto_subscribe, SubSignals
    <3> QED BY <2>0, <3>1 DEF LossQueued, WireCoversMap, Down, TypeOK
  <2>2. CASE Head(q).sig = "UnsubscribeEvent"
    <3>1. /\ Keeps /\ UNCHANGED <<link, st>> /\ Topic[Head(q).mgr] \in Topics
          /\ subscriptions' = [subscriptions EXCEPT ![Topic[Head(q).mgr]] = NoManager]
          /\ wire' = wire \ {Topic[Head(q).mgr]}
      BY <1>4, <2>0, <2>2, <1>k, HeadFields, Zenon
      DEF Connected_St, Dispatch, Tables, workerVars, SubSignals
    <3>2. RspWildcards # Topic[Head(q).mgr]
      BY <3>1, ConstantsAssumption
    <3> QED BY <2>0, <3>1, <3>2 DEF LossQueued, WireCoversMap, Down, TypeOK
  <2>3. CASE Head(q).sig \notin {"SubscribeEvent", "UnsubscribeEvent"}
    BY <1>4, <2>0, <2>3, <1>b, <1>s, <1>e, <1>h DEF Connected_St, Dispatch, SubSignals
  <2> QED BY <2>1, <2>2, <2>3
<1>5. CASE Subscribing_St
  <2>1. CASE Head(q).sig = "AllSubAcked"
    <3>1. /\ q # <<>> /\ q' = Tail(q) \o deferred /\ st = "Subscribing" /\ st' = "Operational"
          /\ UNCHANGED <<link, wire, subscriptions>>
      BY <1>5, <2>1 DEF Subscribing_St, Dispatch, ToOperational, netVars
    <3>2. Up \notin Image(deferred)
      BY <1>l DEF Stopping
    <3>3. Keeps
      <4>1. /\ Tail(q) \in Seq(Event) /\ Image(q) = Image(Tail(q)) \cup {Head(q)}
            /\ UpsCovered(q) => UpsCovered(Tail(q))
        BY <3>1, <1>t
      <4>2. /\ Image(q') = Image(Tail(q)) \cup Image(deferred)
            /\ UpsCovered(Tail(q)) => UpsCovered(q')
        BY <3>1, <3>2, <4>1, <1>d, ImageConcat, UpsConcat, Zenon
      <4>3. Head(q) # Down
        BY <2>1, <1>l
      <4> QED BY <4>1, <4>2, <4>3
    <3> QED BY <3>1, <3>3 DEF LossQueued, WireCoversMap, Connected, Down
  <2>2. CASE Head(q).sig # "AllSubAcked"
    BY <1>5, <2>2, <1>e, <1>i DEF Subscribing_St, Dispatch, SubSignals
  <2> QED BY <2>1, <2>2
<1>6. CASE SubscribingEntered
  BY <1>6, <1>a, <1>c, <1>l DEF SubscribingEntered, subVars, netVars
<1>7. CASE Operational_St
  <2>0. q # <<>> /\ Head(q).sig # "LinkDown" /\ st # "ShuttingDown"
    BY <1>7 DEF Operational_St, Dispatch
  <2>1. ASSUME doSendRequest_(Head(q).req) PROVE Goal
    BY <2>0, <2>1, <1>f, <1>k, <1>c DEF doSendRequest_, workerVars, subVars, netVars
  <2>2. ASSUME doPublishOneway_(Head(q).msg) \/ EvtRecvInd(Head(q)) PROVE Goal
    BY <2>0, <2>2, <1>k, <1>c
    DEF doPublishOneway_, EvtRecvInd, Ignore, workerVars, subVars, netVars
  <2>3. ASSUME EvtRecvRsp(Head(q)) \/ RspTimeout(Head(q).req) PROVE Goal
    BY <2>0, <2>3, <1>m, <1>i, Zenon DEF EvtRecvRsp, RspTimeout
  <2> QED BY <1>7, <2>0, <2>1, <2>2, <2>3, <1>e DEF Operational_St, Dispatch, SubSignals
<1>8. CASE Backoff_St
  <2>1. CASE Head(q).sig = "LinkDown"
    <3>1. "Backoff" \notin Connected
      BY DEF Connected
    <3> QED BY <1>8, <2>1, <3>1, <1>t, <1>x, Zenon
        DEF Backoff_St, Dispatch, Ignore, Consume, workerVars, netVars
  <2> QED BY <1>8, <2>1, <1>o, <1>s, <1>i DEF Backoff_St, Dispatch
<1>9. CASE ShuttingDown_St
  BY <1>9, <1>y DEF ShuttingDown_St, Dispatch, HandleDrain, Discard, workerVars
<1>10. CASE top
  <2>1. /\ q # <<>> /\ st # "ShuttingDown" /\ q' = Tail(q)
        /\ UNCHANGED <<st, link, wire, subscriptions>>
    BY <1>10 DEF top, Dispatch, Discard, Consume, workerVars, subVars, netVars
  <2>2. CASE Head(q).sig = "LinkDown"
    <3>1. st \notin Connected
      BY <1>10, <2>2 DEF top, Dispatch, Handled, Connected
    <3> QED BY <2>1, <3>1, <1>t, <1>x
  <2>3. CASE Head(q).sig # "LinkDown"
    BY <2>1, <2>3, <1>k, <1>c DEF Consume
  <2> QED BY <2>2, <2>3
<1>z. UpsCovered(<<>>)
  BY DEF UpsCovered
<1>11. CASE start
  <2>1. CASE start_at
    <3>1. q' = <<>> /\ st' = "Disconnected"
      BY <2>1 DEF start_at, Stopping
    <3> QED BY <3>1, <1>z DEF LossQueued, WireCoversMap, Connected
  <2>2. CASE StartPost
    BY <1>11, <2>2, <1>a, <1>c, <1>l DEF start, StartPost, Post, subVars, netVars
  <2> QED BY <1>11, <2>1, <2>2 DEF start
<1>12. CASE stop
  <2>1. Same
    BY <1>12 DEF stop, workerVars, subVars, netVars
  <2>2. Keeps
    BY <1>12, <1>a, <1>u, <1>l DEF stop, StopPost, StopDrain, StopClear, StopJoin, Post
  <2> QED BY <2>1, <2>2, <1>c
<1>13. ASSUME NEW r \in Reqs, send_request(r) PROVE Goal
  BY <1>13, <1>a, <1>c, <1>l, Zenon DEF send_request, Post, workerVars, subVars, netVars
<1>14. ASSUME NEW o \in Oneways, publish_oneway(o) PROVE Goal
  BY <1>14, <1>a, <1>c, <1>l DEF publish_oneway, Post, workerVars, subVars, netVars
<1>15. ASSUME NEW m \in Managers, Manager(m) PROVE Goal
  <2>1. Same
    BY <1>15 DEF Manager, workerVars, subVars, netVars
  <2>2. Keeps
    BY <1>15, <1>a, <1>l DEF Manager, Advance, drain, Post, SubSignals
  <2> QED BY <2>1, <2>2, <1>c
<1>16. ASSUME NEW r \in Reqs, DeadlinePasses(r) \/ TimerTaken(r) PROVE Goal
  BY <1>16, <1>u, <1>c DEF DeadlinePasses, TimerTaken, workerVars, subVars, netVars
<1>18. ASSUME NEW r \in Reqs, TimerFires(r) PROVE Goal
  BY <1>18, <1>a, <1>c, <1>l DEF TimerFires, Post, workerVars, subVars, netVars
<1>19. ASSUME NEW t \in Topics, onRetained(t) PROVE Goal
  BY <1>19, <1>a, <1>c, <1>l DEF onRetained, Post, workerVars, subVars
<1>20. ASSUME NEW e \in Messages, onMessage_(e) PROVE Goal
  <2>1. e \in Event /\ e.sig # "LinkUp"
    BY Zenon DEF Messages, Bodies, Event
  <2>2. e # Up
    BY <2>1, <1>l
  <2> QED BY <1>20, <2>1, <2>2, <1>a, <1>c, Zenon DEF onMessage_, Post, workerVars, subVars, netVars
<1>21. CASE ConnectTimer
  BY <1>21, <1>a, <1>u, <1>c, <1>l DEF ConnectTimer, Post, workerVars, subVars, netVars
<1>22. CASE onConnect_
  <2>1. /\ ~link /\ link' = TRUE /\ UNCHANGED st /\ post_fifo(Up)
    BY <1>22, Zenon DEF onConnect_, Post, workerVars, Up
  <2>2. Down \in Image(q) => Down \in Image(q')
    BY <2>1, <1>d, ImageAppend DEF post_fifo
  <2>3. st \in Connected => st # "ShuttingDown"
    BY DEF Connected
  <2> QED BY <2>1, <2>2, <2>3 DEF LossQueued, WireCoversMap, Down
<1>23. CASE Refused
  <2>1. Append(q, LinkUp(FALSE)) \in Seq(Event)
    BY <1>d, <1>l, AppendFacts, Zenon
  <2>2. /\ Image(q) \subseteq Image(Append(q, LinkUp(FALSE)))
        /\ Image(Append(Append(q, LinkUp(FALSE)), Down))
              = Image(Append(q, LinkUp(FALSE))) \cup {Down}
        /\ UpsCovered(Append(Append(q, LinkUp(FALSE)), Down))
    BY <2>1, <1>d, <1>l, ImageAppend, UpsAppend, Zenon
  <2>3. Keeps
    BY <1>23, <2>2, Zenon DEF Refused, Down
  <2> QED BY <1>23, <2>3, <1>c, Zenon DEF Refused, workerVars, subVars, netVars
<1>24. CASE onDisconnect_
  <2>1. ~link' /\ UNCHANGED st /\ post_fifo(Down)
    BY <1>24 DEF onDisconnect_, Post, workerVars, Down
  <2>2. CASE running
    <3>1. q' = Append(q, Down)
      BY <2>1, <2>2 DEF post_fifo
    <3>2. UpsCovered(q') /\ Down \in Image(q')
      BY <3>1, <1>d, UpsAppend, ImageAppend
    <3> QED BY <2>1, <3>2 DEF LossQueued, WireCoversMap
  <2>3. CASE ~running
    <3>1. st = "ShuttingDown" \/ (st = "Disconnected" /\ q' = <<>>)
      BY <2>1, <2>3 DEF Stopping, TypeOK, post_fifo
    <3> QED BY <2>1, <3>1, <1>z DEF LossQueued, WireCoversMap, Connected
  <2> QED BY <2>2, <2>3
<1>25. CASE UNCHANGED vars
  BY <1>25, <1>u, <1>c DEF vars, workerVars, subVars, netVars
<1> QED
  BY <1>1, <1>2, <1>3, <1>4, <1>5, <1>6, <1>7, <1>8, <1>9, <1>10, <1>11, <1>12, <1>13,
     <1>14, <1>15, <1>16, <1>18, <1>19, <1>20, <1>21, <1>22, <1>23, <1>24, <1>25
  DEF Next, Worker, Timers, Network, Clients

\* Subscribing's entry, on_connect and on_disconnect: for any number of topics and
\* flaps, an Operational or Subscribing bridge whose link is up and has no loss
\* waiting in the queue has every topic with a callback subscribed at the broker.
THEOREM WireCovers == Spec => []WireCoversMap
<1> DEFINE All == Inv /\ LossQueued /\ WireCoversMap
<1>1. Init => All
  <2> SUFFICES ASSUME Init PROVE LossQueued /\ WireCoversMap
    BY InvInit
  <2> QED BY DEF Init, LossQueued, WireCoversMap, UpsCovered, Connected
<1>2. All /\ [Next]_vars => All'
  BY InvStep, WireStep DEF Inv
<1>3. All => WireCoversMap
  OBVIOUS
<1> HIDE DEF All
<1> QED BY <1>1, <1>2, <1>3, PTL DEF Spec

(***************************************************************************)
(* The life of a manager.  It posts five events in a fixed order, each     *)
(* once; Rank numbers them and Stage says how many it has posted.          *)
(***************************************************************************)
Mine(e, m) == (e.sig \in SubSignals /\ e.mgr = m) \/ (e.sig = "Drain" /\ e.who = m)

Rank(e) == IF e.sig = "SubscribeEvent" THEN 1
           ELSE IF e.sig = "SubscribeConnectivity" THEN 2
           ELSE IF e.sig = "UnsubscribeEvent" THEN 3
           ELSE IF e.sig = "UnsubscribeConnectivity" THEN 4 ELSE 5

Stage(p) == IF p = "new" THEN 0
            ELSE IF p = "subscribed" THEN 1
            ELSE IF p = "live" THEN 2
            ELSE IF p = "leaving" THEN 3
            ELSE IF p = "left" THEN 4 ELSE 5

\* The events of m in a queue, and that they stand in the order of its life.
Evs(s, m) == {e \in Image(s) : Mine(e, m)}
Ordered(s, m) ==
    \A i, j \in DOMAIN s : i < j /\ Mine(s[i], m) /\ Mine(s[j], m) => Rank(s[i]) < Rank(s[j])

Lives == \A m \in Managers : Ordered(q, m) /\ \A e \in Evs(q, m) : Rank(e) <= Stage(pc[m])

\* Whose event an event is.
LEMMA MineFacts ==
    /\ \A e \in Event : e.sig \notin SubSignals \cup {"Drain"} => \A m \in Managers : ~Mine(e, m)
    /\ \A m \in Managers : ~Mine(Fence, m)
    /\ \A m, n \in Managers : /\ \A s \in SubSignals : Mine(Sub(s, m), n) <=> m = n
                              /\ Mine(Drain(m), n) <=> m = n
    /\ \A e \in Event, m \in Managers :
          Mine(e, m) => (e.sig \in SubSignals /\ e = Sub(e.sig, m)) \/ e = Drain(m)
<1>1. \A e \in Event : e.sig \notin SubSignals \cup {"Drain"} => \A m \in Managers : ~Mine(e, m)
  BY DEF Mine
<1>2. \A m \in Managers : ~Mine(Fence, m)
  BY ConstantsAssumption DEF Mine, Fence, Drain, SubSignals
<1>3. \A m, n \in Managers : /\ \A s \in SubSignals : Mine(Sub(s, m), n) <=> m = n
                             /\ Mine(Drain(m), n) <=> m = n
  BY DEF Mine, Sub, Drain, SubSignals
<1>4. ASSUME NEW e \in Event, NEW m \in Managers, Mine(e, m)
      PROVE  (e.sig \in SubSignals /\ e = Sub(e.sig, m)) \/ e = Drain(m)
  <2>1. CASE e.sig \in SubSignals
    <3>1. e \in [sig : SubSignals, mgr : Managers]
      BY <2>1 DEF Event, SubSignals
    <3>2. e.mgr = m
      BY <1>4, <2>1 DEF Mine, SubSignals
    <3> QED BY <2>1, <3>1, <3>2 DEF Sub
  <2>2. CASE e.sig = "Drain"
    BY <1>4, <2>2, EventFields DEF Mine, SubSignals
  <2> QED BY <1>4, <2>1, <2>2 DEF Mine
<1> QED BY <1>1, <1>2, <1>3, <1>4

\* The ranks of the five events.
LEMMA RankFacts ==
    \A m \in Managers : /\ Rank(Sub("SubscribeEvent", m)) = 1
                        /\ Rank(Sub("SubscribeConnectivity", m)) = 2
                        /\ Rank(Sub("UnsubscribeEvent", m)) = 3
                        /\ Rank(Sub("UnsubscribeConnectivity", m)) = 4
                        /\ Rank(Drain(m)) = 5
BY DEF Rank, Sub, Drain

\* A rank is a number from 1 to 5, a stage one from 0 to 5.
LEMMA RankType == \A e : Rank(e) \in 1..5 /\ Stage(e) \in 0..5
BY DEF Rank, Stage

\* Taking the head of the queue: the first of its manager's events goes.
LEMMA EvsTail ==
    ASSUME NEW s \in Seq(Event), s # <<>>, NEW m \in Managers, Ordered(s, m)
    PROVE  /\ Ordered(Tail(s), m)
           /\ ~Mine(Head(s), m) => Evs(Tail(s), m) = Evs(s, m)
           /\ Mine(Head(s), m) => /\ Head(s) \in Evs(s, m)
                                  /\ Evs(Tail(s), m) = Evs(s, m) \ {Head(s)}
                                  /\ \A e \in Evs(Tail(s), m) : Rank(Head(s)) < Rank(e)
<1>t. /\ \A i \in DOMAIN Tail(s) : i + 1 \in DOMAIN s /\ Tail(s)[i] = s[i + 1] /\ i \in Nat
                                   /\ i >= 1
      /\ Head(s) = s[1] /\ 1 \in DOMAIN s
  BY TailFacts
<1>1. Ordered(Tail(s), m)
  <2> SUFFICES ASSUME NEW i \in DOMAIN Tail(s), NEW j \in DOMAIN Tail(s), i < j,
                      Mine(Tail(s)[i], m), Mine(Tail(s)[j], m)
               PROVE  Rank(Tail(s)[i]) < Rank(Tail(s)[j])
    BY DEF Ordered
  <2>1. /\ i + 1 \in DOMAIN s /\ Tail(s)[i] = s[i + 1] /\ j + 1 \in DOMAIN s
        /\ Tail(s)[j] = s[j + 1] /\ i + 1 < j + 1
    BY <1>t
  <2> QED BY <2>1 DEF Ordered
<1>2. Image(s) = Image(Tail(s)) \cup {Head(s)}
  BY ImageTail
<1>3. ASSUME Mine(Head(s), m), NEW e \in Evs(Tail(s), m) PROVE Rank(Head(s)) < Rank(e)
  <2>1. PICK i \in DOMAIN Tail(s) : Tail(s)[i] = e
    BY <1>3 DEF Evs, Image
  <2>2. i + 1 \in DOMAIN s /\ s[i + 1] = e /\ 1 < i + 1 /\ Mine(e, m)
    BY <2>1, <1>3, <1>t DEF Evs
  <2> QED BY <2>2, <1>3, <1>t DEF Ordered
<1>4. Mine(Head(s), m) => Head(s) \notin Evs(Tail(s), m)
  BY <1>3, RankType
<1> QED BY <1>1, <1>2, <1>3, <1>4 DEF Evs

\* Posting an event that is not m's, or is m's next.
LEMMA EvsAppend ==
    ASSUME NEW s \in Seq(Event), NEW e \in Event, NEW m \in Managers, Ordered(s, m),
           Mine(e, m) => \A f \in Evs(s, m) : Rank(f) < Rank(e)
    PROVE  /\ Ordered(Append(s, e), m)
           /\ Evs(Append(s, e), m) = IF Mine(e, m) THEN Evs(s, m) \cup {e} ELSE Evs(s, m)
<1>a. /\ DOMAIN Append(s, e) = DOMAIN s \cup {Len(s) + 1}
      /\ \A i \in DOMAIN s : Append(s, e)[i] = s[i] /\ i < Len(s) + 1 /\ i \in Nat
      /\ Append(s, e)[Len(s) + 1] = e /\ Len(s) \in Nat
  BY AppendFacts
<1>1. Image(Append(s, e)) = Image(s) \cup {e}
  BY ImageAppend
<1>2. Ordered(Append(s, e), m)
  <2> SUFFICES ASSUME NEW i \in DOMAIN Append(s, e), NEW j \in DOMAIN Append(s, e), i < j,
                      Mine(Append(s, e)[i], m), Mine(Append(s, e)[j], m)
               PROVE  Rank(Append(s, e)[i]) < Rank(Append(s, e)[j])
    BY DEF Ordered
  <2>1. i \in DOMAIN s
    BY <1>a
  <2>2. CASE j \in DOMAIN s
    BY <2>1, <2>2, <1>a DEF Ordered
  <2>3. CASE j = Len(s) + 1
    <3>1. Append(s, e)[i] \in Evs(s, m)
      BY <2>1, <1>a DEF Evs, Image
    <3> QED BY <2>3, <3>1, <1>a
  <2> QED BY <2>2, <2>3, <1>a
<1> QED BY <1>1, <1>2 DEF Evs

\* Recalled events are no manager's.
LEMMA EvsConcat ==
    ASSUME NEW s \in Seq(Event), NEW t \in Seq(Event), NEW m \in Managers, Ordered(s, m),
           \A e \in Image(t) : ~Mine(e, m)
    PROVE  Ordered(s \o t, m) /\ Evs(s \o t, m) = Evs(s, m)
<1>c. /\ \A i \in DOMAIN (s \o t) : (i \in DOMAIN s /\ (s \o t)[i] = s[i])
                                    \/ (i - Len(s) \in DOMAIN t
                                        /\ (s \o t)[i] = t[i - Len(s)])
  BY ConcatFacts
<1>1. \A i \in DOMAIN (s \o t) : Mine((s \o t)[i], m) => i \in DOMAIN s /\ (s \o t)[i] = s[i]
  BY <1>c DEF Image
<1>2. Image(s \o t) = Image(s) \cup Image(t)
  BY ImageConcat
<1>3. Ordered(s \o t, m)
  BY <1>1 DEF Ordered
<1> QED BY <1>2, <1>3 DEF Evs

(***************************************************************************)
(* The kinds of steps, as managers see them: what becomes of the events of *)
(* each manager in the queue, of the tables and of the bridge's state.     *)
(***************************************************************************)
Becomes(m, E) == \A n \in Managers : /\ Ordered(q', n)
                                     /\ Evs(q', n) = IF n = m THEN E ELSE Evs(q, n)
Calm == \A n \in Managers : Ordered(q', n) /\ Evs(q', n) = Evs(q, n)
Takes(m, e) == /\ e \in Evs(q, m) /\ Becomes(m, Evs(q, m) \ {e})
               /\ \A f \in Evs(q, m) \ {e} : Rank(e) < Rank(f)

\* A step other than start() leaves a bridge that does not run with its owner
\* inside or past stop().
Sound == UNCHANGED <<running, stopper>> \/ running' \/ stopper' # "idle"

Quietly == Calm /\ Sound /\ UNCHANGED <<pc, subscriptions, observers, starts>>

Nothing == Quietly /\ UNCHANGED <<st, told, late>>
Moving  == Quietly /\ UNCHANGED <<told, late>>
           /\ st \notin {"Operational", "ShuttingDown"} /\ st' \notin {"Operational", "ShuttingDown"}
Falling == Quietly /\ st # "ShuttingDown" /\ st' \in {"Backoff", "ShuttingDown"}
           /\ notifyConnectivity_("down")
           /\ \E R \in SUBSET Reqs : Reach(observers \cup Owners(R))
Rising  == Quietly /\ st # "ShuttingDown" /\ st' = "Operational"
           /\ notifyConnectivity_("up") /\ Reach(observers)
Calling == Quietly /\ st # "ShuttingDown" /\ UNCHANGED <<st, told>>
           /\ \/ \E r \in Reqs : Reach(Owners({r}))
              \/ \E t \in Topics : Reach({subscriptions[t]})
Restarting == Calm /\ start_at /\ UNCHANGED <<pc, subscriptions, observers, told, late>>

Observing(m) ==
    /\ Takes(m, Sub("SubscribeConnectivity", m)) /\ st # "ShuttingDown"
    /\ observers' = observers \cup {m}
    /\ \/ st = "Operational" /\ told' = [told EXCEPT ![m] = "up"] /\ Reach({m})
       \/ st # "Operational" /\ UNCHANGED <<told, late>>
    /\ Sound /\ UNCHANGED <<pc, subscriptions, st, starts>>
Unobserving(m) ==
    /\ Takes(m, Sub("UnsubscribeConnectivity", m)) /\ st # "ShuttingDown"
    /\ observers' = observers \ {m}
    /\ Sound /\ UNCHANGED <<pc, subscriptions, st, starts, told, late>>
Subscribing(m) ==
    /\ Takes(m, Sub("SubscribeEvent", m)) /\ st # "ShuttingDown"
    /\ subscriptions' = [subscriptions EXCEPT ![Topic[m]] = m]
    /\ Sound /\ UNCHANGED <<pc, observers, st, starts, told, late>>
Unsubscribing(m) ==
    /\ Takes(m, Sub("UnsubscribeEvent", m)) /\ st # "ShuttingDown"
    /\ subscriptions' = [subscriptions EXCEPT ![Topic[m]] = NoManager]
    /\ Sound /\ UNCHANGED <<pc, observers, st, starts, told, late>>
Discarding(m) ==
    /\ \E s \in SubSignals : Takes(m, Sub(s, m))
    /\ st = "ShuttingDown"
    /\ Sound /\ UNCHANGED <<pc, subscriptions, observers, st, starts, told, late>>
Drained(m) ==
    /\ Takes(m, Drain(m))
    /\ pc' = [pc EXCEPT ![m] = "gone"]
    /\ Sound /\ UNCHANGED <<subscriptions, observers, st, starts, told, late>>

Posts(m, from, to, e) ==
    /\ pc[m] = from
    /\ pc' = [pc EXCEPT ![m] = to]
    /\ Becomes(m, IF running THEN Evs(q, m) \cup {e} ELSE Evs(q, m))
Posting(m) ==
    /\ starts > 0
    /\ \/ Posts(m, "new", "subscribed", Sub("SubscribeEvent", m))
       \/ Posts(m, "subscribed", "live", Sub("SubscribeConnectivity", m))
       \/ Posts(m, "live", "leaving", Sub("UnsubscribeEvent", m))
       \/ Posts(m, "leaving", "left", Sub("UnsubscribeConnectivity", m))
       \/ Posts(m, "left", IF running THEN "draining" ELSE "gone", Drain(m))
    /\ UNCHANGED <<running, stopper, subscriptions, observers, st, starts, told, late>>

StepKind ==
    \/ Nothing \/ Moving \/ Falling \/ Rising \/ Calling \/ Restarting
    \/ \E m \in Managers : \/ Observing(m) \/ Unobserving(m) \/ Subscribing(m)
                           \/ Unsubscribing(m) \/ Discarding(m) \/ Drained(m) \/ Posting(m)

\* Every step is of one of these kinds.
LEMMA StepKinds ==
    ASSUME TypeOK, Stopping, Lives, [Next]_vars
    PROVE  StepKind
<1> DEFINE Foreign == Head(q).sig \notin SubSignals \cup {"Drain"}
           Same == UNCHANGED <<pc, subscriptions, observers, starts>>
           Fixed == UNCHANGED <<running, stopper>>
<1>d. q \in Seq(Event) /\ deferred \in Seq(Event) /\ \A m \in Managers : Ordered(q, m)
  BY DEF TypeOK, Lives
<1>l. /\ \A s \in {"Start", "Stop", "LinkDown", "ConnectTimeout", "AllSubAcked"} :
            Plain(s) \in Event /\ Plain(s).sig \notin SubSignals \cup {"Drain"}
      /\ \A b \in BOOLEAN : LinkUp(b) \in Event /\ LinkUp(b).sig \notin SubSignals \cup {"Drain"}
      /\ \A r \in Reqs : /\ SendReq(r) \in Event /\ SendReq(r).sig \notin SubSignals \cup {"Drain"}
                         /\ Timeout(r) \in Event /\ Timeout(r).sig \notin SubSignals \cup {"Drain"}
      /\ \A o \in Oneways : Oneway(o) \in Event /\ Oneway(o).sig \notin SubSignals \cup {"Drain"}
      /\ \A t \in Topics : /\ Ind(t, "valid") \in Event
                           /\ Ind(t, "valid").sig \notin SubSignals \cup {"Drain"}
  BY EventKinds, Zenon DEF Plain, LinkUp, SendReq, Timeout, Oneway, Ind, SubSignals, Bodies
<1>g. \A e \in Event : e.sig \notin SubSignals \cup {"Drain"} => \A m \in Managers : ~Mine(e, m)
  BY MineFacts
<1>u. q' = q => Calm
  BY <1>d DEF Calm
<1>a. ASSUME NEW e \in Event, \A m \in Managers : ~Mine(e, m), post_fifo(e) PROVE Calm
  BY <1>a, <1>d, EvsAppend DEF post_fifo, Calm
<1>p. ASSUME NEW e \in Event, e.sig \notin SubSignals \cup {"Drain"}, post_fifo(e) PROVE Calm
  BY <1>p, <1>g, <1>a
<1>t. q # <<>> => Tail(q) \in Seq(Event) /\ Head(q) \in Event
  BY <1>d, TailFacts
<1>k. q # <<>> /\ Foreign /\ Consume => Calm
  BY <1>d, <1>t, <1>g, EvsTail DEF Consume, Calm
<1>n. ASSUME q # <<>>, Foreign, q' = Append(Tail(q), Plain("LinkDown")) PROVE Calm
  <2>1. \A m \in Managers : Ordered(Tail(q), m) /\ Evs(Tail(q), m) = Evs(q, m)
    BY <1>n, <1>d, <1>t, <1>g, EvsTail
  <2>2. Plain("LinkDown") \in Event /\ \A m \in Managers : ~Mine(Plain("LinkDown"), m)
    BY <1>l, <1>g
  <2>3. ASSUME NEW m \in Managers
        PROVE  /\ Ordered(Append(Tail(q), Plain("LinkDown")), m)
               /\ Evs(Append(Tail(q), Plain("LinkDown")), m) = Evs(q, m)
    BY <1>n, <1>t, <2>1, <2>2, EvsAppend, Zenon
  <2> QED BY <1>n, <2>3 DEF Calm
<1>s. ASSUME q # <<>>, Consume, NEW m \in Managers, Mine(Head(q), m) PROVE Takes(m, Head(q))
  <2>1. \A n \in Managers : n # m => ~Mine(Head(q), n)
    <3>1. Head(q) = Drain(m) \/ (Head(q).sig \in SubSignals /\ Head(q) = Sub(Head(q).sig, m))
      BY <1>s, <1>t, MineFacts
    <3> QED BY <3>1, MineFacts
  <2> QED BY <1>s, <2>1, <1>d, <1>t, EvsTail DEF Takes, Becomes, Consume
<1>e. ASSUME q # <<>>, Consume, Head(q).sig \in SubSignals
      PROVE  /\ Head(q).mgr \in Managers /\ Head(q) = Sub(Head(q).sig, Head(q).mgr)
             /\ Takes(Head(q).mgr, Sub(Head(q).sig, Head(q).mgr))
  <2>1. Head(q).mgr \in Managers
    BY <1>e, HeadFields
  <2>2. Mine(Head(q), Head(q).mgr)
    BY <1>e DEF Mine
  <2>3. Head(q) = Sub(Head(q).sig, Head(q).mgr)
    BY <1>e, <1>t, <2>1, <2>2, MineFacts DEF Drain, SubSignals
  <2> QED BY <1>e, <1>s, <2>1, <2>2, <2>3
<1>f. Fixed => Sound
  BY DEF Sound
<1>c. Calm /\ Sound /\ Same /\ UNCHANGED <<st, told, late>> => StepKind
  BY DEF StepKind, Nothing, Quietly
<1>h. ASSUME q # <<>>, Head(q).sig = "Drain", HandleDrain PROVE StepKind
  <2>1. /\ Consume /\ Fulfil(Head(q).who)
        /\ UNCHANGED <<running, subscriptions, observers, st, starts, told, late>>
    BY <1>h, Zenon DEF HandleDrain, workerVars, subVars
  <2>2. Head(q).who \in Managers \cup {NoManager} /\ Head(q) = Drain(Head(q).who)
    BY <1>h, <1>t, EventFields
  <2>3. CASE Head(q).who = NoManager
    <3>1. \A m \in Managers : ~Mine(Head(q), m)
      BY <2>2, <2>3, MineFacts DEF Fence
    <3>2. Calm
      BY <1>h, <2>1, <3>1, <1>d, EvsTail DEF Consume, Calm
    <3>3. stopper' = "fenced" /\ pc' = pc
      BY <2>1, <2>3, ConstantsAssumption DEF Fulfil
    <3> QED BY <2>1, <3>2, <3>3, <1>c DEF Sound
  <2>4. CASE Head(q).who \in Managers
    <3>1. Takes(Head(q).who, Drain(Head(q).who))
      <4>1. Mine(Head(q), Head(q).who)
        BY <1>h DEF Mine
      <4> QED BY <1>h, <2>1, <2>2, <2>4, <4>1, <1>s
    <3>2. pc' = [pc EXCEPT ![Head(q).who] = "gone"] /\ stopper' = stopper
      BY <2>1, <2>4, ConstantsAssumption DEF Fulfil
    <3>3. Drained(Head(q).who)
      BY <2>1, <3>1, <3>2 DEF Drained, Sound
    <3> QED BY <2>4, <3>3 DEF StepKind
  <2> QED BY <2>2, <2>3, <2>4
<1>b. ASSUME q # <<>>, Foreign, st # "ShuttingDown", ToBackoff \/ ToShuttingDown PROVE StepKind
  <2>1. Calm
    BY <1>b, <1>k, <1>n DEF ToBackoff, ToShuttingDown
  <2>2. TearDown /\ st' \in {"Backoff", "ShuttingDown"}
    BY <1>b DEF ToBackoff, ToShuttingDown
  <2>3. inFlight \cup Held(deferred) \in SUBSET Reqs
    BY DEF TypeOK, Held
  <2>4. Falling
    BY <1>b, <2>1, <2>2, <2>3, <1>f, Zenon DEF TearDown, Falling, Quietly, envVars
  <2> QED BY <2>4 DEF StepKind
<1>o. q # <<>> /\ Foreign /\ st \notin {"Operational", "ShuttingDown"} /\ ToConnected => StepKind
  BY <1>k, <1>f DEF ToConnected, subVars, envVars, StepKind, Moving, Quietly
<1>i. q # <<>> /\ Foreign /\ (Ignore \/ Defer) => StepKind
  BY <1>k, <1>f, <1>c DEF Ignore, Defer, workerVars, subVars, envVars
<1>v. ASSUME q # <<>>, Foreign, st # "ShuttingDown", NEW r \in Reqs, FailFast(r) PROVE StepKind
  <2>1. Calling
    BY <1>v, <1>k, <1>f, Zenon DEF FailFast, Calling, Quietly, workerVars, subVars, envVars
  <2> QED BY <2>1 DEF StepKind
<1>m. ASSUME q # <<>>, Foreign, st # "ShuttingDown", NEW r \in Reqs, NEW b, Complete(r, b)
      PROVE  StepKind
  <2>1. Calling
    BY <1>m, <1>k, <1>f, Zenon DEF Complete, Calling, Quietly, workerVars, subVars, envVars
  <2> QED BY <2>1 DEF StepKind

<1>w. ASSUME q # <<>>, st # "ShuttingDown", Tables, UNCHANGED <<subscriptions, told, late>>,
             \/ Head(q).sig = "SubscribeConnectivity" /\ st # "Operational"
                /\ observers' = observers \cup {Head(q).mgr}
             \/ Head(q).sig = "UnsubscribeConnectivity"
                /\ observers' = observers \ {Head(q).mgr}
      PROVE  StepKind
  <2>1. Consume /\ Sound /\ UNCHANGED <<pc, st, starts>> /\ Head(q).sig \in SubSignals
    BY <1>w, <1>f, Zenon DEF Tables, workerVars, envVars, SubSignals
  <2>2. Head(q).mgr \in Managers /\ Takes(Head(q).mgr, Sub(Head(q).sig, Head(q).mgr))
    BY <1>w, <2>1, <1>e, Zenon
  <2>3. Observing(Head(q).mgr) \/ Unobserving(Head(q).mgr)
    BY <1>w, <2>1, <2>2 DEF Observing, Unobserving
  <2> QED BY <2>2, <2>3, Zenon DEF StepKind
<1>x. ASSUME q # <<>>, st # "ShuttingDown", Tables, UNCHANGED <<observers, told, late>>,
             \/ Head(q).sig = "SubscribeEvent"
                /\ subscriptions' = [subscriptions EXCEPT ![Topic[Head(q).mgr]] = Head(q).mgr]
             \/ Head(q).sig = "UnsubscribeEvent"
                /\ subscriptions' = [subscriptions EXCEPT ![Topic[Head(q).mgr]] = NoManager]
      PROVE  StepKind
  <2>1. Consume /\ Sound /\ UNCHANGED <<pc, st, starts>> /\ Head(q).sig \in SubSignals
    BY <1>x, <1>f, Zenon DEF Tables, workerVars, envVars, SubSignals
  <2>2. Head(q).mgr \in Managers /\ Takes(Head(q).mgr, Sub(Head(q).sig, Head(q).mgr))
    BY <1>x, <2>1, <1>e, Zenon
  <2>3. Subscribing(Head(q).mgr) \/ Unsubscribing(Head(q).mgr)
    BY <1>x, <2>1, <2>2 DEF Subscribing, Unsubscribing
  <2> QED BY <2>2, <2>3, Zenon DEF StepKind
<1>y. "SubscribeEvent" \in SubSignals /\ "UnsubscribeEvent" \in SubSignals
      /\ "SubscribeConnectivity" \in SubSignals /\ "UnsubscribeConnectivity" \in SubSignals
      /\ \A s \in {"Start", "Stop", "LinkDown", "ConnectTimeout", "AllSubAcked", "LinkUp",
                   "SendReq", "RspTimeout", "PublishOneway", "Rsp", "Ind"} :
            s \notin SubSignals \cup {"Drain"}
  BY DEF SubSignals
<1>1. CASE NotOperational_St
  <2>1. q # <<>> /\ st \notin {"Operational", "ShuttingDown"}
    BY <1>1, Zenon DEF NotOperational_St, NotOperational, Dispatch
  <2> QED BY <1>1, <2>1, <1>h, <1>w, <1>x, Zenon DEF NotOperational_St, Dispatch
<1>2. CASE Disconnected_St
  <2>0. q # <<>> /\ st = "Disconnected"
    BY <1>2 DEF Disconnected_St, Dispatch
  <2>1. CASE Head(q).sig = "Start"
    <3>1. Foreign /\ ToConnecting
      BY <1>2, <2>1, <1>y DEF Disconnected_St, Dispatch
    <3>2. Calm
      BY <2>0, <3>1, <1>k, <1>n DEF ToConnecting
    <3>3. Moving
      BY <2>0, <3>1, <3>2, <1>f DEF ToConnecting, Moving, Quietly, subVars, envVars
    <3> QED BY <3>3 DEF StepKind
  <2>2. CASE Head(q).sig = "PublishOneway"
    BY <1>2, <2>0, <2>2, <1>y, <1>k, <1>f, <1>c
    DEF Disconnected_St, Dispatch, workerVars, subVars, envVars
  <2>3. CASE Head(q).sig = "SendReq"
    BY <1>2, <2>0, <2>3, <1>y, <1>v, HeadFields DEF Disconnected_St, Dispatch
  <2>4. CASE Head(q).sig = "Stop"
    BY <1>2, <2>0, <2>4, <1>y, <1>b DEF Disconnected_St, Dispatch
  <2> QED BY <1>2, <2>1, <2>2, <2>3, <2>4 DEF Disconnected_St, Dispatch
<1>3. CASE Connecting_St
  <2>1. q # <<>> /\ st = "Connecting" /\ Foreign
    BY <1>3, <1>y DEF Connecting_St, Dispatch
  <2> QED BY <1>3, <2>1, <1>o, <1>b, <1>i DEF Connecting_St
<1>4. CASE Connected_St
  <2>1. q # <<>> /\ st # "ShuttingDown"
    BY <1>4, Zenon DEF Connected_St, Connected, Dispatch
  <2>2. CASE Head(q).sig \in {"LinkDown", "Stop"}
    BY <1>4, <2>1, <2>2, <1>y, <1>b DEF Connected_St, Dispatch
  <2> QED BY <1>4, <2>1, <2>2, <1>h, <1>w, <1>x, Zenon DEF Connected_St, Dispatch
<1>5. CASE Subscribing_St
  <2>0. q # <<>> /\ st = "Subscribing"
    BY <1>5 DEF Subscribing_St, Dispatch
  <2>1. CASE Head(q).sig = "AllSubAcked"
    <3>1. q' = Tail(q) \o deferred /\ ToOperational /\ Foreign
      BY <1>5, <2>1, <1>y DEF Subscribing_St, Dispatch, ToOperational
    <3>2. \A e \in Image(deferred) : e \in Event /\ e.sig \notin SubSignals \cup {"Drain"}
      BY <1>d, <1>y DEF Image, Stopping
    <3>3. \A m \in Managers : Ordered(Tail(q), m) /\ Evs(Tail(q), m) = Evs(q, m)
      BY <2>0, <3>1, <1>d, <1>t, <1>g, EvsTail
    <3>4. Calm
      BY <2>0, <3>1, <3>2, <3>3, <1>d, <1>t, <1>g, EvsConcat, Zenon DEF Calm
    <3>5. Rising
      BY <2>0, <3>1, <3>4, <1>f DEF ToOperational, Rising, Quietly, envVars
    <3> QED BY <3>5 DEF StepKind
  <2>2. CASE Head(q).sig = "SubscribeConnectivity"
    BY <1>5, <2>0, <2>2, <1>w DEF Subscribing_St, Dispatch
  <2>3. CASE Head(q).sig \in {"SendReq", "PublishOneway"}
    BY <1>5, <2>0, <2>3, <1>y, <1>i DEF Subscribing_St, Dispatch
  <2> QED BY <1>5, <2>1, <2>2, <2>3 DEF Subscribing_St, Dispatch
<1>6. CASE SubscribingEntered
  BY <1>6, <1>p, <1>f, <1>c, <1>l DEF SubscribingEntered, subVars, envVars
<1>7. CASE Operational_St
  <2>0. q # <<>> /\ st = "Operational"
    BY <1>7 DEF Operational_St, Dispatch
  <2>1. CASE Head(q).sig = "SendReq"
    <3>1. Foreign /\ Head(q).req \in Reqs /\ doSendRequest_(Head(q).req)
      BY <1>7, <2>0, <2>1, <1>y, HeadFields DEF Operational_St, Dispatch
    <3>2. CASE FailFast(Head(q).req)
      BY <2>0, <3>1, <3>2, <1>v
    <3>3. CASE ~FailFast(Head(q).req)
      BY <2>0, <3>1, <3>3, <1>k, <1>f, <1>c DEF doSendRequest_, workerVars, subVars, envVars
    <3> QED BY <3>2, <3>3
  <2>2. CASE Head(q).sig = "PublishOneway"
    BY <1>7, <2>0, <2>2, <1>y, <1>k, <1>f, <1>c
    DEF Operational_St, Dispatch, doPublishOneway_, workerVars, subVars, envVars
  <2>3. CASE Head(q).sig = "SubscribeConnectivity"
    <3>1. /\ told' = [told EXCEPT ![Head(q).mgr] = "up"] /\ Reach({Head(q).mgr})
          /\ observers' = observers \cup {Head(q).mgr} /\ subscriptions' = subscriptions
          /\ Consume /\ Sound /\ UNCHANGED <<pc, st, starts>>
      BY <1>7, <2>3, <1>f, Zenon DEF Operational_St, Dispatch, Tables, workerVars, envVars
    <3>2. /\ Head(q).mgr \in Managers
          /\ Takes(Head(q).mgr, Sub("SubscribeConnectivity", Head(q).mgr))
      BY <2>0, <2>3, <3>1, <1>y, <1>e, Zenon
    <3>3. Observing(Head(q).mgr)
      BY <2>0, <3>1, <3>2, Zenon DEF Observing
    <3> QED BY <3>2, <3>3 DEF StepKind
  <2>4. CASE Head(q).sig = "Rsp"
    <3>1. Foreign /\ Head(q).req \in Reqs /\ EvtRecvRsp(Head(q))
      BY <1>7, <2>0, <2>4, <1>y, HeadFields DEF Operational_St, Dispatch
    <3> QED BY <2>0, <3>1, <1>m, <1>i DEF EvtRecvRsp
  <2>5. CASE Head(q).sig = "RspTimeout"
    <3>1. Foreign /\ Head(q).req \in Reqs /\ RspTimeout(Head(q).req)
      BY <1>7, <2>0, <2>5, <1>y, HeadFields DEF Operational_St, Dispatch
    <3> QED BY <2>0, <3>1, <1>m, <1>i, Zenon DEF RspTimeout
  <2>6. CASE Head(q).sig = "Ind"
    <3>1. Foreign /\ Head(q).topic \in Topics /\ EvtRecvInd(Head(q))
      BY <1>7, <2>0, <2>6, <1>y, HeadFields DEF Operational_St, Dispatch
    <3>2. CASE Ignore
      BY <2>0, <3>1, <3>2, <1>i
    <3>3. CASE ~Ignore
      <4>1. Calling
        BY <2>0, <3>1, <3>3, <1>k, <1>f, Zenon
        DEF EvtRecvInd, Calling, Quietly, workerVars, envVars
      <4> QED BY <4>1 DEF StepKind
    <3> QED BY <3>2, <3>3
  <2> QED BY <1>7, <2>1, <2>2, <2>3, <2>4, <2>5, <2>6 DEF Operational_St, Dispatch
<1>8. CASE Backoff_St
  <2>1. q # <<>> /\ st = "Backoff" /\ Foreign
    BY <1>8, <1>y DEF Backoff_St, Dispatch
  <2> QED BY <1>8, <2>1, <1>o, <1>b, <1>i DEF Backoff_St
<1>9. CASE ShuttingDown_St
  <2>0. q # <<>> /\ st = "ShuttingDown"
    BY <1>9 DEF ShuttingDown_St, Dispatch
  <2>1. CASE Head(q).sig = "Drain"
    BY <1>9, <2>0, <2>1, <1>h DEF ShuttingDown_St, Dispatch
  <2>2. CASE Head(q).sig # "Drain"
    <3>1. Consume /\ Sound /\ Same /\ UNCHANGED <<st, told, late>>
      BY <1>9, <2>2, <1>f DEF ShuttingDown_St, Dispatch, Discard, workerVars, subVars, envVars
    <3>2. CASE Head(q).sig \in SubSignals
      <4>1. Head(q).mgr \in Managers /\ Takes(Head(q).mgr, Sub(Head(q).sig, Head(q).mgr))
        BY <2>0, <3>1, <3>2, <1>e, Zenon
      <4>2. Discarding(Head(q).mgr)
        BY <2>0, <3>1, <3>2, <4>1 DEF Discarding
      <4> QED BY <4>1, <4>2 DEF StepKind
    <3>3. CASE Head(q).sig \notin SubSignals
      BY <2>0, <2>2, <3>1, <3>3, <1>k, <1>c
    <3> QED BY <3>2, <3>3
  <2> QED BY <2>1, <2>2
<1>10. CASE top
  <2>1. Foreign
    BY <1>10 DEF top, Dispatch, Handled, States
  <2> QED BY <1>10, <2>1, <1>k, <1>f, <1>c, Zenon
      DEF top, Dispatch, Discard, workerVars, subVars, envVars
<1>11. CASE start
  <2>1. CASE start_at
    <3>1. Restarting
      BY <1>11, <2>1, <1>u DEF start, start_at, Restarting, subVars
    <3> QED BY <3>1 DEF StepKind
  <2>2. CASE StartPost
    BY <1>11, <2>2, <1>p, <1>f, <1>c, <1>l DEF start, StartPost, Post, subVars
  <2> QED BY <1>11, <2>1, <2>2 DEF start
<1>12. CASE stop
  <2>1. Same /\ UNCHANGED <<st, told, late>>
    BY <1>12 DEF stop, workerVars, subVars
  <2>2. Sound
    BY <1>12 DEF stop, StopPost, StopDrain, StopClear, StopJoin, Sound
  <2>3. Drain(NoManager) \in Event /\ \A m \in Managers : ~Mine(Drain(NoManager), m)
    BY EventKinds, MineFacts DEF Fence
  <2>4. Calm
    BY <1>12, <2>3, <1>a, <1>p, <1>u, <1>l
    DEF stop, StopPost, StopDrain, StopClear, StopJoin, Post
  <2> QED BY <2>1, <2>2, <2>4, <1>c
<1>13. ASSUME NEW r \in Reqs, send_request(r) PROVE StepKind
  BY <1>13, <1>p, <1>f, <1>c, <1>l, Zenon DEF send_request, Post, workerVars, subVars
<1>14. ASSUME NEW o \in Oneways, publish_oneway(o) PROVE StepKind
  BY <1>14, <1>p, <1>f, <1>c, <1>l DEF publish_oneway, Post, workerVars, subVars, envVars
<1>15. ASSUME NEW m \in Managers, Manager(m) PROVE StepKind
  <2>1. ASSUME NEW e \in Event, Mine(e, m), \A n \in Managers : Mine(e, n) => n = m,
               Rank(e) = Stage(pc[m]) + 1, NEW from, NEW to, Advance(m, from, to, e)
        PROVE  Posts(m, from, to, e)
    <3>1. \A f \in Evs(q, m) : Rank(f) < Rank(e)
      BY <2>1, RankType DEF Lives
    <3>2. post_fifo(e)
      BY <2>1 DEF Advance, Post
    <3>3. Becomes(m, IF running THEN Evs(q, m) \cup {e} ELSE Evs(q, m))
      <4>1. CASE running
        BY <2>1, <3>1, <3>2, <4>1, <1>d, EvsAppend DEF post_fifo, Becomes
      <4>2. CASE ~running
        BY <3>2, <4>2, <1>d DEF post_fifo, Becomes
      <4> QED BY <4>1, <4>2
    <3> QED BY <2>1, <3>3 DEF Posts, Advance
  <2>2. /\ \A s \in SubSignals : /\ Sub(s, m) \in Event /\ Mine(Sub(s, m), m)
                                 /\ \A n \in Managers : Mine(Sub(s, m), n) => n = m
        /\ Drain(m) \in Event /\ Mine(Drain(m), m)
        /\ \A n \in Managers : Mine(Drain(m), n) => n = m
    BY EventKinds, MineFacts
  <2>3. /\ Stage("new") = 0 /\ Stage("subscribed") = 1 /\ Stage("live") = 2
        /\ Stage("leaving") = 3 /\ Stage("left") = 4
    BY DEF Stage
  <2>4. \/ Posts(m, "new", "subscribed", Sub("SubscribeEvent", m))
        \/ Posts(m, "subscribed", "live", Sub("SubscribeConnectivity", m))
        \/ Posts(m, "live", "leaving", Sub("UnsubscribeEvent", m))
        \/ Posts(m, "leaving", "left", Sub("UnsubscribeConnectivity", m))
        \/ Posts(m, "left", IF running THEN "draining" ELSE "gone", Drain(m))
    <3>1. CASE Advance(m, "new", "subscribed", Sub("SubscribeEvent", m))
      <4>1. Rank(Sub("SubscribeEvent", m)) = Stage(pc[m]) + 1
        BY <3>1, <2>3, RankFacts DEF Advance
      <4> QED BY <3>1, <4>1, <2>1, <2>2, <1>y
    <3>2. CASE Advance(m, "subscribed", "live", Sub("SubscribeConnectivity", m))
      <4>1. Rank(Sub("SubscribeConnectivity", m)) = Stage(pc[m]) + 1
        BY <3>2, <2>3, RankFacts DEF Advance
      <4> QED BY <3>2, <4>1, <2>1, <2>2, <1>y
    <3>3. CASE Advance(m, "live", "leaving", Sub("UnsubscribeEvent", m))
      <4>1. Rank(Sub("UnsubscribeEvent", m)) = Stage(pc[m]) + 1
        BY <3>3, <2>3, RankFacts DEF Advance
      <4> QED BY <3>3, <4>1, <2>1, <2>2, <1>y
    <3>4. CASE Advance(m, "leaving", "left", Sub("UnsubscribeConnectivity", m))
      <4>1. Rank(Sub("UnsubscribeConnectivity", m)) = Stage(pc[m]) + 1
        BY <3>4, <2>3, RankFacts DEF Advance
      <4> QED BY <3>4, <4>1, <2>1, <2>2, <1>y
    <3>5. CASE drain(m)
      <4>1. Rank(Drain(m)) = Stage(pc[m]) + 1
        BY <3>5, <2>3, RankFacts DEF drain, Advance
      <4> QED BY <3>5, <4>1, <2>1, <2>2 DEF drain
    <3> QED BY <1>15, <3>1, <3>2, <3>3, <3>4, <3>5, Zenon DEF Manager
  <2>5. starts > 0
        /\ UNCHANGED <<running, stopper, subscriptions, observers, st, starts, told, late>>
    BY <1>15 DEF Manager, workerVars, subVars
  <2>6. Posting(m)
    BY <2>4, <2>5 DEF Posting
  <2> QED BY <2>6 DEF StepKind
<1>16. ASSUME NEW r \in Reqs, DeadlinePasses(r) \/ TimerTaken(r) PROVE StepKind
  BY <1>16, <1>u, <1>f, <1>c DEF DeadlinePasses, TimerTaken, workerVars, subVars, envVars
<1>18. ASSUME NEW r \in Reqs, TimerFires(r) PROVE StepKind
  BY <1>18, <1>p, <1>f, <1>c, <1>l DEF TimerFires, Post, workerVars, subVars, envVars
<1>19. ASSUME NEW t \in Topics, onRetained(t) PROVE StepKind
  BY <1>19, <1>p, <1>f, <1>c, <1>l DEF onRetained, Post, workerVars, subVars, envVars
<1>20. ASSUME NEW e \in Messages, onMessage_(e) PROVE StepKind
  <2>1. e \in Event /\ e.sig \in {"Rsp", "Ind"}
    BY Zenon DEF Messages, Bodies, Event
  <2> QED BY <1>20, <2>1, <1>y, <1>p, <1>f, <1>c, Zenon DEF onMessage_, Post, workerVars, subVars
<1>21. CASE ConnectTimer
  BY <1>21, <1>p, <1>u, <1>f, <1>c, <1>l DEF ConnectTimer, Post, workerVars, subVars, envVars
<1>22. CASE onConnect_
  BY <1>22, <1>p, <1>f, <1>c, <1>l, Zenon DEF onConnect_, Post, workerVars, subVars, envVars
<1>23. CASE Refused
  <2>1. /\ LinkUp(FALSE) \in Event /\ Plain("LinkDown") \in Event
        /\ \A m \in Managers : ~Mine(LinkUp(FALSE), m) /\ ~Mine(Plain("LinkDown"), m)
    BY <1>l, <1>g, Zenon
  <2>2. /\ Append(q, LinkUp(FALSE)) \in Seq(Event)
        /\ \A m \in Managers : /\ Ordered(Append(q, LinkUp(FALSE)), m)
                               /\ Evs(Append(q, LinkUp(FALSE)), m) = Evs(q, m)
    BY <2>1, <1>d, AppendFacts, EvsAppend, Zenon
  <2>3. \A m \in Managers :
           /\ Ordered(Append(Append(q, LinkUp(FALSE)), Plain("LinkDown")), m)
           /\ Evs(Append(Append(q, LinkUp(FALSE)), Plain("LinkDown")), m) = Evs(q, m)
    BY <2>1, <2>2, EvsAppend, Zenon
  <2>4. Calm
    BY <1>23, <2>3, <1>d, Zenon DEF Refused, Calm
  <2> QED BY <1>23, <2>4, <1>f, <1>c DEF Refused, workerVars, subVars
<1>24. CASE onDisconnect_
  BY <1>24, <1>p, <1>f, <1>c, <1>l DEF onDisconnect_, Post, workerVars, subVars
<1>25. CASE UNCHANGED vars
  BY <1>25, <1>u, <1>f, <1>c DEF vars, workerVars, subVars, envVars
<1> QED
  BY <1>1, <1>2, <1>3, <1>4, <1>5, <1>6, <1>7, <1>8, <1>9, <1>10, <1>11, <1>12, <1>13,
     <1>14, <1>15, <1>16, <1>18, <1>19, <1>20, <1>21, <1>22, <1>23, <1>24, <1>25
  DEF Next, Worker, Timers, Network, Clients

\* The stages of a life.
LEMMA StageFacts ==
    /\ Stage("new") = 0 /\ Stage("subscribed") = 1 /\ Stage("live") = 2 /\ Stage("leaving") = 3
    /\ Stage("left") = 4 /\ Stage("draining") = 5 /\ Stage("gone") = 5
BY DEF Stage

\* What an event posted by m does to its stage.
LEMMA PostsFacts ==
    ASSUME TypeOK, NEW m \in Managers, Posting(m)
    PROVE  \E e \in Event :
              /\ Rank(e) = Stage(pc[m]) + 1 /\ Stage(pc'[m]) = Stage(pc[m]) + 1
              /\ Becomes(m, IF running THEN Evs(q, m) \cup {e} ELSE Evs(q, m))
              /\ \A n \in Managers : n # m => pc'[n] = pc[n]
              /\ pc[m] = "new" => e = Sub("SubscribeEvent", m)
              /\ pc[m] = "subscribed" => e = Sub("SubscribeConnectivity", m)
              /\ pc[m] = "live" => e = Sub("UnsubscribeEvent", m)
              /\ pc[m] = "leaving" => e = Sub("UnsubscribeConnectivity", m)
              /\ pc'[m] = "gone" => ~running
<1>1. pc \in [Managers -> {"new", "subscribed", "live", "leaving", "left", "draining", "gone"}]
  BY DEF TypeOK
<1>2. /\ \A s \in SubSignals : Sub(s, m) \in Event
      /\ Drain(m) \in Event
      /\ "SubscribeEvent" \in SubSignals /\ "UnsubscribeEvent" \in SubSignals
      /\ "SubscribeConnectivity" \in SubSignals /\ "UnsubscribeConnectivity" \in SubSignals
  BY EventKinds DEF SubSignals
<1>3. CASE Posts(m, "new", "subscribed", Sub("SubscribeEvent", m))
  <2>1. /\ pc[m] = "new" /\ pc'[m] = "subscribed" /\ \A n \in Managers : n # m => pc'[n] = pc[n]
        /\ Becomes(m, IF running THEN Evs(q, m) \cup {Sub("SubscribeEvent", m)} ELSE Evs(q, m))
    BY <1>1, <1>3 DEF Posts
  <2>2. Rank(Sub("SubscribeEvent", m)) = 1
    BY RankFacts, Zenon
  <2>3. Stage(pc[m]) = 0 /\ Stage(pc'[m]) = 1
    BY <2>1, StageFacts
  <2>4. Rank(Sub("SubscribeEvent", m)) = Stage(pc[m]) + 1 /\ Stage(pc'[m]) = Stage(pc[m]) + 1
    BY <2>2, <2>3
  <2> Sub("SubscribeEvent", m) \in Event
    BY <1>2
  <2> WITNESS Sub("SubscribeEvent", m) \in Event
  <2> QED BY <2>1, <2>4, Zenon
<1>4. CASE Posts(m, "subscribed", "live", Sub("SubscribeConnectivity", m))
  <2>1. /\ pc[m] = "subscribed" /\ pc'[m] = "live" /\ \A n \in Managers : n # m => pc'[n] = pc[n]
        /\ Becomes(m, IF running THEN Evs(q, m) \cup {Sub("SubscribeConnectivity", m)}
                                 ELSE Evs(q, m))
    BY <1>1, <1>4 DEF Posts
  <2>2. Rank(Sub("SubscribeConnectivity", m)) = 2
    BY RankFacts, Zenon
  <2>3. Stage(pc[m]) = 1 /\ Stage(pc'[m]) = 2
    BY <2>1, StageFacts
  <2>4. Rank(Sub("SubscribeConnectivity", m)) = Stage(pc[m]) + 1 /\ Stage(pc'[m]) = Stage(pc[m]) + 1
    BY <2>2, <2>3
  <2> Sub("SubscribeConnectivity", m) \in Event
    BY <1>2
  <2> WITNESS Sub("SubscribeConnectivity", m) \in Event
  <2> QED BY <2>1, <2>4, Zenon
<1>5. CASE Posts(m, "live", "leaving", Sub("UnsubscribeEvent", m))
  <2>1. /\ pc[m] = "live" /\ pc'[m] = "leaving" /\ \A n \in Managers : n # m => pc'[n] = pc[n]
        /\ Becomes(m, IF running THEN Evs(q, m) \cup {Sub("UnsubscribeEvent", m)} ELSE Evs(q, m))
    BY <1>1, <1>5 DEF Posts
  <2>2. Rank(Sub("UnsubscribeEvent", m)) = 3
    BY RankFacts, Zenon
  <2>3. Stage(pc[m]) = 2 /\ Stage(pc'[m]) = 3
    BY <2>1, StageFacts
  <2>4. Rank(Sub("UnsubscribeEvent", m)) = Stage(pc[m]) + 1 /\ Stage(pc'[m]) = Stage(pc[m]) + 1
    BY <2>2, <2>3
  <2> Sub("UnsubscribeEvent", m) \in Event
    BY <1>2
  <2> WITNESS Sub("UnsubscribeEvent", m) \in Event
  <2> QED BY <2>1, <2>4, Zenon
<1>6. CASE Posts(m, "leaving", "left", Sub("UnsubscribeConnectivity", m))
  <2>1. /\ pc[m] = "leaving" /\ pc'[m] = "left" /\ \A n \in Managers : n # m => pc'[n] = pc[n]
        /\ Becomes(m, IF running THEN Evs(q, m) \cup {Sub("UnsubscribeConnectivity", m)}
                                 ELSE Evs(q, m))
    BY <1>1, <1>6 DEF Posts
  <2>2. Rank(Sub("UnsubscribeConnectivity", m)) = 4
    BY RankFacts, Zenon
  <2>3. Stage(pc[m]) = 3 /\ Stage(pc'[m]) = 4
    BY <2>1, StageFacts
  <2>4. Rank(Sub("UnsubscribeConnectivity", m)) = Stage(pc[m]) + 1 /\ Stage(pc'[m]) = Stage(pc[m]) + 1
    BY <2>2, <2>3
  <2> Sub("UnsubscribeConnectivity", m) \in Event
    BY <1>2
  <2> WITNESS Sub("UnsubscribeConnectivity", m) \in Event
  <2> QED BY <2>1, <2>4, Zenon
<1>7. CASE Posts(m, "left", IF running THEN "draining" ELSE "gone", Drain(m))
  <2>1. /\ pc[m] = "left" /\ pc'[m] = (IF running THEN "draining" ELSE "gone")
        /\ \A n \in Managers : n # m => pc'[n] = pc[n]
        /\ Becomes(m, IF running THEN Evs(q, m) \cup {Drain(m)} ELSE Evs(q, m))
    BY <1>1, <1>7 DEF Posts
  <2>2. Rank(Drain(m)) = 5
    BY RankFacts, Zenon
  <2>3. Stage(pc[m]) = 4 /\ Stage(pc'[m]) = 5
    BY <2>1, StageFacts
  <2>4. Rank(Drain(m)) = Stage(pc[m]) + 1 /\ Stage(pc'[m]) = Stage(pc[m]) + 1
    BY <2>2, <2>3
  <2> Drain(m) \in Event
    BY <1>2
  <2> WITNESS Drain(m) \in Event
  <2> QED BY <2>1, <2>4, Zenon
<1> QED BY <1>3, <1>4, <1>5, <1>6, <1>7, Zenon DEF Posting

\* Every step keeps the events of each manager in order and no further on than
\* its life.
LEMMA LivesStep ==
    ASSUME TypeOK, Lives, StepKind
    PROVE  Lives'
<1>1. pc \in [Managers -> {"new", "subscribed", "live", "leaving", "left", "draining", "gone"}]
  BY DEF TypeOK
<1>c. Calm /\ pc' = pc => Lives'
  BY Zenon DEF Calm, Lives
<1>t. ASSUME NEW m \in Managers, NEW e, Takes(m, e),
             \A n \in Managers : Stage(pc'[n]) >= Stage(pc[n])
      PROVE  Lives'
  <2>1. \A n \in Managers : Ordered(q', n) /\ Evs(q', n) \subseteq Evs(q, n)
    BY <1>t, Zenon DEF Takes, Becomes
  <2>2. \A n \in Managers : \A f \in Evs(q', n) : Rank(f) <= Stage(pc'[n])
    <3> SUFFICES ASSUME NEW n \in Managers, NEW f \in Evs(q', n)
                 PROVE  Rank(f) <= Stage(pc'[n])
      OBVIOUS
    <3>1. Rank(f) <= Stage(pc[n])
      BY <2>1, Zenon DEF Lives
    <3>2. Stage(pc[n]) <= Stage(pc'[n])
      BY <1>t
    <3>3. Rank(f) \in Nat /\ Stage(pc[n]) \in Nat /\ Stage(pc'[n]) \in Nat
      BY RankType
    <3> QED BY <3>1, <3>2, <3>3
  <2> QED BY <2>1, <2>2 DEF Lives
<1>s. \A p : Stage(p) >= Stage(p)
  BY RankType
<1>2. CASE Nothing \/ Moving \/ Falling \/ Rising \/ Calling \/ Restarting
  BY <1>2, <1>c DEF Nothing, Moving, Falling, Rising, Calling, Restarting, Quietly
<1>3. ASSUME NEW m \in Managers, Observing(m) \/ Unobserving(m) \/ Subscribing(m)
                                 \/ Unsubscribing(m) \/ Discarding(m)
      PROVE  Lives'
  BY <1>3, <1>t, <1>s, Zenon DEF Observing, Unobserving, Subscribing, Unsubscribing, Discarding
<1>4. ASSUME NEW m \in Managers, Drained(m) PROVE Lives'
  <2>1. pc'[m] = "gone" /\ \A n \in Managers : n # m => pc'[n] = pc[n]
    BY <1>1, <1>4 DEF Drained
  <2>2. \A n \in Managers : Stage(pc'[n]) >= Stage(pc[n])
    BY <2>1, StageFacts, RankType
  <2> QED BY <1>4, <2>2, <1>t DEF Drained
<1>5. ASSUME NEW m \in Managers, Posting(m) PROVE Lives'
  <2>1. PICK e \in Event :
           /\ Rank(e) = Stage(pc[m]) + 1 /\ Stage(pc'[m]) = Stage(pc[m]) + 1
           /\ Becomes(m, IF running THEN Evs(q, m) \cup {e} ELSE Evs(q, m))
           /\ \A n \in Managers : n # m => pc'[n] = pc[n]
    BY <1>5, PostsFacts, Zenon
  <2>2. \A n \in Managers : /\ Ordered(q', n)
                            /\ n # m => Evs(q', n) = Evs(q, n)
                            /\ Evs(q', m) \subseteq Evs(q, m) \cup {e}
    BY <2>1, Zenon DEF Becomes
  <2>3. \A f \in Evs(q', m) : Rank(f) <= Stage(pc'[m])
    <3> SUFFICES ASSUME NEW f \in Evs(q', m)
                 PROVE  Rank(f) <= Stage(pc'[m])
      OBVIOUS
    <3>1. f = e \/ Rank(f) <= Stage(pc[m])
      BY <2>2, Zenon DEF Lives
    <3>2. Rank(f) \in Nat /\ Stage(pc[m]) \in Nat
      BY RankType
    <3>3. Rank(e) = Stage(pc[m]) + 1 /\ Stage(pc'[m]) = Stage(pc[m]) + 1
      BY <2>1, Zenon
    <3> HIDE DEF Rank, Stage
    <3> QED BY <3>1, <3>2, <3>3
  <2> QED BY <2>1, <2>2, <2>3, Zenon DEF Lives
<1> QED BY <1>2, <1>3, <1>4, <1>5 DEF StepKind
=============================================================================
