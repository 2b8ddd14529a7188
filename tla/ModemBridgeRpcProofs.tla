------------------------ MODULE ModemBridgeRpcProofs ------------------------
(***************************************************************************)
(* The safety of the RPC path of ModemBridge: custody of every request,    *)
(* timers behind every RPC in flight, replies that are ours, and a stop()  *)
(* that leaves nothing behind.                                             *)
(*                                                                         *)
(* The inductive invariant Inv adds to these the protocol of stop()        *)
(* (Stopping: one fence, behind one Stop, while the owner waits for it),   *)
(* without which start() could throw away a queue that still holds         *)
(* requests and TimerFires could post to a worker that is gone.            *)
(***************************************************************************)
EXTENDS ModemBridgeProofs

Split(I, A, B, C, D, E) ==
    /\ I = A \cup B \cup C \cup D \cup E
    /\ A \cap B = {} /\ A \cap C = {} /\ A \cap D = {} /\ A \cap E = {}
    /\ B \cap C = {} /\ B \cap D = {} /\ B \cap E = {}
    /\ C \cap D = {} /\ C \cap E = {} /\ D \cap E = {}

\* OneCustodian's tuple of five sets, spelt out as a partition.
LEMMA SplitFacts ==
    ASSUME NEW I, NEW A, NEW B, NEW C, NEW D, NEW E
    PROVE  (/\ I = UNION {<<A, B, C, D, E>>[i] : i \in 1..5}
            /\ \A i, j \in 1..5 : i # j => <<A, B, C, D, E>>[i] \cap <<A, B, C, D, E>>[j] = {})
           <=> Split(I, A, B, C, D, E)
<1>1. 1..5 = {1, 2, 3, 4, 5}
  OBVIOUS
<1>2. UNION {<<A, B, C, D, E>>[i] : i \in {1, 2, 3, 4, 5}} = A \cup B \cup C \cup D \cup E
  OBVIOUS
<1>3. (\A i, j \in {1,2,3,4,5} : i # j => <<A, B, C, D, E>>[i] \cap <<A, B, C, D, E>>[j] = {})
        <=> /\ A \cap B = {} /\ A \cap C = {} /\ A \cap D = {} /\ A \cap E = {}
            /\ B \cap C = {} /\ B \cap D = {} /\ B \cap E = {}
            /\ C \cap D = {} /\ C \cap E = {} /\ D \cap E = {}
  OBVIOUS
<1> QED BY <1>1, <1>2, <1>3 DEF Split

\* An empty queue holds no request.
LEMMA HeldEmpty == Held(<<>>) = {} /\ NoRepeat(<<>>)
BY DEF Held, Image, NoRepeat

\* Taking a request off a queue without repetitions removes exactly that
\* request.
LEMMA HeldTail ==
    ASSUME NEW s \in Seq(Event), s # <<>>, NoRepeat(s)
    PROVE  /\ NoRepeat(Tail(s))
           /\ Head(s).sig = "SendReq" =>
                 Head(s).req \in Held(s) /\ Held(Tail(s)) = Held(s) \ {Head(s).req}
           /\ Head(s).sig # "SendReq" => Held(Tail(s)) = Held(s)
<1>t. /\ Head(s) \in Event
      /\ Tail(s) \in Seq(Event)
      /\ \A i \in DOMAIN Tail(s) : i + 1 \in DOMAIN s /\ Tail(s)[i] = s[i + 1] /\ i \in Nat
      /\ \A i \in DOMAIN s : i = 1 \/ (i - 1 \in DOMAIN Tail(s) /\ Tail(s)[i-1] = s[i])
      /\ Head(s) = s[1] /\ 1 \in DOMAIN s
  BY TailFacts
<1>1. NoRepeat(Tail(s))
  <2> SUFFICES ASSUME NEW i \in DOMAIN Tail(s), NEW j \in DOMAIN Tail(s),
                      Tail(s)[i].sig = "SendReq", Tail(s)[i] = Tail(s)[j]
               PROVE  i = j
    BY DEF NoRepeat
  <2>1. /\ i + 1 \in DOMAIN s /\ Tail(s)[i] = s[i + 1] /\ i \in Nat
        /\ j + 1 \in DOMAIN s /\ Tail(s)[j] = s[j + 1] /\ j \in Nat
    BY <1>t
  <2>2. i + 1 = j + 1
    BY <2>1 DEF NoRepeat
  <2> QED BY <2>1, <2>2
<1>2. Image(s) = Image(Tail(s)) \cup {Head(s)}
  BY ImageTail
<1>3. \A r : SendReq(r).sig = "SendReq" /\ SendReq(r).req = r
  BY DEF SendReq
<1>4. CASE Head(s).sig = "SendReq"
  <2>1. Head(s).req \in Reqs /\ Head(s) = SendReq(Head(s).req)
    BY <1>4, <1>t, EventFields
  <2>2. Head(s) \notin Image(Tail(s))
    <3> SUFFICES ASSUME NEW i \in DOMAIN Tail(s), Tail(s)[i] = Head(s) PROVE FALSE
      BY DEF Image
    <3>1. i + 1 \in DOMAIN s /\ s[i + 1] = s[1] /\ i \in Nat /\ i # 0
      BY <1>t
    <3> QED BY <3>1, <1>t, <1>4 DEF NoRepeat
  <2> QED BY <1>1, <1>2, <1>3, <1>4, <2>1, <2>2 DEF Held
<1>5. CASE Head(s).sig # "SendReq"
  BY <1>1, <1>2, <1>3, <1>5 DEF Held
<1> QED BY <1>4, <1>5

\* Posting a request that is not in the queue adds exactly that request.
LEMMA HeldAppend ==
    ASSUME NEW s \in Seq(Event), NEW e \in Event, NoRepeat(s),
           e.sig = "SendReq" => e.req \notin Held(s)
    PROVE  /\ NoRepeat(Append(s, e))
           /\ e.sig = "SendReq" => Held(Append(s, e)) = Held(s) \cup {e.req}
           /\ e.sig # "SendReq" => Held(Append(s, e)) = Held(s)
<1>a. /\ DOMAIN Append(s, e) = DOMAIN s \cup {Len(s) + 1}
      /\ \A i \in DOMAIN s : Append(s, e)[i] = s[i]
      /\ Append(s, e)[Len(s) + 1] = e
  BY AppendFacts
<1>1. Image(Append(s, e)) = Image(s) \cup {e}
  BY ImageAppend
<1>2. \A r : SendReq(r).sig = "SendReq" /\ SendReq(r).req = r
  BY DEF SendReq
<1>3. e.sig = "SendReq" => e.req \in Reqs /\ e = SendReq(e.req) /\ e \notin Image(s)
  BY EventFields DEF Held
<1>4. NoRepeat(Append(s, e))
  <2> SUFFICES ASSUME NEW i \in DOMAIN Append(s, e), NEW j \in DOMAIN Append(s, e),
                      Append(s, e)[i].sig = "SendReq", Append(s, e)[i] = Append(s, e)[j]
               PROVE  i = j
    BY DEF NoRepeat
  <2>1. CASE i \in DOMAIN s /\ j \in DOMAIN s
    BY <2>1, <1>a DEF NoRepeat
  <2>2. CASE i = Len(s) + 1 /\ j \in DOMAIN s
    BY <2>2, <1>a, <1>3 DEF Image
  <2>3. CASE i \in DOMAIN s /\ j = Len(s) + 1
    BY <2>3, <1>a, <1>3 DEF Image
  <2> QED BY <1>a, <2>1, <2>2, <2>3
<1> QED BY <1>1, <1>2, <1>3, <1>4 DEF Held

\* recall_all: two queues with no request in common keep one copy of each.
LEMMA HeldConcat ==
    ASSUME NEW s \in Seq(Event), NEW t \in Seq(Event), NoRepeat(s), NoRepeat(t),
           Held(s) \cap Held(t) = {}
    PROVE  NoRepeat(s \o t) /\ Held(s \o t) = Held(s) \cup Held(t)
<1>c. /\ \A i \in DOMAIN s : i \in DOMAIN (s \o t) /\ (s \o t)[i] = s[i]
      /\ \A i \in DOMAIN t : Len(s) + i \in DOMAIN (s \o t)
                             /\ (s \o t)[Len(s) + i] = t[i]
      /\ \A i \in DOMAIN (s \o t) : i \in DOMAIN s
                                    \/ (i - Len(s) \in DOMAIN t
                                        /\ (s \o t)[i] = t[i - Len(s)])
      /\ Len(s) \in Nat /\ DOMAIN (s \o t) \subseteq Nat
  BY ConcatFacts
<1>1. Image(s \o t) = Image(s) \cup Image(t)
  BY ImageConcat
<1>2. \A e \in Event : e.sig = "SendReq" => ~(e \in Image(s) /\ e \in Image(t))
  BY EventFields DEF Held
<1>3. \A i \in DOMAIN s : s[i] \in Event /\ s[i] \in Image(s)
  BY DEF Image
<1>4. \A i \in DOMAIN t : t[i] \in Event /\ t[i] \in Image(t)
  BY DEF Image
<1>5. NoRepeat(s \o t)
  <2> SUFFICES ASSUME NEW i \in DOMAIN (s \o t), NEW j \in DOMAIN (s \o t),
                      (s \o t)[i].sig = "SendReq", (s \o t)[i] = (s \o t)[j]
               PROVE  i = j
    BY DEF NoRepeat
  <2>1. CASE i \in DOMAIN s /\ j \in DOMAIN s
    BY <2>1, <1>c DEF NoRepeat
  <2>2. CASE i \notin DOMAIN s /\ j \notin DOMAIN s
    BY <2>2, <1>c DEF NoRepeat
  <2>3. CASE i \in DOMAIN s /\ j \notin DOMAIN s
    BY <2>3, <1>c, <1>2, <1>3, <1>4
  <2>4. CASE i \notin DOMAIN s /\ j \in DOMAIN s
    BY <2>4, <1>c, <1>2, <1>3, <1>4
  <2> QED BY <2>1, <2>2, <2>3, <2>4
<1> QED BY <1>1, <1>5 DEF Held

\* Running callbacks that have not run yet runs each of them once.
LEMMA InvokeFacts ==
    ASSUME TypeOK, NEW R \in SUBSET Reqs, Invoke(R), R \cap Called = {},
           \A r \in Reqs : calls[r] <= 1
    PROVE  Called' = Called \cup R /\ \A r \in Reqs : calls'[r] <= 1
<1>1. \A r \in Reqs : calls[r] \in Nat
  BY DEF TypeOK
<1>2. \A r \in Reqs : calls'[r] = IF r \in R THEN calls[r] + 1 ELSE calls[r]
  BY <1>1 DEF Invoke
<1>3. \A r \in Reqs : r \in R => calls[r] = 0
  BY <1>1 DEF Called
<1> QED BY <1>1, <1>2, <1>3 DEF Called

Custodied ==
    /\ Split(issued, Held(q), Held(deferred), inFlight, lost, Called)
    /\ NoRepeat(q) /\ NoRepeat(deferred)
    /\ \A r \in Reqs : calls[r] <= 1

\* OneCustodian in the form the step proof uses, now and after the step.
LEMMA CustodySpelt == (OneCustodian <=> Custodied) /\ (OneCustodian' <=> Custodied')
BY SplitFacts DEF OneCustodian, Custody, Custodied

\* Every step hands each request from one custodian to at most one other.
LEMMA CustodyStep ==
    ASSUME TypeOK, Custodied, [Next]_vars,
           (~running /\ stopper # "joining") => q = <<>>
    PROVE  Custodied'
<1> DEFINE Same == UNCHANGED <<deferred, inFlight, lost, calls, issued>>
           Kept == Held(q') = Held(q) /\ NoRepeat(q')
<1>d. q \in Seq(Event) /\ deferred \in Seq(Event) /\ inFlight \subseteq Reqs
      /\ Held(q) \subseteq Reqs /\ Held(deferred) \subseteq Reqs
  BY DEF TypeOK, Held
<1>c. Same /\ Kept => Custodied'
  BY DEF Custodied, Called
<1>t. ASSUME q # <<>>
      PROVE  /\ Tail(q) \in Seq(Event) /\ Head(q) \in Event
             /\ NoRepeat(Tail(q))
             /\ Head(q).sig = "SendReq" =>
                   /\ Head(q).req \in Held(q) /\ Head(q).req \in Reqs
                   /\ Held(Tail(q)) = Held(q) \ {Head(q).req}
             /\ Head(q).sig # "SendReq" => Held(Tail(q)) = Held(q)
  BY <1>t, <1>d, TailFacts, HeldTail, EventFields DEF Custodied
<1>l. /\ Plain("LinkDown") \in Event /\ Plain("LinkDown").sig # "SendReq"
      /\ LinkUp(FALSE) \in Event /\ LinkUp(FALSE).sig # "SendReq"
      /\ Plain("Start") \in Event /\ Plain("Start").sig # "SendReq"
  BY EventKinds, Zenon DEF Plain, LinkUp
<1>a. ASSUME NEW e \in Event, e.sig # "SendReq", post_fifo(e) PROVE Kept
  BY <1>a, <1>d, HeldAppend DEF post_fifo, Custodied
<1>k. q # <<>> /\ Head(q).sig # "SendReq" /\ Consume => Kept
  BY <1>t DEF Consume
<1>n. q # <<>> /\ Head(q).sig # "SendReq" /\ q' = Append(Tail(q), Plain("LinkDown")) => Kept
  <2> SUFFICES ASSUME q # <<>>, Head(q).sig # "SendReq"
               PROVE  /\ NoRepeat(Append(Tail(q), Plain("LinkDown")))
                      /\ Held(Append(Tail(q), Plain("LinkDown"))) = Held(q)
    OBVIOUS
  <2>1. Tail(q) \in Seq(Event) /\ NoRepeat(Tail(q)) /\ Held(Tail(q)) = Held(q)
    BY <1>t
  <2> QED BY <2>1, <1>l, HeldAppend, Zenon
<1>z. q # <<>> /\ Head(q).sig # "SendReq" /\ TearDown /\ Kept => Custodied'
  <2> SUFFICES ASSUME TearDown, Kept PROVE Custodied'
    OBVIOUS
  <2>1. /\ inFlight' = {} /\ Held(deferred') = {} /\ NoRepeat(deferred')
        /\ lost' = lost /\ issued' = issued /\ Invoke(inFlight \cup Held(deferred))
    BY HeldEmpty DEF TearDown, failAllInFlight_, envVars
  <2>2. Called' = Called \cup (inFlight \cup Held(deferred)) /\ \A r \in Reqs : calls'[r] <= 1
    <3>1. (inFlight \cup Held(deferred)) \cap Called = {}
      BY DEF Custodied, Split
    <3> QED BY <2>1, <3>1, <1>d, InvokeFacts DEF Custodied
  <2> QED BY <2>1, <2>2 DEF Custodied, Split
<1>b. q # <<>> /\ Head(q).sig # "SendReq" /\ ToBackoff => Custodied'
  BY <1>z, <1>k DEF ToBackoff
<1>s. q # <<>> /\ Head(q).sig # "SendReq" /\ ToShuttingDown => Custodied'
  BY <1>z, <1>k, <1>n DEF ToShuttingDown
<1>i. q # <<>> /\ Head(q).sig # "SendReq" /\ Ignore => Custodied'
  BY <1>k, <1>c DEF Ignore, workerVars, rpcVars, envVars
<1>e. q # <<>> /\ Head(q).sig # "SendReq" /\ Tables => Custodied'
  BY <1>k, <1>c DEF Tables, workerVars, rpcVars, envVars
<1>h. q # <<>> /\ Head(q).sig # "SendReq" /\ HandleDrain => Custodied'
  BY <1>k, <1>c DEF HandleDrain, workerVars, rpcVars
<1>o. q # <<>> /\ Head(q).sig # "SendReq" /\ ToConnected => Custodied'
  BY <1>k, <1>c DEF ToConnected, rpcVars, envVars
<1>f. q # <<>> /\ Head(q).sig = "SendReq" /\ FailFast(Head(q).req) => Custodied'
  <2> SUFFICES ASSUME q # <<>>, Head(q).sig = "SendReq", FailFast(Head(q).req) PROVE Custodied'
    OBVIOUS
  <2>1. /\ q' = Tail(q) /\ UNCHANGED <<deferred, inFlight, lost, issued>>
        /\ Invoke({Head(q).req})
    BY Zenon DEF FailFast, Consume, workerVars, envVars
  <2>2. Called' = Called \cup {Head(q).req} /\ \A r \in Reqs : calls'[r] <= 1
    <3>1. {Head(q).req} \cap Called = {} /\ {Head(q).req} \in SUBSET Reqs
      BY <1>t DEF Custodied, Split
    <3> QED BY <2>1, <3>1, InvokeFacts DEF Custodied
  <2> QED BY <2>1, <2>2, <1>t DEF Custodied, Split
<1>g. q # <<>> /\ Defer => Custodied'
  <2> SUFFICES ASSUME q # <<>>, Defer PROVE Custodied'
    OBVIOUS
  <2>1. /\ q' = Tail(q) /\ UNCHANGED <<inFlight, lost, issued, calls>>
        /\ deferred' = Append(deferred, Head(q))
    BY DEF Defer, Consume, rpcVars, envVars
  <2>2. Head(q).sig = "SendReq" => Head(q).req \notin Held(deferred)
    BY <1>t DEF Custodied, Split
  <2>3. /\ NoRepeat(deferred')
        /\ Head(q).sig = "SendReq" => Held(deferred') = Held(deferred) \cup {Head(q).req}
        /\ Head(q).sig # "SendReq" => Held(deferred') = Held(deferred)
    BY <2>1, <2>2, <1>d, <1>t, HeldAppend DEF Custodied
  <2> QED BY <2>1, <2>3, <1>t DEF Custodied, Split, Called
<1>x. q # <<>> /\ Discard(Head(q)) => Custodied'
  <2> SUFFICES ASSUME q # <<>>, Discard(Head(q)) PROVE Custodied'
    OBVIOUS
  <2>1. /\ q' = Tail(q) /\ UNCHANGED <<deferred, inFlight, issued, calls>>
        /\ lost' = IF Head(q).sig = "SendReq" THEN lost \cup {Head(q).req} ELSE lost
    BY DEF Discard, Consume, workerVars, envVars
  <2>2. CASE Head(q).sig = "SendReq"
    BY <2>1, <2>2, <1>t DEF Custodied, Split, Called
  <2>3. CASE Head(q).sig # "SendReq"
    BY <2>1, <2>3, <1>t DEF Custodied, Split, Called
  <2> QED BY <2>2, <2>3
<1>m. ASSUME q # <<>>, Head(q).sig # "SendReq", NEW r \in inFlight, NEW b, Complete(r, b)
      PROVE  Custodied'
  <2>1. /\ Kept /\ inFlight' = inFlight \ {r} /\ UNCHANGED <<deferred, lost, issued>>
        /\ Invoke({r})
    BY <1>m, <1>k DEF Complete, workerVars, envVars
  <2>2. Called' = Called \cup {r} /\ \A x \in Reqs : calls'[x] <= 1
    <3>1. {r} \cap Called = {} /\ {r} \in SUBSET Reqs
      BY <1>d DEF Custodied, Split
    <3> QED BY <2>1, <3>1, InvokeFacts DEF Custodied
  <2> QED BY <2>1, <2>2 DEF Custodied, Split
<1>1. CASE NotOperational_St
  BY <1>1, <1>e, <1>h DEF NotOperational_St, Dispatch
<1>2. CASE Disconnected_St
  <2>1. CASE Head(q).sig = "Start"
    BY <1>2, <2>1, <1>k, <1>n, <1>c
    DEF Disconnected_St, Dispatch, ToConnecting, rpcVars, envVars
  <2>2. CASE Head(q).sig = "PublishOneway"
    BY <1>2, <2>2, <1>k, <1>c DEF Disconnected_St, Dispatch, workerVars, rpcVars, envVars
  <2> QED BY <1>2, <2>1, <2>2, <1>f, <1>s DEF Disconnected_St, Dispatch
<1>3. CASE Connecting_St
  BY <1>3, <1>o, <1>b, <1>s, <1>g DEF Connecting_St, Dispatch
<1>4. CASE Connected_St
  BY <1>4, <1>b, <1>s, <1>e, <1>h DEF Connected_St, Dispatch
<1>5. CASE Subscribing_St
  <2>1. CASE Head(q).sig = "AllSubAcked"
    <3>1. /\ q # <<>> /\ q' = Tail(q) \o deferred /\ deferred' = <<>>
          /\ UNCHANGED <<inFlight, lost, issued, calls>>
      BY <1>5, <2>1 DEF Subscribing_St, Dispatch, ToOperational, rpcVars, envVars
    <3>2. Held(q') = Held(q) \cup Held(deferred) /\ NoRepeat(q')
      <4>1. Held(Tail(q)) \cap Held(deferred) = {} /\ Held(Tail(q)) = Held(q)
        BY <2>1, <3>1, <1>t DEF Custodied, Split
      <4> QED BY <3>1, <4>1, <1>d, <1>t, HeldConcat, Zenon DEF Custodied
    <3> QED BY <3>1, <3>2, HeldEmpty DEF Custodied, Split, Called
  <2>2. CASE Head(q).sig = "SubscribeConnectivity"
    BY <1>5, <2>2, <1>e DEF Subscribing_St, Dispatch
  <2> QED BY <1>5, <2>1, <2>2, <1>g DEF Subscribing_St, Dispatch
<1>6. CASE SubscribingEntered
  <2>1. Plain("AllSubAcked") \in Event /\ Plain("AllSubAcked").sig # "SendReq"
    BY EventKinds DEF Plain
  <2> QED BY <1>6, <2>1, <1>a, <1>c DEF SubscribingEntered, rpcVars, envVars
<1>7. CASE Operational_St
  <2>1. ASSUME q # <<>>, Head(q).sig = "SendReq", doSendRequest_(Head(q).req) PROVE Custodied'
    <3>1. CASE FailFast(Head(q).req)
      BY <2>1, <3>1, <1>f
    <3>2. CASE ~FailFast(Head(q).req)
      <4>1. /\ q' = Tail(q) /\ inFlight' = inFlight \cup {Head(q).req}
            /\ UNCHANGED <<deferred, lost, issued, calls>>
        BY <2>1, <3>2, Zenon DEF doSendRequest_, Consume, workerVars, envVars
      <4> QED BY <4>1, <2>1, <1>t DEF Custodied, Split, Called
    <3> QED BY <3>1, <3>2
  <2>2. ASSUME q # <<>>, Head(q).sig = "PublishOneway", doPublishOneway_(Head(q).msg)
        PROVE  Custodied'
    BY <2>2, <1>k, <1>c DEF doPublishOneway_, workerVars, rpcVars, envVars
  <2>3. ASSUME q # <<>>, Head(q).sig = "Rsp", EvtRecvRsp(Head(q)) PROVE Custodied'
    BY <2>3, <1>m, <1>i DEF EvtRecvRsp
  <2>4. ASSUME q # <<>>, Head(q).sig = "Ind", EvtRecvInd(Head(q)) PROVE Custodied'
    <3>1. CASE Ignore
      BY <2>4, <3>1, <1>i
    <3>2. CASE ~Ignore
      BY <2>4, <3>2, <1>k, <1>c DEF EvtRecvInd, workerVars, rpcVars, envVars
    <3> QED BY <3>1, <3>2
  <2>5. ASSUME q # <<>>, Head(q).sig = "RspTimeout", RspTimeout(Head(q).req) PROVE Custodied'
    BY <2>5, <1>m, <1>i, Zenon DEF RspTimeout
  <2> QED BY <1>7, <2>1, <2>2, <2>3, <2>4, <2>5, <1>e DEF Operational_St, Dispatch
<1>8. CASE Backoff_St
  BY <1>8, <1>o, <1>i, <1>s, <1>g DEF Backoff_St, Dispatch
<1>9. CASE ShuttingDown_St
  BY <1>9, <1>h, <1>x DEF ShuttingDown_St, Dispatch
<1>10. CASE top
  BY <1>10, <1>x DEF top, Dispatch
<1>11. CASE start
  <2>1. Same
    BY <1>11 DEF start, rpcVars
  <2>2. Kept
    BY <1>11, <1>l, <1>a DEF start, start_at, StartPost, Post, Custodied
  <2> QED BY <2>1, <2>2, <1>c
<1>12. CASE stop
  <2>1. /\ Plain("Stop") \in Event /\ Plain("Stop").sig # "SendReq"
        /\ Drain(NoManager) \in Event /\ Drain(NoManager).sig # "SendReq"
    BY EventKinds DEF Plain, Drain
  <2>2. Kept
    BY <1>12, <2>1, <1>a, Zenon DEF stop, StopPost, StopDrain, StopClear, StopJoin, Post, Custodied
  <2> QED BY <1>12, <2>2, <1>c DEF stop, workerVars, rpcVars
<1>13. ASSUME NEW r \in Reqs, send_request(r) PROVE Custodied'
  <2>1. /\ r \notin issued /\ issued' = issued \cup {r} /\ post_fifo(SendReq(r))
        /\ UNCHANGED <<deferred, inFlight, calls>>
        /\ lost' = IF running THEN lost ELSE lost \cup {r}
    BY <1>13 DEF send_request, Post, workerVars
  <2>2. SendReq(r) \in Event /\ SendReq(r).sig = "SendReq" /\ SendReq(r).req = r
    BY EventKinds DEF SendReq
  <2>3. r \notin Held(q)
    BY <2>1 DEF Custodied, Split
  <2>4. NoRepeat(q') /\ Held(q') = IF running THEN Held(q) \cup {r} ELSE Held(q)
    <3>1. NoRepeat(q)
      BY DEF Custodied
    <3>2. NoRepeat(Append(q, SendReq(r))) /\ Held(Append(q, SendReq(r))) = Held(q) \cup {r}
      BY <3>1, <2>2, <2>3, <1>d, HeldAppend
    <3> QED BY <3>1, <3>2, <2>1, Zenon DEF post_fifo
  <2> QED BY <2>1, <2>4 DEF Custodied, Split, Called
<1>14. ASSUME NEW o \in Oneways, publish_oneway(o) PROVE Custodied'
  <2>1. Oneway(o) \in Event /\ Oneway(o).sig # "SendReq"
    BY EventKinds DEF Oneway
  <2> QED BY <1>14, <2>1, <1>a, <1>c DEF publish_oneway, Post, workerVars, rpcVars, envVars
<1>15. ASSUME NEW m \in Managers, Manager(m) PROVE Custodied'
  <2>1. /\ \A s \in SubSignals : Sub(s, m) \in Event /\ Sub(s, m).sig # "SendReq"
        /\ Drain(m) \in Event /\ Drain(m).sig # "SendReq"
    BY EventKinds DEF Sub, Drain, SubSignals
  <2>2. Kept
    BY <1>15, <2>1, <1>a DEF Manager, Advance, drain, Post, SubSignals
  <2> QED BY <1>15, <2>2, <1>c DEF Manager, workerVars, rpcVars
<1>16. ASSUME NEW r \in Reqs, DeadlinePasses(r) PROVE Custodied'
  BY <1>16, <1>c DEF DeadlinePasses, workerVars, rpcVars, Custodied
<1>17. ASSUME NEW r \in Reqs, TimerTaken(r) PROVE Custodied'
  BY <1>17, <1>c DEF TimerTaken, workerVars, envVars, Custodied
<1>18. ASSUME NEW r \in Reqs, TimerFires(r) PROVE Custodied'
  <2>1. Timeout(r) \in Event /\ Timeout(r).sig # "SendReq"
    BY EventKinds DEF Timeout
  <2> QED BY <1>18, <2>1, <1>a, <1>c DEF TimerFires, Post, workerVars, envVars
<1>19. ASSUME NEW t \in Topics, onRetained(t) PROVE Custodied'
  <2>1. Ind(t, "valid") \in Event /\ Ind(t, "valid").sig # "SendReq"
    BY EventKinds, Zenon DEF Ind, Bodies
  <2> QED BY <1>19, <2>1, <1>a, <1>c DEF onRetained, Post, workerVars, rpcVars, envVars
<1>20. ASSUME NEW e \in Messages, onMessage_(e) PROVE Custodied'
  <2>1. e \in Event /\ e.sig # "SendReq"
    BY Zenon DEF Messages, Bodies, Event
  <2> QED BY <1>20, <2>1, <1>a, <1>c DEF onMessage_, Post, workerVars, rpcVars
<1>21. CASE ConnectTimer
  <2>1. Plain("ConnectTimeout") \in Event /\ Plain("ConnectTimeout").sig # "SendReq"
    BY EventKinds DEF Plain
  <2>2. Kept
    BY <1>21, <2>1, <1>a DEF ConnectTimer, Post, Custodied
  <2> QED BY <1>21, <2>2, <1>c DEF ConnectTimer, workerVars, rpcVars, envVars
<1>22. CASE onConnect_
  <2>1. LinkUp(TRUE) \in Event /\ LinkUp(TRUE).sig # "SendReq"
    BY EventKinds, Zenon DEF LinkUp
  <2> QED BY <1>22, <2>1, <1>a, <1>c, Zenon DEF onConnect_, Post, workerVars, rpcVars, envVars
<1>23. CASE Refused
  <2>1. Append(q, LinkUp(FALSE)) \in Seq(Event)
    BY <1>d, <1>l, AppendFacts, Zenon
  <2>2. NoRepeat(Append(q, LinkUp(FALSE))) /\ Held(Append(q, LinkUp(FALSE))) = Held(q)
    BY <1>d, <1>l, HeldAppend, Zenon DEF Custodied
  <2>3. Kept
    BY <1>23, <2>1, <2>2, <1>l, HeldAppend, Zenon DEF Refused, Custodied
  <2> QED BY <1>23, <2>3, <1>c DEF Refused, workerVars, rpcVars
<1>24. CASE onDisconnect_
  BY <1>24, <1>l, <1>a, <1>c DEF onDisconnect_, Post, workerVars, rpcVars
<1>25. CASE UNCHANGED vars
  BY <1>25, <1>c DEF vars, workerVars, rpcVars, envVars, Custodied
<1> QED
  BY <1>1, <1>2, <1>3, <1>4, <1>5, <1>6, <1>7, <1>8, <1>9, <1>10, <1>11, <1>12, <1>13,
     <1>14, <1>15, <1>16, <1>17, <1>18, <1>19, <1>20, <1>21, <1>22, <1>23, <1>24, <1>25
  DEF Next, Worker, Timers, Network, Clients

Fence == Drain(NoManager)

AtMostOneFence(s) == \A i, j \in DOMAIN s : s[i] = Fence /\ s[j] = Fence => i = j

FenceBehindStop(s) ==
    \A j \in DOMAIN s : s[j] = Fence => \E i \in DOMAIN s : i < j /\ s[i] = Plain("Stop")

Stopping ==
    /\ stopper \in {"posted", "draining", "fenced"} => running
    /\ stopper \in {"joining", "stopped"} => ~running
    /\ (~running /\ stopper # "joining") => q = <<>>
    /\ (~running /\ stopper = "idle") => st = "Disconnected"
    /\ stopper = "posted" => st = "ShuttingDown" \/ Plain("Stop") \in Image(q)
    /\ stopper \in {"fenced", "joining", "stopped"} => st = "ShuttingDown"
    /\ Fence \in Image(q) => stopper = "draining"
    /\ AtMostOneFence(q)
    /\ st = "ShuttingDown" \/ FenceBehindStop(q)
    /\ \A e \in Image(deferred) : e.sig \in {"SendReq", "PublishOneway"}
    /\ st = "ShuttingDown" => deferred = <<>>

\* Taking the head keeps the fence unique and, unless Stop is taken, behind
\* Stop.
LEMMA FenceTail ==
    ASSUME NEW s \in Seq(Event), s # <<>>
    PROVE  /\ AtMostOneFence(s) => /\ AtMostOneFence(Tail(s))
                                   /\ Head(s) = Fence => Fence \notin Image(Tail(s))
           /\ FenceBehindStop(s) => /\ Head(s) # Fence
                                    /\ Head(s) # Plain("Stop") => FenceBehindStop(Tail(s))
<1>t. /\ \A i \in DOMAIN Tail(s) : i + 1 \in DOMAIN s /\ Tail(s)[i] = s[i + 1] /\ i \in Nat
                                   /\ i >= 1
      /\ \A i \in DOMAIN s : i \in Nat /\ i >= 1
             /\ (i = 1 \/ (i - 1 \in DOMAIN Tail(s) /\ Tail(s)[i - 1] = s[i]))
      /\ Head(s) = s[1] /\ 1 \in DOMAIN s
  BY TailFacts
<1>1. AtMostOneFence(s) => AtMostOneFence(Tail(s))
  <2> SUFFICES ASSUME AtMostOneFence(s),
                      NEW i \in DOMAIN Tail(s), NEW j \in DOMAIN Tail(s),
                      Tail(s)[i] = Fence, Tail(s)[j] = Fence
               PROVE  i = j
    BY DEF AtMostOneFence
  <2>1. /\ i + 1 \in DOMAIN s /\ s[i + 1] = Fence /\ i \in Nat
        /\ j + 1 \in DOMAIN s /\ s[j + 1] = Fence /\ j \in Nat
    BY <1>t
  <2>2. i + 1 = j + 1
    BY <2>1 DEF AtMostOneFence
  <2> QED BY <2>1, <2>2
<1>2. AtMostOneFence(s) /\ Head(s) = Fence => Fence \notin Image(Tail(s))
  <2> SUFFICES ASSUME AtMostOneFence(s), Head(s) = Fence, NEW i \in DOMAIN Tail(s),
                      Tail(s)[i] = Fence
               PROVE  FALSE
    BY DEF Image
  <2>1. i + 1 \in DOMAIN s /\ s[i + 1] = Fence /\ s[1] = Fence /\ i >= 1 /\ i \in Nat
    BY <1>t
  <2> QED BY <2>1, <1>t DEF AtMostOneFence
<1>3. FenceBehindStop(s) => Head(s) # Fence
  BY <1>t DEF FenceBehindStop
<1>4. FenceBehindStop(s) /\ Head(s) # Plain("Stop") => FenceBehindStop(Tail(s))
  <2> SUFFICES ASSUME FenceBehindStop(s), Head(s) # Plain("Stop"), NEW j \in DOMAIN Tail(s),
                      Tail(s)[j] = Fence
               PROVE  \E i \in DOMAIN Tail(s) : i < j /\ Tail(s)[i] = Plain("Stop")
    BY DEF FenceBehindStop
  <2>1. j + 1 \in DOMAIN s /\ s[j + 1] = Fence /\ j \in Nat
    BY <1>t
  <2>2. PICK i \in DOMAIN s : i < j + 1 /\ s[i] = Plain("Stop")
    BY <2>1 DEF FenceBehindStop
  <2>3. i # 1 /\ i \in Nat /\ i - 1 \in DOMAIN Tail(s) /\ Tail(s)[i - 1] = Plain("Stop")
    BY <2>2, <1>t
  <2>4. i - 1 < j
    BY <2>1, <2>2, <2>3
  <2> QED BY <2>3, <2>4
<1> QED BY <1>1, <1>2, <1>3, <1>4

\* Posting keeps the fence unique and behind Stop when it is posted after Stop.
LEMMA FenceAppend ==
    ASSUME NEW s \in Seq(Event), NEW e \in Event
    PROVE  /\ AtMostOneFence(s) /\ (e = Fence => Fence \notin Image(s))
                 => AtMostOneFence(Append(s, e))
           /\ FenceBehindStop(s) /\ (e = Fence => Plain("Stop") \in Image(s))
                 => FenceBehindStop(Append(s, e))
<1>a. /\ DOMAIN Append(s, e) = DOMAIN s \cup {Len(s) + 1}
      /\ \A i \in DOMAIN s : Append(s, e)[i] = s[i] /\ i < Len(s) + 1
      /\ Append(s, e)[Len(s) + 1] = e
  BY AppendFacts
<1>1. ASSUME AtMostOneFence(s), e = Fence => Fence \notin Image(s)
      PROVE  AtMostOneFence(Append(s, e))
  <2>1. e = Fence => \A i \in DOMAIN s : s[i] # Fence
    BY <1>1 DEF Image
  <2> SUFFICES ASSUME NEW i \in DOMAIN Append(s, e), NEW j \in DOMAIN Append(s, e),
                      Append(s, e)[i] = Fence, Append(s, e)[j] = Fence
               PROVE  i = j
    BY DEF AtMostOneFence
  <2>2. CASE i \in DOMAIN s /\ j \in DOMAIN s
    BY <2>2, <1>1, <1>a DEF AtMostOneFence
  <2>3. CASE i = Len(s) + 1 /\ j \in DOMAIN s
    BY <2>3, <2>1, <1>a
  <2>4. CASE i \in DOMAIN s /\ j = Len(s) + 1
    BY <2>4, <2>1, <1>a
  <2> QED BY <2>2, <2>3, <2>4, <1>a
<1>2. ASSUME FenceBehindStop(s), e = Fence => Plain("Stop") \in Image(s)
      PROVE  FenceBehindStop(Append(s, e))
  <2> SUFFICES ASSUME NEW j \in DOMAIN Append(s, e), Append(s, e)[j] = Fence
               PROVE  \E i \in DOMAIN Append(s, e) :
                          i < j /\ Append(s, e)[i] = Plain("Stop")
    BY DEF FenceBehindStop
  <2>1. CASE j \in DOMAIN s
    BY <2>1, <1>2, <1>a DEF FenceBehindStop
  <2>2. CASE j = Len(s) + 1
    BY <2>2, <1>2, <1>a DEF Image
  <2> QED BY <2>1, <2>2, <1>a
<1> QED BY <1>1, <1>2

\* Recalling deferred events, none of which is the fence, disturbs neither.
LEMMA FenceConcat ==
    ASSUME NEW s \in Seq(Event), NEW t \in Seq(Event), Fence \notin Image(t)
    PROVE  /\ AtMostOneFence(s) => AtMostOneFence(s \o t)
           /\ FenceBehindStop(s) => FenceBehindStop(s \o t)
<1>c. /\ \A i \in DOMAIN s : i \in DOMAIN (s \o t) /\ (s \o t)[i] = s[i]
      /\ \A i \in DOMAIN (s \o t) : i \in DOMAIN s
                                    \/ (i - Len(s) \in DOMAIN t
                                        /\ (s \o t)[i] = t[i - Len(s)])
  BY ConcatFacts
<1>1. \A i \in DOMAIN (s \o t) : (s \o t)[i] = Fence => i \in DOMAIN s /\ s[i] = Fence
  BY <1>c DEF Image
<1>2. AtMostOneFence(s) => AtMostOneFence(s \o t)
  BY <1>1 DEF AtMostOneFence
<1>3. FenceBehindStop(s) => FenceBehindStop(s \o t)
  BY <1>1, <1>c DEF FenceBehindStop
<1> QED BY <1>2, <1>3

\* Every step keeps the protocol of stop() between its owner and the worker.
LEMMA StoppingStep ==
    ASSUME TypeOK, Stopping, [Next]_vars
    PROVE  Stopping'
<1> DEFINE Took == \/ Consume
                   \/ q' = Append(Tail(q), Plain("LinkDown"))
                   \/ q' = Tail(q) \o deferred
           Sane == \A e \in Image(deferred') : e.sig \in {"SendReq", "PublishOneway"}
           Fixed == UNCHANGED <<running, stopper>>
<1>d. q \in Seq(Event) /\ deferred \in Seq(Event) /\ Fence \notin Image(deferred)
  BY DEF TypeOK, Stopping, Fence, Drain
<1>l. /\ Plain("LinkDown") \in Event /\ Plain("LinkDown") # Fence
      /\ Plain("Stop") # Plain("LinkDown")
      /\ Plain("Stop").sig = "Stop" /\ Fence.sig = "Drain" /\ Fence.who = NoManager
  BY EventKinds, Zenon DEF Plain, Fence, Drain
<1>k. ASSUME q # <<>>, Took
      PROVE  /\ AtMostOneFence(q')
             /\ Fence \in Image(q') => Fence \in Image(q)
             /\ Head(q).sig # "Stop" =>
                   /\ FenceBehindStop(q) => FenceBehindStop(q')
                   /\ Plain("Stop") \in Image(q) => Plain("Stop") \in Image(q')
  <2>1. /\ Tail(q) \in Seq(Event) /\ Image(q) = Image(Tail(q)) \cup {Head(q)}
        /\ AtMostOneFence(Tail(q))
        /\ Head(q).sig # "Stop" => (FenceBehindStop(q) => FenceBehindStop(Tail(q)))
    BY <1>k, <1>d, <1>l, TailFacts, ImageTail, FenceTail DEF Stopping
  <2>2. CASE Consume
    BY <2>1, <2>2, <1>l DEF Consume
  <2>3. CASE q' = Append(Tail(q), Plain("LinkDown"))
    <3>1. /\ Image(q') = Image(Tail(q)) \cup {Plain("LinkDown")}
          /\ AtMostOneFence(q') /\ (FenceBehindStop(Tail(q)) => FenceBehindStop(q'))
      BY <2>1, <2>3, <1>l, ImageAppend, FenceAppend, Zenon
    <3> QED BY <3>1, <2>1, <1>l
  <2>4. CASE q' = Tail(q) \o deferred
    <3>1. /\ Image(q') = Image(Tail(q)) \cup Image(deferred)
          /\ AtMostOneFence(q') /\ (FenceBehindStop(Tail(q)) => FenceBehindStop(q'))
      BY <2>1, <2>4, <1>d, ImageConcat, FenceConcat, Zenon
    <3> QED BY <3>1, <2>1, <1>d, <1>l
  <2> QED BY <1>k, <2>2, <2>3, <2>4
<1>w. ASSUME q # <<>>, Took, Fixed, Sane, Head(q).sig # "Stop",
             st # "ShuttingDown", st' # "ShuttingDown"
      PROVE  Stopping'
  <2>1. running /\ FenceBehindStop(q)
    BY <1>w DEF Stopping, TypeOK
  <2> QED BY <1>w, <1>k, <2>1 DEF Stopping
<1>z. ASSUME q # <<>>, Took, Fixed, st' = "ShuttingDown", deferred' = <<>>
      PROVE  Stopping'
  <2>1. Image(<<>>) = {}
    BY DEF Image
  <2>2. running \/ stopper = "joining"
    BY <1>z DEF Stopping
  <2> QED BY <1>z, <1>k, <2>1, <2>2 DEF Stopping
<1>s. q # <<>> /\ ToShuttingDown => Stopping'
  BY <1>z DEF ToShuttingDown, TearDown, failAllInFlight_, envVars
<1>b. q # <<>> /\ ToBackoff /\ Head(q).sig # "Stop" /\ st # "ShuttingDown" => Stopping'
  <2>1. Image(<<>>) = {}
    BY DEF Image
  <2> QED BY <1>w, <2>1 DEF ToBackoff, TearDown, failAllInFlight_, envVars
<1>i. ASSUME q # <<>>, Took, Fixed, Head(q).sig # "Stop", st # "ShuttingDown",
             UNCHANGED <<st, deferred>>
      PROVE  Stopping'
  BY <1>i, <1>w DEF Stopping
<1>p. ASSUME NEW e \in Event, e # Fence, post_fifo(e), Fixed, UNCHANGED <<st, deferred>>
      PROVE  Stopping'
  BY <1>p, <1>d, ImageAppend, FenceAppend DEF post_fifo, Stopping
<1>u. UNCHANGED <<q, running, stopper, st, deferred>> => Stopping'
  BY DEF Stopping
<1>h. ASSUME q # <<>>, st # "ShuttingDown", Head(q).sig = "Drain", HandleDrain PROVE Stopping'
  <2>1. Head(q) # Fence
    BY <1>h, <1>d, FenceTail DEF Stopping
  <2>2. Head(q).who \in Managers
    BY <1>h, <2>1, HeadFields, EventFields DEF Fence
  <2> QED BY <1>h, <1>i, <2>2, ConstantsAssumption DEF HandleDrain, Fulfil, workerVars
<1>g. ASSUME q # <<>>, st # "ShuttingDown", Head(q).sig \in {"SendReq", "PublishOneway"}, Defer
      PROVE  Stopping'
  <2>1. Sane
    BY <1>g, <1>d, TailFacts, ImageAppend DEF Defer, Stopping
  <2> QED BY <1>g, <2>1, <1>w DEF Defer, envVars
<1>1. CASE NotOperational_St
  BY <1>1, <1>i, <1>h, Zenon
  DEF NotOperational_St, NotOperational, Dispatch, Tables, workerVars, envVars
<1>2. CASE Disconnected_St
  <2>1. CASE Head(q).sig = "Start"
    BY <1>2, <2>1, <1>w DEF Disconnected_St, Dispatch, ToConnecting, envVars, Stopping
  <2>2. CASE Head(q).sig = "SendReq"
    BY <1>2, <2>2, <1>i DEF Disconnected_St, Dispatch, FailFast, workerVars, envVars
  <2>3. CASE Head(q).sig = "PublishOneway"
    BY <1>2, <2>3, <1>i DEF Disconnected_St, Dispatch, workerVars, envVars
  <2> QED BY <1>2, <2>1, <2>2, <2>3, <1>s, Zenon DEF Disconnected_St, Dispatch
<1>o. ASSUME q # <<>>, st # "ShuttingDown", Head(q).sig # "Stop", ToConnected PROVE Stopping'
  BY <1>o, <1>w DEF ToConnected, envVars, Stopping
<1>3. CASE Connecting_St
  BY <1>3, <1>o, <1>b, <1>s, <1>g DEF Connecting_St, Dispatch
<1>4. CASE Connected_St
  BY <1>4, <1>b, <1>s, <1>i, <1>h, Zenon
  DEF Connected_St, Connected, Dispatch, Tables, workerVars, envVars
<1>5. CASE Subscribing_St
  <2>1. CASE Head(q).sig = "AllSubAcked"
    <3>1. Image(<<>>) = {}
      BY DEF Image
    <3> QED BY <1>5, <2>1, <3>1, <1>w DEF Subscribing_St, Dispatch, ToOperational, envVars
  <2>2. CASE Head(q).sig = "SubscribeConnectivity"
    BY <1>5, <2>2, <1>i DEF Subscribing_St, Dispatch, Tables, workerVars, envVars
  <2> QED BY <1>5, <2>1, <2>2, <1>g DEF Subscribing_St, Dispatch
<1>6. CASE SubscribingEntered
  <2>1. Plain("AllSubAcked") \in Event /\ Plain("AllSubAcked") # Fence
    BY EventKinds DEF Plain, Fence, Drain
  <2> QED BY <1>6, <2>1, <1>p, Zenon DEF SubscribingEntered, envVars
<1>7. CASE Operational_St
  <2>1. q # <<>> /\ st = "Operational" /\ Head(q).sig # "Stop"
    BY <1>7 DEF Operational_St, Dispatch
  <2>2. Consume /\ Fixed /\ UNCHANGED <<st, deferred>>
    BY <1>7, Zenon DEF Operational_St, doSendRequest_, FailFast, doPublishOneway_, Complete,
         EvtRecvRsp, EvtRecvInd, RspTimeout, Ignore, Tables, workerVars, envVars
  <2> QED BY <2>1, <2>2, <1>i
<1>8. CASE Backoff_St
  BY <1>8, <1>o, <1>i, <1>s, <1>g DEF Backoff_St, Dispatch, Ignore, workerVars, envVars
<1>9. CASE ShuttingDown_St
  <2>1. q # <<>> /\ st = "ShuttingDown" /\ deferred = <<>> /\ q' = Tail(q)
        /\ UNCHANGED <<st, deferred, running>>
    BY <1>9 DEF ShuttingDown_St, Dispatch, HandleDrain, Discard, Consume, workerVars, Stopping
  <2>2. CASE Head(q) = Fence
    <3>1. Fence \notin Image(q')
      BY <2>1, <2>2, <1>d, FenceTail DEF Stopping
    <3>2. Fence \in Image(q)
      BY <2>1, <2>2, <1>d, ImageTail
    <3>3. stopper = "draining" /\ running
      BY <3>2 DEF Stopping
    <3>4. stopper' = "fenced"
      BY <1>9, <2>2, <1>l, Zenon DEF ShuttingDown_St, Dispatch, HandleDrain, Fulfil
    <3> QED BY <2>1, <3>1, <3>3, <3>4, <1>k DEF Stopping, Consume
  <2>3. CASE Head(q) # Fence
    <3>1. stopper' = stopper
      BY <1>9, <2>1, <2>3, HeadFields, EventFields, Zenon
      DEF ShuttingDown_St, Dispatch, HandleDrain, Fulfil, Discard, envVars, Fence
    <3> QED BY <2>1, <3>1, <1>z DEF Consume
  <2> QED BY <2>2, <2>3, Zenon
<1>10. CASE top
  <2>1. q # <<>> /\ st # "ShuttingDown" /\ Head(q).sig # "Stop"
    BY <1>10 DEF top, Dispatch, Handled, States
  <2> QED BY <1>10, <2>1, <1>i DEF top, Discard, workerVars, envVars
<1>11. CASE start
  <2>1. CASE start_at
    <3>1. q = <<>> /\ q' = <<>>
      BY <2>1 DEF start_at, Stopping
    <3>2. Image(<<>>) = {} /\ AtMostOneFence(<<>>) /\ FenceBehindStop(<<>>)
      BY DEF Image, AtMostOneFence, FenceBehindStop
    <3> QED BY <1>11, <2>1, <3>1, <3>2 DEF start, start_at, Stopping
  <2>2. CASE StartPost
    <3>1. Plain("Start") \in Event /\ Plain("Start") # Fence
      BY EventKinds, Zenon DEF Plain, Fence, Drain
    <3> QED BY <1>11, <2>2, <3>1, <1>p DEF start, StartPost, Post
  <2> QED BY <1>11, <2>1, <2>2 DEF start
<1>12. CASE stop
  <2>1. CASE StopPost
    <3>1. Plain("Stop") \in Event /\ Plain("Stop") # Fence
      BY EventKinds, Zenon DEF Plain, Fence, Drain
    <3>2. q' = Append(q, Plain("Stop")) /\ Image(q') = Image(q) \cup {Plain("Stop")}
      BY <2>1, <3>1, <1>d, ImageAppend DEF StopPost, Post, post_fifo
    <3>3. AtMostOneFence(q') /\ (FenceBehindStop(q) => FenceBehindStop(q'))
      BY <3>1, <3>2, <1>d, FenceAppend, Zenon DEF Stopping
    <3> QED BY <1>12, <2>1, <3>1, <3>2, <3>3 DEF stop, StopPost, workerVars, Stopping
  <2>2. CASE StopDrain
    <3>1. Fence \in Event /\ running /\ Fence \notin Image(q)
          /\ (st = "ShuttingDown" \/ Plain("Stop") \in Image(q))
      BY <2>2, EventKinds DEF Fence, StopDrain, Stopping
    <3>2. q' = Append(q, Fence) /\ Image(q') = Image(q) \cup {Fence}
      BY <2>2, <3>1, <1>d, ImageAppend DEF StopDrain, Post, post_fifo, Fence
    <3>3. AtMostOneFence(q') /\ (st = "ShuttingDown" \/ FenceBehindStop(q'))
      BY <3>1, <3>2, <1>d, FenceAppend DEF Stopping
    <3> QED BY <1>12, <2>2, <3>1, <3>2, <3>3 DEF stop, StopDrain, workerVars, Stopping
  <2>3. CASE StopClear
    BY <1>12, <2>3 DEF stop, StopClear, workerVars, Stopping
  <2>4. CASE StopJoin
    BY <1>12, <2>4 DEF stop, StopJoin, workerVars, Stopping
  <2> QED BY <1>12, <2>1, <2>2, <2>3, <2>4, Zenon DEF stop
<1>13. ASSUME NEW r \in Reqs, send_request(r) PROVE Stopping'
  <2>1. SendReq(r) \in Event /\ SendReq(r) # Fence
    BY EventKinds, Zenon DEF SendReq, Fence, Drain
  <2> QED BY <1>13, <2>1, <1>p, Zenon DEF send_request, Post, workerVars
<1>14. ASSUME NEW o \in Oneways, publish_oneway(o) PROVE Stopping'
  <2>1. Oneway(o) \in Event /\ Oneway(o) # Fence
    BY EventKinds, Zenon DEF Oneway, Fence, Drain
  <2> QED BY <1>14, <2>1, <1>p DEF publish_oneway, Post, workerVars, envVars
<1>15. ASSUME NEW m \in Managers, Manager(m) PROVE Stopping'
  <2>1. /\ \A s \in SubSignals : Sub(s, m) \in Event /\ Sub(s, m) # Fence
        /\ Drain(m) \in Event /\ Drain(m) # Fence
    BY EventKinds, ConstantsAssumption, Zenon DEF Sub, Fence, Drain, SubSignals
  <2>2. \E e \in Event : e # Fence /\ post_fifo(e)
    BY <1>15, <2>1 DEF Manager, Advance, drain, Post, SubSignals
  <2> QED BY <1>15, <2>2, <1>p DEF Manager, workerVars
<1>16. ASSUME NEW r \in Reqs, DeadlinePasses(r) PROVE Stopping'
  BY <1>16, <1>u DEF DeadlinePasses, workerVars
<1>17. ASSUME NEW r \in Reqs, TimerTaken(r) PROVE Stopping'
  BY <1>17, <1>u DEF TimerTaken, workerVars, envVars
<1>18. ASSUME NEW r \in Reqs, TimerFires(r) PROVE Stopping'
  <2>1. Timeout(r) \in Event /\ Timeout(r) # Fence
    BY EventKinds, Zenon DEF Timeout, Fence, Drain
  <2> QED BY <1>18, <2>1, <1>p DEF TimerFires, Post, workerVars, envVars
<1>19. ASSUME NEW t \in Topics, onRetained(t) PROVE Stopping'
  <2>1. Ind(t, "valid") \in Event /\ Ind(t, "valid") # Fence
    BY EventKinds, Zenon DEF Ind, Bodies, Fence, Drain
  <2> QED BY <1>19, <2>1, <1>p DEF onRetained, Post, workerVars, envVars
<1>20. ASSUME NEW e \in Messages, onMessage_(e) PROVE Stopping'
  <2>1. e \in Event /\ e # Fence
    BY <1>l, Zenon DEF Messages, Bodies, Event
  <2> QED BY <1>20, <2>1, <1>p, Zenon DEF onMessage_, Post, workerVars
<1>21. CASE ConnectTimer
  <2>1. Plain("ConnectTimeout") \in Event /\ Plain("ConnectTimeout") # Fence
    BY EventKinds DEF Plain, Fence, Drain
  <2> QED BY <1>21, <2>1, <1>p, <1>u, Zenon DEF ConnectTimer, Post, workerVars, envVars
<1>22. CASE onConnect_
  <2>1. LinkUp(TRUE) \in Event /\ LinkUp(TRUE) # Fence
    BY EventKinds, Zenon DEF LinkUp, Fence, Drain
  <2> QED BY <1>22, <2>1, <1>p, Zenon DEF onConnect_, Post, workerVars, envVars
<1>23. CASE Refused
  <2>1. LinkUp(FALSE) \in Event /\ LinkUp(FALSE) # Fence
    BY EventKinds, Zenon DEF LinkUp, Fence, Drain
  <2> DEFINE s == Append(q, LinkUp(FALSE))
  <2>2. /\ s \in Seq(Event) /\ Image(s) = Image(q) \cup {LinkUp(FALSE)}
        /\ AtMostOneFence(s) /\ (FenceBehindStop(q) => FenceBehindStop(s))
    BY <2>1, <1>d, AppendFacts, ImageAppend, FenceAppend, Zenon DEF Stopping
  <2>3. UNCHANGED <<running, stopper, st, deferred>>
    BY <1>23 DEF Refused, workerVars
  <2>4. CASE ~running
    BY <1>23, <2>3, <2>4, <1>u DEF Refused
  <2>5. CASE running
    <3>1. q' = Append(s, Plain("LinkDown"))
      BY <1>23, <2>5, Zenon DEF Refused
    <3> HIDE DEF s
    <3>2. /\ Image(q') = Image(s) \cup {Plain("LinkDown")}
          /\ AtMostOneFence(q') /\ (FenceBehindStop(q) => FenceBehindStop(q'))
      BY <3>1, <2>2, <1>l, ImageAppend, FenceAppend, Zenon
    <3> QED BY <3>2, <2>1, <2>2, <2>3, <2>5, <1>l, Zenon DEF Stopping
  <2> QED BY <2>4, <2>5 DEF TypeOK
<1>24. CASE onDisconnect_
  BY <1>24, <1>l, <1>p DEF onDisconnect_, Post, workerVars
<1>25. CASE UNCHANGED vars
  BY <1>25, <1>u DEF vars, workerVars, envVars
<1> QED
  BY <1>1, <1>2, <1>3, <1>4, <1>5, <1>6, <1>7, <1>8, <1>9, <1>10, <1>11, <1>12, <1>13,
     <1>14, <1>15, <1>16, <1>17, <1>18, <1>19, <1>20, <1>21, <1>22, <1>23, <1>24, <1>25
  DEF Next, Worker, Timers, Network, Clients

\* Every step keeps a timer or a queued timeout behind each RPC in flight.
LEMMA TimedStep ==
    ASSUME TypeOK, Stopping, InFlightIsTimed, [Next]_vars
    PROVE  InFlightIsTimed'
<1>d. q \in Seq(Event) /\ deferred \in Seq(Event) /\ inFlight \subseteq Reqs
      /\ rspTimer \in [Reqs -> {"off", "armed", "firing"}]
  BY DEF TypeOK
<1>a. ASSUME NEW e \in Event, post_fifo(e)
      PROVE  Image(q) \subseteq Image(q') /\ (running => e \in Image(q'))
  BY <1>a, <1>d, ImageAppend DEF post_fifo
<1>k. q # <<>> /\ Consume => Image(q) \subseteq Image(q') \cup {Head(q)}
  BY <1>d, ImageTail DEF Consume
<1>e. inFlight' = {} => InFlightIsTimed'
  BY DEF InFlightIsTimed
<1>n. st # "Operational" /\ inFlight' = inFlight => InFlightIsTimed'
  BY DEF InFlightIsTimed
<1>p. Image(q) \subseteq Image(q') /\ UNCHANGED <<st, inFlight, rspTimer>> => InFlightIsTimed'
  BY DEF InFlightIsTimed
<1>f. inFlight # {} => running
  BY DEF InFlightIsTimed, Stopping, TypeOK
<1>i. q # <<>> /\ Consume /\ UNCHANGED <<st, inFlight, rspTimer>>
         /\ (\A r \in inFlight : Head(q) # Timeout(r)) => InFlightIsTimed'
  BY <1>k DEF InFlightIsTimed
<1>t. \A r : Timeout(r).sig = "RspTimeout" /\ Timeout(r).req = r
  BY DEF Timeout
<1>1. CASE NotOperational_St
  BY <1>1, <1>n, Zenon DEF NotOperational_St, NotOperational, Dispatch, Tables, HandleDrain, rpcVars
<1>b. ToBackoff \/ ToShuttingDown => InFlightIsTimed'
  BY <1>e, Zenon DEF ToBackoff, ToShuttingDown, TearDown, failAllInFlight_
<1>2. CASE Disconnected_St
  <2>1. CASE ToShuttingDown
    BY <2>1, <1>b
  <2>2. CASE ~ToShuttingDown
    BY <1>2, <2>2, <1>n DEF Disconnected_St, Dispatch, ToConnecting, FailFast, rpcVars
  <2> QED BY <2>1, <2>2
<1>3. CASE Connecting_St
  <2>1. CASE ToShuttingDown \/ ToBackoff
    BY <2>1, <1>b
  <2>2. CASE ~(ToShuttingDown \/ ToBackoff)
    BY <1>3, <2>2, <1>n DEF Connecting_St, Dispatch, ToConnected, Defer, rpcVars
  <2> QED BY <2>1, <2>2
<1>4. CASE Connected_St
  <2>1. CASE ToShuttingDown \/ ToBackoff
    BY <2>1, <1>b
  <2>2. CASE ~(ToShuttingDown \/ ToBackoff)
    <3>1. q # <<>> /\ Consume /\ UNCHANGED <<st, inFlight, rspTimer>>
          /\ Head(q).sig # "RspTimeout"
      BY <1>4, <2>2, Zenon
      DEF Connected_St, Dispatch, Tables, HandleDrain, workerVars, rpcVars, SubSignals
    <3> QED BY <3>1, <1>i, <1>t
  <2> QED BY <2>1, <2>2
<1>5. CASE Subscribing_St
  BY <1>5, <1>n DEF Subscribing_St, Dispatch, ToOperational, Tables, Defer, rpcVars
<1>6. CASE SubscribingEntered
  <2>1. Plain("AllSubAcked") \in Event
    BY EventKinds
  <2> QED BY <1>6, <2>1, <1>a, <1>p DEF SubscribingEntered, rpcVars
<1>7. CASE Operational_St
  <2>0. q # <<>> /\ st = "Operational"
    BY <1>7 DEF Operational_St, Dispatch
  <2>1. ASSUME Head(q).sig # "RspTimeout", Consume, UNCHANGED <<st, inFlight, rspTimer>>
        PROVE  InFlightIsTimed'
    BY <2>0, <2>1, <1>i, <1>t
  <2>2. ASSUME Head(q).sig = "SendReq", doSendRequest_(Head(q).req) PROVE InFlightIsTimed'
    <3>1. CASE FailFast(Head(q).req)
      BY <2>1, <2>2, <3>1 DEF FailFast, workerVars
    <3>2. CASE ~FailFast(Head(q).req)
      <4>1. /\ Consume /\ inFlight' = inFlight \cup {Head(q).req} /\ st' = st
            /\ rspTimer' = [rspTimer EXCEPT ![Head(q).req] = "armed"]
        BY <2>2, <3>2, Zenon DEF doSendRequest_, workerVars
      <4>2. Head(q).req \in Reqs /\ rspTimer'[Head(q).req] = "armed"
            /\ \A r \in Reqs : r # Head(q).req => rspTimer'[r] = rspTimer[r]
        BY <2>0, <2>2, <4>1, <1>d, HeadFields, Zenon
      <4>3. \A r \in inFlight : Timeout(r) \in Image(q) => Timeout(r) \in Image(q')
        BY <4>1, <2>0, <2>2, <1>k, <1>t, Zenon
      <4> QED BY <4>1, <4>2, <4>3, <2>0, <1>d, Zenon DEF InFlightIsTimed
    <3> QED BY <3>1, <3>2, Zenon
  <2>3. ASSUME Head(q).sig = "PublishOneway", doPublishOneway_(Head(q).msg)
        PROVE  InFlightIsTimed'
    BY <2>1, <2>3 DEF doPublishOneway_, workerVars, rpcVars
  <2>4. ASSUME Head(q).sig \in {"Rsp", "Ind"}, Ignore PROVE InFlightIsTimed'
    BY <2>1, <2>4 DEF Ignore, workerVars, rpcVars
  <2>5. ASSUME Head(q).sig = "Rsp", EvtRecvRsp(Head(q)) PROVE InFlightIsTimed'
    <3>1. CASE Ignore
      BY <2>4, <2>5, <3>1, Zenon
    <3>2. CASE ~Ignore
      <4>1. /\ Consume /\ inFlight' = inFlight \ {Head(q).req} /\ st' = st
            /\ rspTimer' = [rspTimer EXCEPT ![Head(q).req] = Cancel(@)]
        BY <2>5, <3>2 DEF EvtRecvRsp, Complete, workerVars
      <4>2. \A r \in Reqs : r # Head(q).req => rspTimer'[r] = rspTimer[r]
        BY <4>1, <1>d
      <4>3. \A r \in inFlight : Timeout(r) \in Image(q) => Timeout(r) \in Image(q')
        BY <4>1, <2>0, <2>5, <1>k, <1>t
      <4> QED BY <4>1, <4>2, <4>3, <2>0, <1>d, Zenon DEF InFlightIsTimed
    <3> QED BY <3>1, <3>2
  <2>6. ASSUME Head(q).sig = "Ind", EvtRecvInd(Head(q)) PROVE InFlightIsTimed'
    <3>1. Consume /\ UNCHANGED <<st, inFlight, rspTimer>>
      BY <2>6 DEF EvtRecvInd, Ignore, workerVars, rpcVars
    <3> QED BY <2>1, <2>6, <3>1, Zenon
  <2>7. ASSUME Head(q).sig = "RspTimeout", RspTimeout(Head(q).req) PROVE InFlightIsTimed'
    <3>1. /\ Consume /\ inFlight' = inFlight \ {Head(q).req} /\ st' = st
          /\ rspTimer' = rspTimer
      BY <2>7 DEF RspTimeout, Complete, Ignore, workerVars, rpcVars
    <3>2. \A r \in inFlight' : Timeout(r) \in Image(q) => Timeout(r) \in Image(q')
      BY <3>1, <2>0, <1>k, <1>t
    <3> QED BY <3>1, <3>2, <2>0, <1>d DEF InFlightIsTimed
  <2>8. ASSUME Head(q).sig = "SubscribeConnectivity", Tables PROVE InFlightIsTimed'
    BY <2>1, <2>8, Zenon DEF Tables, workerVars, rpcVars
  <2> QED BY <1>7, <2>2, <2>3, <2>5, <2>6, <2>7, <2>8, Zenon DEF Operational_St, Dispatch
<1>8. CASE Backoff_St
  <2>1. CASE ToShuttingDown
    BY <2>1, <1>b
  <2>2. CASE ~ToShuttingDown
    BY <1>8, <2>2, <1>n DEF Backoff_St, Dispatch, ToConnected, Defer, Ignore, rpcVars
  <2> QED BY <2>1, <2>2
<1>9. CASE ShuttingDown_St
  BY <1>9, <1>n, Zenon DEF ShuttingDown_St, Dispatch, HandleDrain, Discard, rpcVars
<1>10. CASE top
  <2>1. CASE st = "Operational"
    <3>1. q # <<>> /\ Consume /\ UNCHANGED <<st, inFlight, rspTimer>>
          /\ Head(q).sig # "RspTimeout"
      BY <1>10, <2>1 DEF top, Dispatch, Handled, Discard, workerVars
    <3> QED BY <3>1, <1>i, <1>t
  <2>2. CASE st # "Operational"
    BY <1>10, <2>2, <1>n DEF top, Discard
  <2> QED BY <2>1, <2>2
<1>11. CASE start
  <2>1. CASE start_at
    BY <1>11, <2>1, <1>e, <1>f, Zenon DEF start, start_at, rpcVars
  <2>2. CASE StartPost
    BY <1>11, <2>2, <1>a, <1>p, EventKinds DEF start, StartPost, Post, rpcVars
  <2> QED BY <1>11, <2>1, <2>2 DEF start
<1>12. CASE stop
  <2>1. Plain("Stop") \in Event /\ Drain(NoManager) \in Event
    BY EventKinds
  <2>2. Image(q) \subseteq Image(q')
    BY <1>12, <2>1, <1>a DEF stop, StopPost, StopDrain, StopClear, StopJoin, Post
  <2> QED BY <1>12, <2>2, <1>p DEF stop, workerVars, rpcVars
<1>13. ASSUME NEW r \in Reqs, send_request(r) PROVE InFlightIsTimed'
  BY <1>13, <1>a, <1>p, EventKinds, Zenon DEF send_request, Post, workerVars
<1>14. ASSUME NEW o \in Oneways, publish_oneway(o) PROVE InFlightIsTimed'
  BY <1>14, <1>a, <1>p, EventKinds, Zenon DEF publish_oneway, Post, workerVars, rpcVars
<1>15. ASSUME NEW m \in Managers, Manager(m) PROVE InFlightIsTimed'
  <2>1. \E e \in Event : post_fifo(e)
    BY <1>15, EventKinds DEF Manager, Advance, drain, Post, SubSignals
  <2> QED BY <1>15, <2>1, <1>a, <1>p, Zenon DEF Manager, workerVars, rpcVars
<1>16. ASSUME NEW r \in Reqs, DeadlinePasses(r) PROVE InFlightIsTimed'
  BY <1>16, <1>p DEF DeadlinePasses, workerVars, rpcVars
<1>17. ASSUME NEW r \in Reqs, TimerTaken(r) PROVE InFlightIsTimed'
  <2>1. UNCHANGED <<q, st, inFlight>> /\ rspTimer' = [rspTimer EXCEPT ![r] = "firing"]
    BY <1>17 DEF TimerTaken, workerVars
  <2>2. \A x \in Reqs : rspTimer'[x] = IF x = r THEN "firing" ELSE rspTimer[x]
    BY <2>1, <1>d
  <2> QED BY <2>1, <2>2, <1>d DEF InFlightIsTimed
<1>18. ASSUME NEW r \in Reqs, TimerFires(r) PROVE InFlightIsTimed'
  <2>1. /\ UNCHANGED <<st, inFlight>> /\ rspTimer' = [rspTimer EXCEPT ![r] = "off"]
        /\ post_fifo(Timeout(r)) /\ Timeout(r) \in Event
    BY <1>18, EventKinds DEF TimerFires, Post, workerVars
  <2>2. \A x \in Reqs : rspTimer'[x] = IF x = r THEN "off" ELSE rspTimer[x]
    BY <2>1, <1>d
  <2>3. Image(q) \subseteq Image(q') /\ (inFlight # {} => Timeout(r) \in Image(q'))
    BY <2>1, <1>a, <1>f
  <2> QED BY <2>1, <2>2, <2>3, <1>d DEF InFlightIsTimed
<1>19. ASSUME NEW t \in Topics, onRetained(t) PROVE InFlightIsTimed'
  BY <1>19, <1>a, <1>p, EventKinds DEF onRetained, Post, Bodies, workerVars, rpcVars
<1>20. ASSUME NEW e \in Messages, onMessage_(e) PROVE InFlightIsTimed'
  <2>1. e \in Event
    BY Zenon DEF Messages, Bodies, Event
  <2> QED BY <1>20, <2>1, <1>a, <1>p, Zenon DEF onMessage_, Post, workerVars, rpcVars
<1>21. CASE ConnectTimer
  <2>1. Image(q) \subseteq Image(q')
    BY <1>21, <1>a, EventKinds DEF ConnectTimer, Post
  <2> QED BY <1>21, <2>1, <1>p DEF ConnectTimer, workerVars, rpcVars
<1>22. CASE onConnect_
  BY <1>22, <1>a, <1>p, EventKinds, Zenon DEF onConnect_, Post, workerVars, rpcVars
<1>23. CASE Refused
  <2>1. LinkUp(FALSE) \in Event /\ Plain("LinkDown") \in Event
        /\ Append(q, LinkUp(FALSE)) \in Seq(Event)
    BY <1>d, EventKinds, AppendFacts, Zenon
  <2>2. /\ Image(q) \subseteq Image(Append(q, LinkUp(FALSE)))
        /\ Image(Append(q, LinkUp(FALSE)))
              \subseteq Image(Append(Append(q, LinkUp(FALSE)), Plain("LinkDown")))
    BY <2>1, <1>d, ImageAppend, Zenon
  <2>3. Image(q) \subseteq Image(q')
    BY <1>23, <2>2, Zenon DEF Refused
  <2> QED BY <1>23, <2>3, <1>p, Zenon DEF Refused, workerVars, rpcVars
<1>24. CASE onDisconnect_
  BY <1>24, <1>a, <1>p, EventKinds DEF onDisconnect_, Post, workerVars, rpcVars
<1>25. CASE UNCHANGED vars
  BY <1>25, <1>p DEF vars, workerVars, rpcVars
<1> QED
  BY <1>1, <1>2, <1>3, <1>4, <1>5, <1>6, <1>7, <1>8, <1>9, <1>10, <1>11, <1>12, <1>13,
     <1>14, <1>15, <1>16, <1>17, <1>18, <1>19, <1>20, <1>21, <1>22, <1>23, <1>24, <1>25
  DEF Next, Worker, Timers, Network, Clients

\* A valid response addressed to us that waits in the queue was delivered.
RepliesQueued ==
    \A e \in Image(q) : e.sig = "Rsp" /\ e.ours /\ e.body = "valid" => e.req \in replied

\* Every step keeps answered RPCs, and replies in the queue, among those
\* delivered to us.
LEMMA RepliesStep ==
    ASSUME TypeOK, Stopping, OnlyOurReplies, RepliesQueued, [Next]_vars
    PROVE  OnlyOurReplies' /\ RepliesQueued'
<1> DEFINE Goal == OnlyOurReplies' /\ RepliesQueued'
           Same == UNCHANGED <<answered, replied>>
<1>d. q \in Seq(Event) /\ deferred \in Seq(Event)
  BY DEF TypeOK
<1>l. /\ \A s \in {"Start", "Stop", "LinkDown", "ConnectTimeout", "AllSubAcked"} :
            Plain(s) \in Event /\ Plain(s).sig # "Rsp"
      /\ \A b \in BOOLEAN : LinkUp(b) \in Event /\ LinkUp(b).sig # "Rsp"
      /\ \A r \in Reqs : /\ SendReq(r) \in Event /\ SendReq(r).sig # "Rsp"
                         /\ Timeout(r) \in Event /\ Timeout(r).sig # "Rsp"
      /\ \A o \in Oneways : Oneway(o) \in Event /\ Oneway(o).sig # "Rsp"
      /\ \A s \in SubSignals, m \in Managers : Sub(s, m) \in Event /\ Sub(s, m).sig # "Rsp"
      /\ \A m \in Managers \cup {NoManager} : Drain(m) \in Event /\ Drain(m).sig # "Rsp"
      /\ \A t \in Topics : Ind(t, "valid") \in Event /\ Ind(t, "valid").sig # "Rsp"
  BY EventKinds, Zenon DEF Plain, LinkUp, SendReq, Timeout, Oneway, Sub, Drain, Ind, SubSignals, Bodies
<1>c. ASSUME \A e \in Image(q') : e \in Image(q) \/ e.sig # "Rsp", Same PROVE Goal
  BY <1>c DEF OnlyOurReplies, RepliesQueued
<1>a. ASSUME NEW e \in Event, e.sig # "Rsp", post_fifo(e), Same PROVE Goal
  BY <1>a, <1>c, <1>d, ImageAppend DEF post_fifo
<1>t. q # <<>> => Tail(q) \in Seq(Event) /\ Image(q) = Image(Tail(q)) \cup {Head(q)}
  BY <1>d, TailFacts, ImageTail
<1>k. q # <<>> /\ Consume /\ Same => Goal
  BY <1>t, <1>c DEF Consume
<1>n. q # <<>> /\ q' = Append(Tail(q), Plain("LinkDown")) /\ Same => Goal
  <2> SUFFICES ASSUME q # <<>>, q' = Append(Tail(q), Plain("LinkDown")), Same PROVE Goal
    OBVIOUS
  <2>1. Image(q') = Image(Tail(q)) \cup {Plain("LinkDown")} /\ Plain("LinkDown").sig # "Rsp"
    BY <1>t, <1>l, ImageAppend, Zenon
  <2> QED BY <2>1, <1>t, <1>c
<1>u. UNCHANGED <<q, answered, replied>> => Goal
  BY <1>c
<1>b. q # <<>> /\ (ToBackoff \/ ToShuttingDown) => Goal
  BY <1>k, <1>n, Zenon DEF ToBackoff, ToShuttingDown, TearDown, failAllInFlight_, envVars
<1>1. CASE NotOperational_St
  BY <1>1, <1>k, Zenon DEF NotOperational_St, Dispatch, Tables, HandleDrain, rpcVars, envVars
<1>2. CASE Disconnected_St
  BY <1>2, <1>k, <1>n, <1>b, Zenon
  DEF Disconnected_St, Dispatch, ToConnecting, FailFast, rpcVars, envVars
<1>3. CASE Connecting_St
  BY <1>3, <1>k, <1>b DEF Connecting_St, Dispatch, ToConnected, Defer, rpcVars, envVars
<1>4. CASE Connected_St
  BY <1>4, <1>k, <1>b, Zenon DEF Connected_St, Dispatch, Tables, HandleDrain, rpcVars, envVars
<1>5. CASE Subscribing_St
  <2>1. CASE Head(q).sig = "AllSubAcked"
    <3>1. q # <<>> /\ q' = Tail(q) \o deferred /\ Same
      BY <1>5, <2>1 DEF Subscribing_St, Dispatch, ToOperational, rpcVars, envVars
    <3>2. Image(q') = Image(Tail(q)) \cup Image(deferred)
      BY <3>1, <1>t, <1>d, ImageConcat, Zenon
    <3>3. \A e \in Image(deferred) : e.sig # "Rsp"
      BY Zenon DEF Stopping
    <3> QED BY <3>1, <3>2, <3>3, <1>t, <1>c
  <2>2. CASE Head(q).sig # "AllSubAcked"
    BY <1>5, <2>2, <1>k, Zenon DEF Subscribing_St, Dispatch, Tables, Defer, rpcVars, envVars
  <2> QED BY <2>1, <2>2
<1>6. CASE SubscribingEntered
  BY <1>6, <1>a, <1>l DEF SubscribingEntered, rpcVars, envVars
<1>7. CASE Operational_St
  <2>0. q # <<>> /\ Head(q) \in Image(q)
    BY <1>7, <1>t DEF Operational_St, Dispatch
  <2>1. ASSUME Head(q).sig = "Rsp", EvtRecvRsp(Head(q)) PROVE Goal
    <3>1. CASE Ignore
      BY <2>0, <3>1, <1>k, Zenon DEF Ignore, rpcVars, envVars
    <3>2. CASE ~Ignore
      <4>1. /\ Head(q).ours /\ Consume /\ replied' = replied
            /\ answered' = IF Head(q).body = "valid" THEN answered \cup {Head(q).req}
                                                     ELSE answered
        BY <2>1, <3>2, Zenon DEF EvtRecvRsp, Complete, envVars
      <4>2. answered' \subseteq replied
        BY <2>0, <2>1, <4>1 DEF OnlyOurReplies, RepliesQueued
      <4>3. Image(q') \subseteq Image(q)
        BY <2>0, <4>1, <1>t DEF Consume
      <4> QED BY <4>1, <4>2, <4>3 DEF OnlyOurReplies, RepliesQueued
    <3> QED BY <3>1, <3>2
  <2>2. ASSUME ~(Head(q).sig = "Rsp" /\ EvtRecvRsp(Head(q))) PROVE Goal
    BY <1>7, <2>0, <2>2, <1>k, Zenon
    DEF Operational_St, Dispatch, doSendRequest_, FailFast, doPublishOneway_, Complete,
        EvtRecvInd, RspTimeout, Ignore, Tables, rpcVars, envVars
  <2> QED BY <2>1, <2>2
<1>8. CASE Backoff_St
  BY <1>8, <1>k, <1>b, Zenon DEF Backoff_St, Dispatch, ToConnected, Defer, Ignore, rpcVars, envVars
<1>9. CASE ShuttingDown_St
  BY <1>9, <1>k, Zenon DEF ShuttingDown_St, Dispatch, HandleDrain, Discard, rpcVars, envVars
<1>10. CASE top
  BY <1>10, <1>k, Zenon DEF top, Dispatch, Discard, envVars
<1>11. CASE start
  BY <1>11, <1>a, <1>u, <1>l, Zenon DEF start, start_at, StartPost, Post, rpcVars
<1>12. CASE stop
  BY <1>12, <1>a, <1>u, <1>l, Zenon DEF stop, StopPost, StopDrain, StopClear, StopJoin, Post, rpcVars
<1>13. ASSUME NEW r \in Reqs, send_request(r) PROVE Goal
  BY <1>13, <1>a, <1>l, Zenon DEF send_request, Post
<1>14. ASSUME NEW o \in Oneways, publish_oneway(o) PROVE Goal
  BY <1>14, <1>a, <1>l, Zenon DEF publish_oneway, Post, rpcVars, envVars
<1>15. ASSUME NEW m \in Managers, Manager(m) PROVE Goal
  BY <1>15, <1>a, <1>l, Zenon DEF Manager, Advance, drain, Post, SubSignals, rpcVars
<1>16. ASSUME NEW r \in Reqs, DeadlinePasses(r) \/ TimerTaken(r) PROVE Goal
  BY <1>16, <1>u, Zenon DEF DeadlinePasses, TimerTaken, rpcVars, envVars
<1>18. ASSUME NEW r \in Reqs, TimerFires(r) PROVE Goal
  BY <1>18, <1>a, <1>l DEF TimerFires, Post, envVars
<1>19. ASSUME NEW t \in Topics, onRetained(t) PROVE Goal
  BY <1>19, <1>a, <1>l, Zenon DEF onRetained, Post, rpcVars, envVars
<1>20. ASSUME NEW e \in Messages, onMessage_(e) PROVE Goal
  <2>1. /\ e \in Event /\ answered' = answered /\ replied \subseteq replied'
        /\ e.sig = "Rsp" /\ e.ours /\ e.body = "valid" => e.req \in replied'
        /\ post_fifo(e)
    BY <1>20, Zenon DEF onMessage_, Post, rpcVars, Messages, Bodies, Event
  <2>2. Image(q') \subseteq Image(q) \cup {e}
    BY <2>1, <1>d, ImageAppend DEF post_fifo
  <2> QED BY <2>1, <2>2 DEF OnlyOurReplies, RepliesQueued
<1>21. CASE ConnectTimer
  BY <1>21, <1>a, <1>u, <1>l, Zenon DEF ConnectTimer, Post, rpcVars, envVars
<1>22. CASE onConnect_
  BY <1>22, <1>a, <1>l, Zenon DEF onConnect_, Post, rpcVars, envVars
<1>23. CASE Refused
  <2>1. LinkUp(FALSE) \in Event /\ Plain("LinkDown") \in Event
        /\ Append(q, LinkUp(FALSE)) \in Seq(Event)
    BY <1>d, <1>l, AppendFacts, Zenon
  <2>2. /\ Image(Append(q, LinkUp(FALSE))) = Image(q) \cup {LinkUp(FALSE)}
        /\ Image(Append(Append(q, LinkUp(FALSE)), Plain("LinkDown")))
              = Image(Append(q, LinkUp(FALSE))) \cup {Plain("LinkDown")}
    BY <2>1, <1>d, ImageAppend, Zenon
  <2>3. Same /\ \A e \in Image(q') : e \in Image(q) \/ e.sig # "Rsp"
    BY <1>23, <2>2, <1>l, Zenon DEF Refused, rpcVars
  <2> QED BY <2>3, <1>c
<1>24. CASE onDisconnect_
  BY <1>24, <1>a, <1>l, Zenon DEF onDisconnect_, Post, rpcVars
<1>25. CASE UNCHANGED vars
  BY <1>25, <1>u DEF vars, rpcVars, envVars
<1> QED
  BY <1>1, <1>2, <1>3, <1>4, <1>5, <1>6, <1>7, <1>8, <1>9, <1>10, <1>11, <1>12, <1>13, Zenon,
     <1>14, <1>15, <1>16, <1>18, <1>19, <1>20, <1>21, <1>22, <1>23, <1>24, <1>25
  DEF Next, Worker, Timers, Network, Clients

Inv == TypeOK /\ Stopping /\ OneCustodian /\ InFlightIsTimed /\ OnlyOurReplies /\ RepliesQueued

\* The inductive invariant holds initially.
LEMMA InvInit == Init => Inv
<1> SUFFICES ASSUME Init PROVE Inv
  OBVIOUS
<1>1. TypeOK
  BY InitTypeOK
<1>2. Image(<<>>) = {} /\ AtMostOneFence(<<>>) /\ FenceBehindStop(<<>>)
  BY DEF Image, AtMostOneFence, FenceBehindStop
<1>3. Stopping
  BY <1>2 DEF Init, Stopping
<1>4. Called = {} /\ \A r \in Reqs : calls[r] <= 1
  BY DEF Init, Called
<1>5. OneCustodian
  BY <1>4, HeldEmpty, CustodySpelt, Zenon DEF Init, Custodied, Split
<1> QED BY <1>1, <1>2, <1>3, <1>5 DEF Init, Inv, InFlightIsTimed, OnlyOurReplies, RepliesQueued

\* The inductive invariant is preserved by every step.
LEMMA InvStep == Inv /\ [Next]_vars => Inv'
<1> SUFFICES ASSUME Inv, [Next]_vars PROVE Inv'
  OBVIOUS
<1>1. (~running /\ stopper # "joining") => q = <<>>
  BY DEF Inv, Stopping
<1> QED
  BY <1>1, TypeStep, StoppingStep, CustodySpelt, CustodyStep, TimedStep, RepliesStep DEF Inv

\* The inductive invariant of the RPC path and of stop() (ModemBridge.cpp) holds
\* in every reachable state.
THEOREM Invariance == Spec => []Inv
BY InvInit, InvStep, PTL DEF Spec

\* send_request to callback: for any number of RPCs an issued one is in exactly
\* one of the queue, the defer queue, in_flight_ and the discarded ones, or its
\* callback has run exactly once.
THEOREM CustodyHolds == Spec => []OneCustodian
<1>1. Inv => OneCustodian
  BY DEF Inv
<1> QED BY <1>1, Invariance, PTL

\* doSendRequest_, RspTimeout and failAllInFlight_: no RPC can sit in in_flight_
\* without a timer or a queued timeout that will end it.
THEOREM TimersHold == Spec => []InFlightIsTimed
<1>1. Inv => InFlightIsTimed
  BY DEF Inv
<1> QED BY <1>1, Invariance, PTL

\* The dest check of Operational_St: only replies addressed to this process
\* complete an RPC with an envelope.
THEOREM RepliesAreOurs == Spec => []OnlyOurReplies
<1>1. Inv => OnlyOurReplies
  BY DEF Inv
<1> QED BY <1>1, Invariance, PTL

\* stop(): past its fence both RPC tables are empty and a joined worker leaves an
\* empty queue, whatever other threads posted meanwhile.
THEOREM StopIsClean == Spec => []StopLeavesNothing
<1>1. Inv => StopLeavesNothing
  BY DEF Inv, Stopping, StopLeavesNothing, InFlightIsTimed
<1> QED BY <1>1, Invariance, PTL

=============================================================================
