----------------------------- MODULE DataProofs -----------------------------
(***************************************************************************)
(* Data calls, for any profiles, interface names, calls and disturbances:  *)
(* types, the modem's pool of names, its timers, and the freeing of the    *)
(* manager's slots.                                                        *)
(***************************************************************************)
EXTENDS DataCall, TLAPS

---------------------------------------------------------------------------
(* Queues of events *)

\* Taking the head of a queue, position by position.
LEMMA TailFacts ==
    ASSUME NEW S, NEW s \in Seq(S), s # <<>>
    PROVE  /\ Head(s) \in S /\ Tail(s) \in Seq(S)
           /\ Len(s) > 1 => Tail(s) # <<>>
           /\ Len(s) <= 1 => Tail(s) = <<>>
           /\ \A e \in Range(s) : e = Head(s) \/ e \in Range(Tail(s))
<1>1. /\ Head(s) \in S /\ Tail(s) \in Seq(S)
      /\ Len(Tail(s)) = Len(s) - 1 /\ Len(s) \in Nat /\ Len(s) > 0
      /\ Head(s) = s[1]
  OBVIOUS
<1>2. \A i \in DOMAIN s : i = 1 \/ (i - 1 \in DOMAIN Tail(s) /\ Tail(s)[i - 1] = s[i])
  OBVIOUS
<1>3. Len(s) <= 1 => Tail(s) = <<>>
  BY <1>1
<1>4. Len(s) > 1 => Tail(s) # <<>>
  BY <1>1
<1> QED BY <1>1, <1>2, <1>3, <1>4 DEF Range

\* Appending to a queue.
LEMMA AppendFacts ==
    ASSUME NEW S, NEW s \in Seq(S), NEW e \in S
    PROVE  /\ Append(s, e) \in Seq(S) /\ Append(s, e) # <<>>
           /\ Head(Append(s, e)) = IF s = <<>> THEN e ELSE Head(s)
           /\ e \in Range(Append(s, e)) /\ Range(s) \subseteq Range(Append(s, e))
<1>1. /\ Append(s, e) \in Seq(S) /\ Len(s) \in Nat
      /\ DOMAIN Append(s, e) = 1..(Len(s) + 1) /\ DOMAIN s = 1..Len(s)
      /\ Append(s, e)[Len(s) + 1] = e
      /\ \A i \in 1..Len(s) : Append(s, e)[i] = s[i]
  OBVIOUS
<1>2. Append(s, e) # <<>> /\ Head(Append(s, e)) = Append(s, e)[1]
  BY <1>1
<1>3. s = <<>> => Len(s) = 0
  OBVIOUS
<1>4. s # <<>> => Len(s) > 0 /\ Head(s) = s[1]
  OBVIOUS
<1>5. Head(Append(s, e)) = IF s = <<>> THEN e ELSE Head(s)
  BY <1>1, <1>2, <1>3, <1>4
<1>6. e \in Range(Append(s, e)) /\ Range(s) \subseteq Range(Append(s, e))
  BY <1>1 DEF Range
<1> QED BY <1>1, <1>2, <1>5, <1>6

\* Two queues joined.
LEMMA ConcatFacts ==
    ASSUME NEW S, NEW s \in Seq(S), NEW t \in Seq(S)
    PROVE  s \o t \in Seq(S) /\ Range(s) \subseteq Range(s \o t)
<1>1. /\ s \o t \in Seq(S) /\ Len(s) \in Nat /\ Len(t) \in Nat
      /\ DOMAIN (s \o t) = 1..(Len(s) + Len(t)) /\ DOMAIN s = 1..Len(s)
      /\ \A i \in 1..Len(s) : (s \o t)[i] = s[i]
  OBVIOUS
<1> QED BY <1>1 DEF Range

\* A queue without its last event.
LEMMA FrontFacts ==
    ASSUME NEW S, NEW s \in Seq(S), s # <<>>
    PROVE  /\ SubSeq(s, 1, Len(s) - 1) \in Seq(S)
           /\ \A e \in Range(s) : e = s[Len(s)] \/ e \in Range(SubSeq(s, 1, Len(s) - 1))
<1> DEFINE t == SubSeq(s, 1, Len(s) - 1)
<1>1. Len(s) \in Nat /\ Len(s) > 0 /\ DOMAIN s = 1..Len(s)
  OBVIOUS
<1>2. t \in Seq(S) /\ DOMAIN t = 1..(Len(s) - 1) /\ \A i \in 1..(Len(s) - 1) : t[i] = s[i]
  BY <1>1
<1>3. \A i \in DOMAIN s : i = Len(s) \/ (i \in DOMAIN t /\ t[i] = s[i])
  BY <1>1, <1>2
<1> QED BY <1>2, <1>3 DEF Range

---------------------------------------------------------------------------
(* The inductive invariant *)

Names == Wanted \cup {NoIfname}
AskKinds == Requests \cup {"ForceCallDrop", "NetworkRatChanged"}
Results == {"ok", "error", "up", "down", "none"}
Statuses == {"NONE", "CONNECTING", "CONNECTED", "DISCONNECTING", "NO_NET"}
TickKinds == {"Connect", "Disconnect"}

Ask == [k : AskKinds, p : Profiles, id : Nat, want : Names]
Tick == [k : TickKinds, p : Profiles]
Result == [k : {"Rsp"}, p : Profiles, id : Nat, result : Results]
Indication == [k : {"CallState"}, p : Profiles, status : Statuses]
Retained == [k : {"Readiness"}, ready : BOOLEAN]
ForModem == Ask \cup Tick
FromModem == Result \cup Indication \cup Retained
ForManager ==
    [k : {"StartDataCall", "StopDataCall"}, p : Profiles, call : Nat, want : Names]
    \cup Indication \cup Retained \cup [k : {"LinkDown"}]
    \cup [k : {"SessionFinished"}, p : Profiles]
ForSession ==
    [k : {"Start", "Bringup", "Teardown"}] \cup [k : {"Stop"}, call : Nat]
    \cup Result \cup Indication

SessionRecord ==
    [st : SessionStates, q : Seq(ForSession), deferred : Seq(ForSession), status : Statuses,
     alarm : {"none", "Bringup", "Teardown"}, want : Names, startCb : Nat, stopCb : Nat]

QueueTypes == fifo \in Seq(ForModem) /\ held \in Seq(Ask) /\ wire \in Seq(FromModem)
RpcTypes == lastId \in Nat /\ rpc \in [Profiles -> 0..lastId]
ModemTypes ==
    /\ modem \in {"Ready", "Stopping"}
    /\ call \in [Profiles -> {"none", "CONNECTING", "CONNECTED", "DISCONNECTING"}]
    /\ delay \in [Profiles -> TickKinds \cup {"none"}]
    /\ ifname = [p \in Profiles |-> ifname[p]]
ManagerTypes ==
    /\ mst \in {"NotReady", "Ready"} /\ mq \in Seq(ForManager) /\ calls \in Nat
    /\ \E p \in Profiles : erasing \subseteq {p}
SessionTypes == ses \in [Profiles -> SessionRecord]

\* The pool, and that exactly the sessions of the modem hold a name.
Pool ==
    /\ PoolMatchesCalls
    /\ \A p \in Profiles : call[p] = "none" <=> ifname[p] = NoIfname

Ticks(k, p) == [k |-> k, p |-> p] \in Range(fifo)

\* Which timer ends which passing state: a stray connect event does not end
\* DISCONNECTING.
Timed ==
    \A p \in Profiles :
        /\ call[p] = "CONNECTING" =>
               delay[p] # "none" \/ Ticks("Connect", p) \/ Ticks("Disconnect", p)
        /\ call[p] = "DISCONNECTING" => delay[p] = "Disconnect" \/ Ticks("Disconnect", p)

Inv ==
    /\ QueueTypes /\ RpcTypes /\ ModemTypes /\ ManagerTypes /\ SessionTypes
    /\ Pool /\ Timed /\ SlotFreed

---------------------------------------------------------------------------
(* Messages *)

LEMMA ForModemFields ==
    ASSUME NEW e \in ForModem
    PROVE  /\ e.k \in AskKinds \cup TickKinds /\ e.p \in Profiles
           /\ e.k \in AskKinds => e \in Ask /\ e.id \in Nat /\ e.want \in Names
BY DEF ForModem, Ask, Tick, AskKinds, TickKinds, Requests

LEMMA FromModemFields ==
    ASSUME NEW e \in FromModem
    PROVE  /\ e.k = "Rsp" => e \in Result /\ e.p \in Profiles /\ e.id \in Nat
           /\ e.k # "Rsp" => e \in Indication \cup Retained
BY DEF FromModem, Result, Indication, Retained

LEMMA ForManagerFields ==
    ASSUME NEW e \in ForManager
    PROVE  /\ e.k \in {"StartDataCall", "StopDataCall"} =>
                  e.p \in Profiles /\ e.call \in Nat /\ e.want \in Names
           /\ e.k = "CallState" => e \in Indication /\ e.p \in Profiles
           /\ e.k = "SessionFinished" =>
                  e.p \in Profiles /\ e = [k |-> "SessionFinished", p |-> e.p]
BY DEF ForManager, Indication, Retained

LEMMA ForSessionFields ==
    ASSUME NEW e \in ForSession
    PROVE  e.k = "Stop" => e.call \in Nat
BY DEF ForSession, Result, Indication

\* One-message sequences and what the modem publishes.
LEMMA Single == ASSUME NEW S, NEW e \in S PROVE <<e>> \in Seq(S)
OBVIOUS

LEMMA IndType ==
    ASSUME NEW p \in Profiles, NEW s \in Statuses
    PROVE  Ind(p, s) \in Seq(FromModem)
<1>1. CallState(p, s) \in FromModem
  BY DEF CallState, FromModem, Indication
<1>2. <<CallState(p, s)>> \in Seq(FromModem)
  BY <1>1, Single
<1> QED BY <1>2 DEF Ind

LEMMA ReplyType ==
    ASSUME QueueTypes, fifo # <<>>, Head(fifo).k \in AskKinds,
           NEW p \in Profiles, NEW r \in Results
    PROVE  <<Reply(p, r)>> \in Seq(FromModem)
<1>1. Head(fifo) \in ForModem
  BY TailFacts DEF QueueTypes
<1>2. Head(fifo).id \in Nat
  BY <1>1, ForModemFields
<1>3. Reply(p, r) \in FromModem
  BY <1>2 DEF Reply, Rsp, FromModem, Result
<1> QED BY <1>3, Single

LEMMA PublishType ==
    ASSUME QueueTypes, NEW ms \in Seq(FromModem), Publish(ms)
    PROVE  wire' \in Seq(FromModem)
<1>1. wire \o ms \in Seq(FromModem)
  BY ConcatFacts DEF QueueTypes
<1> QED BY <1>1 DEF Publish, QueueTypes

LEMMA PublishReply ==
    ASSUME QueueTypes, fifo # <<>>, Head(fifo).k \in AskKinds, NEW p \in Profiles,
           NEW r \in Results, NEW s \in Statuses,
           Publish(<<Reply(p, r)>>) \/ Publish(<<Reply(p, r)>> \o Ind(p, s))
    PROVE  wire' \in Seq(FromModem)
<1>1. <<Reply(p, r)>> \in Seq(FromModem)
  BY ReplyType
<1>2. Ind(p, s) \in Seq(FromModem)
  BY IndType
<1>3. <<Reply(p, r)>> \o Ind(p, s) \in Seq(FromModem)
  BY <1>1, <1>2, ConcatFacts
<1> QED BY <1>1, <1>3, PublishType, Zenon

\* The modem takes an event: only that event leaves its queue.
LEMMA TakesFacts ==
    ASSUME QueueTypes, NEW k, NEW p \in Profiles, Takes(k, p)
    PROVE  /\ fifo' \in Seq(ForModem) /\ modem = "Ready" /\ fifo # <<>>
           /\ Head(fifo).k = k /\ Head(fifo) \in ForModem
           /\ \A j \in TickKinds, r \in Profiles :
                  Ticks(j, r) /\ (j # k \/ r # p) => Ticks(j, r)'
<1>1. /\ fifo' = Tail(fifo) /\ fifo # <<>> /\ Head(fifo).k = k /\ Head(fifo).p = p
      /\ modem = "Ready" /\ fifo \in Seq(ForModem)
  BY DEF Takes, QueueTypes
<1>2. /\ Tail(fifo) \in Seq(ForModem) /\ Head(fifo) \in ForModem
      /\ \A e \in Range(fifo) : e = Head(fifo) \/ e \in Range(Tail(fifo))
  BY <1>1, TailFacts
<1>3. ASSUME NEW j \in TickKinds, NEW r \in Profiles, Ticks(j, r), j # k \/ r # p
      PROVE  Ticks(j, r)'
  <2>1. [k |-> j, p |-> r].k = j /\ [k |-> j, p |-> r].p = r
    OBVIOUS
  <2> QED BY <1>1, <1>2, <1>3, <2>1 DEF Ticks
<1> QED BY <1>1, <1>2, <1>3

---------------------------------------------------------------------------
(* The modem *)

ModemSide ==
    fifo \in Seq(ForModem) /\ wire \in Seq(FromModem) /\ ModemTypes /\ Pool /\ Timed

\* A handler for profile p leaves the timers of the other profiles alone.
LEMMA TimedFrame ==
    ASSUME Timed, NEW p \in Profiles,
           \A r \in Profiles \ {p} :
               /\ call'[r] = call[r] /\ delay'[r] = delay[r]
               /\ \A j \in TickKinds : Ticks(j, r) => Ticks(j, r)',
           call'[p] = "CONNECTING" =>
               delay'[p] # "none" \/ Ticks("Connect", p)' \/ Ticks("Disconnect", p)',
           call'[p] = "DISCONNECTING" => delay'[p] = "Disconnect" \/ Ticks("Disconnect", p)'
    PROVE  Timed'
<1> SUFFICES ASSUME NEW r \in Profiles
             PROVE  /\ call'[r] = "CONNECTING" =>
                           delay'[r] # "none" \/ Ticks("Connect", r)' \/ Ticks("Disconnect", r)'
                    /\ call'[r] = "DISCONNECTING" =>
                           delay'[r] = "Disconnect" \/ Ticks("Disconnect", r)'
  BY DEF Timed
<1>1. CASE r = p
  BY <1>1
<1>2. CASE r # p
  BY <1>2 DEF Timed, TickKinds
<1> QED BY <1>1, <1>2

\* A step that neither creates nor forgets a session leaves the pool right.
LEMMA PoolFrame ==
    ASSUME Pool, UNCHANGED <<modem, ifname, inUse>>,
           \A p \in Profiles : call'[p] = "none" <=> call[p] = "none"
    PROVE  Pool'
<1>1. \A p \in Profiles : call'[p] # "none" <=> call[p] # "none"
  OBVIOUS
<1>2. {r \in Profiles : call'[r] # "none"} = {r \in Profiles : call[r] # "none"}
  BY <1>1
<1>3. PoolMatchesCalls'
  BY <1>1, <1>2 DEF Pool, PoolMatchesCalls
<1> QED BY <1>3 DEF Pool

LEMMA PoolForget ==
    ASSUME Pool, ModemTypes, modem = "Ready", UNCHANGED modem,
           NEW p \in Profiles, call[p] # "none", Forget(p)
    PROVE  Pool'
<1>1. /\ \A r \in Profiles \ {p} : call'[r] = call[r] /\ ifname'[r] = ifname[r]
      /\ call'[p] = "none" /\ ifname'[p] = NoIfname /\ inUse' = inUse \ {ifname[p]}
  BY DEF Forget, ModemTypes
<1>2. /\ inUse = {ifname[r] : r \in {x \in Profiles : call[x] # "none"}}
      /\ \A r, t \in Profiles : call[r] # "none" /\ ifname[r] = ifname[t] => r = t
      /\ \A r \in Profiles : call[r] = "none" <=> ifname[r] = NoIfname
  BY DEF Pool, PoolMatchesCalls
<1>3. inUse' = {ifname'[r] : r \in {x \in Profiles : call'[x] # "none"}}
  BY <1>1, <1>2
<1>4. \A r, t \in Profiles : call'[r] # "none" /\ ifname'[r] = ifname'[t] => r = t
  BY <1>1, <1>2
<1>5. \A r \in Profiles : call'[r] = "none" <=> ifname'[r] = NoIfname
  BY <1>1, <1>2
<1> QED BY <1>3, <1>4, <1>5 DEF Pool, PoolMatchesCalls

LEMMA PoolAdmit ==
    ASSUME Pool, ModemTypes, modem = "Ready", UNCHANGED modem,
           NEW p \in Profiles, NEW want, NEW n \in allocate(want), call[p] = "none", Admit(p, n)
    PROVE  Pool'
<1>1. /\ \A r \in Profiles \ {p} : call'[r] = call[r] /\ ifname'[r] = ifname[r]
      /\ call'[p] = "CONNECTING" /\ ifname'[p] = n /\ inUse' = inUse \cup {n}
  BY DEF Admit, ModemTypes
<1>2. /\ inUse = {ifname[r] : r \in {x \in Profiles : call[x] # "none"}}
      /\ \A r, t \in Profiles : call[r] # "none" /\ ifname[r] = ifname[t] => r = t
      /\ \A r \in Profiles : call[r] = "none" <=> ifname[r] = NoIfname
  BY DEF Pool, PoolMatchesCalls
<1>3. n \notin inUse /\ n # NoIfname
  BY IfnamesAssumption DEF allocate
<1>4. inUse' = {ifname'[r] : r \in {x \in Profiles : call'[x] # "none"}}
  BY <1>1, <1>2
<1>5. \A r \in Profiles \ {p} : ifname[r] # n
  BY <1>2, <1>3
<1>6. \A r, t \in Profiles : call'[r] # "none" /\ ifname'[r] = ifname'[t] => r = t
  BY <1>1, <1>2, <1>5
<1>7. \A r \in Profiles : call'[r] = "none" <=> ifname'[r] = NoIfname
  BY <1>1, <1>2, <1>3
<1> QED BY <1>4, <1>6, <1>7 DEF Pool, PoolMatchesCalls

LEMMA HandleStart ==
    ASSUME Inv, NEW p \in Profiles, _handle_start(p)
    PROVE  ModemSide'
<1> DEFINE want == Head(fifo).want
<1>1. Takes("Start", p) /\ UNCHANGED modem /\ QueueTypes /\ ModemTypes /\ Pool /\ Timed
  BY DEF _handle_start, Inv
<1>2. /\ fifo' \in Seq(ForModem) /\ modem = "Ready" /\ fifo # <<>>
      /\ Head(fifo).k = "Start"
      /\ \A j \in TickKinds, r \in Profiles : Ticks(j, r) => Ticks(j, r)'
  BY <1>1, TakesFacts DEF TickKinds
<1>3. Head(fifo).k \in AskKinds
  BY <1>2 DEF AskKinds, Requests
<1>4. CASE wire' \in Seq(FromModem) /\ UNCHANGED <<call, ifname, inUse, delay>>
  <2>1. ModemTypes'
    BY <1>1, <1>4 DEF ModemTypes
  <2>2. Pool'
    BY <1>1, <1>4, PoolFrame
  <2>3. Timed'
    BY <1>1, <1>2, <1>4 DEF Timed, TickKinds
  <2> QED BY <1>2, <1>4, <2>1, <2>2, <2>3 DEF ModemSide
<1>5. CASE call[p] # "none" /\ StartExisting(p, want)
  <2>1. PICK r \in {"ok", "error"} : Publish(<<Reply(p, r)>>)
    <3> DEFINE r == IF call[p] = "CONNECTED" /\ want \in {NoIfname, ifname[p]}
                    THEN "ok" ELSE "error"
    <3>1. r \in {"ok", "error"}
      OBVIOUS
    <3>2. Publish(<<Reply(p, r)>>)
      BY <1>5 DEF StartExisting
    <3> HIDE DEF r
    <3> QED BY <3>1, <3>2
  <2>2. wire' \in Seq(FromModem)
    BY <1>1, <1>2, <1>3, <2>1, PublishReply, Zenon DEF Results, Statuses
  <2> QED BY <1>4, <1>5, <2>2 DEF StartExisting
<1>6. CASE call[p] = "none" /\ \E n \in allocate(want) : Admit(p, n)
  <2>1. PICK n \in allocate(want) : Admit(p, n)
    BY <1>6
  <2>2. Pool'
    BY <1>1, <1>2, <1>6, <2>1, PoolAdmit
  <2>3. Publish(<<Reply(p, "ok")>> \o Ind(p, "CONNECTING"))
    BY <2>1 DEF Admit
  <2>4. wire' \in Seq(FromModem)
    BY <1>1, <1>2, <1>3, <2>3, PublishReply, Zenon DEF Results, Statuses
  <2>5. ModemTypes'
    BY <1>1, <2>1 DEF ModemTypes, Admit, TickKinds
  <2>6. /\ \A r \in Profiles \ {p} : call'[r] = call[r] /\ delay'[r] = delay[r]
        /\ call'[p] = "CONNECTING" /\ delay'[p] = "Connect"
    BY <1>1, <2>1 DEF ModemTypes, Admit
  <2>7. Timed'
    BY <1>1, <1>2, <2>6, TimedFrame
  <2> QED BY <1>2, <2>2, <2>4, <2>5, <2>7 DEF ModemSide
<1>7. CASE Publish(<<Reply(p, "error")>>) /\ UNCHANGED <<call, ifname, inUse, delay>>
  <2>1. wire' \in Seq(FromModem)
    BY <1>1, <1>2, <1>3, <1>7, PublishReply, Zenon DEF Results, Statuses
  <2> QED BY <1>4, <1>7, <2>1
<1> QED BY <1>5, <1>6, <1>7 DEF _handle_start

LEMMA HandleStop ==
    ASSUME Inv, NEW p \in Profiles, _handle_stop(p)
    PROVE  ModemSide'
<1> DEFINE s == begin_disconnecting(call[p])
<1>1. /\ Takes("Stop", p) /\ UNCHANGED <<modem, ifname, inUse>>
      /\ QueueTypes /\ ModemTypes /\ Pool /\ Timed
  BY DEF _handle_stop, Inv
<1>2. /\ fifo' \in Seq(ForModem) /\ modem = "Ready" /\ fifo # <<>>
      /\ Head(fifo).k = "Stop"
      /\ \A j \in TickKinds, r \in Profiles : Ticks(j, r) => Ticks(j, r)'
  BY <1>1, TakesFacts DEF TickKinds
<1>3. Head(fifo).k \in AskKinds
  BY <1>2 DEF AskKinds, Requests
<1>4. CASE call[p] = "none" /\ Publish(<<Reply(p, "error")>>) /\ UNCHANGED <<call, delay>>
  <2>1. wire' \in Seq(FromModem)
    BY <1>1, <1>2, <1>3, <1>4, PublishReply, Zenon DEF Results, Statuses
  <2>2. ModemTypes'
    BY <1>1, <1>4 DEF ModemTypes
  <2>3. Pool'
    BY <1>1, <1>4, PoolFrame
  <2>4. Timed'
    BY <1>1, <1>2, <1>4 DEF Timed, TickKinds
  <2> QED BY <1>2, <2>1, <2>2, <2>3, <2>4 DEF ModemSide
<1>5. CASE /\ call[p] # "none"
           /\ call' = [call EXCEPT ![p] = s]
           /\ Publish(<<Reply(p, "ok")>> \o Ind(p, s))
           /\ delay' = [delay EXCEPT ![p] = "Disconnect"]
  <2>1. s \in {"CONNECTING", "DISCONNECTING"}
    BY <1>1, <1>5 DEF ModemTypes, begin_disconnecting
  <2> HIDE DEF s
  <2>2. wire' \in Seq(FromModem)
    BY <1>1, <1>2, <1>3, <1>5, <2>1, PublishReply, Zenon DEF Results, Statuses
  <2>3. ModemTypes'
    BY <1>1, <1>5, <2>1 DEF ModemTypes, TickKinds
  <2>4. /\ \A r \in Profiles \ {p} : call'[r] = call[r] /\ delay'[r] = delay[r]
        /\ call'[p] = s /\ delay'[p] = "Disconnect"
    BY <1>1, <1>5 DEF ModemTypes
  <2>5. \A r \in Profiles : call'[r] = "none" <=> call[r] = "none"
    BY <1>5, <2>1, <2>4
  <2>6. Pool'
    BY <1>1, <2>5, PoolFrame
  <2>7. Timed'
    BY <1>1, <1>2, <2>4, TimedFrame
  <2> QED BY <1>2, <2>2, <2>3, <2>6, <2>7 DEF ModemSide
<1> QED BY <1>4, <1>5 DEF _handle_stop

\* A handler that leaves the sessions alone, and takes no timer event one of
\* them waits for.
LEMMA SessionsKept ==
    ASSUME Inv, UNCHANGED modemVars, fifo' \in Seq(ForModem), wire' \in Seq(FromModem),
           \A r \in Profiles :
               /\ call[r] = "CONNECTING" => \A j \in TickKinds : Ticks(j, r) => Ticks(j, r)'
               /\ call[r] = "DISCONNECTING" =>
                      (Ticks("Disconnect", r) => Ticks("Disconnect", r)')
    PROVE  ModemSide'
<1>1. ModemTypes'
  BY DEF Inv, ModemTypes, modemVars
<1>2. Pool'
  BY PoolFrame DEF Inv, modemVars
<1>3. Timed'
  BY DEF Inv, Timed, TickKinds, modemVars
<1> QED BY <1>1, <1>2, <1>3 DEF ModemSide

LEMMA HandleList ==
    ASSUME Inv, NEW p \in Profiles, _handle_list(p)
    PROVE  ModemSide'
<1> DEFINE r == IF call[p] = "CONNECTED" THEN "up" ELSE "down"
<1>1. Takes("List", p) /\ QueueTypes /\ Publish(<<Reply(p, r)>>) /\ UNCHANGED modemVars
  BY DEF _handle_list, Inv
<1>2. /\ fifo' \in Seq(ForModem) /\ fifo # <<>> /\ Head(fifo).k = "List"
      /\ \A j \in TickKinds, t \in Profiles : Ticks(j, t) => Ticks(j, t)'
  BY <1>1, TakesFacts DEF TickKinds
<1>3. Head(fifo).k \in AskKinds
  BY <1>2 DEF AskKinds, Requests
<1>4. r \in Results /\ "NONE" \in Statuses
  BY DEF Results, Statuses
<1> HIDE DEF r
<1>5. wire' \in Seq(FromModem)
  BY <1>1, <1>2, <1>3, <1>4, PublishReply
<1> QED BY <1>1, <1>2, <1>5, SessionsKept DEF TickKinds

LEMMA PublishInd ==
    ASSUME QueueTypes, NEW p \in Profiles, NEW s \in Statuses,
           Publish(Ind(p, s)) \/ Publish(<<>>) \/ UNCHANGED wire
    PROVE  wire' \in Seq(FromModem)
<1>1. Ind(p, s) \in Seq(FromModem) /\ <<>> \in Seq(FromModem)
  BY IndType
<1> QED BY <1>1, PublishType, Zenon DEF QueueTypes

LEMMA OnConnectTimer ==
    ASSUME Inv, NEW p \in Profiles, _on_connect_timer(p)
    PROVE  ModemSide'
<1>1. /\ Takes("Connect", p) /\ UNCHANGED <<modem, ifname, inUse>>
      /\ QueueTypes /\ ModemTypes /\ Pool /\ Timed
  BY DEF _on_connect_timer, Inv
<1>2. /\ fifo' \in Seq(ForModem)
      /\ \A j \in TickKinds, r \in Profiles :
             Ticks(j, r) /\ (j # "Connect" \/ r # p) => Ticks(j, r)'
  BY <1>1, TakesFacts
<1>3. wire' \in Seq(FromModem)
  BY <1>1, PublishInd DEF _on_connect_timer, Statuses
<1>4. CASE call[p] = "CONNECTING"
  <2>1. /\ call' = [call EXCEPT ![p] = "CONNECTED"] /\ delay' = [delay EXCEPT ![p] = "none"]
    BY <1>4 DEF _on_connect_timer
  <2>2. ModemTypes'
    BY <1>1, <2>1 DEF ModemTypes, TickKinds
  <2>3. /\ \A r \in Profiles \ {p} : call'[r] = call[r] /\ delay'[r] = delay[r]
        /\ call'[p] = "CONNECTED"
    BY <1>1, <2>1 DEF ModemTypes
  <2>4. Pool'
    BY <1>1, <1>4, <2>3, PoolFrame
  <2>5. Timed'
    BY <1>1, <1>2, <2>3, TimedFrame
  <2> QED BY <1>2, <1>3, <2>2, <2>4, <2>5 DEF ModemSide
<1>5. CASE call[p] # "CONNECTING"
  <2>1. UNCHANGED modemVars
    BY <1>1, <1>5 DEF _on_connect_timer, modemVars
  <2> QED BY <1>2, <1>3, <1>5, <2>1, SessionsKept DEF TickKinds
<1> QED BY <1>4, <1>5

\* The two events that forget a session.
LEMMA SessionForgotten ==
    ASSUME Inv, NEW p \in Profiles, NEW k \in {"Disconnect", "ForceCallDrop"}, Takes(k, p),
           UNCHANGED modem, wire' \in Seq(FromModem),
           IF call[p] # "none" THEN Forget(p) ELSE UNCHANGED <<call, ifname, inUse, delay>>
    PROVE  ModemSide'
<1>1. QueueTypes /\ ModemTypes /\ Pool /\ Timed
  BY DEF Inv
<1>2. /\ fifo' \in Seq(ForModem) /\ modem = "Ready"
      /\ \A j \in TickKinds, r \in Profiles : Ticks(j, r) /\ (j # k \/ r # p) => Ticks(j, r)'
  BY <1>1, TakesFacts
<1>3. CASE call[p] # "none"
  <2>1. Pool'
    BY <1>1, <1>2, <1>3, PoolForget
  <2>2. ModemTypes'
    BY <1>1, <1>3 DEF ModemTypes, Forget
  <2>3. /\ \A r \in Profiles \ {p} : call'[r] = call[r] /\ delay'[r] = delay[r]
        /\ call'[p] = "none"
    BY <1>1, <1>3 DEF ModemTypes, Forget
  <2>4. Timed'
    BY <1>1, <1>2, <2>3, TimedFrame
  <2> QED BY <1>2, <2>1, <2>2, <2>4 DEF ModemSide
<1>4. CASE call[p] = "none"
  <2>1. UNCHANGED modemVars
    BY <1>4 DEF modemVars
  <2> QED BY <1>2, <1>4, <2>1, SessionsKept DEF TickKinds
<1> QED BY <1>3, <1>4

LEMMA OnDisconnectTimer ==
    ASSUME Inv, NEW p \in Profiles, _on_disconnect_timer(p)
    PROVE  ModemSide'
<1> DEFINE s == disconnected(call[p])
<1>1. QueueTypes /\ ModemTypes
  BY DEF Inv
<1>2. /\ Takes("Disconnect", p) /\ UNCHANGED modem
      /\ IF call[p] # "none" THEN Forget(p) ELSE UNCHANGED <<call, ifname, inUse, delay>>
      /\ (call[p] # "none" /\ Publish(Ind(p, s))) \/ UNCHANGED wire
  BY DEF _on_disconnect_timer
<1>3. call[p] # "none" => s \in Statuses
  BY <1>1 DEF ModemTypes, disconnected, Statuses
<1> HIDE DEF s
<1>4. "NONE" \in Statuses
  BY DEF Statuses
<1>5. wire' \in Seq(FromModem)
  BY <1>1, <1>2, <1>3, <1>4, PublishInd
<1> QED BY <1>2, <1>5, SessionForgotten

LEMMA ApplyForceCallDrop ==
    ASSUME Inv, NEW p \in Profiles, _apply_force_call_drop(p)
    PROVE  ModemSide'
<1>1. /\ Takes("ForceCallDrop", p) /\ UNCHANGED modem
      /\ IF call[p] # "none" THEN Forget(p) ELSE UNCHANGED <<call, ifname, inUse, delay>>
      /\ Publish(Ind(p, "NO_NET")) \/ UNCHANGED wire
  BY DEF _apply_force_call_drop
<1>2. wire' \in Seq(FromModem)
  BY <1>1, PublishInd DEF Inv, Statuses
<1> QED BY <1>1, <1>2, SessionForgotten

LEMMA ApplyNetworkRatChanged ==
    ASSUME Inv, NEW p \in Profiles, _apply_network_rat_changed(p)
    PROVE  ModemSide'
<1>1. /\ Takes("NetworkRatChanged", p) /\ UNCHANGED modemVars /\ QueueTypes
      /\ Publish(Ind(p, "CONNECTED")) \/ Publish(<<>>)
  BY DEF _apply_network_rat_changed, Inv
<1>2. /\ fifo' \in Seq(ForModem)
      /\ \A j \in TickKinds, r \in Profiles : Ticks(j, r) => Ticks(j, r)'
  BY <1>1, TakesFacts DEF TickKinds
<1>3. wire' \in Seq(FromModem)
  BY <1>1, PublishInd DEF Statuses
<1> QED BY <1>1, <1>2, <1>3, SessionsKept DEF TickKinds

LEMMA ModemStepSide == Inv /\ ModemStep => ModemSide'
<1> SUFFICES ASSUME Inv, ModemStep PROVE ModemSide'
  OBVIOUS
<1>1. PICK p \in Profiles :
          \/ _handle_start(p) \/ _handle_stop(p) \/ _handle_list(p) \/ _on_connect_timer(p)
          \/ _on_disconnect_timer(p) \/ _apply_force_call_drop(p)
          \/ _apply_network_rat_changed(p)
  BY DEF ModemStep
<1> QED BY <1>1, HandleStart, HandleStop, HandleList, OnConnectTimer, OnDisconnectTimer,
           ApplyForceCallDrop, ApplyNetworkRatChanged

LEMMA TimerDueSide ==
    ASSUME Inv, NEW p \in Profiles, TimerDue(p)
    PROVE  ModemSide'
<1> DEFINE e == [k |-> delay[p], p |-> p]
<1>1. /\ delay[p] # "none" /\ fifo' = Append(fifo, e)
      /\ delay' = [delay EXCEPT ![p] = "none"]
      /\ UNCHANGED <<modem, call, ifname, inUse, wire>>
      /\ QueueTypes /\ ModemTypes /\ Pool /\ Timed
  BY DEF TimerDue, Inv
<1>2. delay[p] \in TickKinds
  BY <1>1 DEF ModemTypes
<1>3. e \in ForModem
  BY <1>2 DEF ForModem, Tick
<1>4. fifo' \in Seq(ForModem) /\ e \in Range(fifo') /\ Range(fifo) \subseteq Range(fifo')
  BY <1>1, <1>3, AppendFacts DEF QueueTypes
<1>5. \A j \in TickKinds, r \in Profiles : Ticks(j, r) => Ticks(j, r)'
  BY <1>4 DEF Ticks
<1>6. [k |-> delay[p], p |-> p] \in Range(fifo')
  BY <1>4
<1>7. /\ \A r \in Profiles \ {p} : call'[r] = call[r] /\ delay'[r] = delay[r]
      /\ call'[p] = call[p]
  BY <1>1 DEF ModemTypes
<1>8. /\ call'[p] = "CONNECTING" => Ticks("Connect", p)' \/ Ticks("Disconnect", p)'
      /\ call'[p] = "DISCONNECTING" => Ticks("Disconnect", p)'
  <2>1. CASE delay[p] = "Connect"
    <3>1. Ticks("Connect", p)'
      BY <1>6, <2>1 DEF Ticks
    <3> QED BY <1>1, <1>5, <1>7, <2>1, <3>1 DEF Timed, TickKinds
  <2>2. CASE delay[p] = "Disconnect"
    BY <1>6, <2>2 DEF Ticks
  <2> QED BY <1>2, <2>1, <2>2 DEF TickKinds
<1>9. Timed'
  BY <1>1, <1>5, <1>7, <1>8, TimedFrame
<1>10. ModemTypes'
  BY <1>1 DEF ModemTypes
<1>11. Pool'
  BY <1>1, PoolFrame
<1> QED BY <1>1, <1>4, <1>9, <1>10, <1>11 DEF ModemSide, QueueTypes

\* A message for the modem is queued behind the others.
LEMMA QueuedBehind ==
    ASSUME Inv, NEW ms \in Seq(ForModem), fifo' = fifo \o ms, wire' \in Seq(FromModem),
           UNCHANGED modemVars
    PROVE  ModemSide'
<1>1. fifo' \in Seq(ForModem) /\ Range(fifo) \subseteq Range(fifo')
  BY ConcatFacts DEF Inv, QueueTypes
<1>2. \A j \in TickKinds, r \in Profiles : Ticks(j, r) => Ticks(j, r)'
  BY <1>1 DEF Ticks
<1> QED BY <1>1, <1>2, SessionsKept DEF TickKinds

LEMMA AskQueued ==
    ASSUME Inv, NEW e \in Ask, fifo' = Append(fifo, e), UNCHANGED <<modemVars, wire>>
    PROVE  ModemSide'
<1>1. e \in ForModem /\ fifo \in Seq(ForModem) /\ wire' \in Seq(FromModem)
  BY DEF ForModem, Inv, QueueTypes
<1>2. <<e>> \in Seq(ForModem)
  BY <1>1, Single
<1>3. fifo' = fifo \o <<e>>
  BY <1>1
<1> QED BY <1>1, <1>2, <1>3, QueuedBehind, Zenon

LEMMA StoppingSide == Inv /\ smfn_stopping => ModemSide'
<1> SUFFICES ASSUME Inv, smfn_stopping PROVE ModemSide'
  OBVIOUS
<1>1. /\ modem' = "Stopping" /\ fifo' = <<>> /\ call' = [p \in Profiles |-> "none"]
      /\ ifname' = [p \in Profiles |-> NoIfname] /\ delay' = [p \in Profiles |-> "none"]
      /\ Publish(<<Readiness(FALSE)>>) /\ QueueTypes
  BY DEF smfn_stopping, Inv
<1>2. Readiness(FALSE) \in FromModem
  BY DEF Readiness, FromModem, Retained
<1>3. <<Readiness(FALSE)>> \in Seq(FromModem)
  BY <1>2, Single, Zenon
<1>4. wire' \in Seq(FromModem)
  BY <1>1, <1>3, PublishType, Zenon
<1>5. ModemTypes'
  BY <1>1 DEF ModemTypes
<1>6. Pool'
  BY <1>1 DEF Pool, PoolMatchesCalls
<1>7. Timed'
  BY <1>1 DEF Timed
<1> QED BY <1>1, <1>4, <1>5, <1>6, <1>7 DEF ModemSide

---------------------------------------------------------------------------
(* Sessions *)

AdapterSide == ManagerTypes /\ SessionTypes /\ SlotFreed
LinkSide == RpcTypes /\ held \in Seq(Ask)

LEMMA Sides == AdapterSide /\ LinkSide /\ ModemSide <=> Inv
BY DEF AdapterSide, LinkSide, ModemSide, Inv, QueueTypes

LEMMA SidesPrime == (AdapterSide' /\ LinkSide' /\ ModemSide') => Inv'
BY DEF AdapterSide, LinkSide, ModemSide, Inv, QueueTypes

LEMMA NewSessionType ==
    ASSUME NEW c \in Nat, NEW w \in Names
    PROVE  NewSession(c, w) \in SessionRecord /\ NewSession(c, w).st = "Idle"
<1>1. [k |-> "Start"] \in ForSession
  BY DEF ForSession
<1>2. <<[k |-> "Start"]>> \in Seq(ForSession) /\ <<>> \in Seq(ForSession)
  BY <1>1, Single
<1> QED BY <1>2 DEF NewSession, SessionRecord, SessionStates, Statuses

LEMMA NoSessionType == NoSession \in SessionRecord /\ NoSession.st = "none"
<1>1. NewSession(0, NoIfname) \in SessionRecord
  BY NewSessionType DEF Names
<1>2. <<>> \in Seq(ForSession)
  OBVIOUS
<1> HIDE DEF NewSession
<1> QED BY <1>1, <1>2, Zenon DEF NoSession, SessionRecord, SessionStates

LEMMA PostedType ==
    ASSUME SessionTypes, NEW p \in Profiles, NEW e \in ForSession
    PROVE  Posted(p, e) \in SessionRecord /\ Posted(p, e).st = ses[p].st
<1>1. ses[p] \in SessionRecord
  BY DEF SessionTypes
<1>2. ses[p].q \in Seq(ForSession)
  BY <1>1 DEF SessionRecord
<1>3. Append(ses[p].q, e) \in Seq(ForSession)
  BY <1>2, AppendFacts
<1> QED BY <1>1, <1>3, Zenon DEF Posted, SessionRecord

LEMMA GoesType ==
    ASSUME SessionTypes, NEW p \in Profiles, NEW st \in SessionStates, ses[p].q # <<>>
    PROVE  /\ Goes(p, st) \in SessionRecord /\ Goes(p, st).st = st
           /\ Event(p) \in ForSession
<1>1. ses[p] \in SessionRecord
  BY DEF SessionTypes
<1>2. ses[p].q \in Seq(ForSession)
  BY <1>1 DEF SessionRecord
<1>3. Tail(ses[p].q) \in Seq(ForSession) /\ Head(ses[p].q) \in ForSession
  BY <1>2, TailFacts
<1> QED BY <1>1, <1>3, Zenon DEF Goes, Event, SessionRecord

\* A step of p's session that does not end it, or ends it and says so.
LEMMA SessionUpdate ==
    ASSUME Inv, NEW p \in Profiles, NEW s \in SessionRecord, Becomes(p, s),
           UNCHANGED <<mst, erasing, calls>>,
           \/ Finish(p)
           \/ Stays /\ (s.st = "Terminal" => ses[p].st = "Terminal")
    PROVE  AdapterSide'
<1> DEFINE e == [k |-> "SessionFinished", p |-> p]
<1>1. ManagerTypes /\ SessionTypes /\ SlotFreed /\ mq \in Seq(ForManager)
  BY DEF Inv, ManagerTypes
<1>2. e \in ForManager
  BY DEF ForManager
<1>3. Finish(p) => /\ mq' \in Seq(ForManager) /\ e \in Range(mq')
                   /\ Range(mq) \subseteq Range(mq')
  BY <1>1, <1>2, AppendFacts DEF Finish
<1>4. mq' \in Seq(ForManager) /\ Range(mq) \subseteq Range(mq')
  BY <1>1, <1>3 DEF Stays
<1>5. ManagerTypes'
  BY <1>1, <1>4 DEF ManagerTypes
<1>6. SessionTypes' /\ ses'[p] = s /\ \A r \in Profiles \ {p} : ses'[r] = ses[r]
  BY <1>1 DEF SessionTypes, Becomes
<1>7. SlotFreed'
  <2> SUFFICES ASSUME NEW r \in Profiles, ses'[r].st = "Terminal"
               PROVE  r \in erasing' \/ [k |-> "SessionFinished", p |-> r] \in Range(mq')
    BY DEF SlotFreed
  <2>1. CASE r = p /\ Finish(p)
    BY <1>3, <2>1
  <2>2. CASE ses[r].st = "Terminal"
    BY <1>1, <1>4, <2>2 DEF SlotFreed
  <2> QED BY <1>6, <2>1, <2>2
<1> QED BY <1>5, <1>6, <1>7 DEF AdapterSide

LEMMA SendRequest ==
    ASSUME Inv, NEW k \in Requests, NEW p \in Profiles, NEW w \in Names,
           send_request(k, p, w), UNCHANGED <<wire, modemVars>>
    PROVE  LinkSide' /\ ModemSide'
<1> DEFINE m == Req(k, p, lastId + 1, w)
<1>1. RpcTypes /\ held \in Seq(Ask) /\ lastId' = lastId + 1
      /\ rpc' = [rpc EXCEPT ![p] = lastId + 1]
  BY DEF Inv, QueueTypes, send_request
<1>2. m \in Ask
  BY <1>1 DEF Req, Ask, AskKinds, RpcTypes
<1>3. RpcTypes'
  BY <1>1 DEF RpcTypes
<1> HIDE DEF m
<1>4. CASE fifo' = Append(fifo, m) /\ UNCHANGED held
  <2>1. ModemSide'
    BY <1>2, <1>4, AskQueued
  <2> QED BY <1>1, <1>3, <1>4, <2>1 DEF LinkSide
<1>5. CASE held' = Append(held, m) /\ UNCHANGED fifo
  <2>1. held' \in Seq(Ask)
    BY <1>1, <1>2, <1>5, AppendFacts
  <2>2. fifo \in Seq(ForModem) /\ wire' \in Seq(FromModem) /\ <<>> \in Seq(ForModem)
    BY DEF Inv, QueueTypes
  <2>3. fifo' = fifo \o <<>>
    BY <1>5, <2>2
  <2>4. ModemSide'
    BY <2>2, <2>3, QueuedBehind, Zenon
  <2> QED BY <1>3, <2>1, <2>4 DEF LinkSide
<1> QED BY <1>4, <1>5 DEF send_request, m

\* A step that leaves the bridge and the modem alone.
LEMMA LinkKept ==
    ASSUME Inv, NoRpc, UNCHANGED <<wire, modemVars>>
    PROVE  LinkSide' /\ ModemSide'
<1>1. ModemSide'
  BY SessionsKept DEF Inv, NoRpc, QueueTypes, Ticks
<1>2. LinkSide'
  BY DEF Inv, NoRpc, QueueTypes, LinkSide, RpcTypes
<1> QED BY <1>1, <1>2

managerRest == <<mst, erasing, calls>>

LEMMA EndsSide ==
    ASSUME Inv, NEW p \in Profiles, ses[p].q # <<>>, Ends(p), UNCHANGED managerRest
    PROVE  AdapterSide'
<1> DEFINE g == Goes(p, "Terminal")
           s == [g EXCEPT !.status = "NO_NET", !.alarm = "none"]
<1>1. g \in SessionRecord
  BY GoesType DEF Inv, SessionStates
<1>2. Becomes(p, s) /\ Finish(p)
  BY DEF Ends
<1> HIDE DEF g
<1>3. s \in SessionRecord
  BY <1>1, Zenon DEF SessionRecord, Statuses
<1> QED BY <1>2, <1>3, SessionUpdate DEF managerRest

LEMMA ConnectSide ==
    ASSUME Inv, NEW p \in Profiles, ses[p].q # <<>>, Connect(p), UNCHANGED managerRest
    PROVE  AdapterSide'
<1> DEFINE g == Goes(p, "Connected")
           s == [g EXCEPT !.status = "CONNECTED", !.alarm = "none"]
<1>1. g \in SessionRecord /\ g.st = "Connected"
  BY GoesType DEF Inv, SessionStates
<1>2. Becomes(p, s) /\ Stays
  BY DEF Connect
<1> HIDE DEF g
<1>3. s \in SessionRecord /\ s.st = "Connected"
  BY <1>1, Zenon DEF SessionRecord, Statuses
<1> QED BY <1>2, <1>3, SessionUpdate, Zenon DEF managerRest

LEMMA BeginStopSide ==
    ASSUME Inv, NEW p \in Profiles, ses[p].q # <<>>, Event(p).k = "Stop", BeginStop(p),
           UNCHANGED <<managerRest, wire, modemVars>>
    PROVE  Inv'
<1> DEFINE g == Goes(p, "SendingStopReq")
           c == Event(p).call
           s == [g EXCEPT !.stopCb = c, !.alarm = "none"]
<1>1. g \in SessionRecord /\ g.st = "SendingStopReq" /\ Event(p) \in ForSession
  BY GoesType DEF Inv, SessionStates
<1>2. Becomes(p, s) /\ Stays /\ send_request("Stop", p, ses[p].want)
  BY DEF BeginStop
<1>3. c \in Nat
  BY <1>1, ForSessionFields
<1> HIDE DEF g, c
<1>4. s \in SessionRecord /\ s.st = "SendingStopReq"
  BY <1>1, <1>3, Zenon DEF SessionRecord
<1>5. AdapterSide'
  BY <1>2, <1>4, SessionUpdate, Zenon DEF managerRest
<1>6. ses[p].want \in Names /\ "Stop" \in Requests
  BY DEF Inv, SessionTypes, SessionRecord, Requests
<1>7. LinkSide' /\ ModemSide'
  BY <1>2, <1>6, SendRequest
<1> QED BY <1>5, <1>7, SidesPrime

LEMMA IdleSide ==
    ASSUME Inv, NEW p \in Profiles, Idle_St(p), UNCHANGED <<managerRest, wire, modemVars>>
    PROVE  Inv'
<1> DEFINE s == Goes(p, "SendingStartReq")
<1>1. ses[p].q # <<>> /\ Becomes(p, s) /\ Stays /\ send_request("Start", p, ses[p].want)
  BY DEF Idle_St, In
<1>2. s \in SessionRecord /\ s.st = "SendingStartReq"
  BY <1>1, GoesType DEF Inv, SessionStates
<1> HIDE DEF s
<1>3. AdapterSide'
  BY <1>1, <1>2, SessionUpdate DEF managerRest
<1>4. ses[p].want \in Names /\ "Start" \in Requests
  BY DEF Inv, SessionTypes, SessionRecord, Requests
<1>5. LinkSide' /\ ModemSide'
  BY <1>1, <1>4, SendRequest
<1> QED BY <1>3, <1>5, SidesPrime

LEMMA SendingStartReqSide ==
    ASSUME Inv, NEW p \in Profiles, SendingStartReq_St(p), UNCHANGED managerRest
    PROVE  AdapterSide'
<1>1. ses[p].q # <<>> /\ SessionTypes
  BY DEF SendingStartReq_St, In, Inv
<1>2. /\ ses[p] \in SessionRecord /\ ses[p].deferred \in Seq(ForSession)
  BY <1>1 DEF SessionTypes, SessionRecord
<1>3. CASE In(p, "SendingStartReq", "Stop") /\ Stays
           /\ Becomes(p, [Goes(p, "SendingStartReq") EXCEPT !.deferred = Append(@, Event(p))])
  <2> DEFINE g == Goes(p, "SendingStartReq")
             s == [g EXCEPT !.deferred = Append(@, Event(p))]
  <2>1. g \in SessionRecord /\ g.st = "SendingStartReq" /\ Event(p) \in ForSession
    BY <1>1, GoesType DEF SessionStates
  <2>2. Becomes(p, s)
    BY <1>3
  <2> HIDE DEF g
  <2>3. g.deferred \in Seq(ForSession)
    BY <2>1 DEF SessionRecord
  <2>4. Append(g.deferred, Event(p)) \in Seq(ForSession)
    BY <2>1, <2>3, AppendFacts
  <2>5. s \in SessionRecord /\ s.st = "SendingStartReq"
    BY <2>1, <2>4, Zenon DEF SessionRecord
  <2> QED BY <1>3, <2>2, <2>5, SessionUpdate, Zenon DEF managerRest
<1>4. CASE StartFailed(p)
  <2> DEFINE s == Goes(p, "Ending")
  <2>1. s \in SessionRecord
    BY <1>1, GoesType DEF SessionStates
  <2>2. Becomes(p, s) /\ Finish(p)
    BY <1>4 DEF StartFailed
  <2> HIDE DEF s
  <2> QED BY <2>1, <2>2, SessionUpdate DEF managerRest
<1>5. CASE Stays /\ Becomes(p, [Goes(p, "WaitingForUp")
                               EXCEPT !.status = "CONNECTING", !.alarm = "Bringup",
                                      !.q = @ \o ses[p].deferred, !.deferred = <<>>])
  <2> DEFINE g == Goes(p, "WaitingForUp")
             d == ses[p].deferred
             s == [g EXCEPT !.status = "CONNECTING", !.alarm = "Bringup",
                            !.q = @ \o d, !.deferred = <<>>]
  <2>1. g \in SessionRecord /\ g.st = "WaitingForUp"
    BY <1>1, GoesType DEF SessionStates
  <2>2. Becomes(p, s) /\ d \in Seq(ForSession)
    BY <1>2, <1>5
  <2> HIDE DEF g, d
  <2>3. g.q \in Seq(ForSession) /\ <<>> \in Seq(ForSession)
    BY <2>1 DEF SessionRecord
  <2>4. g.q \o d \in Seq(ForSession)
    BY <2>2, <2>3, ConcatFacts
  <2>5. s \in SessionRecord /\ s.st = "WaitingForUp"
    BY <2>1, <2>3, <2>4, Zenon DEF SessionRecord, Statuses
  <2> QED BY <1>5, <2>2, <2>5, SessionUpdate, Zenon DEF managerRest
<1> QED BY <1>3, <1>4, <1>5 DEF SendingStartReq_St

LEMMA EnterTerminalSide ==
    ASSUME Inv, NEW p \in Profiles, EnterTerminal(p), UNCHANGED managerRest
    PROVE  AdapterSide'
<1> DEFINE s == [ses[p] EXCEPT !.st = "Terminal"]
<1>1. s \in SessionRecord
  BY Zenon DEF Inv, SessionTypes, SessionRecord, SessionStates
<1>2. Becomes(p, s) /\ Finish(p)
  BY DEF EnterTerminal, Becomes
<1> HIDE DEF s
<1> QED BY <1>1, <1>2, SessionUpdate DEF managerRest

LEMMA SendingStopReqSide ==
    ASSUME Inv, NEW p \in Profiles, SendingStopReq_St(p), UNCHANGED <<managerRest, wire, modemVars>>
    PROVE  Inv'
<1>1. ses[p].q # <<>> /\ SessionTypes /\ Stays
  BY DEF SendingStopReq_St, In, Inv
<1>2. CASE /\ Becomes(p, [Goes(p, "WaitingForDown")
                          EXCEPT !.status = "DISCONNECTING", !.alarm = "Teardown"])
           /\ NoRpc
  <2> DEFINE g == Goes(p, "WaitingForDown")
             s == [g EXCEPT !.status = "DISCONNECTING", !.alarm = "Teardown"]
  <2>1. g \in SessionRecord /\ g.st = "WaitingForDown"
    BY <1>1, GoesType DEF SessionStates
  <2>2. Becomes(p, s)
    BY <1>2
  <2> HIDE DEF g
  <2>3. s \in SessionRecord /\ s.st = "WaitingForDown"
    BY <2>1, Zenon DEF SessionRecord, Statuses
  <2>4. AdapterSide'
    BY <1>1, <2>2, <2>3, SessionUpdate, Zenon DEF managerRest
  <2> QED BY <1>2, <2>4, LinkKept, SidesPrime
<1>3. CASE Becomes(p, Goes(p, "Reconciling")) /\ send_request("List", p, NoIfname)
  <2> DEFINE s == Goes(p, "Reconciling")
  <2>1. s \in SessionRecord /\ s.st = "Reconciling"
    BY <1>1, GoesType DEF SessionStates
  <2>2. Becomes(p, s)
    BY <1>3
  <2> HIDE DEF s
  <2>3. AdapterSide'
    BY <1>1, <2>1, <2>2, SessionUpdate DEF managerRest
  <2>4. NoIfname \in Names /\ "List" \in Requests
    BY DEF Names, Requests
  <2>5. LinkSide' /\ ModemSide'
    BY <1>3, <2>4, SendRequest
  <2> QED BY <2>3, <2>5, SidesPrime
<1> QED BY <1>2, <1>3 DEF SendingStopReq_St

\* An event that leaves the session in its state.
LEMMA ConsumedSide ==
    ASSUME Inv, NEW p \in Profiles, ses[p].q # <<>>, Becomes(p, Goes(p, ses[p].st)), Stays,
           UNCHANGED managerRest
    PROVE  AdapterSide'
<1> DEFINE s == Goes(p, ses[p].st)
<1>1. ses[p].st \in SessionStates /\ SessionTypes
  BY DEF Inv, SessionTypes, SessionRecord
<1>2. s \in SessionRecord /\ s.st = ses[p].st
  BY <1>1, GoesType
<1> HIDE DEF s
<1>3. Becomes(p, s)
  BY DEF s
<1> QED BY <1>2, <1>3, SessionUpdate DEF managerRest

LEMMA SessionInv ==
    ASSUME Inv, NEW p \in Profiles, Session(p)
    PROVE  Inv'
<1>1. UNCHANGED <<managerRest, wire, modemVars>> /\ UNCHANGED managerRest
  BY DEF Session, SessionStep, managerRest
<1>2. CASE Idle_St(p)
  BY <1>1, <1>2, IdleSide
<1>3. CASE SendingStartReq_St(p)
  <2>1. NoRpc
    BY <1>3 DEF SendingStartReq_St
  <2> QED BY <1>1, <1>3, <2>1, SendingStartReqSide, LinkKept, SidesPrime
<1>4. CASE EnterTerminal(p)
  <2>1. NoRpc
    BY <1>4 DEF EnterTerminal
  <2> QED BY <1>1, <1>4, <2>1, EnterTerminalSide, LinkKept, SidesPrime
<1>5. CASE WaitingForUp_St(p)
  <2>1. \/ ses[p].q # <<>> /\ Event(p).k = "Stop" /\ BeginStop(p)
        \/ ses[p].q # <<>> /\ (Connect(p) \/ Ends(p)) /\ NoRpc
    BY <1>5 DEF WaitingForUp_St, In, IsInd, Event
  <2> QED BY <1>1, <2>1, BeginStopSide, ConnectSide, EndsSide, LinkKept, SidesPrime
<1>6. CASE Connected_St(p)
  <2>1. \/ ses[p].q # <<>> /\ Event(p).k = "Stop" /\ BeginStop(p)
        \/ ses[p].q # <<>> /\ Ends(p) /\ NoRpc
    BY <1>6 DEF Connected_St, In, IsInd, Event
  <2> QED BY <1>1, <2>1, BeginStopSide, EndsSide, LinkKept, SidesPrime
<1>7. CASE SendingStopReq_St(p)
  BY <1>1, <1>7, SendingStopReqSide
<1>8. CASE WaitingForDown_St(p)
  <2>1. ses[p].q # <<>> /\ Ends(p) /\ NoRpc
    BY <1>8 DEF WaitingForDown_St, In, IsInd
  <2> QED BY <1>1, <2>1, EndsSide, LinkKept, SidesPrime
<1>9. CASE Reconciling_St(p)
  <2>1. ses[p].q # <<>> /\ (Connect(p) \/ Ends(p)) /\ NoRpc
    BY <1>9 DEF Reconciling_St, In
  <2> QED BY <1>1, <2>1, ConnectSide, EndsSide, LinkKept, SidesPrime
<1>10. CASE Active_St(p) \/ Swallow(p)
  <2>1. ses[p].q # <<>> /\ Becomes(p, Goes(p, ses[p].st)) /\ Stays /\ NoRpc
    BY <1>10 DEF Active_St, Swallow, In
  <2> QED BY <1>1, <2>1, ConsumedSide, LinkKept, SidesPrime
<1> QED BY <1>2, <1>3, <1>4, <1>5, <1>6, <1>7, <1>8, <1>9, <1>10 DEF Session, SessionStep

\* A step that ends no session and takes no SessionFinished.
LEMMA NoneEnds ==
    ASSUME Inv, ses' \in [Profiles -> SessionRecord],
           \A r \in Profiles : ses'[r].st = "Terminal" => ses[r].st = "Terminal",
           mst' \in {"NotReady", "Ready"}, calls' \in Nat, UNCHANGED erasing,
           mq' \in Seq(ForManager),
           \A e \in Range(mq) : e.k = "SessionFinished" => e \in Range(mq')
    PROVE  AdapterSide'
<1>1. ManagerTypes'
  BY DEF Inv, ManagerTypes
<1>2. \A r \in Profiles : [k |-> "SessionFinished", p |-> r].k = "SessionFinished"
  OBVIOUS
<1>3. SlotFreed'
  BY <1>2 DEF Inv, SlotFreed
<1> QED BY <1>1, <1>3 DEF AdapterSide, SessionTypes

LEMMA PostTypes ==
    ASSUME SessionTypes, NEW p \in Profiles, NEW e \in ForSession, Post(p, e)
    PROVE  /\ ses' \in [Profiles -> SessionRecord]
           /\ \A r \in Profiles : ses'[r].st = ses[r].st
<1> DEFINE s == Posted(p, e)
<1>1. s \in SessionRecord /\ s.st = ses[p].st
  BY PostedType
<1>2. ses' = [ses EXCEPT ![p] = s]
  BY DEF Post
<1> HIDE DEF s
<1> QED BY <1>1, <1>2 DEF SessionTypes

LEMMA AlarmInv ==
    ASSUME Inv, NEW p \in Profiles, Alarm(p)
    PROVE  Inv'
<1> DEFINE e == [k |-> ses[p].alarm]
           t == Posted(p, e)
           s == [t EXCEPT !.alarm = "none"]
<1>1. /\ ses[p].alarm # "none" /\ ses' = [ses EXCEPT ![p] = s]
      /\ UNCHANGED <<mst, mq, erasing, calls, linkVars, modemVars>> /\ SessionTypes
  BY DEF Alarm, AlarmDue, Inv
<1>2. e \in ForSession
  BY <1>1 DEF SessionTypes, SessionRecord, ForSession
<1>3. t \in SessionRecord /\ t.st = ses[p].st
  BY <1>1, <1>2, PostedType
<1> HIDE DEF t
<1>4. s \in SessionRecord /\ s.st = ses[p].st
  BY <1>3 DEF SessionRecord
<1>5. ses' \in [Profiles -> SessionRecord] /\ \A r \in Profiles : ses'[r].st = ses[r].st
  BY <1>1, <1>4 DEF SessionTypes
<1>6. mq' \in Seq(ForManager) /\ mst' \in {"NotReady", "Ready"} /\ calls' \in Nat
  BY <1>1 DEF Inv, ManagerTypes
<1>7. AdapterSide'
  BY <1>1, <1>5, <1>6, NoneEnds
<1>8. NoRpc /\ UNCHANGED <<wire, modemVars>>
  BY <1>1 DEF NoRpc, linkVars
<1> QED BY <1>7, <1>8, LinkKept, SidesPrime

---------------------------------------------------------------------------
(* The manager and its clients *)

LEMMA ConsumesFacts ==
    ASSUME Inv, NEW k, Consumes(k)
    PROVE  /\ Head(mq) \in ForManager /\ Head(mq).k = k /\ mq' \in Seq(ForManager)
           /\ \A e \in Range(mq) : e = Head(mq) \/ e \in Range(mq')
BY TailFacts DEF Inv, ManagerTypes, Consumes

LEMMA StartDataCallSide ==
    ASSUME Inv, StartDataCall, UNCHANGED calls
    PROVE  AdapterSide'
<1> DEFINE p == Head(mq).p
           c == Head(mq).call
           w == Head(mq).want
<1>1. Consumes("StartDataCall") /\ UNCHANGED <<mst, erasing>>
  BY DEF StartDataCall
<1>2. /\ p \in Profiles /\ c \in Nat /\ w \in Names /\ mq' \in Seq(ForManager)
      /\ \A e \in Range(mq) : e.k = "SessionFinished" => e \in Range(mq')
  BY <1>1, ConsumesFacts, ForManagerFields
<1>3. SessionTypes /\ mst' \in {"NotReady", "Ready"} /\ calls' \in Nat
  BY <1>1 DEF Inv, ManagerTypes
<1>4. UNCHANGED ses \/ Becomes(p, NewSession(c, w))
  BY DEF StartDataCall, Refuse
<1>5. NewSession(c, w) \in SessionRecord /\ NewSession(c, w).st = "Idle"
  BY <1>2, NewSessionType
<1> HIDE DEF p, c, w
<1>6. /\ ses' \in [Profiles -> SessionRecord]
      /\ \A r \in Profiles : ses'[r].st = "Terminal" => ses[r].st = "Terminal"
  BY <1>2, <1>3, <1>4, <1>5 DEF SessionTypes, Becomes
<1> QED BY <1>1, <1>2, <1>3, <1>6, NoneEnds

\* A manager handler that at most posts an event to a session.
LEMMA PostingSide ==
    ASSUME Inv, NEW k, Consumes(k), k # "SessionFinished",
           NEW p \in Profiles, NEW e \in ForSession, UNCHANGED ses \/ Post(p, e),
           mst' \in {"NotReady", "Ready"}, UNCHANGED <<erasing, calls>>
    PROVE  AdapterSide'
<1>1. /\ mq' \in Seq(ForManager) /\ calls' \in Nat /\ SessionTypes
      /\ \A x \in Range(mq) : x.k = "SessionFinished" => x \in Range(mq')
  BY ConsumesFacts DEF Inv, ManagerTypes
<1>2. /\ ses' \in [Profiles -> SessionRecord]
      /\ \A r \in Profiles : ses'[r].st = "Terminal" => ses[r].st = "Terminal"
  BY <1>1, PostTypes DEF SessionTypes
<1> QED BY <1>1, <1>2, NoneEnds

LEMMA StopDataCallSide ==
    ASSUME Inv, StopDataCall, UNCHANGED calls
    PROVE  AdapterSide'
<1> DEFINE p == Head(mq).p
           e == [k |-> "Stop", call |-> Head(mq).call]
<1>1. Consumes("StopDataCall") /\ UNCHANGED <<mst, erasing>> /\ (UNCHANGED ses \/ Post(p, e))
  BY DEF StopDataCall, Refuse
<1>2. p \in Profiles /\ Head(mq).call \in Nat
  BY <1>1, ConsumesFacts, ForManagerFields
<1>3. e \in ForSession
  BY <1>2 DEF ForSession
<1>4. mst' \in {"NotReady", "Ready"}
  BY <1>1 DEF Inv, ManagerTypes
<1> HIDE DEF p, e
<1> QED BY <1>1, <1>2, <1>3, <1>4, PostingSide

LEMMA StateIndSide ==
    ASSUME Inv, StateInd, UNCHANGED calls
    PROVE  AdapterSide'
<1> DEFINE e == Head(mq)
<1>1. Consumes("CallState") /\ UNCHANGED <<mst, erasing>> /\ (UNCHANGED ses \/ Post(e.p, e))
  BY DEF StateInd
<1>2. e.p \in Profiles /\ e \in Indication
  BY <1>1, ConsumesFacts, ForManagerFields
<1>3. e \in ForSession
  BY <1>2 DEF ForSession
<1>4. mst' \in {"NotReady", "Ready"}
  BY <1>1 DEF Inv, ManagerTypes
<1> HIDE DEF e
<1> QED BY <1>1, <1>2, <1>3, <1>4, PostingSide

LEMMA ReadinessSide ==
    ASSUME Inv, ReadinessEvt \/ BridgeConnectivityChanged, UNCHANGED calls
    PROVE  AdapterSide'
<1>1. PICK k \in {"Readiness", "LinkDown"} : Consumes(k)
  BY DEF ReadinessEvt, BridgeConnectivityChanged
<1>2. UNCHANGED <<erasing, ses>> /\ mst' \in {"NotReady", "Ready"}
  BY DEF ReadinessEvt, BridgeConnectivityChanged
<1>3. PICK p \in Profiles : TRUE
  BY ProfilesAssumption
<1>4. [k |-> "Start"] \in ForSession
  BY DEF ForSession
<1> QED BY <1>1, <1>2, <1>3, <1>4, PostingSide

\* The session reported finished is the one the manager goes on to erase.
LEMMA SessionFinishedSide ==
    ASSUME Inv, SessionFinished, UNCHANGED calls
    PROVE  AdapterSide'
<1> DEFINE p == Head(mq).p
<1>1. /\ Consumes("SessionFinished") /\ UNCHANGED <<mst, ses>>
      /\ erasing' = {r \in {p} : Exists(r)}
  BY DEF SessionFinished
<1>2. /\ p \in Profiles /\ mq' \in Seq(ForManager)
      /\ Head(mq) = [k |-> "SessionFinished", p |-> p]
      /\ \A e \in Range(mq) : e = Head(mq) \/ e \in Range(mq')
  BY <1>1, ConsumesFacts, ForManagerFields
<1>3. erasing = {}
  BY <1>1 DEF Consumes
<1> HIDE DEF p
<1>4. ManagerTypes'
  BY <1>1, <1>2 DEF Inv, ManagerTypes
<1>5. SlotFreed'
  <2> SUFFICES ASSUME NEW r \in Profiles, ses[r].st = "Terminal"
               PROVE  r \in erasing' \/ [k |-> "SessionFinished", p |-> r] \in Range(mq')
    BY <1>1 DEF SlotFreed
  <2>1. CASE r = p
    BY <1>1, <2>1 DEF Exists
  <2>2. CASE r # p
    <3>1. [k |-> "SessionFinished", p |-> r] \in Range(mq)
      BY <1>3 DEF Inv, SlotFreed
    <3>2. [k |-> "SessionFinished", p |-> r] # [k |-> "SessionFinished", p |-> p]
      BY <2>2
    <3> QED BY <1>2, <3>1, <3>2
  <2> QED BY <2>1, <2>2
<1> QED BY <1>1, <1>4, <1>5 DEF AdapterSide, Inv, SessionTypes

LEMMA ManagerInv == Inv /\ Manager => Inv'
<1> SUFFICES ASSUME Inv, Manager PROVE Inv'
  OBVIOUS
<1>1. NoRpc /\ UNCHANGED <<wire, modemVars>> /\ UNCHANGED calls
  BY DEF Manager, ManagerStep, NoRpc, linkVars
<1>2. AdapterSide'
  BY <1>1, StartDataCallSide, StopDataCallSide, StateIndSide, ReadinessSide,
     SessionFinishedSide DEF Manager, ManagerStep
<1> QED BY <1>1, <1>2, LinkKept, SidesPrime

LEMMA JoinInv ==
    ASSUME Inv, NEW p \in Profiles, Join(p)
    PROVE  Inv'
<1>1. /\ p \in erasing /\ erasing' = {} /\ ses' = [ses EXCEPT ![p] = NoSession]
      /\ rpc' = [rpc EXCEPT ![p] = 0]
      /\ UNCHANGED <<mst, mq, calls, fifo, wire, held, lastId, modemVars>>
  BY DEF Join, Joined
<1>2. SessionTypes' /\ ses'[p].st = "none" /\ \A r \in Profiles \ {p} : ses'[r] = ses[r]
  BY <1>1, NoSessionType DEF Inv, SessionTypes
<1>3. ManagerTypes'
  BY <1>1 DEF Inv, ManagerTypes
<1>4. \A r \in Profiles \ {p} : r \notin erasing
  BY <1>1 DEF Inv, ManagerTypes
<1>5. SlotFreed'
  BY <1>1, <1>2, <1>4 DEF Inv, SlotFreed
<1>6. LinkSide'
  BY <1>1 DEF Inv, QueueTypes, LinkSide, RpcTypes
<1>7. ModemSide'
  BY <1>1, SessionsKept DEF Inv, QueueTypes, Ticks
<1> QED BY <1>2, <1>3, <1>5, <1>6, <1>7, SidesPrime DEF AdapterSide

\* A message is queued for the manager, the sessions being as they were.
LEMMA ManagerPosted ==
    ASSUME Inv, NEW e \in ForManager, mq' = Append(mq, e), calls' \in Nat,
           UNCHANGED <<mst, erasing>>, ses' \in [Profiles -> SessionRecord],
           \A r \in Profiles : ses'[r].st = ses[r].st
    PROVE  AdapterSide'
<1>1. mq' \in Seq(ForManager) /\ Range(mq) \subseteq Range(mq')
  BY AppendFacts DEF Inv, ManagerTypes
<1>2. mst' \in {"NotReady", "Ready"}
  BY DEF Inv, ManagerTypes
<1> QED BY <1>1, <1>2, NoneEnds

LEMMA ClientInv ==
    ASSUME Inv, NEW k \in {"StartDataCall", "StopDataCall"}, NEW p \in Profiles,
           NEW w \in Names, ClientCall(k, p, w), UNCHANGED modemVars
    PROVE  Inv'
<1> DEFINE e == [k |-> k, p |-> p, call |-> calls + 1, want |-> w]
<1>1. /\ mq' = Append(mq, e) /\ calls' = calls + 1 /\ calls \in Nat /\ SessionTypes
      /\ UNCHANGED <<mst, erasing, ses, linkVars>>
  BY DEF ClientCall, Inv, ManagerTypes
<1>2. e \in ForManager
  BY <1>1 DEF ForManager
<1> HIDE DEF e
<1>3. AdapterSide'
  BY <1>1, <1>2, ManagerPosted DEF SessionTypes
<1>4. NoRpc /\ UNCHANGED <<wire, modemVars>>
  BY <1>1 DEF NoRpc, linkVars
<1> QED BY <1>3, <1>4, LinkKept, SidesPrime

---------------------------------------------------------------------------
(* The bridge *)

LEMMA ReceiveInv == Inv /\ Receive => Inv'
<1> SUFFICES ASSUME Inv, Receive PROVE Inv'
  OBVIOUS
<1> DEFINE m == Head(wire)
<1>1. /\ wire # <<>> /\ wire' = Tail(wire)
      /\ UNCHANGED <<fifo, held, lastId, mst, erasing, calls, modemVars>>
      /\ QueueTypes /\ RpcTypes /\ SessionTypes /\ calls' \in Nat
  BY DEF Receive, Inv, ManagerTypes
<1>2. wire' \in Seq(FromModem) /\ m \in FromModem
  BY <1>1, TailFacts DEF QueueTypes
<1>3. ModemSide'
  BY <1>1, <1>2, SessionsKept DEF QueueTypes, Ticks
<1>4. CASE m.k = "Rsp"
  <2>1. m \in Result /\ m.p \in Profiles
    BY <1>2, <1>4, FromModemFields
  <2>2. m \in ForSession
    BY <2>1 DEF ForSession
  <2>3. /\ (rpc' = [rpc EXCEPT ![m.p] = 0] /\ Post(m.p, m)) \/ UNCHANGED <<rpc, ses>>
        /\ UNCHANGED mq
    BY <1>4 DEF Receive
  <2> HIDE DEF m
  <2>4. LinkSide'
    BY <1>1, <2>1, <2>3 DEF LinkSide, RpcTypes, QueueTypes
  <2>5. /\ ses' \in [Profiles -> SessionRecord]
        /\ \A r \in Profiles : ses'[r].st = ses[r].st
    BY <1>1, <2>1, <2>2, <2>3, PostTypes DEF SessionTypes
  <2>6. AdapterSide'
    BY <1>1, <2>3, <2>5, NoneEnds DEF Inv, ManagerTypes
  <2> QED BY <1>3, <2>4, <2>6, SidesPrime
<1>5. CASE m.k # "Rsp"
  <2>1. m \in ForManager
    BY <1>2, <1>5, FromModemFields, Zenon DEF ForManager
  <2>2. mq' = Append(mq, m) /\ UNCHANGED <<rpc, ses>>
    BY <1>5 DEF Receive
  <2> HIDE DEF m
  <2>3. LinkSide'
    BY <1>1, <2>2 DEF LinkSide, RpcTypes, QueueTypes
  <2>4. AdapterSide'
    BY <1>1, <2>1, <2>2, ManagerPosted DEF SessionTypes
  <2> QED BY <1>3, <2>3, <2>4, SidesPrime
<1> QED BY <1>4, <1>5

LEMMA FailedType ==
    ASSUME RpcTypes, NEW p \in Profiles
    PROVE  Failed(p) \in ForSession
<1>1. rpc[p] \in Nat
  BY DEF RpcTypes
<1> QED BY <1>1 DEF Failed, ForSession, Result, Results

LEMMA RpcTimeoutInv ==
    ASSUME Inv, NEW p \in Profiles, RpcTimeout(p)
    PROVE  Inv'
<1> DEFINE e == Failed(p)
<1>1. /\ rpc' = [rpc EXCEPT ![p] = 0] /\ Post(p, e)
      /\ UNCHANGED <<fifo, wire, held, lastId, mst, mq, erasing, calls, modemVars>>
      /\ QueueTypes /\ RpcTypes /\ SessionTypes
  BY DEF RpcTimeout, Inv
<1>2. e \in ForSession
  BY <1>1, FailedType, Zenon
<1> HIDE DEF e
<1>3. /\ ses' \in [Profiles -> SessionRecord]
      /\ \A r \in Profiles : ses'[r].st = ses[r].st
  BY <1>1, <1>2, PostTypes, Zenon
<1>4. AdapterSide'
  BY <1>1, <1>3, NoneEnds DEF Inv, ManagerTypes
<1>5. LinkSide'
  BY <1>1 DEF LinkSide, RpcTypes, QueueTypes
<1>6. ModemSide'
  BY <1>1, SessionsKept DEF QueueTypes, Ticks
<1> QED BY <1>4, <1>5, <1>6, SidesPrime

\* What the link takes with it is a request, never a timer event.
LEMMA AfterLossFacts ==
    ASSUME QueueTypes, fifo' \in AfterLoss
    PROVE  /\ fifo' \in Seq(ForModem)
           /\ \A j \in TickKinds, r \in Profiles : Ticks(j, r) => Ticks(j, r)'
<1>1. fifo \in Seq(ForModem)
  BY DEF QueueTypes
<1>2. CASE fifo' = fifo
  BY <1>1, <1>2 DEF Ticks
<1>3. CASE /\ fifo # <<>> /\ fifo[Len(fifo)].k \in Requests
           /\ fifo' = SubSeq(fifo, 1, Len(fifo) - 1)
  <2>1. /\ fifo' \in Seq(ForModem)
        /\ \A e \in Range(fifo) : e = fifo[Len(fifo)] \/ e \in Range(fifo')
    BY <1>1, <1>3, FrontFacts
  <2>2. ASSUME NEW j \in TickKinds, NEW r \in Profiles, Ticks(j, r)
        PROVE  Ticks(j, r)'
    <3>1. [k |-> j, p |-> r].k \notin Requests
      BY DEF TickKinds, Requests
    <3> QED BY <1>3, <2>1, <2>2, <3>1 DEF Ticks
  <2> QED BY <2>1, <2>2
<1> QED BY <1>2, <1>3 DEF AfterLoss

LEMMA LinkDownInv == Inv /\ LinkDown => Inv'
<1> SUFFICES ASSUME Inv, LinkDown PROVE Inv'
  OBVIOUS
<1>1. /\ wire' = <<>> /\ held' = <<>> /\ fifo' \in AfterLoss
      /\ ses' = [p \in Profiles |-> IF rpc[p] # 0 THEN Posted(p, Failed(p)) ELSE ses[p]]
      /\ rpc' = [p \in Profiles |-> 0] /\ mq' = Append(mq, [k |-> "LinkDown"])
      /\ UNCHANGED <<lastId, mst, erasing, calls, modemVars>>
      /\ QueueTypes /\ RpcTypes /\ SessionTypes /\ calls' \in Nat
  BY DEF LinkDown, Inv, ManagerTypes
<1>2. \A p \in Profiles : /\ Posted(p, Failed(p)) \in SessionRecord
                          /\ Posted(p, Failed(p)).st = ses[p].st
  BY <1>1, FailedType, PostedType
<1>3. \A p \in Profiles : ses[p] \in SessionRecord
  BY <1>1 DEF SessionTypes
<1>4. /\ ses' \in [Profiles -> SessionRecord]
      /\ \A p \in Profiles : ses'[p].st = ses[p].st
  BY <1>1, <1>2, <1>3
<1>5. [k |-> "LinkDown"] \in ForManager
  BY DEF ForManager
<1>6. AdapterSide'
  BY <1>1, <1>4, <1>5, ManagerPosted
<1>7. LinkSide'
  BY <1>1 DEF LinkSide, RpcTypes
<1>8. wire' \in Seq(FromModem)
  BY <1>1
<1>9. ModemSide'
  BY <1>1, <1>8, AfterLossFacts, SessionsKept DEF TickKinds
<1> QED BY <1>6, <1>7, <1>9, SidesPrime, Zenon

LEMMA AdapterKept ==
    ASSUME Inv, UNCHANGED adapterVars
    PROVE  AdapterSide'
BY DEF Inv, adapterVars, AdapterSide, ManagerTypes, SessionTypes, SlotFreed

LEMMA LinkUpInv == Inv /\ LinkUp => Inv'
<1> SUFFICES ASSUME Inv, LinkUp PROVE Inv'
  OBVIOUS
<1>1. /\ held' = <<>> /\ wire' = <<Readiness(modem = "Ready")>>
      /\ UNCHANGED <<lastId, mst, mq, erasing, calls, modemVars>>
      /\ QueueTypes /\ RpcTypes /\ SessionTypes
  BY DEF LinkUp, Inv
<1> DEFINE late(n) == {held[i].p : i \in 1..n}
<1>2. PICK n \in 0..Len(held) :
        /\ fifo' = fifo \o SubSeq(held, n + 1, Len(held))
        /\ ses' = [p \in Profiles |->
                     IF p \in late(n) THEN Posted(p, Failed(p)) ELSE ses[p]]
        /\ rpc' = [p \in Profiles |-> IF p \in late(n) THEN 0 ELSE rpc[p]]
  BY DEF LinkUp
<1> HIDE DEF late
<1>3. (modem = "Ready") \in BOOLEAN
  OBVIOUS
<1>4. Readiness(modem = "Ready") \in FromModem
  BY <1>3 DEF Readiness, FromModem, Retained
<1>5. wire' \in Seq(FromModem)
  BY <1>1, <1>4, Single
<1>6. held \in Seq(ForModem)
  BY <1>1 DEF QueueTypes, ForModem
<1>7. SubSeq(held, n + 1, Len(held)) \in Seq(ForModem)
  BY <1>6
<1>8. ModemSide'
  BY <1>1, <1>2, <1>5, <1>7, QueuedBehind
<1>9. \A p \in Profiles : /\ Posted(p, Failed(p)) \in SessionRecord
                          /\ Posted(p, Failed(p)).st = ses[p].st
  BY <1>1, FailedType, PostedType
<1>10. \A p \in Profiles : ses[p] \in SessionRecord
  BY <1>1 DEF SessionTypes
<1>11. /\ ses' \in [Profiles -> SessionRecord]
       /\ \A p \in Profiles : ses'[p].st = ses[p].st
  BY <1>2, <1>9, <1>10
<1>12. AdapterSide'
  BY <1>1, <1>11, NoneEnds DEF Inv, ManagerTypes
<1>13. LinkSide'
  BY <1>1, <1>2 DEF LinkSide, RpcTypes
<1> QED BY <1>8, <1>12, <1>13, SidesPrime, Zenon

\* A step of the modem alone.
LEMMA ModemAlone ==
    ASSUME Inv, ModemSide', UNCHANGED <<held, rpc, lastId, adapterVars>>
    PROVE  Inv'
<1>1. LinkSide'
  BY DEF Inv, QueueTypes, LinkSide, RpcTypes
<1> QED BY <1>1, AdapterKept, SidesPrime

LEMMA ForeignInv ==
    ASSUME Inv, NEW p \in Profiles, force_call_drop(p) \/ ForeignRequest(p),
           UNCHANGED <<held, rpc, lastId, adapterVars>>
    PROVE  Inv'
<1>1. PICK k \in AskKinds : fifo' = Append(fifo, Req(k, p, 0, NoIfname))
  BY DEF force_call_drop, ForeignRequest, AskKinds, Requests
<1>2. UNCHANGED <<modemVars, wire>>
  BY DEF force_call_drop, ForeignRequest
<1>3. Req(k, p, 0, NoIfname) \in Ask
  BY DEF Req, Ask, Names
<1>4. ModemSide'
  BY <1>1, <1>2, <1>3, AskQueued
<1> QED BY <1>4, ModemAlone

---------------------------------------------------------------------------
(* The theorems *)

LEMMA InitInv == Init => Inv
<1> SUFFICES ASSUME Init PROVE Inv
  OBVIOUS
<1> USE DEF Init, LinkInit, ManagerInit, ModemInit
<1>1. Readiness(TRUE) \in FromModem
  BY DEF Readiness, FromModem, Retained
<1>2. QueueTypes
  <2>1. <<Readiness(TRUE)>> \in Seq(FromModem)
    BY <1>1, Single, Zenon
  <2>2. fifo = <<>> /\ held = <<>> /\ wire = <<Readiness(TRUE)>>
    OBVIOUS
  <2>3. fifo \in Seq(ForModem) /\ held \in Seq(Ask)
    BY <2>2
  <2> QED BY <2>1, <2>2, <2>3, Zenon DEF QueueTypes
<1>3. RpcTypes
  BY DEF RpcTypes
<1>4. ModemTypes
  BY DEF ModemTypes
<1>5. ManagerTypes
  BY ProfilesAssumption DEF ManagerTypes
<1>6. SessionTypes /\ \A p \in Profiles : ses[p].st = "none"
  BY NoSessionType DEF SessionTypes
<1>7. Pool
  BY DEF Pool, PoolMatchesCalls
<1>8. Timed
  BY DEF Timed
<1>9. SlotFreed
  BY <1>6 DEF SlotFreed
<1> QED BY <1>2, <1>3, <1>4, <1>5, <1>6, <1>7, <1>8, <1>9 DEF Inv

LEMMA StutterInv == Inv /\ UNCHANGED vars => Inv'
<1> SUFFICES ASSUME Inv, UNCHANGED vars PROVE Inv'
  OBVIOUS
<1>1. NoRpc /\ UNCHANGED <<wire, modemVars>> /\ UNCHANGED adapterVars
  BY DEF vars, NoRpc, linkVars
<1> QED BY <1>1, LinkKept, AdapterKept, SidesPrime

LEMMA NextInv == Inv /\ Next => Inv'
<1> SUFFICES ASSUME Inv, Next PROVE Inv'
  OBVIOUS
<1>1. ASSUME NEW p \in Ours, (startDataCall(p) \/ stopDataCall(p)) /\ UNCHANGED modemVars
      PROVE  Inv'
  <2>1. PICK k \in {"StartDataCall", "StopDataCall"}, w \in Names : ClientCall(k, p, w)
    BY <1>1 DEF startDataCall, stopDataCall, Names
  <2> QED BY <1>1, <2>1, ClientInv, OursAssumption
<1>2. ASSUME NEW p \in Profiles,
             \/ force_call_drop(p) /\ UNCHANGED <<link, held, rpc, lastId, adapterVars>>
             \/ ForeignRequest(p) /\ UNCHANGED <<link, held, rpc, lastId, adapterVars>>
      PROVE  Inv'
  BY <1>2, ForeignInv
<1>3. ASSUME NEW p \in Profiles, Session(p) \/ Alarm(p) \/ Join(p) \/ RpcTimeout(p)
      PROVE  Inv'
  BY <1>3, SessionInv, AlarmInv, JoinInv, RpcTimeoutInv
<1>4. ASSUME NEW p \in Profiles, Due(p)
      PROVE  Inv'
  BY <1>4, TimerDueSide, ModemAlone DEF Due, linkRest
<1>5. CASE Manager \/ Receive \/ LinkDown \/ LinkUp
  BY <1>5, ManagerInv, ReceiveInv, LinkDownInv, LinkUpInv
<1>6. CASE Modem
  BY <1>6, ModemStepSide, ModemAlone DEF Modem, linkRest
<1>7. CASE smfn_stopping /\ UNCHANGED <<link, held, rpc, lastId, adapterVars>>
  BY <1>7, StoppingSide, ModemAlone
<1> QED BY <1>1, <1>2, <1>3, <1>4, <1>5, <1>6, <1>7, OursAssumption DEF Next

LEMMA InvAlways == Spec => []Inv
<1>1. Inv /\ [Next]_vars => Inv'
  BY NextInv, StutterInv
<1> QED BY <1>1, InitInv, PTL DEF Spec

\* Every variable keeps its type, an RPC a session waits for was sent, and the
\* manager joins one session at a time.
THEOREM DataTypeOK == Spec => []TypeOK
<1>1. Inv => TypeOK
  BY DEF Inv, RpcTypes, ModemTypes, ManagerTypes, SessionTypes, SessionRecord, TypeOK, TickKinds
<1> QED BY <1>1, InvAlways, PTL

\* The names in use are those of the modem's sessions, each held once: no path
\* that forgets a session leaks its name, and none is given out twice.
THEOREM DataPool == Spec => []PoolMatchesCalls
<1>1. Inv => PoolMatchesCalls
  BY DEF Inv, Pool
<1> QED BY <1>1, InvAlways, PTL

\* A call of the modem in a passing state has a timer that ends it scheduled or
\* that timer's event queued, whatever stale timer events the queue holds.
THEOREM DataTimers == Spec => []NoStuckCall
<1>1. ASSUME NEW k, NEW p, Ticks(k, p)
      PROVE  Queued(k, p)
  <2>1. PICK i \in DOMAIN fifo : fifo[i] = [k |-> k, p |-> p]
    BY <1>1 DEF Ticks, Range
  <2> QED BY <2>1 DEF Queued
<1>2. Inv => NoStuckCall
  BY <1>1 DEF Inv, Timed, NoStuckCall
<1> QED BY <1>2, InvAlways, PTL

\* The profile of a session that is over is about to be freed, in every state
\* of the manager and of the link.
THEOREM DataSlots == Spec => []SlotFreed
<1>1. Inv => SlotFreed
  BY DEF Inv
<1> QED BY <1>1, InvAlways, PTL
=============================================================================
