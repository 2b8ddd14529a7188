--------------------------- MODULE DataCallProofs ---------------------------
(***************************************************************************)
(* What the clients of data calls can rely on, for any profiles, interface *)
(* names, calls and disturbances: each call has at most one answer, a      *)
(* failed start tells listeners nothing, and a session that was announced  *)
(* ends with a last notice.                                                *)
(***************************************************************************)
EXTENDS DataProofs

---------------------------------------------------------------------------
(* The callbacks of clients.  The number of a client's call is carried by  *)
(* one event, or kept in one session, until its callback runs; an answered *)
(* one is nowhere.                                                         *)

IsCall(e) == e.k \in {"StartDataCall", "StopDataCall", "Stop"}

\* The calls a queue carries, and that it carries each once.
Ids(s) == {c \in Nat : \E j \in DOMAIN s : IsCall(s[j]) /\ s[j].call = c}
Once(s) == \A i, j \in DOMAIN s : IsCall(s[i]) /\ IsCall(s[j]) /\ s[i].call = s[j].call => i = j

\* What taking the head does to the calls of a queue.
LEMMA IdsTail ==
    ASSUME NEW S, NEW s \in Seq(S), s # <<>>, Once(s), \A e \in S : IsCall(e) => e.call \in Nat
    PROVE  /\ Once(Tail(s)) /\ Ids(Tail(s)) \subseteq Ids(s)
           /\ IsCall(Head(s)) => Head(s).call \in Ids(s) /\ Head(s).call \notin Ids(Tail(s))
<1>1. /\ \A i \in DOMAIN Tail(s) : i + 1 \in DOMAIN s /\ Tail(s)[i] = s[i + 1] /\ i \in Nat
      /\ Head(s) = s[1] /\ 1 \in DOMAIN s /\ Head(s) \in S /\ \A i \in DOMAIN Tail(s) : i >= 1
  OBVIOUS
<1>2. Once(Tail(s))
  <2> SUFFICES ASSUME NEW i \in DOMAIN Tail(s), NEW j \in DOMAIN Tail(s),
                      IsCall(Tail(s)[i]), IsCall(Tail(s)[j]), Tail(s)[i].call = Tail(s)[j].call
               PROVE  i = j
    BY DEF Once
  <2>1. i + 1 = j + 1
    BY <1>1 DEF Once
  <2> QED BY <1>1, <2>1
<1>3. Ids(Tail(s)) \subseteq Ids(s)
  BY <1>1 DEF Ids
<1>4. ASSUME IsCall(Head(s))
      PROVE  Head(s).call \in Ids(s) /\ Head(s).call \notin Ids(Tail(s))
  <2>1. Head(s).call \in Ids(s)
    BY <1>1, <1>4 DEF Ids
  <2>2. ASSUME Head(s).call \in Ids(Tail(s)) PROVE FALSE
    <3>1. PICK j \in DOMAIN Tail(s) : IsCall(Tail(s)[j]) /\ Tail(s)[j].call = Head(s).call
      BY <2>2 DEF Ids
    <3>2. j + 1 = 1
      BY <1>1, <1>4, <3>1 DEF Once
    <3> QED BY <1>1, <3>2
  <2> QED BY <2>1, <2>2
<1> QED BY <1>2, <1>3, <1>4

\* What posting does.
LEMMA IdsAppend ==
    ASSUME NEW S, NEW s \in Seq(S), NEW e \in S, Once(s), \A x \in S : IsCall(x) => x.call \in Nat,
           IsCall(e) => e.call \notin Ids(s)
    PROVE  /\ Once(Append(s, e))
           /\ IsCall(e) => Ids(Append(s, e)) = Ids(s) \cup {e.call}
           /\ ~IsCall(e) => Ids(Append(s, e)) = Ids(s)
<1> DEFINE t == Append(s, e)
<1>1. /\ DOMAIN t = DOMAIN s \cup {Len(s) + 1} /\ Len(s) + 1 \notin DOMAIN s
      /\ \A i \in DOMAIN s : t[i] = s[i] /\ s[i] \in S
      /\ t[Len(s) + 1] = e
  OBVIOUS
<1> HIDE DEF t
<1>2. \A i \in DOMAIN s : IsCall(s[i]) => s[i].call \in Ids(s)
  BY <1>1 DEF Ids
<1>3. Once(t)
  BY <1>1, <1>2 DEF Once
<1>4. /\ IsCall(e) => Ids(t) = Ids(s) \cup {e.call}
      /\ ~IsCall(e) => Ids(t) = Ids(s)
  BY <1>1 DEF Ids
<1> QED BY <1>3, <1>4 DEF t

\* What joining two queues does.
LEMMA IdsConcat ==
    ASSUME NEW S, NEW s \in Seq(S), NEW t \in Seq(S), Once(s), Once(t),
           Ids(s) \cap Ids(t) = {}, \A x \in S : IsCall(x) => x.call \in Nat
    PROVE  Once(s \o t) /\ Ids(s \o t) \subseteq Ids(s) \cup Ids(t)
<1> DEFINE u == s \o t
<1>1. /\ \A i \in DOMAIN u : \/ i \in DOMAIN s /\ u[i] = s[i]
                             \/ i - Len(s) \in DOMAIN t /\ u[i] = t[i - Len(s)]
      /\ \A i \in DOMAIN u : i \in Nat
      /\ Len(s) \in Nat
      /\ \A i \in DOMAIN s : s[i] \in S
      /\ \A i \in DOMAIN t : t[i] \in S
  BY ConcatFacts
<1> HIDE DEF u
<1>2. /\ \A i \in DOMAIN s : IsCall(s[i]) => s[i].call \in Ids(s)
      /\ \A i \in DOMAIN t : IsCall(t[i]) => t[i].call \in Ids(t)
  BY <1>1 DEF Ids
<1>3. Ids(u) \subseteq Ids(s) \cup Ids(t)
  BY <1>1 DEF Ids
<1>4. Once(u)
  <2> SUFFICES ASSUME NEW i \in DOMAIN u, NEW j \in DOMAIN u,
                      IsCall(u[i]), IsCall(u[j]), u[i].call = u[j].call
               PROVE  i = j
    BY DEF Once
  <2>1. CASE i \in DOMAIN s /\ u[i] = s[i] /\ j \in DOMAIN s /\ u[j] = s[j]
    BY <2>1 DEF Once
  <2>2. CASE /\ i - Len(s) \in DOMAIN t /\ u[i] = t[i - Len(s)]
             /\ j - Len(s) \in DOMAIN t /\ u[j] = t[j - Len(s)]
    <3>1. i - Len(s) = j - Len(s)
      BY <2>2 DEF Once
    <3> QED BY <3>1, <1>1
  <2>3. CASE \/ i \in DOMAIN s /\ u[i] = s[i] /\ j - Len(s) \in DOMAIN t /\ u[j] = t[j - Len(s)]
             \/ j \in DOMAIN s /\ u[j] = s[j] /\ i - Len(s) \in DOMAIN t /\ u[i] = t[i - Len(s)]
    BY <2>3, <1>2
  <2> QED BY <1>1, <2>1, <2>2, <2>3
<1> QED BY <1>3, <1>4 DEF u

\* The call a session owes an answer, and all the calls it holds.
Cb(r) == IF r.st \in {"Idle", "SendingStartReq"} THEN {r.startCb}
         ELSE IF r.st \in {"SendingStopReq", "Reconciling"} THEN {r.stopCb} ELSE {}
Holds(r) == Ids(r.q) \cup Ids(r.deferred) \cup Cb(r)
Neat(r) == /\ Once(r.q) /\ Once(r.deferred)
           /\ Ids(r.q) \cap Ids(r.deferred) = {}
           /\ (Ids(r.q) \cup Ids(r.deferred)) \cap Cb(r) = {}

Open == {c \in 1..calls : answers[c] = <<>>}

\* A call is carried by one event or kept by one session, and is then unanswered.
Placed ==
    /\ Once(mq) /\ Ids(mq) \subseteq Open
    /\ \A p \in Profiles : /\ Neat(ses[p]) /\ Holds(ses[p]) \subseteq Open
                           /\ Holds(ses[p]) \cap Ids(mq) = {}
    /\ \A p, r \in Profiles : p # r => Holds(ses[p]) \cap Holds(ses[r]) = {}

Outcomes == {"SUCCESS", "error", "GENERIC_FAILURE", "OP_IN_PROGRESS", "INVALID_STATE"}

\* The states of a session whose start has succeeded.
Running == {"WaitingForUp", "Connected", "SendingStopReq", "WaitingForDown", "Reconciling"}

\* The transitions of a session, with what its clients and listeners hear.
Arc(p) ==
    \/ Quiet /\ ses'[p].st = ses[p].st
    \/ Quiet /\ ses[p].st = "Idle" /\ ses'[p].st = "SendingStartReq"
    \/ /\ Quiet /\ ses[p].st = "SendingStartReq" /\ ses'[p].st = "Ending"
       /\ Answer(ses[p].startCb, "error")
    \/ /\ Quiet /\ ses[p].st = "SendingStartReq" /\ ses'[p].st = "WaitingForUp"
       /\ Answer(ses[p].startCb, "SUCCESS")
    \/ Quiet /\ ses[p].st = "Ending" /\ ses'[p].st = "Terminal" /\ UNCHANGED answers
    \/ Quiet /\ ses[p].st \in Running /\ ses'[p].st \in Running
    \/ Notify(p, "CONNECTED") /\ ses[p].st \in Running /\ ses'[p].st \in Running
    \/ Notify(p, "NO_NET") /\ ses[p].st \in Running /\ ses'[p].st = "Terminal"

\* A step of p's session: it takes on no call, and what it answers it had held.
Works(p) ==
    /\ \A r \in Profiles \ {p} : ses'[r] = ses[r]
    /\ ses'[p].startCb = ses[p].startCb
    /\ Neat(ses'[p]) /\ Holds(ses'[p]) \subseteq Holds(ses[p])
    /\ \/ UNCHANGED answers
       \/ \E c \in Holds(ses[p]) \ Holds(ses'[p]), x \in Outcomes : Answer(c, x)
    /\ Arc(p)
    /\ Once(mq') /\ Ids(mq') = Ids(mq) /\ calls' = calls

\* The fields of a session that consumes an event.
LEMMA GoesFields ==
    ASSUME SessionTypes, NEW p \in Profiles, NEW st, NEW s, s = Goes(p, st)
    PROVE  /\ s.st = st /\ s.q = Tail(ses[p].q) /\ s.deferred = ses[p].deferred
           /\ s.startCb = ses[p].startCb /\ s.stopCb = ses[p].stopCb
           /\ DOMAIN s = {"st", "q", "deferred", "status", "alarm", "want", "startCb", "stopCb"}
BY DEF SessionTypes, SessionRecord, Goes

\* Events for sessions and for the manager that carry a call carry a number.
LEMMA CallTypes ==
    /\ \A e \in ForSession : IsCall(e) => e.call \in Nat
    /\ \A e \in ForManager : IsCall(e) => e.call \in Nat
    /\ \A e \in ForSession : IsCall(e) <=> e.k = "Stop"
BY DEF IsCall, ForSession, ForManager, Result, Indication, Retained

\* A step of a session, handler by handler.
LEMMA SessionWorks ==
    ASSUME Inv, Placed, NEW p \in Profiles, Session(p)
    PROVE  Works(p)
<1> DEFINE a == ses[p]
           b == ses'[p]
           e == Event(p)
<1>1. SessionTypes /\ a \in SessionRecord /\ Neat(a) /\ calls' = calls
      /\ a.q \in Seq(ForSession) /\ a.deferred \in Seq(ForSession)
  BY Zenon DEF Inv, SessionTypes, SessionRecord, Placed, Session, SessionStep
<1>b. ASSUME NEW s, Becomes(p, s) PROVE b = s /\ \A r \in Profiles \ {p} : ses'[r] = ses[r]
  BY <1>b, <1>1 DEF Becomes, SessionTypes
<1>m. Stays \/ Finish(p) => Once(mq') /\ Ids(mq') = Ids(mq)
  <2>1. [k |-> "SessionFinished", p |-> p] \in ForManager /\ ~IsCall([k |-> "SessionFinished", p |-> p])
    BY DEF ForManager, IsCall
  <2>2. mq \in Seq(ForManager) /\ Once(mq)
    BY DEF Inv, ManagerTypes, Placed
  <2>3. Once(Append(mq, [k |-> "SessionFinished", p |-> p]))
        /\ Ids(Append(mq, [k |-> "SessionFinished", p |-> p])) = Ids(mq)
    BY <2>1, <2>2, IdsAppend, CallTypes
  <2> QED BY <2>2, <2>3, Zenon DEF Stays, Finish
<1>t. ASSUME a.q # <<>>
      PROVE  /\ Once(Tail(a.q)) /\ Ids(Tail(a.q)) \subseteq Ids(a.q) /\ e \in ForSession
             /\ Tail(a.q) \in Seq(ForSession)
             /\ e.k = "Stop" => e.call \in Ids(a.q) /\ e.call \notin Ids(Tail(a.q))
  <2>1. e = Head(a.q) /\ Once(a.q)
    BY <1>1 DEF Event, Neat
  <2>2. e \in ForSession /\ Tail(a.q) \in Seq(ForSession)
    BY <1>1, <1>t, <2>1, TailFacts
  <2> QED BY <1>1, <1>t, <2>1, <2>2, IdsTail, CallTypes, Zenon
<1>k. ASSUME a.q # <<>>, b.q = Tail(a.q), b.deferred = a.deferred, Cb(b) \subseteq Cb(a)
      PROVE  /\ Neat(b) /\ Holds(b) \subseteq Holds(a)
             /\ \A c \in Cb(a) : c \notin Cb(b) => c \in Holds(a) \ Holds(b)
             /\ e.k = "Stop" => e.call \in Holds(a) \ Holds(b)
  BY <1>1, <1>k, <1>t, Zenon DEF Neat, Holds

<1>2. CASE Idle_St(p)
  <2>1. /\ Becomes(p, Goes(p, "SendingStartReq")) /\ Quiet /\ Stays /\ UNCHANGED answers
        /\ a.st = "Idle" /\ a.q # <<>>
    BY <1>2, Zenon DEF Idle_St, In
  <2>2. /\ b.st = "SendingStartReq" /\ b.q = Tail(a.q) /\ b.deferred = a.deferred
        /\ b.startCb = a.startCb
    BY <1>1, <1>b, <2>1, GoesFields
  <2>3. Cb(b) \subseteq Cb(a)
    BY <2>1, <2>2 DEF Cb
  <2> QED BY <1>1, <1>b, <1>m, <1>k, <2>1, <2>2, <2>3, Zenon DEF Works, Arc
<1>3. CASE SendingStartReq_St(p)
  <2>1. CASE In(p, "SendingStartReq", "Stop") /\ Stays /\ Quiet /\ UNCHANGED answers
             /\ Becomes(p, [Goes(p, "SendingStartReq") EXCEPT !.deferred = Append(@, e)])
    <3>1. a.st = "SendingStartReq" /\ a.q # <<>> /\ e.k = "Stop"
      BY <2>1 DEF In, Event
    <3>2. /\ b.st = "SendingStartReq" /\ b.q = Tail(a.q) /\ b.deferred = Append(a.deferred, e)
          /\ b.startCb = a.startCb
      BY <1>1, <1>b, <2>1, GoesFields
    <3>3. e.call \notin Ids(a.deferred) /\ Once(a.deferred) /\ IsCall(e)
      BY <1>1, <1>t, <3>1, Zenon DEF Neat, IsCall
    <3>4. Once(b.deferred) /\ Ids(b.deferred) = Ids(a.deferred) \cup {e.call}
      BY <1>1, <1>t, <3>1, <3>2, <3>3, IdsAppend, CallTypes
    <3>5. Cb(b) = Cb(a)
      BY <3>1, <3>2, Zenon DEF Cb
    <3>6. Neat(b) /\ Holds(b) \subseteq Holds(a)
      BY <1>1, <1>t, <3>1, <3>2, <3>4, <3>5, Zenon DEF Neat, Holds
    <3> QED BY <1>1, <1>b, <1>m, <2>1, <3>1, <3>2, <3>6 DEF Works, Arc
  <2>2. CASE In(p, "SendingStartReq", "Rsp") /\ StartFailed(p)
    <3>1. /\ a.st = "SendingStartReq" /\ a.q # <<>> /\ Becomes(p, Goes(p, "Ending"))
          /\ Answer(a.startCb, "error") /\ Finish(p) /\ Quiet
      BY <2>2, Zenon DEF In, StartFailed
    <3>2. b.st = "Ending" /\ b.q = Tail(a.q) /\ b.deferred = a.deferred /\ b.startCb = a.startCb
      BY <1>1, <1>b, <3>1, GoesFields
    <3>3. Cb(b) = {} /\ Cb(a) = {a.startCb}
      BY <3>1, <3>2 DEF Cb
    <3>4. Neat(b) /\ Holds(b) \subseteq Holds(a) /\ a.startCb \in Holds(a) \ Holds(b)
      BY <1>k, <3>1, <3>2, <3>3, Zenon
    <3> QED BY <1>1, <1>b, <1>m, <3>1, <3>2, <3>4, Zenon DEF Works, Arc, Outcomes
  <2>3. CASE /\ In(p, "SendingStartReq", "Rsp") /\ Answer(a.startCb, "SUCCESS") /\ Stays /\ Quiet
             /\ Becomes(p, [Goes(p, "WaitingForUp")
                            EXCEPT !.status = "CONNECTING", !.alarm = "Bringup",
                                   !.q = @ \o a.deferred, !.deferred = <<>>])
    <3>1. a.st = "SendingStartReq" /\ a.q # <<>>
      BY <2>3 DEF In
    <3>g. PICK g : g = Goes(p, "WaitingForUp")
      OBVIOUS
    <3>f. /\ g.st = "WaitingForUp" /\ g.q = Tail(a.q) /\ g.deferred = a.deferred /\ g.startCb = a.startCb
          /\ DOMAIN g = {"st", "q", "deferred", "status", "alarm", "want", "startCb", "stopCb"}
      BY <1>1, <3>g, GoesFields
    <3>0. b = [g EXCEPT !.status = "CONNECTING", !.alarm = "Bringup",
                        !.q = @ \o a.deferred, !.deferred = <<>>]
      BY <1>b, <2>3, <3>g
    <3>2. /\ b.st = "WaitingForUp" /\ b.q = Tail(a.q) \o a.deferred /\ b.deferred = <<>>
          /\ b.startCb = a.startCb
      <4>1. PICK u : u = g.q \o a.deferred
        OBVIOUS
      <4>2. b = [g EXCEPT !.status = "CONNECTING", !.alarm = "Bringup", !.q = u, !.deferred = <<>>]
        BY <3>0, <4>1
      <4>3. b.st = g.st /\ b.q = u /\ b.deferred = <<>> /\ b.startCb = g.startCb
        BY <3>f, <4>2
      <4> QED BY <3>f, <4>1, <4>3
    <3>3. Cb(b) = {} /\ Cb(a) = {a.startCb} /\ Once(b.deferred) /\ Ids(b.deferred) = {}
      BY <3>1, <3>2 DEF Cb, Once, Ids
    <3>4. Once(b.q) /\ Ids(b.q) \subseteq Ids(a.q) \cup Ids(a.deferred)
      <4>1. /\ Once(Tail(a.q)) /\ Once(a.deferred) /\ Ids(Tail(a.q)) \cap Ids(a.deferred) = {}
            /\ Ids(Tail(a.q)) \subseteq Ids(a.q)
        BY <1>1, <1>t, <3>1, Zenon DEF Neat
      <4>2. /\ Once(Tail(a.q) \o a.deferred)
            /\ Ids(Tail(a.q) \o a.deferred) \subseteq Ids(Tail(a.q)) \cup Ids(a.deferred)
        BY <1>1, <1>t, <3>1, <4>1, IdsConcat, CallTypes, Zenon
      <4> QED BY <3>2, <4>1, <4>2
    <3>5. Neat(b) /\ Holds(b) \subseteq Holds(a) /\ a.startCb \in Holds(a) \ Holds(b)
      BY <1>1, <3>3, <3>4, Zenon DEF Neat, Holds
    <3> QED BY <1>1, <1>b, <1>m, <2>3, <3>1, <3>2, <3>5 DEF Works, Arc, Outcomes
  <2> QED BY <1>3, <2>1, <2>2, <2>3 DEF SendingStartReq_St
<1>4. CASE EnterTerminal(p)
  <2>1. /\ a.st = "Ending" /\ Becomes(p, [a EXCEPT !.st = "Terminal"]) /\ Finish(p) /\ Quiet
        /\ UNCHANGED answers
    BY <1>4 DEF EnterTerminal, Becomes
  <2>2. b.st = "Terminal" /\ b.q = a.q /\ b.deferred = a.deferred /\ b.startCb = a.startCb
    BY <1>1, <1>b, <2>1 DEF SessionRecord
  <2>3. Neat(b) /\ Holds(b) \subseteq Holds(a)
    BY <1>1, <2>1, <2>2 DEF Neat, Holds, Cb
  <2> QED BY <1>1, <1>b, <1>m, <2>1, <2>2, <2>3 DEF Works, Arc
<1>s. ASSUME a.st \in {"WaitingForUp", "Connected"}, a.q # <<>>, e.k = "Stop", BeginStop(p)
      PROVE  Works(p)
  <2>1. /\ Becomes(p, [Goes(p, "SendingStopReq") EXCEPT !.stopCb = e.call, !.alarm = "none"])
        /\ Quiet /\ Stays /\ UNCHANGED answers
    BY <1>s DEF BeginStop
  <2>g. PICK g : g = Goes(p, "SendingStopReq")
    OBVIOUS
  <2>f. /\ g.st = "SendingStopReq" /\ g.q = Tail(a.q) /\ g.deferred = a.deferred /\ g.startCb = a.startCb
        /\ DOMAIN g = {"st", "q", "deferred", "status", "alarm", "want", "startCb", "stopCb"}
    BY <1>1, <2>g, GoesFields
  <2>0. b = [g EXCEPT !.stopCb = e.call, !.alarm = "none"]
    BY <1>b, <2>1, <2>g
  <2>2. /\ b.st = "SendingStopReq" /\ b.q = Tail(a.q) /\ b.deferred = a.deferred
        /\ b.startCb = a.startCb /\ b.stopCb = e.call
    BY <2>f, <2>0
  <2>3. Cb(b) = {e.call}
    BY <2>2 DEF Cb
  <2>4. Neat(b) /\ Holds(b) \subseteq Holds(a)
    BY <1>1, <1>s, <1>t, <2>2, <2>3, Zenon DEF Neat, Holds
  <2> QED BY <1>1, <1>b, <1>m, <1>s, <2>1, <2>2, <2>4 DEF Works, Arc, Running
<1>c. ASSUME a.st \in Running, a.q # <<>>, Connect(p) \/ Ends(p),
             \/ a.st \notin {"SendingStopReq", "Reconciling"} /\ UNCHANGED answers
             \/ a.st = "Reconciling" /\ \E x \in Outcomes : Answer(a.stopCb, x)
      PROVE  Works(p)
  <2>1. /\ b.q = Tail(a.q) /\ b.deferred = a.deferred /\ b.startCb = a.startCb
        /\ \/ b.st = "Connected" /\ Notify(p, "CONNECTED") /\ Stays
           \/ b.st = "Terminal" /\ Notify(p, "NO_NET") /\ Finish(p)
        /\ \A r \in Profiles \ {p} : ses'[r] = ses[r]
    <3>1. CASE Connect(p)
      <4>g. PICK g : g = Goes(p, "Connected")
        OBVIOUS
      <4>f. /\ g.st = "Connected" /\ g.q = Tail(a.q) /\ g.deferred = a.deferred /\ g.startCb = a.startCb
            /\ DOMAIN g = {"st", "q", "deferred", "status", "alarm", "want", "startCb", "stopCb"}
        BY <1>1, <4>g, GoesFields
      <4>0. b = [g EXCEPT !.status = "CONNECTED", !.alarm = "none"]
        BY <1>b, <3>1, <4>g DEF Connect
      <4>1. b.st = "Connected" /\ b.q = Tail(a.q) /\ b.deferred = a.deferred /\ b.startCb = a.startCb
        BY <4>f, <4>0
      <4>2. \A r \in Profiles \ {p} : ses'[r] = ses[r]
        BY <1>b, <3>1 DEF Connect
      <4> QED BY <3>1, <4>1, <4>2 DEF Connect
    <3>2. CASE Ends(p)
      <4>g. PICK g : g = Goes(p, "Terminal")
        OBVIOUS
      <4>f. /\ g.st = "Terminal" /\ g.q = Tail(a.q) /\ g.deferred = a.deferred /\ g.startCb = a.startCb
            /\ DOMAIN g = {"st", "q", "deferred", "status", "alarm", "want", "startCb", "stopCb"}
        BY <1>1, <4>g, GoesFields
      <4>0. b = [g EXCEPT !.status = "NO_NET", !.alarm = "none"]
        BY <1>b, <3>2, <4>g DEF Ends
      <4>1. b.st = "Terminal" /\ b.q = Tail(a.q) /\ b.deferred = a.deferred /\ b.startCb = a.startCb
        BY <4>f, <4>0
      <4>2. \A r \in Profiles \ {p} : ses'[r] = ses[r]
        BY <1>b, <3>2 DEF Ends
      <4> QED BY <3>2, <4>1, <4>2 DEF Ends
    <3> QED BY <1>c, <3>1, <3>2, Zenon
  <2>2. Cb(b) = {} /\ (a.st = "Reconciling" => Cb(a) = {a.stopCb})
    BY <2>1 DEF Cb
  <2>3. /\ Neat(b) /\ Holds(b) \subseteq Holds(a)
        /\ a.st = "Reconciling" => a.stopCb \in Holds(a) \ Holds(b)
    BY <1>k, <1>c, <2>1, <2>2, Zenon
  <2>4. Arc(p)
    BY <1>c, <2>1, Zenon DEF Arc, Running
  <2> QED BY <1>1, <1>m, <1>c, <2>1, <2>3, <2>4, Zenon DEF Works
<1>5. CASE WaitingForUp_St(p)
  <2>1. a.st = "WaitingForUp" /\ a.q # <<>>
    BY <1>5, Zenon DEF WaitingForUp_St, In, IsInd
  <2> QED BY <1>5, <1>s, <1>c, <2>1, Zenon DEF WaitingForUp_St, In, Event, Running
<1>6. CASE Connected_St(p)
  <2>1. a.st = "Connected" /\ a.q # <<>>
    BY <1>6 DEF Connected_St, In, IsInd
  <2> QED BY <1>6, <1>s, <1>c, <2>1, Zenon DEF Connected_St, In, Event, Running
<1>7. CASE SendingStopReq_St(p)
  <2>1. a.st = "SendingStopReq" /\ a.q # <<>> /\ Quiet /\ Stays
    BY <1>7 DEF SendingStopReq_St, In
  <2>2. CASE /\ Becomes(p, [Goes(p, "WaitingForDown")
                            EXCEPT !.status = "DISCONNECTING", !.alarm = "Teardown"])
             /\ Answer(a.stopCb, "SUCCESS")
    <3>g. PICK g : g = Goes(p, "WaitingForDown")
      OBVIOUS
    <3>f. /\ g.st = "WaitingForDown" /\ g.q = Tail(a.q) /\ g.deferred = a.deferred /\ g.startCb = a.startCb
          /\ DOMAIN g = {"st", "q", "deferred", "status", "alarm", "want", "startCb", "stopCb"}
      BY <1>1, <3>g, GoesFields
    <3>0. b = [g EXCEPT !.status = "DISCONNECTING", !.alarm = "Teardown"]
      BY <1>b, <2>2, <3>g
    <3>1. /\ b.st = "WaitingForDown" /\ b.q = Tail(a.q) /\ b.deferred = a.deferred
          /\ b.startCb = a.startCb
      BY <3>f, <3>0
    <3>2. Cb(b) = {} /\ Cb(a) = {a.stopCb}
      BY <2>1, <3>1 DEF Cb
    <3>3. Neat(b) /\ Holds(b) \subseteq Holds(a) /\ a.stopCb \in Holds(a) \ Holds(b)
      BY <1>k, <2>1, <3>1, <3>2, Zenon
    <3> QED BY <1>1, <1>b, <1>m, <2>1, <2>2, <3>1, <3>3 DEF Works, Arc, Running, Outcomes
  <2>3. CASE Becomes(p, Goes(p, "Reconciling")) /\ UNCHANGED answers
    <3>1. /\ b.st = "Reconciling" /\ b.q = Tail(a.q) /\ b.deferred = a.deferred
          /\ b.startCb = a.startCb /\ b.stopCb = a.stopCb
      BY <1>1, <1>b, <2>3, GoesFields
    <3>2. Cb(b) = Cb(a)
      BY <2>1, <3>1, Zenon DEF Cb
    <3>3. Neat(b) /\ Holds(b) \subseteq Holds(a)
      BY <1>k, <2>1, <3>1, <3>2, Zenon
    <3> QED BY <1>1, <1>b, <1>m, <2>1, <2>3, <3>1, <3>3, Zenon DEF Works, Arc, Running
  <2> QED BY <1>7, <2>2, <2>3 DEF SendingStopReq_St
<1>8. CASE WaitingForDown_St(p)
  <2>1. a.st = "WaitingForDown" /\ a.q # <<>>
    BY <1>8 DEF WaitingForDown_St, In, IsInd
  <2> QED BY <1>8, <1>c, <2>1 DEF WaitingForDown_St, Running
<1>9. CASE Reconciling_St(p)
  <2>1. a.st = "Reconciling" /\ a.q # <<>>
    BY <1>9 DEF Reconciling_St, In
  <2> QED BY <1>9, <1>c, <2>1, Zenon DEF Reconciling_St, Running, Outcomes
<1>10. CASE Active_St(p) \/ Swallow(p)
  <2>1. /\ Becomes(p, Goes(p, a.st)) /\ a.q # <<>> /\ Quiet /\ Stays
        /\ \/ UNCHANGED answers
           \/ Answer(e.call, "OP_IN_PROGRESS") /\ e.k = "Stop"
    BY <1>10, Zenon DEF Active_St, Swallow, In, Event
  <2>2. /\ b.st = a.st /\ b.q = Tail(a.q) /\ b.deferred = a.deferred
        /\ b.startCb = a.startCb /\ b.stopCb = a.stopCb
    BY <1>1, <1>b, <2>1, GoesFields
  <2>3. Cb(b) = Cb(a)
    BY <2>2 DEF Cb
  <2>4. /\ Neat(b) /\ Holds(b) \subseteq Holds(a)
        /\ e.k = "Stop" => e.call \in Holds(a) \ Holds(b)
    BY <1>k, <2>1, <2>2, <2>3, Zenon
  <2> QED BY <1>1, <1>b, <1>m, <2>1, <2>2, <2>4, Zenon DEF Works, Arc, Outcomes
<1> QED BY <1>2, <1>3, <1>4, <1>5, <1>6, <1>7, <1>8, <1>9, <1>10 DEF Session, SessionStep

\* A session to which an event is posted: it holds the call of the event too.
LEMMA PostedHolds ==
    ASSUME SessionTypes, NEW p \in Profiles, NEW e \in ForSession, Neat(ses[p]),
           IsCall(e) => e.call \notin Holds(ses[p]), NEW s, s = Posted(p, e)
    PROVE  /\ s.st = ses[p].st /\ s.startCb = ses[p].startCb /\ Neat(s)
           /\ ~IsCall(e) => Holds(s) = Holds(ses[p])
           /\ IsCall(e) => Holds(s) \subseteq Holds(ses[p]) \cup {e.call}
           /\ DOMAIN s = {"st", "q", "deferred", "status", "alarm", "want", "startCb", "stopCb"}
<1> DEFINE a == ses[p]
<1>1. a \in SessionRecord /\ a.q \in Seq(ForSession)
  BY Zenon DEF SessionTypes, SessionRecord
<1>2. CASE s = a
  BY <1>1, <1>2 DEF SessionRecord
<1>3. CASE s = [a EXCEPT !.q = Append(@, e)]
  <2>1. /\ s.st = a.st /\ s.startCb = a.startCb /\ s.stopCb = a.stopCb /\ s.deferred = a.deferred
        /\ s.q = Append(a.q, e)
        /\ DOMAIN s = {"st", "q", "deferred", "status", "alarm", "want", "startCb", "stopCb"}
    BY <1>1, <1>3 DEF SessionRecord
  <2>2. Once(a.q) /\ (IsCall(e) => e.call \notin Ids(a.q))
    BY Zenon DEF Neat, Holds
  <2>3. /\ Once(s.q) /\ (IsCall(e) => Ids(s.q) = Ids(a.q) \cup {e.call})
        /\ ~IsCall(e) => Ids(s.q) = Ids(a.q)
    BY <1>1, <2>1, <2>2, IdsAppend, CallTypes
  <2>4. Cb(s) = Cb(a)
    BY <2>1 DEF Cb
  <2> QED BY <2>1, <2>3, <2>4, Zenon DEF Neat, Holds
<1> QED BY <1>2, <1>3, Zenon DEF Posted

---------------------------------------------------------------------------
(* What a step does to the calls, by kind *)

\* The session of p has lost no state, or is gone.
Same(p) == \/ ses'[p].st = ses[p].st /\ ses'[p].startCb = ses[p].startCb
           \/ ses'[p].st = "none"

\* Nobody is answered; calls may be dropped.
Passes ==
    /\ Once(mq') /\ Ids(mq') \subseteq Ids(mq)
    /\ \A p \in Profiles : Same(p) /\ Neat(ses'[p]) /\ Holds(ses'[p]) \subseteq Holds(ses[p])
    /\ Quiet /\ UNCHANGED <<answers, calls>>

\* A client's call is queued for the manager.
Accepts ==
    /\ Once(mq') /\ Ids(mq') = Ids(mq) \cup {calls + 1}
    /\ calls < MaxCalls /\ calls' = calls + 1
    /\ Quiet /\ UNCHANGED <<ses, answers>>

\* The manager answers a call itself.
Refuses ==
    /\ \E c \in Ids(mq), x \in Outcomes : Answer(c, x) /\ Ids(mq') \subseteq Ids(mq) \ {c}
    /\ Once(mq') /\ Quiet /\ UNCHANGED <<ses, calls>>

\* The manager hands a call to the session of p, which it may create for it.
Hands(p) ==
    /\ \E c \in Ids(mq) : /\ Ids(mq') \subseteq Ids(mq) \ {c}
                          /\ Holds(ses'[p]) \subseteq Holds(ses[p]) \cup {c}
    /\ Once(mq') /\ Neat(ses'[p])
    /\ Same(p) \/ ses'[p].st = "Idle"
    /\ \A r \in Profiles \ {p} : ses'[r] = ses[r]
    /\ Quiet /\ UNCHANGED <<answers, calls>>

StepKind ==
    \/ Passes \/ Accepts \/ Refuses
    \/ \E p \in Profiles : Hands(p) \/ Works(p)

\* The manager takes an event from its queue.
LEMMA ConsumesIds ==
    ASSUME Inv, Placed, NEW k, Consumes(k)
    PROVE  /\ Once(mq') /\ Ids(mq') \subseteq Ids(mq) /\ Head(mq) \in ForManager
           /\ k \in {"StartDataCall", "StopDataCall"} =>
                Head(mq).call \in Ids(mq) /\ Ids(mq') \subseteq Ids(mq) \ {Head(mq).call}
<1>1. mq \in Seq(ForManager) /\ Once(mq) /\ mq # <<>> /\ mq' = Tail(mq) /\ Head(mq).k = k
  BY DEF Inv, ManagerTypes, Placed, Consumes
<1>2. Head(mq) \in ForManager
  BY <1>1, TailFacts
<1>3. /\ Once(Tail(mq)) /\ Ids(Tail(mq)) \subseteq Ids(mq)
      /\ IsCall(Head(mq)) => Head(mq).call \in Ids(mq) /\ Head(mq).call \notin Ids(Tail(mq))
  BY <1>1, IdsTail, CallTypes
<1>4. k \in {"StartDataCall", "StopDataCall"} => IsCall(Head(mq))
  BY <1>1 DEF IsCall
<1> QED BY <1>1, <1>2, <1>3, <1>4

\* Handlers that leave the sessions alone.
LEMMA PassesFrame ==
    ASSUME Placed, UNCHANGED <<ses, answers, calls, notified, told>>,
           Once(mq'), Ids(mq') \subseteq Ids(mq)
    PROVE  Passes
BY Zenon DEF Placed, Passes, Same, Quiet

LEMMA StartDataCallKind ==
    ASSUME Inv, Placed, StartDataCall, Quiet, UNCHANGED calls
    PROVE  StepKind
<1> DEFINE p == Head(mq).p
           c == Head(mq).call
           w == Head(mq).want
<1>1. Consumes("StartDataCall")
  BY DEF StartDataCall
<1>2. /\ Once(mq') /\ Ids(mq') \subseteq Ids(mq) \ {c} /\ c \in Ids(mq)
      /\ Head(mq) \in ForManager
  BY <1>1, ConsumesIds
<1>3. p \in Profiles /\ c \in Nat
  BY <1>1, <1>2, ForManagerFields DEF Consumes
<1>4. CASE UNCHANGED <<ses, answers>>
  BY <1>2, <1>4, PassesFrame DEF StepKind, Quiet
<1>5. CASE \E x \in {"SUCCESS", "OP_IN_PROGRESS"} : Refuse(c, x)
  BY <1>2, <1>5 DEF StepKind, Refuses, Refuse, Outcomes
<1>6. CASE /\ ~Exists(p) /\ Becomes(p, NewSession(c, w)) /\ UNCHANGED answers
  <2>1. ses'[p] = NewSession(c, w) /\ \A r \in Profiles \ {p} : ses'[r] = ses[r]
    BY <1>3, <1>6 DEF Becomes, Inv, SessionTypes
  <2>2. /\ ses'[p].st = "Idle" /\ ses'[p].q = <<[k |-> "Start"]>> /\ ses'[p].deferred = <<>>
        /\ ses'[p].startCb = c
    BY <2>1 DEF NewSession
  <2>3. Ids(ses'[p].q) = {} /\ Ids(ses'[p].deferred) = {} /\ Once(ses'[p].q) /\ Once(ses'[p].deferred)
    BY <2>2 DEF Ids, Once, IsCall
  <2>4. Cb(ses'[p]) = {c}
    BY <2>2 DEF Cb
  <2>5. Neat(ses'[p]) /\ Holds(ses'[p]) = {c}
    BY <2>3, <2>4 DEF Neat, Holds
  <2>6. Hands(p)
    BY <1>2, <1>6, <2>1, <2>2, <2>5, Zenon DEF Hands
  <2> QED BY <1>3, <2>6 DEF StepKind
<1> QED BY <1>4, <1>5, <1>6 DEF StartDataCall

LEMMA StopDataCallKind ==
    ASSUME Inv, Placed, StopDataCall, Quiet, UNCHANGED calls
    PROVE  StepKind
<1> DEFINE p == Head(mq).p
           c == Head(mq).call
           e == [k |-> "Stop", call |-> c]
<1>1. Consumes("StopDataCall")
  BY DEF StopDataCall
<1>2. /\ Once(mq') /\ Ids(mq') \subseteq Ids(mq) \ {c} /\ c \in Ids(mq)
      /\ Head(mq) \in ForManager
  BY <1>1, ConsumesIds
<1>3. p \in Profiles /\ c \in Nat
  BY <1>1, <1>2, ForManagerFields DEF Consumes
<1>4. CASE UNCHANGED <<ses, answers>>
  BY <1>2, <1>4, PassesFrame DEF StepKind, Quiet
<1>5. CASE Refuse(c, "INVALID_STATE")
  BY <1>2, <1>5 DEF StepKind, Refuses, Refuse, Outcomes
<1>6. CASE Post(p, e) /\ UNCHANGED answers
  <2>1. ses'[p] = Posted(p, e) /\ \A r \in Profiles \ {p} : ses'[r] = ses[r]
    BY <1>3, <1>6 DEF Post, Inv, SessionTypes
  <2>2. e \in ForSession /\ IsCall(e) /\ e.call = c
    BY <1>3 DEF ForSession, IsCall
  <2>3. Neat(ses[p]) /\ c \notin Holds(ses[p])
    BY <1>2, <1>3 DEF Placed
  <2> HIDE DEF e
  <2>4. Same(p) /\ Neat(ses'[p]) /\ Holds(ses'[p]) \subseteq Holds(ses[p]) \cup {c}
    BY <1>3, <2>1, <2>2, <2>3, PostedHolds, Zenon DEF Inv, Same
  <2>5. Hands(p)
    BY <1>2, <1>6, <2>1, <2>4, Zenon DEF Hands
  <2> QED BY <1>3, <2>5 DEF StepKind
<1> QED BY <1>4, <1>5, <1>6 DEF StopDataCall

\* An event that carries no call is posted to p's session.
LEMMA PostPasses ==
    ASSUME Inv, Placed, NEW p \in Profiles, NEW e \in ForSession, ~IsCall(e), Post(p, e),
           Once(mq'), Ids(mq') \subseteq Ids(mq), UNCHANGED <<answers, calls, notified, told>>
    PROVE  StepKind
<1>1. ses'[p] = Posted(p, e) /\ \A r \in Profiles \ {p} : ses'[r] = ses[r]
  BY DEF Post, Inv, SessionTypes
<1>2. \A r \in Profiles : Neat(ses[r])
  BY DEF Placed
<1>3. Same(p) /\ Neat(ses'[p]) /\ Holds(ses'[p]) \subseteq Holds(ses[p])
  <2>1. SessionTypes /\ Neat(ses[p])
    BY <1>2, Zenon DEF Inv
  <2>2. PICK s : s = Posted(p, e)
    OBVIOUS
  <2>3. /\ s.st = ses[p].st /\ s.startCb = ses[p].startCb
        /\ Neat(s) /\ Holds(s) = Holds(ses[p])
    BY <2>1, <2>2, PostedHolds, Zenon
  <2>4. ses'[p] = s
    BY <1>1, <2>2, Zenon
  <2> QED BY <2>3, <2>4, Zenon DEF Same
<1>4. \A r \in Profiles : Same(r) /\ Neat(ses'[r]) /\ Holds(ses'[r]) \subseteq Holds(ses[r])
  BY <1>1, <1>2, <1>3, Zenon DEF Same
<1> QED BY <1>4, Zenon DEF StepKind, Passes, Quiet

LEMMA StateIndKind ==
    ASSUME Inv, Placed, StateInd, Quiet, UNCHANGED calls
    PROVE  StepKind
<1> DEFINE e == Head(mq)
<1>1. /\ Consumes("CallState") /\ UNCHANGED <<answers, calls, notified, told>>
      /\ UNCHANGED ses \/ Post(e.p, e)
  BY DEF StateInd, Quiet
<1>2. Once(mq') /\ Ids(mq') \subseteq Ids(mq) /\ e \in ForManager
  BY <1>1, ConsumesIds, Zenon
<1>3. e.k = "CallState" /\ e.p \in Profiles /\ e \in Indication
  BY <1>1, <1>2, ForManagerFields DEF Consumes
<1>4. e \in ForSession /\ ~IsCall(e)
  BY <1>3 DEF ForSession, IsCall
<1> HIDE DEF e
<1> QED BY <1>1, <1>2, <1>3, <1>4, PostPasses, PassesFrame DEF StepKind

LEMMA ManagerKind ==
    ASSUME Inv, Placed, Manager
    PROVE  StepKind
<1>1. ManagerStep /\ Quiet /\ UNCHANGED calls
  BY DEF Manager, ManagerStep, Quiet
<1>2. CASE ReadinessEvt \/ BridgeConnectivityChanged \/ SessionFinished
  <2>1. PICK k : Consumes(k) /\ UNCHANGED <<ses, answers, calls, notified, told>>
    BY <1>1, <1>2 DEF ReadinessEvt, BridgeConnectivityChanged, SessionFinished, Quiet
  <2> QED BY <2>1, ConsumesIds, PassesFrame DEF StepKind
<1> QED BY <1>1, <1>2, StartDataCallKind, StopDataCallKind, StateIndKind DEF ManagerStep

\* A message that carries no call is queued for the manager.
LEMMA ManagerTold ==
    ASSUME Inv, Placed, NEW e \in ForManager, ~IsCall(e), mq' = Append(mq, e)
    PROVE  Once(mq') /\ Ids(mq') \subseteq Ids(mq)
<1>1. mq \in Seq(ForManager) /\ Once(mq)
  BY DEF Inv, ManagerTypes, Placed
<1> QED BY <1>1, IdsAppend, CallTypes

LEMMA ReceiveKind ==
    ASSUME Inv, Placed, Receive
    PROVE  StepKind
<1> DEFINE m == Head(wire)
<1>1. wire # <<>> /\ UNCHANGED <<calls, answers, notified, told>> /\ QueueTypes
  BY Zenon DEF Receive, Inv
<1>2. m \in FromModem
  BY <1>1, TailFacts DEF QueueTypes
<1>3. Once(mq)
  BY DEF Placed
<1>4. CASE m.k = "Rsp"
  <2>1. m \in Result /\ m.p \in Profiles
    BY <1>2, <1>4, FromModemFields
  <2>2. m \in ForSession /\ ~IsCall(m)
    BY <1>4, <2>1 DEF ForSession, IsCall
  <2>3. (Post(m.p, m) \/ UNCHANGED ses) /\ UNCHANGED mq
    BY <1>4, Zenon DEF Receive
  <2> HIDE DEF m
  <2> QED BY <1>1, <1>3, <2>1, <2>2, <2>3, PostPasses, PassesFrame DEF StepKind
<1>5. CASE m.k # "Rsp"
  <2>1. m \in Indication \cup Retained
    BY <1>2, <1>5, FromModemFields
  <2>2. m \in ForManager /\ ~IsCall(m)
    BY <2>1 DEF ForManager, IsCall, Indication, Retained
  <2>3. mq' = Append(mq, m) /\ UNCHANGED ses
    BY <1>5 DEF Receive
  <2> HIDE DEF m
  <2> QED BY <1>1, <2>2, <2>3, ManagerTold, PassesFrame DEF StepKind
<1> QED BY <1>4, <1>5

\* The end of an RPC.
LEMMA FailedNoCall == ASSUME NEW p PROVE ~IsCall(Failed(p))
BY DEF Failed, IsCall

LEMMA RpcTimeoutKind ==
    ASSUME Inv, Placed, NEW p \in Profiles, RpcTimeout(p)
    PROVE  StepKind
<1>1. Post(p, Failed(p)) /\ UNCHANGED <<mq, calls, answers, notified, told>> /\ RpcTypes
  BY DEF RpcTimeout, Inv
<1>2. Failed(p) \in ForSession
  BY <1>1, FailedType
<1>3. Once(mq)
  BY DEF Placed
<1> QED BY <1>1, <1>2, <1>3, PostPasses, FailedNoCall

LEMMA LinkDownKind ==
    ASSUME Inv, Placed, LinkDown
    PROVE  StepKind
<1>1. /\ ses' = [p \in Profiles |-> IF rpc[p] # 0 THEN Posted(p, Failed(p)) ELSE ses[p]]
      /\ mq' = Append(mq, [k |-> "LinkDown"])
      /\ UNCHANGED <<calls, answers, notified, told>> /\ RpcTypes /\ SessionTypes
  BY DEF LinkDown, Inv
<1>2. [k |-> "LinkDown"] \in ForManager /\ ~IsCall([k |-> "LinkDown"])
  BY DEF ForManager, IsCall
<1>3. Once(mq') /\ Ids(mq') \subseteq Ids(mq)
  BY <1>1, <1>2, ManagerTold
<1>4. ASSUME NEW p \in Profiles
      PROVE  Same(p) /\ Neat(ses'[p]) /\ Holds(ses'[p]) \subseteq Holds(ses[p])
  <2>1. Neat(ses[p]) /\ (ses'[p] = Posted(p, Failed(p)) \/ ses'[p] = ses[p])
    BY <1>1, Zenon DEF Placed
  <2>2. Failed(p) \in ForSession /\ ~IsCall(Failed(p))
    BY <1>1, FailedType, FailedNoCall
  <2> QED BY <1>1, <2>1, <2>2, PostedHolds, Zenon DEF Same
<1> QED BY <1>1, <1>3, <1>4, Zenon DEF StepKind, Passes, Quiet

LEMMA LinkUpKind ==
    ASSUME Inv, Placed, LinkUp
    PROVE  StepKind
<1>1. /\ UNCHANGED <<mq, calls, answers, notified, told>> /\ RpcTypes /\ SessionTypes
  BY DEF LinkUp, Inv
<1>2. PICK late : ses' = [p \in Profiles |-> IF p \in late THEN Posted(p, Failed(p)) ELSE ses[p]]
  BY DEF LinkUp
<1>3. Once(mq') /\ Ids(mq') \subseteq Ids(mq)
  BY <1>1, Zenon DEF Placed
<1>4. ASSUME NEW p \in Profiles
      PROVE  Same(p) /\ Neat(ses'[p]) /\ Holds(ses'[p]) \subseteq Holds(ses[p])
  <2>1. Neat(ses[p]) /\ (ses'[p] = Posted(p, Failed(p)) \/ ses'[p] = ses[p])
    BY <1>2, Zenon DEF Placed
  <2>2. Failed(p) \in ForSession /\ ~IsCall(Failed(p))
    BY <1>1, FailedType, FailedNoCall
  <2> QED BY <1>1, <2>1, <2>2, PostedHolds, Zenon DEF Same
<1> QED BY <1>1, <1>3, <1>4, Zenon DEF StepKind, Passes, Quiet

LEMMA AlarmKind ==
    ASSUME Inv, Placed, NEW p \in Profiles, Alarm(p)
    PROVE  StepKind
<1> DEFINE e == [k |-> ses[p].alarm]
<1>1. /\ ses[p].alarm # "none"
      /\ ses' = [ses EXCEPT ![p] = [Posted(p, e) EXCEPT !.alarm = "none"]]
      /\ UNCHANGED <<mq, answers, calls, notified, told>> /\ SessionTypes
  BY DEF Alarm, AlarmDue, Inv
<1>2. ses[p].alarm \in {"Bringup", "Teardown"}
  BY <1>1 DEF SessionTypes, SessionRecord
<1>3. e \in ForSession /\ ~IsCall(e)
  BY <1>2 DEF ForSession, IsCall
<1>4. PICK s : s = Posted(p, e)
  OBVIOUS
<1>5. \A r \in Profiles : Neat(ses[r])
  BY DEF Placed
<1>6. /\ s.st = ses[p].st /\ s.startCb = ses[p].startCb /\ Neat(s) /\ Holds(s) = Holds(ses[p])
      /\ DOMAIN s = {"st", "q", "deferred", "status", "alarm", "want", "startCb", "stopCb"}
  BY <1>1, <1>3, <1>4, <1>5, PostedHolds
<1>7. ses'[p] = [s EXCEPT !.alarm = "none"] /\ \A r \in Profiles \ {p} : ses'[r] = ses[r]
  BY <1>1, <1>4 DEF SessionTypes
<1>8. /\ ses'[p].st = s.st /\ ses'[p].startCb = s.startCb /\ ses'[p].q = s.q
      /\ ses'[p].deferred = s.deferred /\ ses'[p].stopCb = s.stopCb
  BY <1>6, <1>7
<1>9. Same(p) /\ Neat(ses'[p]) /\ Holds(ses'[p]) = Holds(ses[p])
  BY <1>6, <1>8, Zenon DEF Same, Neat, Holds, Cb
<1>10. \A r \in Profiles : Same(r) /\ Neat(ses'[r]) /\ Holds(ses'[r]) \subseteq Holds(ses[r])
  BY <1>5, <1>7, <1>9, Zenon DEF Same
<1>11. Once(mq)
  BY DEF Placed
<1> QED BY <1>1, <1>10, <1>11 DEF StepKind, Passes, Quiet

\* No session holds no call.
LEMMA NoSessionHolds == Neat(NoSession) /\ Holds(NoSession) = {}
<1>1. NoSession.st = "none" /\ NoSession.q = <<>> /\ NoSession.deferred = <<>>
  BY DEF NoSession, NewSession
<1>2. Ids(<<>>) = {} /\ Once(<<>>)
  BY DEF Ids, Once
<1>3. Cb(NoSession) = {}
  BY <1>1 DEF Cb
<1> QED BY <1>1, <1>2, <1>3 DEF Neat, Holds

LEMMA JoinKind ==
    ASSUME Inv, Placed, NEW p \in Profiles, Join(p)
    PROVE  StepKind
<1>1. /\ ses' = [ses EXCEPT ![p] = NoSession] /\ SessionTypes
      /\ UNCHANGED <<mq, calls, answers, notified, told>>
  BY DEF Join, Joined, Inv
<1>2. ses'[p] = NoSession /\ \A r \in Profiles \ {p} : ses'[r] = ses[r]
  BY <1>1 DEF SessionTypes
<1>3. NoSession.st = "none"
  BY NoSessionType
<1>4. \A r \in Profiles : Neat(ses[r])
  BY DEF Placed
<1>5. \A r \in Profiles : Same(r) /\ Neat(ses'[r]) /\ Holds(ses'[r]) \subseteq Holds(ses[r])
  BY <1>2, <1>3, <1>4, NoSessionHolds DEF Same
<1>6. Once(mq)
  BY DEF Placed
<1> QED BY <1>1, <1>5, <1>6 DEF StepKind, Passes, Quiet

LEMMA ClientKind ==
    ASSUME Inv, Placed, NEW k \in {"StartDataCall", "StopDataCall"}, NEW p \in Profiles,
           NEW w \in Names, ClientCall(k, p, w)
    PROVE  StepKind
<1> DEFINE e == [k |-> k, p |-> p, call |-> calls + 1, want |-> w]
<1>1. /\ mq' = Append(mq, e) /\ calls' = calls + 1 /\ calls < MaxCalls /\ calls \in Nat
      /\ UNCHANGED <<ses, answers, notified, told>> /\ mq \in Seq(ForManager) /\ Once(mq)
  BY DEF ClientCall, Inv, ManagerTypes, Placed
<1>2. e \in ForManager /\ IsCall(e) /\ e.call = calls + 1
  BY <1>1 DEF ForManager, IsCall
<1>3. calls + 1 \notin Ids(mq)
  BY <1>1 DEF Placed, Open
<1> HIDE DEF e
<1>4. Once(mq') /\ Ids(mq') = Ids(mq) \cup {calls + 1}
  BY <1>1, <1>2, <1>3, IdsAppend, CallTypes
<1> QED BY <1>1, <1>4 DEF StepKind, Accepts, Quiet

LEMMA NextKind ==
    ASSUME Inv, Placed, [Next]_vars
    PROVE  StepKind
<1>1. CASE UNCHANGED adapterVars
  BY <1>1, PassesFrame DEF adapterVars, Placed, StepKind
<1>2. ASSUME NEW p \in Ours, (startDataCall(p) \/ stopDataCall(p)) /\ UNCHANGED modemVars
      PROVE  StepKind
  <2>1. PICK k \in {"StartDataCall", "StopDataCall"}, w \in Names : ClientCall(k, p, w)
    BY <1>2 DEF startDataCall, stopDataCall, Names
  <2> QED BY <2>1, ClientKind, OursAssumption
<1>3. ASSUME NEW p \in Profiles, Session(p) \/ Alarm(p) \/ Join(p) \/ RpcTimeout(p)
      PROVE  StepKind
  BY <1>3, SessionWorks, AlarmKind, JoinKind, RpcTimeoutKind DEF StepKind
<1>4. CASE Manager \/ Receive \/ LinkDown \/ LinkUp
  BY <1>4, ManagerKind, ReceiveKind, LinkDownKind, LinkUpKind
<1>5. CASE Modem \/ (\E p \in Profiles : Due(p)) \/ UNCHANGED vars
  BY <1>1, <1>5 DEF Modem, Due, vars
<1> QED BY <1>1, <1>2, <1>3, <1>4, <1>5 DEF Next

---------------------------------------------------------------------------
(* One answer *)

\* Calls yet to be made have no answer.
Answers ==
    /\ answers \in [1..MaxCalls -> Seq(Outcomes)] /\ calls \in 0..MaxCalls
    /\ \A c \in 1..MaxCalls : c > calls => answers[c] = <<>>

\* The callback of call c has run, once, with outcome x.
Settled(c, x) == c \in 1..MaxCalls /\ answers[c] = <<x>>

\* Only a call that is open is answered, so an answer stands.
LEMMA AnswerOpen ==
    ASSUME Answers, NEW c \in Open, NEW x \in Outcomes, Answer(c, x)
    PROVE  /\ answers' \in [1..MaxCalls -> Seq(Outcomes)]
           /\ c \in 1..MaxCalls /\ answers'[c] = <<x>>
           /\ \A d \in 1..MaxCalls \ {c} : answers'[d] = answers[d]
           /\ \A d, y : Settled(d, y) => Settled(d, y)'
<1>1. c \in 1..MaxCalls /\ answers[c] = <<>>
  BY CallsAssumption DEF Answers, Open
<1>2. Append(<<>>, x) = <<x>> /\ <<x>> \in Seq(Outcomes)
  OBVIOUS
<1>3. answers' = [answers EXCEPT ![c] = <<x>>]
  BY <1>1, <1>2 DEF Answer
<1>4. /\ answers' \in [1..MaxCalls -> Seq(Outcomes)] /\ answers'[c] = <<x>>
      /\ \A d \in 1..MaxCalls \ {c} : answers'[d] = answers[d]
  BY <1>1, <1>2, <1>3 DEF Answers
<1>5. ASSUME NEW d, NEW y, Settled(d, y)
      PROVE  Settled(d, y)'
  <2>0. <<y>> # <<>>
    OBVIOUS
  <2>1. d # c
    BY <1>1, <1>5, <2>0 DEF Settled
  <2>2. d \in 1..MaxCalls \ {c} /\ answers[d] = <<y>>
    BY <1>5, <2>1 DEF Settled
  <2> QED BY <1>4, <2>2 DEF Settled
<1> QED BY <1>1, <1>4, <1>5

\* A step answers nobody, or one open call, which nobody holds afterwards.
Answering == UNCHANGED answers \/ \E c \in Open, x \in Outcomes : Answer(c, x)

LEMMA StepAnswers ==
    ASSUME Placed, StepKind
    PROVE  Answering
<1>1. CASE Passes \/ Accepts \/ \E p \in Profiles : Hands(p)
  BY <1>1 DEF Passes, Accepts, Hands, Answering
<1>2. CASE Refuses
  BY <1>2 DEF Refuses, Placed, Answering
<1>3. ASSUME NEW p \in Profiles, Works(p)
      PROVE  Answering
  BY <1>3, Zenon DEF Works, Placed, Answering
<1> QED BY <1>1, <1>2, <1>3 DEF StepKind

LEMMA AnswersStep ==
    ASSUME Answers, Placed, StepKind
    PROVE  Answers'
<1>1. answers' \in [1..MaxCalls -> Seq(Outcomes)]
  BY StepAnswers, AnswerOpen DEF Answering, Answers
<1>2. calls' = calls \/ (calls < MaxCalls /\ calls' = calls + 1)
  BY Zenon DEF StepKind, Passes, Accepts, Refuses, Hands, Works
<1>3. calls \in Nat /\ MaxCalls \in Nat
  BY CallsAssumption DEF Answers
<1>4. ASSUME NEW c \in 1..MaxCalls, c > calls'
      PROVE  answers'[c] = <<>>
  <2>1. c > calls /\ answers[c] = <<>>
    BY <1>2, <1>3, <1>4 DEF Answers
  <2>2. c \notin Open
    BY <1>3, <2>1 DEF Open
  <2> QED BY <2>1, <2>2, StepAnswers, AnswerOpen DEF Answering
<1>5. calls' \in 0..MaxCalls
  BY <1>2, <1>3 DEF Answers
<1> QED BY <1>1, <1>4, <1>5 DEF Answers

\* The calls that stay open.
LEMMA OpenStays ==
    ASSUME Answers, calls' = calls
    PROVE  /\ UNCHANGED answers => Open' = Open
           /\ \A c \in Open, x \in Outcomes : Answer(c, x) => Open \ {c} \subseteq Open'
<1>1. UNCHANGED answers => Open' = Open
  BY DEF Open
<1>2. ASSUME NEW c \in Open, NEW x \in Outcomes, Answer(c, x), NEW d \in Open, d # c
      PROVE  d \in Open'
  <2>1. d \in 1..calls /\ d \in 1..MaxCalls \ {c} /\ answers[d] = <<>>
    BY <1>2, CallsAssumption DEF Open, Answers
  <2>2. answers'[d] = answers[d]
    BY <1>2, <2>1, AnswerOpen
  <2> QED BY <2>1, <2>2 DEF Open
<1> QED BY <1>1, <1>2

LEMMA PlacedStep ==
    ASSUME Answers, Placed, StepKind
    PROVE  Placed'
<1>1. CASE Passes
  <2>1. Open' = Open
    BY <1>1, OpenStays DEF Passes
  <2> QED BY <1>1, <2>1, Zenon DEF Passes, Placed
<1>2. CASE Accepts
  <2>1. Open \subseteq Open' /\ calls + 1 \in Open' /\ calls + 1 \notin Open
    <3>1. calls \in Nat /\ MaxCalls \in Nat /\ calls' = calls + 1 /\ answers' = answers
      BY <1>2, CallsAssumption DEF Answers, Accepts
    <3>2. Open \subseteq Open' /\ calls + 1 \notin Open
      BY <3>1 DEF Open
    <3>3. answers[calls + 1] = <<>>
      BY <1>2, <3>1 DEF Accepts, Answers
    <3> QED BY <3>1, <3>2, <3>3 DEF Open
  <2>2. \A p \in Profiles : ses'[p] = ses[p]
    BY <1>2 DEF Accepts
  <2> QED BY <1>2, <2>1, <2>2 DEF Accepts, Placed
<1>3. CASE Refuses
  <2>1. PICK c \in Ids(mq), x \in Outcomes : Answer(c, x) /\ Ids(mq') \subseteq Ids(mq) \ {c}
    BY <1>3 DEF Refuses
  <2>2. Open \ {c} \subseteq Open'
    BY <1>3, <2>1, OpenStays DEF Refuses, Placed
  <2>3. \A p \in Profiles : ses'[p] = ses[p]
    BY <1>3 DEF Refuses
  <2> QED BY <1>3, <2>1, <2>2, <2>3 DEF Refuses, Placed
<1>4. ASSUME NEW p \in Profiles, Hands(p)
      PROVE  Placed'
  <2>1. PICK c \in Ids(mq) : /\ Ids(mq') \subseteq Ids(mq) \ {c}
                             /\ Holds(ses'[p]) \subseteq Holds(ses[p]) \cup {c}
    BY <1>4, Zenon DEF Hands
  <2>2. Open' = Open
    BY <1>4, OpenStays, Zenon DEF Hands
  <2>3. Once(mq') /\ Neat(ses'[p]) /\ \A r \in Profiles \ {p} : ses'[r] = ses[r]
    BY <1>4, Zenon DEF Hands
  <2> QED BY <2>1, <2>2, <2>3 DEF Placed
<1>5. ASSUME NEW p \in Profiles, Works(p)
      PROVE  Placed'
  <2>1. /\ Once(mq') /\ Ids(mq') = Ids(mq) /\ Neat(ses'[p]) /\ Holds(ses'[p]) \subseteq Holds(ses[p])
        /\ \A r \in Profiles \ {p} : ses'[r] = ses[r]
        /\ calls' = calls
    BY <1>5, Zenon DEF Works
  <2>2. CASE UNCHANGED answers
    <3>1. Open' = Open
      BY <2>1, <2>2, OpenStays, Zenon
    <3> QED BY <2>1, <3>1, Zenon DEF Placed
  <2>3. ASSUME NEW c \in Holds(ses[p]) \ Holds(ses'[p]), NEW x \in Outcomes, Answer(c, x)
        PROVE  Placed'
    <3>1. Open \ {c} \subseteq Open'
      BY <2>1, <2>3, OpenStays, Zenon DEF Placed
    <3> QED BY <2>1, <2>3, <3>1 DEF Placed
  <2> QED BY <1>5, <2>2, <2>3, Zenon DEF Works
<1> QED BY <1>1, <1>2, <1>3, <1>4, <1>5 DEF StepKind

---------------------------------------------------------------------------
(* What listeners hear *)

\* A session has started once its start callback has reported success, and a
\* session that is over reported a failure or has told listeners of its end.
Heard ==
    /\ \A c \in notified : Settled(c, "SUCCESS")
    /\ \A p \in Profiles :
        /\ ses[p].st \in Running => Settled(ses[p].startCb, "SUCCESS")
        /\ ses[p].st = "Ending" => Settled(ses[p].startCb, "error")
        /\ ses[p].st = "Terminal" => Settled(ses[p].startCb, "error") \/ told[p] = "NO_NET"

Telling == told \in [Profiles -> {"none", "CONNECTED", "NO_NET"}]

\* The step of a session keeps what is heard.
LEMMA WorksHeard ==
    ASSUME Answers, Placed, Telling, Heard, NEW p \in Profiles, Works(p)
    PROVE  Heard' /\ Telling'
<1>c. PICK c : c = ses[p].startCb
  OBVIOUS
<1>1. \A d, y : Settled(d, y) => Settled(d, y)'
  <2>1. Answering
    BY StepAnswers DEF StepKind
  <2>2. UNCHANGED answers => \A d, y : Settled(d, y) => Settled(d, y)'
    BY DEF Settled
  <2> QED BY <2>1, <2>2, AnswerOpen DEF Answering
<1>2. /\ \A r \in Profiles \ {p} : ses'[r] = ses[r]
      /\ ses'[p].startCb = c /\ Arc(p)
  BY <1>c DEF Works
<1>3. \A r \in Profiles \ {p} : told'[r] = told[r]
  BY <1>2 DEF Arc, Quiet, Notify, Telling
<1>t. Telling'
  BY <1>2 DEF Arc, Quiet, Notify, Telling
<1>4. ASSUME NEW x \in {"SUCCESS", "error"}, ses[p].st = "SendingStartReq", Answer(c, x)
      PROVE  Settled(c, x)'
  <2>1. c \in Open /\ x \in Outcomes
    BY <1>c, <1>4, Zenon DEF Placed, Holds, Cb, Outcomes
  <2> QED BY <1>4, <2>1, AnswerOpen, Zenon DEF Settled
<1>5. ASSUME NEW r \in Profiles \ {p}, NEW d, d = ses[r].startCb
      PROVE  /\ ses'[r].startCb = d
             /\ ses'[r].st \in Running => Settled(d, "SUCCESS")'
             /\ ses'[r].st = "Ending" => Settled(d, "error")'
             /\ ses'[r].st = "Terminal" => Settled(d, "error")' \/ told'[r] = "NO_NET"
  <2>1. /\ ses[r].st \in Running => Settled(d, "SUCCESS")
        /\ ses[r].st = "Ending" => Settled(d, "error")
        /\ ses[r].st = "Terminal" => Settled(d, "error") \/ told[r] = "NO_NET"
    BY <1>5 DEF Heard
  <2>2. ses'[r] = ses[r] /\ told'[r] = told[r]
    BY <1>2, <1>3
  <2> QED BY <1>1, <1>5, <2>1, <2>2
<1>6. ASSUME NEW d \in notified'
      PROVE  Settled(d, "SUCCESS")'
  <2>1. d \in notified \/ (d = c /\ ses[p].st \in Running)
    BY <1>c, <1>2, <1>6, Zenon DEF Arc, Quiet, Notify
  <2>2. Settled(d, "SUCCESS")
    BY <1>c, <2>1, Zenon DEF Heard
  <2> QED BY <1>1, <2>2
<1>7. /\ ses'[p].st \in Running => Settled(c, "SUCCESS")'
      /\ ses'[p].st = "Ending" => Settled(c, "error")'
      /\ ses'[p].st = "Terminal" => Settled(c, "error")' \/ told'[p] = "NO_NET"
  <2>1. /\ ses[p].st \in Running => Settled(c, "SUCCESS")'
        /\ ses[p].st = "Ending" => Settled(c, "error")'
        /\ ses[p].st = "Terminal" => Settled(c, "error")' \/ told[p] = "NO_NET"
    BY <1>c, <1>1, Zenon DEF Heard
  <2>2. /\ Notify(p, "NO_NET") => told'[p] = "NO_NET"
        /\ Quiet => told'[p] = told[p]
    BY DEF Notify, Quiet, Telling
  <2> QED BY <1>c, <1>2, <1>4, <2>1, <2>2, Zenon DEF Arc, Running
<1>8. ASSUME NEW r \in Profiles, NEW d, d = ses'[r].startCb
      PROVE  /\ ses'[r].st \in Running => Settled(d, "SUCCESS")'
             /\ ses'[r].st = "Ending" => Settled(d, "error")'
             /\ ses'[r].st = "Terminal" => Settled(d, "error")' \/ told'[r] = "NO_NET"
  BY <1>2, <1>5, <1>7, <1>8
<1> QED BY <1>6, <1>8, <1>t DEF Heard

\* The other steps tell listeners nothing.
LEMMA HeardStep ==
    ASSUME Answers, Placed, Telling, Heard, StepKind
    PROVE  Heard' /\ Telling'
<1>1. CASE \E p \in Profiles : Works(p)
  BY <1>1, WorksHeard
<1>2. CASE ~\E p \in Profiles : Works(p)
  <2>1. /\ Quiet
        /\ \A p \in Profiles : Same(p) \/ ses'[p].st = "Idle"
    BY <1>2, Zenon DEF StepKind, Passes, Accepts, Refuses, Hands, Same
  <2>2. \A d, y : Settled(d, y) => Settled(d, y)'
    <3>1. UNCHANGED answers => \A d, y : Settled(d, y) => Settled(d, y)'
      BY DEF Settled
    <3> QED BY <3>1, StepAnswers, AnswerOpen DEF Answering
  <2>3. \A d \in notified' : Settled(d, "SUCCESS")'
    BY <2>1, <2>2, Zenon DEF Heard, Quiet
  <2>4. ASSUME NEW p \in Profiles, NEW d, d = ses'[p].startCb
        PROVE  /\ ses'[p].st \in Running => Settled(d, "SUCCESS")'
               /\ ses'[p].st = "Ending" => Settled(d, "error")'
               /\ ses'[p].st = "Terminal" => Settled(d, "error")' \/ told'[p] = "NO_NET"
    <3>1. CASE ses'[p].st = ses[p].st /\ ses'[p].startCb = ses[p].startCb
      <4>1. /\ ses[p].st \in Running => Settled(d, "SUCCESS")
            /\ ses[p].st = "Ending" => Settled(d, "error")
            /\ ses[p].st = "Terminal" => Settled(d, "error") \/ told[p] = "NO_NET"
        BY <2>4, <3>1 DEF Heard
      <4> QED BY <2>1, <2>2, <3>1, <4>1, Zenon DEF Quiet
    <3>2. CASE ses'[p].st \in {"none", "Idle"}
      BY <3>2 DEF Running
    <3> QED BY <2>1, <3>1, <3>2, Zenon DEF Same
  <2>5. Telling'
    BY <2>1 DEF Telling, Quiet
  <2> QED BY <2>3, <2>4, <2>5 DEF Heard
<1> QED BY <1>1, <1>2

Calls == Answers /\ Placed /\ Telling /\ Heard

LEMMA CallsInit == Init => Calls
<1> SUFFICES ASSUME Init PROVE Calls
  OBVIOUS
<1>1. /\ mq = <<>> /\ ses = [p \in Profiles |-> NoSession] /\ calls = 0 /\ notified = {}
      /\ answers = [c \in 1..MaxCalls |-> <<>>] /\ told = [p \in Profiles |-> "none"]
  BY DEF Init, ManagerInit
<1>2. Answers
  BY <1>1, CallsAssumption DEF Answers
<1>3. Ids(<<>>) = {} /\ Once(<<>>)
  BY DEF Ids, Once
<1>4. \A p \in Profiles : ses[p] = NoSession
  BY <1>1
<1>5. Placed
  BY <1>1, <1>3, <1>4, NoSessionHolds DEF Placed
<1>6. Telling
  BY <1>1 DEF Telling
<1>7. Heard
  BY <1>1, <1>4, NoSessionType DEF Heard, Running
<1> QED BY <1>2, <1>5, <1>6, <1>7 DEF Calls

LEMMA CallsAlways == Spec => []Calls
<1>1. Inv /\ Calls /\ [Next]_vars => Calls'
  BY NextKind, AnswersStep, PlacedStep, HeardStep DEF Calls
<1> QED BY <1>1, CallsInit, InvAlways, PTL DEF Spec

\* A client's callback runs at most once: the reply, the timeout of the RPC,
\* the indication, the link loss and a second stop request, in whatever order
\* they reach the session, answer each call of startDataCall and stopDataCall
\* no more than once.
THEOREM DataOneAnswer == Spec => []AtMostOneAnswer
<1>1. Answers' /\ Calls /\ StepKind /\ AtMostOneAnswer => AtMostOneAnswer'
  <2> SUFFICES ASSUME Answers', Calls, StepKind, AtMostOneAnswer, NEW c \in 1..MaxCalls
               PROVE  Len(answers'[c]) <= 1
    BY DEF AtMostOneAnswer
  <2>1. UNCHANGED answers => Len(answers'[c]) <= 1
    BY DEF AtMostOneAnswer
  <2>2. ASSUME NEW d \in Open, NEW x \in Outcomes, Answer(d, x)
        PROVE  Len(answers'[c]) <= 1
    <3>1. answers'[d] = <<x>> /\ (c # d => answers'[c] = answers[c])
      BY <2>2, AnswerOpen DEF Calls
    <3>2. Len(<<x>>) = 1
      OBVIOUS
    <3>3. CASE c = d
      <4>1. Len(answers'[c]) = Len(<<x>>)
        BY <3>1, <3>3, Zenon
      <4> QED BY <3>2, <4>1
    <3>4. CASE c # d
      BY <3>1, <3>4 DEF AtMostOneAnswer
    <3> QED BY <3>3, <3>4
  <2> QED BY <2>1, <2>2, StepAnswers DEF Calls, Answering
<1>2. Inv /\ Calls /\ AtMostOneAnswer /\ [Next]_vars => AtMostOneAnswer'
  BY <1>1, NextKind, AnswersStep DEF Calls
<1>3. Init => AtMostOneAnswer
  BY DEF Init, ManagerInit, AtMostOneAnswer
<1> QED BY <1>2, <1>3, InvAlways, CallsAlways, PTL DEF Spec

\* onDataCallInfoChanged is called for no session whose start callback failed
\* or has not run: listeners never hear of a call its client was not given.
THEOREM DataFailedStartIsSilent == Spec => []FailedStartIsSilent
<1>1. Calls => FailedStartIsSilent
  BY DEF Calls, Heard, Settled, FailedStartIsSilent
<1> QED BY <1>1, CallsAlways, PTL

\* Whatever ends a session that listeners have heard of (an indication, either
\* timer, a reconciliation), NO_NET is the last thing they hear of it.
THEOREM DataFinalNotice == Spec => []FinalNotice
<1>1. ASSUME Calls, NEW p \in Profiles, ses[p].st = "Terminal", ses[p].startCb \in notified
      PROVE  told[p] = "NO_NET"
  <2>1. PICK c : c = ses[p].startCb
    OBVIOUS
  <2>2. answers[c] = <<"SUCCESS">> /\ (told[p] = "NO_NET" \/ answers[c] = <<"error">>)
    BY <1>1, <2>1 DEF Calls, Heard, Settled
  <2>3. <<"SUCCESS">>[1] = "SUCCESS" /\ <<"error">>[1] = "error"
    OBVIOUS
  <2>4. <<"SUCCESS">> # <<"error">>
    BY <2>3
  <2> QED BY <2>2, <2>4
<1>2. Calls => FinalNotice
  BY <1>1 DEF FinalNotice
<1> QED BY <1>2, CallsAlways, PTL
=============================================================================
