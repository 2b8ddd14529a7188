----------------------- MODULE DataConnectionManager -----------------------
(***************************************************************************)
(* The data connection manager of the adapter and its data call sessions   *)
(* (component/data/DataConnectionManager.cpp), each an active object with  *)
(* a worker of its own.  The manager owns one session per profile, creates *)
(* it on StartDataCall and erases it when the session says it is finished; *)
(* erasing joins the session's worker, which first drains its queue.       *)
(*                                                                         *)
(* Replies go from the bridge straight to the session's queue, indications *)
(* through the manager's queue, so a reply can overtake an indication.     *)
(* A start that fails reports the session finished twice, once from the    *)
(* handler and once from the entry of Terminal; other threads may post to  *)
(* the manager in between ("Ending").                                      *)
(*                                                                         *)
(* A client call is a number; `answers` keeps every result its callback    *)
(* was given.                                                              *)
(***************************************************************************)
EXTENDS DataLink

CONSTANTS
    Ours,       \* the profiles our clients use
    Wanted,     \* interface names a client may ask for, or no name
    MaxCalls,   \* bound: calls of startDataCall and stopDataCall
    MaxQueue    \* bound: events queued when a client posts one

ASSUME OursAssumption == Ours \subseteq Profiles
ASSUME CallsAssumption == MaxCalls \in Nat

VARIABLES
    mst,       \* state of the manager
    mq,        \* its queue
    erasing,   \* the profiles whose session the manager is joining, at most one
    ses,       \* the session of each profile
    calls,     \* client calls accepted so far
    answers,   \* history: results given to each call's callback
    notified,  \* history: start calls whose session notified listeners
    told,      \* history: status listeners last heard for each profile
    killed     \* history: start calls whose session was erased unfinished

adapterVars == <<mst, mq, erasing, ses, calls, answers, notified, told, killed>>

\* A session: state, queue, deferred_, status of call_, armed timer, interface
\* name of call_, and the client calls startCb_ and stopCb_ belong to.
NewSession(c, w) ==
    [st |-> "Idle", q |-> <<[k |-> "Start"]>>, deferred |-> <<>>, status |-> "NONE",
     alarm |-> "none", want |-> w, startCb |-> c, stopCb |-> 0]
NoSession == [NewSession(0, NoIfname) EXCEPT !.st = "none", !.q = <<>>]

ManagerInit ==
    /\ mst = "NotReady" /\ mq = <<>> /\ erasing = {}
    /\ ses = [p \in Profiles |-> NoSession]
    /\ calls = 0
    /\ answers = [c \in 1..MaxCalls |-> <<>>]
    /\ notified = {} /\ told = [p \in Profiles |-> "none"]
    /\ killed = {}

---------------------------------------------------------------------------
(* Sessions *)

Exists(p) == ses[p].st # "none"

\* ActiveObject::post_fifo to a session: dropped once its worker is stopped.
Posted(p, e) == IF Exists(p) /\ p \notin erasing
                THEN [ses[p] EXCEPT !.q = Append(@, e)] ELSE ses[p]
Post(p, e) == ses' = [ses EXCEPT ![p] = Posted(p, e)]

\* The session in state st takes its next event, of signal k.
In(p, st, k) == ses[p].st = st /\ ses[p].q # <<>> /\ Head(ses[p].q).k = k
Event(p) == Head(ses[p].q)

\* The session afterwards: in state st with that event consumed.
Goes(p, st) == [ses[p] EXCEPT !.st = st, !.q = Tail(@)]
Becomes(p, s) == ses' = [ses EXCEPT ![p] = s]

Answer(c, r) == answers' = [answers EXCEPT ![c] = Append(@, r)]

\* notifyListeners_
Notify(p, s) ==
    /\ notified' = notified \cup {ses[p].startCb}
    /\ told' = [told EXCEPT ![p] = s]
Quiet == UNCHANGED <<notified, told>>

\* onFinished_
Finish(p) == mq' = Append(mq, [k |-> "SessionFinished", p |-> p])
Stays == UNCHANGED mq

\* The end of the call is not notified.
EndsSilently(p) ==
    /\ Becomes(p, [Goes(p, "Terminal") EXCEPT !.status = "NO_NET", !.alarm = "none"])
    /\ Quiet
    /\ Finish(p)

\* Entry of Terminal after the call's end was notified.
Ends(p) ==
    /\ Becomes(p, [Goes(p, "Terminal") EXCEPT !.status = "NO_NET", !.alarm = "none"])
    /\ Notify(p, "NO_NET")
    /\ Finish(p)

\* The bridge is not involved.
NoRpc == UNCHANGED <<fifo, held, rpc, lastId>>

Idle_St(p) ==
    /\ In(p, "Idle", "Start")
    /\ Becomes(p, Goes(p, "SendingStartReq"))
    /\ send_request("Start", p, ses[p].want)
    /\ Quiet /\ Stays /\ UNCHANGED answers

\* A start that fails also tells listeners that the call has ended.
StartFailedNotifies(p) ==
    /\ Answer(ses[p].startCb, "error")
    /\ Becomes(p, Goes(p, "Ending"))
    /\ Finish(p) /\ Notify(p, "NO_NET")

StartFailed(p) ==
    /\ Answer(ses[p].startCb, "error")
    /\ Becomes(p, Goes(p, "Ending"))
    /\ Finish(p) /\ Quiet

SendingStartReq_St(p) ==
    /\ \/ /\ In(p, "SendingStartReq", "Stop")
          /\ Becomes(p, [Goes(p, "SendingStartReq")
                         EXCEPT !.deferred = Append(@, Event(p))])
          /\ Stays /\ Quiet /\ UNCHANGED answers
       \/ /\ In(p, "SendingStartReq", "Rsp") /\ Event(p).result # "ok"
          /\ StartFailed(p)
       \/ /\ In(p, "SendingStartReq", "Rsp") /\ Event(p).result = "ok"
          /\ Answer(ses[p].startCb, "SUCCESS")
          /\ Becomes(p, [Goes(p, "WaitingForUp")
                         EXCEPT !.status = "CONNECTING", !.alarm = "Bringup",
                                !.q = @ \o ses[p].deferred, !.deferred = <<>>])
          /\ Stays /\ Quiet
    /\ NoRpc

\* The transition of a failed start completes.
EnterTerminal(p) ==
    /\ ses[p].st = "Ending"
    /\ ses' = [ses EXCEPT ![p].st = "Terminal"]
    /\ Finish(p) /\ Quiet
    /\ NoRpc /\ UNCHANGED answers

\* Stop in WaitingForUp or Connected, with the entry of SendingStopReq.
BeginStop(p) ==
    /\ Becomes(p, [Goes(p, "SendingStopReq")
                   EXCEPT !.stopCb = Event(p).call, !.alarm = "none"])
    /\ send_request("Stop", p, ses[p].want)
    /\ Quiet /\ Stays /\ UNCHANGED answers

\* Entry of Connected.
Connect(p) ==
    /\ Becomes(p, [Goes(p, "Connected") EXCEPT !.status = "CONNECTED", !.alarm = "none"])
    /\ Notify(p, "CONNECTED")
    /\ Stays

IsInd(p, st, s) == In(p, st, "CallState") /\ Event(p).status = s

WaitingForUp_St(p) ==
    \/ /\ In(p, "WaitingForUp", "Stop") /\ BeginStop(p)
    \/ /\ \/ IsInd(p, "WaitingForUp", "CONNECTED") /\ Connect(p)
          \/ IsInd(p, "WaitingForUp", "NO_NET") /\ Ends(p)
          \/ In(p, "WaitingForUp", "Bringup") /\ Ends(p)
       /\ NoRpc /\ UNCHANGED answers

Connected_St(p) ==
    \/ /\ In(p, "Connected", "Stop") /\ BeginStop(p)
    \/ /\ IsInd(p, "Connected", "NO_NET") /\ Ends(p)
       /\ NoRpc /\ UNCHANGED answers

\* teardown_timeout_ left unarmed.
SendingStopReq_StUntimed(p) ==
    /\ In(p, "SendingStopReq", "Rsp")
    /\ \/ /\ Event(p).result = "ok"
          /\ Answer(ses[p].stopCb, "SUCCESS")
          /\ Becomes(p, [Goes(p, "WaitingForDown") EXCEPT !.status = "DISCONNECTING"])
          /\ NoRpc
       \/ /\ Event(p).result # "ok"
          /\ Becomes(p, Goes(p, "Reconciling"))
          /\ send_request("List", p, NoIfname)
          /\ UNCHANGED answers
    /\ Quiet /\ Stays

SendingStopReq_St(p) ==
    /\ In(p, "SendingStopReq", "Rsp")
    /\ \/ /\ Event(p).result = "ok"
          /\ Answer(ses[p].stopCb, "SUCCESS")
          /\ Becomes(p, [Goes(p, "WaitingForDown")
                         EXCEPT !.status = "DISCONNECTING", !.alarm = "Teardown"])
          /\ NoRpc
       \/ /\ Event(p).result # "ok"
          /\ Becomes(p, Goes(p, "Reconciling"))
          /\ send_request("List", p, NoIfname)
          /\ UNCHANGED answers
    /\ Quiet /\ Stays

\* stopCb_ runs again when the call is down.
WaitingForDown_StAnswers(p) ==
    /\ IsInd(p, "WaitingForDown", "NO_NET") \/ In(p, "WaitingForDown", "Teardown")
    /\ Ends(p)
    /\ Answer(ses[p].stopCb, "SUCCESS")
    /\ NoRpc

WaitingForDown_St(p) ==
    /\ IsInd(p, "WaitingForDown", "NO_NET") \/ In(p, "WaitingForDown", "Teardown")
    /\ Ends(p)
    /\ NoRpc /\ UNCHANGED answers

Reconciling_St(p) ==
    /\ In(p, "Reconciling", "Rsp")
    /\ \/ Event(p).result = "up" /\ Connect(p) /\ Answer(ses[p].stopCb, "GENERIC_FAILURE")
       \/ Event(p).result = "down" /\ Ends(p) /\ Answer(ses[p].stopCb, "SUCCESS")
       \/ Event(p).result = "none" /\ Ends(p) /\ Answer(ses[p].stopCb, "GENERIC_FAILURE")
    /\ NoRpc

\* Active answers the stop requests its tail states leave to it.
Active_St(p) ==
    /\ \E st \in {"SendingStopReq", "WaitingForDown", "Reconciling"} : In(p, st, "Stop")
    /\ Answer(Event(p).call, "OP_IN_PROGRESS")
    /\ Becomes(p, Goes(p, ses[p].st))
    /\ NoRpc /\ Quiet /\ Stays

\* The events the state functions react to; top and Terminal swallow the rest.
Reacts(st, e) ==
    CASE e.k = "Start" -> st = "Idle"
      [] e.k = "Stop" -> st \notin {"Idle", "Terminal"}
      [] e.k = "Rsp" -> st \in {"SendingStartReq", "SendingStopReq", "Reconciling"}
      [] e.k = "Bringup" -> st = "WaitingForUp"
      [] e.k = "Teardown" -> st = "WaitingForDown"
      [] e.k = "CallState" ->
            \/ e.status = "NO_NET" /\ st \in {"WaitingForUp", "Connected", "WaitingForDown"}
            \/ e.status = "CONNECTED" /\ st = "WaitingForUp"

Swallow(p) ==
    /\ ses[p].st \notin {"none", "Ending"} /\ ses[p].q # <<>>
    /\ ~Reacts(ses[p].st, Event(p))
    /\ Becomes(p, Goes(p, ses[p].st))
    /\ NoRpc /\ Quiet /\ Stays /\ UNCHANGED answers

\* A step of the worker of p's session.
SessionStep(p) ==
    /\ \/ Idle_St(p) \/ SendingStartReq_St(p) \/ EnterTerminal(p)
       \/ WaitingForUp_St(p) \/ Connected_St(p) \/ SendingStopReq_St(p)
       \/ WaitingForDown_St(p) \/ Reconciling_St(p) \/ Active_St(p) \/ Swallow(p)
    /\ UNCHANGED <<mst, erasing, calls, killed, link, wire, faults>>

\* bringup_timeout_ or teardown_timeout_ expires.
AlarmDue(p) ==
    /\ ses[p].alarm # "none"
    /\ ses' = [ses EXCEPT ![p] = [Posted(p, [k |-> ses[p].alarm]) EXCEPT !.alarm = "none"]]
    /\ UNCHANGED <<mst, mq, erasing, calls, answers, notified, told, killed, linkVars>>

---------------------------------------------------------------------------
(* The manager *)

\* The manager, not held up in a join, takes an event of signal k.
Consumes(k) ==
    /\ erasing = {}
    /\ mq # <<>> /\ Head(mq).k = k
    /\ mq' = Tail(mq)

\* The client's callback runs on the worker at once.
Refuse(c, r) == Answer(c, r) /\ UNCHANGED ses

StartDataCall ==
    /\ Consumes("StartDataCall")
    /\ LET p == Head(mq).p
           c == Head(mq).call IN
       \/ mst = "NotReady" /\ UNCHANGED <<ses, answers>>
       \/ mst = "Ready" /\ Exists(p) /\ Refuse(c, IF ses[p].status = "CONNECTED"
                                                  THEN "SUCCESS" ELSE "OP_IN_PROGRESS")
       \/ /\ mst = "Ready" /\ ~Exists(p)
          /\ Becomes(p, NewSession(c, Head(mq).want)) /\ UNCHANGED answers
    /\ UNCHANGED <<mst, erasing, killed>>

StopDataCall ==
    /\ Consumes("StopDataCall")
    /\ LET p == Head(mq).p
           c == Head(mq).call IN
       \/ mst = "NotReady" /\ UNCHANGED <<ses, answers>>
       \/ mst = "Ready" /\ ~Exists(p) /\ Refuse(c, "INVALID_STATE")
       \/ /\ mst = "Ready" /\ Exists(p)
          /\ Post(p, [k |-> "Stop", call |-> c]) /\ UNCHANGED answers
    /\ UNCHANGED <<mst, erasing, killed>>

\* NotReady has no case for the indication and drops it.
StateInd ==
    /\ Consumes("CallState")
    /\ IF mst = "Ready" THEN Post(Head(mq).p, Head(mq)) ELSE UNCHANGED ses
    /\ UNCHANGED <<mst, erasing, answers, killed>>

ReadinessEvt ==
    /\ Consumes("Readiness")
    /\ mst' = IF Head(mq).ready THEN "Ready" ELSE "NotReady"
    /\ UNCHANGED <<erasing, ses, answers, killed>>

\* Only the loss matters; the return of the link is ignored in both states.
BridgeConnectivityChanged ==
    /\ Consumes("LinkDown")
    /\ mst' = "NotReady"
    /\ UNCHANGED <<erasing, ses, answers, killed>>

\* The finished session is left in active_sessions_ while the link is down.
SessionFinishedWhenReady ==
    /\ Consumes("SessionFinished")
    /\ erasing' = {p \in {Head(mq).p} : Exists(p) /\ mst = "Ready"}
    /\ UNCHANGED <<mst, ses, answers, killed>>

\* active_sessions_.erase: the destructor stops the session's worker and joins
\* it.  Handled by Operating, in either state.
SessionFinished ==
    /\ Consumes("SessionFinished")
    /\ erasing' = {p \in {Head(mq).p} : Exists(p)}
    /\ UNCHANGED <<mst, ses, answers, killed>>

ManagerStep ==
    /\ \/ StartDataCall \/ StopDataCall \/ StateInd
       \/ ReadinessEvt \/ BridgeConnectivityChanged \/ SessionFinished
    /\ UNCHANGED <<calls, notified, told, linkVars>>

\* The join returns once the worker has drained the queue.  The callback of
\* an RPC still outstanding finds the session gone.
Joined(p) ==
    /\ p \in erasing
    /\ ses[p].q = <<>> /\ ses[p].st # "Ending"
    /\ erasing' = {}
    /\ ses' = [ses EXCEPT ![p] = NoSession]
    /\ killed' = IF ses[p].st = "Terminal" THEN killed ELSE killed \cup {ses[p].startCb}
    /\ rpc' = [rpc EXCEPT ![p] = 0]
    /\ UNCHANGED <<mst, mq, calls, answers, notified, told>>
    /\ UNCHANGED <<link, fifo, wire, held, lastId, faults>>

\* A client calls startDataCall or stopDataCall; refused unless Ready.
ClientCall(k, p, w) ==
    /\ mst = "Ready" /\ calls < MaxCalls /\ Len(mq) < MaxQueue
    /\ calls' = calls + 1
    /\ mq' = Append(mq, [k |-> k, p |-> p, call |-> calls + 1, want |-> w])
    /\ UNCHANGED <<mst, erasing, ses, answers, notified, told, killed, linkVars>>
startDataCall(p) == \E w \in Wanted : ClientCall("StartDataCall", p, w)
stopDataCall(p) == ClientCall("StopDataCall", p, NoIfname)
=============================================================================
