------------------------------ MODULE DataCall ------------------------------
(***************************************************************************)
(* Data calls end to end: clients, the adapter's manager and sessions, the *)
(* bridge and the broker, the modem's data connection object.              *)
(***************************************************************************)
EXTENDS DataConnectionManager, DataModem

vars == <<linkVars, adapterVars, modemVars>>

Init == LinkInit /\ ManagerInit /\ ModemInit

(* The bridge's worker, as its callbacks see it *)

\* The bridge receives a message: a reply goes to the session that waits for
\* it (0 is the reply to another process), an indication to the manager.
Receive ==
    /\ wire # <<>>
    /\ wire' = Tail(wire)
    /\ LET m == Head(wire) IN
       IF m.k = "Rsp"
       THEN /\ IF rpc[m.p] = m.id /\ m.id # 0
               THEN rpc' = [rpc EXCEPT ![m.p] = 0] /\ Post(m.p, m)
               ELSE UNCHANGED <<rpc, ses>>
            /\ UNCHANGED mq
       ELSE mq' = Append(mq, m) /\ UNCHANGED <<rpc, ses>>
    /\ UNCHANGED <<link, fifo, held, lastId, faults>>
    /\ UNCHANGED <<mst, erasing, calls, answers, notified, told, killed, modemVars>>

Failed(p) == [k |-> "Rsp", p |-> p, id |-> rpc[p], result |-> "none"]

Carries(s, i) == \E j \in DOMAIN s : s[j].k \in Requests \cup {"Rsp"} /\ s[j].id = i

\* A request in flight is not answered in time: it or its reply is lost, the
\* modem has stopped, or (a disturbance) the answer is still under way.
RpcTimeout(p) ==
    /\ rpc[p] # 0 /\ ~Carries(held, rpc[p])
    /\ IF (modem = "Ready" /\ Carries(fifo, rpc[p])) \/ Carries(wire, rpc[p])
       THEN Disturb
       ELSE UNCHANGED faults
    /\ rpc' = [rpc EXCEPT ![p] = 0]
    /\ Post(p, Failed(p))
    /\ UNCHANGED <<link, fifo, wire, held, lastId>>
    /\ UNCHANGED <<mst, mq, erasing, calls, answers, notified, told, killed, modemVars>>

\* The link drops: every RPC in flight or held fails, observers are told.
LinkDown ==
    /\ link /\ Disturb
    /\ link' = FALSE
    /\ wire' = <<>> /\ held' = <<>>
    /\ fifo' \in AfterLoss
    /\ ses' = [p \in Profiles |-> IF rpc[p] # 0 THEN Posted(p, Failed(p)) ELSE ses[p]]
    /\ rpc' = [p \in Profiles |-> 0]
    /\ mq' = Append(mq, [k |-> "LinkDown"])
    /\ UNCHANGED <<lastId, mst, erasing, calls, answers, notified, told, killed, modemVars>>

\* The link is back: held requests are sent, but those past their deadline
\* fail (the oldest, as all have the same timeout), and the broker redelivers
\* the retained readiness.
LinkUp ==
    /\ ~link
    /\ link' = TRUE
    /\ \E n \in 0..Len(held) :
         LET late == {held[i].p : i \in 1..n} IN
         /\ fifo' = fifo \o SubSeq(held, n + 1, Len(held))
         /\ ses' = [p \in Profiles |-> IF p \in late THEN Posted(p, Failed(p)) ELSE ses[p]]
         /\ rpc' = [p \in Profiles |-> IF p \in late THEN 0 ELSE rpc[p]]
    /\ held' = <<>>
    /\ wire' = <<Readiness(modem = "Ready")>>
    /\ UNCHANGED <<lastId, faults, mst, mq, erasing, calls, answers, notified, told, killed, modemVars>>

---------------------------------------------------------------------------
linkRest == <<link, held, rpc, lastId, faults>>

Modem == ModemStep /\ UNCHANGED <<linkRest, adapterVars>>
Due(p) == TimerDue(p) /\ UNCHANGED <<linkRest, adapterVars>>
Session(p) == SessionStep(p) /\ UNCHANGED modemVars
Alarm(p) == AlarmDue(p) /\ UNCHANGED modemVars
Manager == ManagerStep /\ UNCHANGED modemVars
Join(p) == Joined(p) /\ UNCHANGED modemVars

Next ==
    \/ \E p \in Ours :
        \/ startDataCall(p) /\ UNCHANGED modemVars
        \/ stopDataCall(p) /\ UNCHANGED modemVars
        \/ force_call_drop(p) /\ UNCHANGED <<link, held, rpc, lastId, adapterVars>>
    \/ \E p \in Profiles :
        \/ ForeignRequest(p) /\ UNCHANGED <<link, held, rpc, lastId, adapterVars>>
        \/ Session(p) \/ Alarm(p) \/ Join(p) \/ RpcTimeout(p) \/ Due(p)
    \/ Manager \/ Receive \/ LinkDown \/ LinkUp \/ Modem
    \/ smfn_stopping /\ UNCHANGED <<link, held, rpc, lastId, adapterVars>>

Spec == Init /\ [][Next]_vars

\* Workers, timer threads and the network make progress, and a lost link comes
\* back; clients and disturbances are under no obligation.
FairSpec ==
    /\ Spec
    /\ WF_vars(Manager) /\ WF_vars(Receive) /\ WF_vars(LinkUp) /\ WF_vars(Modem)
    /\ \A p \in Profiles :
        WF_vars(Session(p)) /\ WF_vars(Alarm(p)) /\ WF_vars(Join(p))
        /\ WF_vars(RpcTimeout(p)) /\ WF_vars(Due(p))

---------------------------------------------------------------------------
(* Properties *)

SessionStates ==
    {"none", "Idle", "SendingStartReq", "Ending", "WaitingForUp", "Connected",
     "SendingStopReq", "WaitingForDown", "Reconciling", "Terminal"}

\* Every variable has its type; the manager joins one session at a time.
TypeOK ==
    /\ mst \in {"NotReady", "Ready"} /\ modem \in {"Ready", "Stopping"}
    /\ \A p \in Profiles :
        /\ ses[p].st \in SessionStates
        /\ ses[p].alarm \in {"none", "Bringup", "Teardown"}
        /\ call[p] \in {"none", "CONNECTING", "CONNECTED", "DISCONNECTING"}
        /\ delay[p] \in {"none", "Connect", "Disconnect"}
        /\ rpc[p] \in 0..lastId
    /\ \E p \in Profiles : erasing \subseteq {p}

\* A callback runs at most once, whichever of reply, timeout, indication and
\* second stop request comes first.
AtMostOneAnswer == \A c \in 1..MaxCalls : Len(answers[c]) <= 1

\* onDataCallInfoChanged is called only for sessions whose start callback
\* reported success (the contract the entry of Terminal cites).
FailedStartIsSilent == \A c \in notified : answers[c] = <<"SUCCESS">>

\* Listeners that heard of a session's call heard NO_NET last once the session
\* is over, by whatever path it ended.
FinalNotice ==
    \A p \in Profiles :
        ses[p].st = "Terminal" /\ ses[p].startCb \in notified => told[p] = "NO_NET"

\* A profile whose session is over does not stay occupied: its SessionFinished
\* is queued or being handled, also when the manager has left Ready.
SlotFreed ==
    \A p \in Profiles : ses[p].st = "Terminal" =>
        p \in erasing \/ [k |-> "SessionFinished", p |-> p] \in Range(mq)

\* The pool holds exactly the names of the modem's sessions, each name once.
PoolMatchesCalls ==
    modem = "Ready" =>
        /\ inUse = {ifname[p] : p \in {r \in Profiles : call[r] # "none"}}
        /\ \A p, r \in Profiles : call[p] # "none" /\ ifname[p] = ifname[r] => p = r

Queued(k, p) == \E i \in DOMAIN fifo : fifo[i].k = k /\ fifo[i].p = p

\* A call of the modem is in a passing state only while a timer that ends that
\* state is scheduled or has posted its event: either timer for a call that is
\* connecting, the disconnect timer for one that is disconnecting, which a stray
\* connect event does not end.
NoStuckCall ==
    \A p \in Profiles :
        /\ call[p] = "CONNECTING" =>
               delay[p] # "none" \/ Queued("Connect", p) \/ Queued("Disconnect", p)
        /\ call[p] = "DISCONNECTING" => delay[p] = "Disconnect" \/ Queued("Disconnect", p)

Ended(p) == CallState(p, "NO_NET")

\* While the link is up, the modem forgets a call only together with a NO_NET
\* indication for it.
EndsWithNoNet ==
    [][\A p \in Profiles :
        call[p] # "none" /\ call'[p] = "none" /\ modem' = "Ready" /\ link =>
            wire' # <<>> /\ wire'[Len(wire')] = Ended(p)]_vars

\* A session never hangs between states: it ends up connected or forgotten.
SessionSettles ==
    \A p \in Profiles :
        ses[p].st \notin {"none", "Connected"} ~> ses[p].st \in {"none", "Connected"}

\* A session is erased only once it has reached Terminal.
ErasedWhenFinished == killed = {}
=============================================================================
