------------------------------ MODULE DataModem ------------------------------
(***************************************************************************)
(* The data connection object of the simulated modem                       *)
(* (sml/mpss/data/connection.py, DataConnectionAO with its CallSession and *)
(* IfnamePool): a miros active object that consumes its fifo one event at  *)
(* a time.  Its timers are delayed posts to that fifo; cancelling one has  *)
(* no effect once its event is queued.  A call belongs to a profile, the   *)
(* interface name it holds comes from a pool of fixed size.                *)
(***************************************************************************)
EXTENDS DataLink

CONSTANTS
    Ifnames     \* names of the pool

ASSUME IfnamesAssumption == NoIfname \notin Ifnames

VARIABLES
    modem,   \* "Ready", or "Stopping" once the object has stopped
    call,    \* status of each profile's CallSession, "none" without one
    ifname,  \* the name the session holds
    inUse,   \* IfnamePool._in_use
    delay    \* the scheduled timer of each session

modemVars == <<modem, call, ifname, inUse, delay>>

ModemInit ==
    /\ modem = "Ready"
    /\ call = [p \in Profiles |-> "none"]
    /\ ifname = [p \in Profiles |-> NoIfname]
    /\ inUse = {}
    /\ delay = [p \in Profiles |-> "none"]

\* The object takes the next event of its fifo, of signal k, for profile p.
Takes(k, p) ==
    /\ modem = "Ready"
    /\ fifo # <<>> /\ Head(fifo).k = k /\ Head(fifo).p = p
    /\ fifo' = Tail(fifo)

Reply(p, r) == Rsp(p, Head(fifo).id, r)

\* _publish_call_state, for the statuses the adapter acts on: every session
\* state ignores the others.
Ind(p, s) == IF s \in {"CONNECTED", "NO_NET"} THEN <<CallState(p, s)>> ELSE <<>>

\* release() left out when the session is forgotten.
ForgetKeepsName(p) ==
    /\ call' = [call EXCEPT ![p] = "none"]
    /\ ifname' = [ifname EXCEPT ![p] = NoIfname]
    /\ delay' = [delay EXCEPT ![p] = "none"]
    /\ UNCHANGED inUse

\* The session is forgotten: its timer is cancelled and its name released.
Forget(p) ==
    /\ call' = [call EXCEPT ![p] = "none"]
    /\ ifname' = [ifname EXCEPT ![p] = NoIfname]
    /\ delay' = [delay EXCEPT ![p] = "none"]
    /\ inUse' = inUse \ {ifname[p]}

\* IfnamePool.allocate: the names a request can be given.
allocate(want) == IF want # NoIfname THEN {want} \ inUse ELSE Ifnames \ inUse

\* A session is created and its connect timer scheduled.
Admit(p, n) ==
    /\ call' = [call EXCEPT ![p] = "CONNECTING"]
    /\ ifname' = [ifname EXCEPT ![p] = n]
    /\ inUse' = inUse \cup {n}
    /\ delay' = [delay EXCEPT ![p] = "Connect"]
    /\ Publish(<<Reply(p, "ok")>> \o Ind(p, "CONNECTING"))

\* A session that exists answers for itself: busy, up already, or up under
\* another name.  "ok" comes with no call_state indication.
StartExisting(p, want) ==
    /\ Publish(<<Reply(p, IF call[p] = "CONNECTED" /\ want \in {NoIfname, ifname[p]}
                          THEN "ok" ELSE "error")>>)
    /\ UNCHANGED <<call, ifname, inUse, delay>>

_handle_start(p) ==
    /\ Takes("Start", p)
    /\ LET want == Head(fifo).want IN
       \/ call[p] # "none" /\ StartExisting(p, want)
       \/ call[p] = "none" /\ \E n \in allocate(want) : Admit(p, n)
       \/ /\ call[p] = "none" /\ allocate(want) = {}
          /\ Publish(<<Reply(p, "error")>>)
          /\ UNCHANGED <<call, ifname, inUse, delay>>
    /\ UNCHANGED modem

\* A stop that takes a connected session to Terminal without forgetting it.
begin_disconnectingAtOnce(s) == IF s = "CONNECTED" THEN "NO_NET" ELSE s

\* CallSession.begin_disconnecting: only a connected session reacts.
begin_disconnecting(s) == IF s = "CONNECTED" THEN "DISCONNECTING" ELSE s

\* The disconnect timer left unscheduled.
_handle_stopUntimed(p) ==
    /\ Takes("Stop", p)
    /\ \/ /\ call[p] = "none"
          /\ Publish(<<Reply(p, "error")>>)
          /\ UNCHANGED <<call, delay>>
       \/ /\ call[p] # "none"
          /\ LET s == begin_disconnecting(call[p]) IN
             /\ call' = [call EXCEPT ![p] = s]
             /\ Publish(<<Reply(p, "ok")>> \o Ind(p, s))
          /\ delay' = [delay EXCEPT ![p] = "none"]
    /\ UNCHANGED <<modem, ifname, inUse>>

_handle_stop(p) ==
    /\ Takes("Stop", p)
    /\ \/ /\ call[p] = "none"
          /\ Publish(<<Reply(p, "error")>>)
          /\ UNCHANGED <<call, delay>>
       \/ /\ call[p] # "none"
          /\ LET s == begin_disconnecting(call[p]) IN
             /\ call' = [call EXCEPT ![p] = s]
             /\ Publish(<<Reply(p, "ok")>> \o Ind(p, s))
          /\ delay' = [delay EXCEPT ![p] = "Disconnect"]
    /\ UNCHANGED <<modem, ifname, inUse>>

\* What the adapter reads from the reply is whether its profile is CONNECTED.
_handle_list(p) ==
    /\ Takes("List", p)
    /\ Publish(<<Reply(p, IF call[p] = "CONNECTED" THEN "up" ELSE "down")>>)
    /\ UNCHANGED modemVars

_on_connect_timer(p) ==
    /\ Takes("Connect", p)
    /\ IF call[p] = "CONNECTING"
       THEN /\ call' = [call EXCEPT ![p] = "CONNECTED"]
            /\ delay' = [delay EXCEPT ![p] = "none"]
            /\ Publish(Ind(p, "CONNECTED"))
       ELSE UNCHANGED <<call, delay, wire>>
    /\ UNCHANGED <<modem, ifname, inUse>>

\* CallSession.disconnected: only a disconnecting session reacts, so what is
\* published last may be another status than NO_NET.
disconnected(s) == IF s = "DISCONNECTING" THEN "NO_NET" ELSE s

_on_disconnect_timer(p) ==
    /\ Takes("Disconnect", p)
    /\ IF call[p] # "none"
       THEN Forget(p) /\ Publish(Ind(p, disconnected(call[p])))
       ELSE UNCHANGED <<call, ifname, inUse, delay, wire>>
    /\ UNCHANGED modem

_apply_force_call_drop(p) ==
    /\ Takes("ForceCallDrop", p)
    /\ IF call[p] # "none"
       THEN Forget(p) /\ Publish(Ind(p, "NO_NET"))
       ELSE UNCHANGED <<call, ifname, inUse, delay, wire>>
    /\ UNCHANGED modem

\* A scheduled post_fifo falls due.
TimerDue(p) ==
    /\ delay[p] # "none"
    /\ fifo' = Append(fifo, [k |-> delay[p], p |-> p])
    /\ delay' = [delay EXCEPT ![p] = "none"]
    /\ UNCHANGED <<modem, call, ifname, inUse, wire>>

\* A connected session publishes its state again, with the new bearer.
_apply_network_rat_changed(p) ==
    /\ Takes("NetworkRatChanged", p)
    /\ Publish(IF call[p] = "CONNECTED" THEN Ind(p, "CONNECTED") ELSE <<>>)
    /\ UNCHANGED modemVars

\* A test drops the call of profile p or changes the radio technology.
force_call_drop(p) ==
    /\ modem = "Ready" /\ Disturb
    /\ \E k \in {"ForceCallDrop", "NetworkRatChanged"} :
           fifo' = Append(fifo, Req(k, p, 0, NoIfname))
    /\ UNCHANGED <<modemVars, wire>>

\* Another adapter process starts a call, whose reply is not for us: it takes
\* a name of the pool, or the profile itself.
ForeignRequest(p) ==
    /\ modem = "Ready" /\ Disturb
    /\ fifo' = Append(fifo, Req("Start", p, 0, NoIfname))
    /\ UNCHANGED <<modemVars, wire>>

\* Stop while Ready: the exit of Ready publishes the retained readiness, the
\* entry of Stopping cancels the timers and forgets the sessions; nothing is
\* published for them, and the pool is left as it is.
smfn_stopping ==
    /\ modem = "Ready" /\ Disturb
    /\ modem' = "Stopping"
    /\ fifo' = <<>>
    /\ call' = [p \in Profiles |-> "none"]
    /\ ifname' = [p \in Profiles |-> NoIfname]
    /\ delay' = [p \in Profiles |-> "none"]
    /\ Publish(<<Readiness(FALSE)>>)
    /\ UNCHANGED inUse

\* One event of the fifo.
ModemStep ==
    \E p \in Profiles :
        \/ _handle_start(p)
        \/ _handle_stop(p)
        \/ _handle_list(p)
        \/ _on_connect_timer(p)
        \/ _on_disconnect_timer(p)
        \/ _apply_force_call_drop(p)
        \/ _apply_network_rat_changed(p)
=============================================================================
