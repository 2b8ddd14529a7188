---------------------------- MODULE EcallManager ----------------------------
(***************************************************************************)
(* The eCall manager of the simulated modem                                *)
(* (sml/mpss/ecall/call_manager.py, EcallManagerAO): a miros active object *)
(* that owns at most one session per phoneId and schedules its timers.     *)
(* Phones share the queue and the configuration only; the module follows   *)
(* one phoneId.                                                            *)
(*                                                                         *)
(* A timer is a delayed post to the object's own queue.  The uuid under    *)
(* which it can be cancelled is forgotten when an expiry of the same timer *)
(* is handled, whichever scheduling the expiry came from: armed holds the  *)
(* timers that run and can be cancelled, loose counts those that run and   *)
(* cannot.  An expiry in the queue cannot be cancelled any more.           *)
(*                                                                         *)
(* Requests that only read (get_config and the like) are left out.         *)
(***************************************************************************)
EXTENDS EcallSession, Sequences, Functions

CONSTANTS
    NgDevice,     \* is_ng_ecall_device
    Kinds,        \* the <<type, isMsdTransmitted>> pairs clients start calls with
    Tables,       \* initial lengths of the two redial tables
    Controls,     \* configuration requests and control actions
    MaxCalls,     \* bound: calls
    MaxControls,  \* bound: configuration changes
    MaxQueue      \* bound: events queued when one comes from outside

Modes == {"CALLORIG", "CALLDROP"}
\* _REDIAL_ATTEMPTS_BOUNDS
Bounds == [CALLORIG |-> 1..10, CALLDROP |-> 1..2]
Redial == "redial"    \* the redial timer, beside the HLAP timers

ASSUME BoundsAssumption ==
    /\ NgDevice \in BOOLEAN
    /\ Kinds \subseteq {"PRIVATE", "REGULATORY", "CUSTOM"} \X BOOLEAN
    /\ Tables \in [Modes -> Nat] /\ \A m \in Modes : Tables[m] \in Bounds[m]
    /\ Controls \subseteq ({"overridden", "ecallOnly"} \X BOOLEAN) \cup (Modes \X Nat)
                          \cup ({"fail"} \X Timers)
                          \cup ({"redial"} \X (Modes \cup {"SUCCESS"}) \X Nat)
    /\ MaxCalls \in Nat /\ MaxControls \in Nat /\ MaxQueue \in Nat

VARIABLES
    ready,       \* the object is Ready; FALSE once it has stopped
    fifo,        \* its queue, messages on their way to it included
    session,     \* the phone's entry of _sessions
    armed,       \* timers that run and whose uuid is known
    loose,       \* for every timer, how many run whose uuid was forgotten
    status,      \* timers that are ACTIVE in _hlap_timer_status
    config,      \* overridden number, operating mode, failing timers, redial
    calls,       \* calls made so far (_call_index_seq)
    said,        \* history: the call state last published for every call
    ended,       \* history: calls whose end_ecall was answered with success
    controls     \* configuration changes so far

timers == <<armed, loose>>
told == <<said, ended>>
vars == <<ready, fifo, session, timers, status, config, calls, told, controls>>

NoSession == [state |-> "none", idx |-> 0]

Init ==
    /\ ready = TRUE /\ fifo = <<>> /\ session = NoSession
    /\ armed = {} /\ loose = [t \in Timers \cup {Redial} |-> 0] /\ status = {}
    /\ config = [overridden |-> FALSE, ecallOnly |-> FALSE, failed |-> {},
                 mode |-> "SUCCESS", succeedAt |-> 0, gaps |-> Tables]
    /\ calls = 0 /\ said = [i \in 1..MaxCalls |-> "none"] /\ ended = {}
    /\ controls = 0

\* The object takes the next event of its queue.
Takes(k) ==
    /\ ready /\ fifo # <<>> /\ Head(fifo).k = k

---------------------------------------------------------------------------
(* Timers and the call slot *)

\* Every timer of the phone is cancelled.
_clear_call_slot ==
    session' = NoSession /\ status' = {} /\ armed' = {}

\* The session and its callbacks before a procedure runs, and after.
Before ==
    [s |-> session, call |-> said[session.idx], msd |-> session.outcome,
     on |-> status, arm |-> {}, dial |-> FALSE, over |-> FALSE,
     ecallOnly |-> config.ecallOnly]

\* Scheduling a timer cancels the one it replaces.  release: the slot is cleared
\* when the procedure leaves the session in PSAPCallback.
After(w, kept, release) ==
    /\ said' = [said EXCEPT ![session.idx] = w.call]
    /\ IF w.over \/ (release /\ w.s.state = "PSAPCallback")
       THEN _clear_call_slot
       ELSE /\ session' = [w.s EXCEPT !.outcome = w.msd]
            /\ status' = w.on
            /\ armed' = kept \cup w.arm \cup (IF w.dial THEN {Redial} ELSE {})

NoCall == UNCHANGED <<session, status, armed, said>>

---------------------------------------------------------------------------
(* Requests *)

\* _resolve_call_target
NewSession(kind) ==
    LET custom == kind[1] = "CUSTOM" \/ (kind[1] # "PRIVATE" /\ config.overridden) IN
    [state |-> "CallConnect", idx |-> calls + 1,
     msd |-> kind[2], ng |-> kind[1] = "PRIVATE" \/ NgDevice, custom |-> custom,
     failed |-> config.failed, mode |-> config.mode,
     succeedAt |-> config.succeedAt,
     gaps |-> IF config.mode \in Modes THEN config.gaps[config.mode] ELSE 0,
     attempt |-> 0, pull |-> FALSE, outcome |-> "none"]

\* Any session makes room for the next one.
FreeAnyway == TRUE
Free == session.state \in {"none", "PSAPCallback", "Terminal"}

\* The reply says DIALING; the session is started by an event of its own.  The
\* bound on calls is Client's.
_handle_start_ecall ==
    /\ Takes("Start")
    /\ IF Free /\ calls < MaxCalls
       THEN /\ session' = NewSession(Head(fifo).kind)
            /\ calls' = calls + 1
            /\ said' = [said EXCEPT ![calls + 1] = "DIALING"]
            /\ fifo' = Append(Tail(fifo), [k |-> "SessionStart"])
            /\ IF session # NoSession THEN armed' = {} /\ status' = {}
                                      ELSE UNCHANGED <<armed, status>>
       ELSE fifo' = Tail(fifo) /\ UNCHANGED <<session, calls, said, armed, status>>
    /\ UNCHANGED <<ready, loose, config, ended, controls>>

\* The call ends, and its slot is released, before the reply.
_handle_end_ecall ==
    /\ Takes("End")
    /\ fifo' = Tail(fifo)
    /\ IF session.idx = Head(fifo).idx
       THEN After(hangup(Before), armed, TRUE) /\ ended' = ended \cup {session.idx}
       ELSE NoCall /\ UNCHANGED ended
    /\ UNCHANGED <<ready, loose, config, calls, controls>>

\* An event addressed to the phone's session, if there is one.
Session(k, after) ==
    /\ Takes(k)
    /\ fifo' = Tail(fifo)
    /\ IF session = NoSession THEN NoCall ELSE after
    /\ UNCHANGED <<ready, loose, config, calls, ended, controls>>

_handle_send_msd ==
    /\ Takes("SendMsd")
    /\ fifo' = IF session = NoSession THEN Tail(fifo)
               ELSE Append(Tail(fifo), [k |-> "SessionMsdPull"])
    /\ NoCall
    /\ UNCHANGED <<ready, loose, config, calls, ended, controls>>

_handle_request_network_deregistration ==
    Session("Deregister",
            IF "T9" \notin status /\ "T10" \in status
            THEN After(network_deregistration_request(Before), armed, FALSE) ELSE NoCall)

\* Configuration and control actions; an eCall under way keeps what it was made with.
_handle_set_config(c) ==
    c[1] = "overridden" /\ config' = [config EXCEPT !.overridden = c[2]]
_handle_set_operating_mode(c) ==
    c[1] = "ecallOnly" /\ config' = [config EXCEPT !.ecallOnly = c[2]]
_handle_configure_ecall_redial(c) ==
    /\ c[1] \in Modes
    /\ config' = IF c[2] \in Bounds[c[1]] THEN [config EXCEPT !.gaps[c[1]] = c[2]] ELSE config
_apply_force_timer_failure(c) ==
    /\ c[1] = "fail"
    /\ config' = IF c[2] \in {"T5", "T6", "T7"} THEN [config EXCEPT !.failed = @ \cup {c[2]}]
                                                ELSE config
\* succeedAt 0 stands for None, which no attempt equals.
_apply_force_redial_mode(c) ==
    /\ c[1] = "redial"
    /\ config' = [config EXCEPT !.mode = c[2],
                                !.succeedAt = IF c[2] = "SUCCESS" THEN 0 ELSE c[3]]

Configure ==
    /\ Takes("Control")
    /\ fifo' = Tail(fifo)
    /\ LET c == Head(fifo).c IN
       \/ _handle_set_config(c) \/ _handle_set_operating_mode(c)
       \/ _handle_configure_ecall_redial(c)
       \/ _apply_force_timer_failure(c) \/ _apply_force_redial_mode(c)
    /\ NoCall /\ UNCHANGED <<ready, loose, calls, ended, controls>>

---------------------------------------------------------------------------
(* Session events and timers *)

_run_session_start == Session("SessionStart", After(start(Before), armed, FALSE))
\* Only force_hangup_from_psap posts a hangup; it does not release the slot.
_run_session_hangup == Session("PsapHangup", After(hangup(Before), armed, FALSE))
_run_session_msd_pull == Session("SessionMsdPull", After(msd_pull_request(Before), armed, FALSE))

\* The uuid is dropped first; the session may schedule the timer anew.
Expire(t, w) ==
    /\ fifo' = Tail(fifo)
    /\ loose' = IF t \in armed THEN [loose EXCEPT ![t] = @ + 1] ELSE loose
    /\ IF session = NoSession
       THEN armed' = armed \ {t} /\ UNCHANGED <<session, status, said>>
       ELSE After(w, armed \ {t}, FALSE)
    /\ UNCHANGED <<ready, config, calls, ended, controls>>

_run_hlap_timer_expiry ==
    Takes("Expiry") /\ LET t == Head(fifo).t IN Expire(t, on_hlap_timer_expiry(Before, t))
_run_redial_timer_expiry ==
    Takes("Redial") /\ Expire(Redial, on_redial_timer_expiry(Before))

\* Sessions and timers are dropped; the thread ends.
smfn_stopping ==
    /\ Takes("Stop")
    /\ ready' = FALSE /\ fifo' = <<>>
    /\ session' = NoSession /\ armed' = {}
    /\ UNCHANGED <<loose, status, config, calls, told, controls>>

Step ==
    \/ _handle_start_ecall \/ _handle_end_ecall \/ _handle_send_msd
    \/ _handle_request_network_deregistration \/ Configure
    \/ _run_session_start \/ _run_session_hangup \/ _run_session_msd_pull
    \/ _run_hlap_timer_expiry \/ _run_redial_timer_expiry \/ smfn_stopping

---------------------------------------------------------------------------
(* Timers and the outside *)

post_fifo(e) == fifo' = Append(fifo, e)
rest == <<ready, session, status, config, calls, told>>

TimerDue(t) ==
    /\ \/ t \in armed /\ armed' = armed \ {t} /\ UNCHANGED loose
       \/ loose[t] > 0 /\ loose' = [loose EXCEPT ![t] = @ - 1] /\ UNCHANGED armed
    /\ post_fifo(IF t = Redial THEN [k |-> "Redial"] ELSE [k |-> "Expiry", t |-> t])
    /\ UNCHANGED <<rest, controls>>

Arrives(e) == ready /\ Len(fifo) < MaxQueue /\ post_fifo(e)
\* The same for events whose place behind others is of no interest.
ArrivesFirst(e) == fifo = <<>> /\ Arrives(e)

\* Clients know the index of a call from the reply to start_ecall.
Client ==
    /\ \/ /\ calls + Len(SelectSeq(fifo, LAMBDA e : e.k = "Start")) < MaxCalls
          /\ \E kind \in Kinds : Arrives([k |-> "Start", kind |-> kind])
       \/ \E i \in 1..calls : Arrives([k |-> "End", idx |-> i])
       \/ ArrivesFirst([k |-> "SendMsd"])
       \/ ArrivesFirst([k |-> "Deregister"])
    /\ UNCHANGED <<rest, timers, controls>>

\* force_hangup_from_psap, force_msd_pull_request and stop
Outside ==
    /\ \/ Arrives([k |-> "PsapHangup"])
       \/ Arrives([k |-> "SessionMsdPull"])
       \/ ArrivesFirst([k |-> "Stop"])
    /\ UNCHANGED <<rest, timers, controls>>

Control ==
    /\ controls < MaxControls /\ controls' = controls + 1
    /\ \E c \in Controls : ArrivesFirst([k |-> "Control", c |-> c])
    /\ UNCHANGED <<rest, timers>>

Next ==
    \/ Step \/ Client \/ Outside \/ Control
    \/ \E t \in Timers \cup {Redial} : TimerDue(t)

Spec == Init /\ [][Next]_vars

WaitTimers == {Redial, "T5", "T6", "T7"}

\* The object's thread runs and the timers that a session waits for fall due;
\* nobody has to call anything.
FairSpec ==
    Spec /\ WF_vars(Step) /\ \A t \in WaitTimers : WF_vars(TimerDue(t))

---------------------------------------------------------------------------
(* Properties *)

CallStates == {"none", "DIALING", "ALERTING", "ACTIVE", "ENDED"}
Live(i) == said[i] \in {"DIALING", "ALERTING", "ACTIVE"}

\* Every variable has its type.
TypeOK ==
    /\ ready \in BOOLEAN /\ status \subseteq Timers
    /\ session.state \in SessionStates \cup {"none"} /\ session.idx \in 0..calls
    /\ session # NoSession => session.attempt \in 0..session.gaps
    /\ armed \subseteq Timers \cup {Redial}
    /\ loose \in [Timers \cup {Redial} -> Nat]
    /\ said \in [1..MaxCalls -> CallStates] /\ ended \subseteq 1..calls

\* A call the clients were last told is dialling, alerting or active is the
\* phone's session and can be ended; a session that only waits for a callback
\* was announced as ENDED.
LiveCallIsOwned ==
    /\ \A i \in 1..MaxCalls : ready /\ Live(i) => session.idx = i /\ ~Free
    /\ session.state \in {"PSAPCallback", "Terminal"} => said[session.idx] = "ENDED"

\* Once end_ecall was answered with success the call was announced as ENDED and
\* nothing is left of it, so that the next start_ecall is not refused for it.
EndIsFinal == \A i \in ended : said[i] = "ENDED" /\ session.idx # i

Due(t) ==
    \/ t \in armed \/ loose[t] > 0
    \/ [k |-> "Expiry", t |-> t] \in Range(fifo) \/ (t = Redial /\ [k |-> "Redial"] \in Range(fifo))

\* The timer a session waits for.  Two waits of the code are left out because
\* nothing ends them but a hangup: a call that was redialled, with T5 set to fail,
\* waits in DecodeSendMSD for a T5 that is only started on the way from
\* CallConnect; and a call with a custom number, with T6 set to fail, waits in
\* DecodeMSD without T6.
Waits(t) ==
    \/ t = Redial /\ session.state = "Redialing"
    \/ t = "T5" /\ session.state = "DecodeSendMSD" /\ session.attempt = 0
    \/ t = "T7" /\ session.state = "CRCCheckonMSD"
    \/ t = "T6" /\ session.state = "DecodeMSD" /\ ~session.custom

\* A session in one of these waits has its timer running, or the timer's expiry
\* queued, whatever earlier calls left behind.  It does not speak of the two
\* waits left out of Waits.
WaitIsTimed == \A t \in WaitTimers : Waits(t) => Due(t)

\* The one call whose MSD is left open: made without an MSD, over circuits and
\* to the regulatory number, and asked for it by the answering point.
PulledWithoutMsd(s) == s.pull /\ ~s.msd /\ ~s.ng /\ ~s.custom

\* A call in the conversation has told what became of an MSD whose transmission
\* it announced.  The exception is exact: a call made without an MSD that gets a
\* pull announces the transmission and goes on to the conversation, and no
\* outcome follows.
MsdIsResolved ==
    session.state = "CallConversation"
        => (session.outcome = "STARTED" <=> PulledWithoutMsd(session))

\* No call stays for ever in its redial loop, or in a wait before the conversation
\* that a timer is meant to end.  The two waits that Waits leaves out do last
\* until a hangup, and hold the slot as DEVICE_IN_USE.
WaitEnds == []<>(\A t \in WaitTimers : ~Waits(t))
=============================================================================
