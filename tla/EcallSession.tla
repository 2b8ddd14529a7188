---------------------------- MODULE EcallSession ----------------------------
(***************************************************************************)
(* One emergency call of the simulated modem (sml/mpss/ecall/session.py,   *)
(* EcallSession): the procedures that run when the call enters a state or  *)
(* is told of an event.  They run to completion on the thread of the       *)
(* manager that owns the session, calling each other and calling back into *)
(* the manager.                                                            *)
(*                                                                         *)
(* A procedure is an operator on a record that stands for the session and  *)
(* for what its callbacks have done so far:                                *)
(*   s     the session: state, the flags it was made with, its _event_id   *)
(*         (pull), the redial table's length (gaps) and its attempt        *)
(*   call  the call state last published, msd the MSD outcome last         *)
(*         published                                                       *)
(*   on    timers whose status is ACTIVE, arm those to be scheduled        *)
(*   dial  the redial timer is to be scheduled                             *)
(*   over  on_terminal was called                                          *)
(*   ecallOnly  what get_operating_mode answers                            *)
(* Published timer events and update_in_progress, which nothing reads, are *)
(* left out.                                                               *)
(***************************************************************************)
EXTENDS Naturals

Timers == {"T2", "T5", "T6", "T7", "T9", "T10"}
SessionStates == {"CallConnect", "DecodeSendMSD", "CRCCheckonMSD", "DecodeMSD",
                  "CallConversation", "PSAPCallback", "Redialing", "Terminal"}

\* Callbacks
change_call_state(w, c) == [w EXCEPT !.call = c]
start_timer(w, t) == [w EXCEPT !.on = @ \cup {t}, !.arm = @ \cup {t}]
send_event(w, t, status) ==
    [w EXCEPT !.on = IF status = "start" THEN @ \cup {t} ELSE @ \ {t}]
expiry_timer(w, t) == [w EXCEPT !.on = @ \ {t}]
msd_transmission_status(w, m) == [w EXCEPT !.msd = m]

\* The result v of calls that are made unless the call has a custom number.
Regulatory(w, v) == IF w.s.custom THEN w ELSE v

---------------------------------------------------------------------------
(* Entry procedures *)

_transition_to(w, state) == [w EXCEPT !.s.state = state]

_enter_call_conversation(w) == _transition_to(w, "CallConversation")

\* T9 guards the time in which the answering point may call back.
_transition_to_psap_callback(w) ==
    LET v == _transition_to(w, "PSAPCallback") IN Regulatory(v, start_timer(v, "T9"))

\* The redial starts without a timer of its own.
_enter_redialingUntimed(w) ==
    [w EXCEPT !.s.state = "Redialing", !.s.attempt = 1]

_enter_redialing(w) ==
    [w EXCEPT !.s.state = "Redialing", !.s.attempt = 1, !.dial = TRUE]

\* With T6 set to fail, a call with a custom number stays here.
_enter_decode_msd(w) ==
    LET v == _transition_to(w, "DecodeMSD") IN
    IF w.s.ng THEN _enter_call_conversation(msd_transmission_status(v, "SUCCESS"))
    ELSE IF "T6" \in w.s.failed THEN Regulatory(v, start_timer(v, "T6"))
    ELSE _enter_call_conversation(
             LET u == msd_transmission_status(v, "SUCCESS")
             IN  Regulatory(u, send_event(u, "T6", "stop")))

\* T7 is announced and not scheduled.
_enter_crc_check_on_msdAnnounced(w) ==
    LET v == _transition_to(w, "CRCCheckonMSD") IN Regulatory(v, send_event(v, "T7", "start"))

\* T7 is only stopped after the states entered from here.
_enter_crc_check_on_msd(w) ==
    LET v == _transition_to(w, "CRCCheckonMSD")
        u == _enter_decode_msd(Regulatory(v, send_event(v, "T7", "start"))) IN
    IF "T7" \in w.s.failed THEN start_timer(v, "T7")
    ELSE Regulatory(u, send_event(u, "T7", "stop"))

\* After an MSD pull the call is taken to be active already.
_enter_decode_send_msd(w) ==
    LET v == _transition_to(w, "DecodeSendMSD")
        started == msd_transmission_status(v, "STARTED")
        active(u) == change_call_state(u, "ACTIVE") IN
    IF w.s.ng THEN
        IF w.s.msd THEN _enter_decode_msd(active(Regulatory(v, started)))
                   ELSE _enter_call_conversation(v)
    ELSE IF ~w.s.msd THEN
        _enter_call_conversation(active(IF w.s.pull THEN Regulatory(v, started) ELSE v))
    ELSE IF w.s.pull THEN _enter_crc_check_on_msd(started)
    ELSE IF w.s.custom THEN _enter_crc_check_on_msd(active(started))
    ELSE IF "T5" \in w.s.failed THEN active(started)
    ELSE _enter_crc_check_on_msd(send_event(active(started), "T5", "stop"))

\* The first dial fails when the redial mode is CALLORIG.
_enter_call_connect(w) ==
    LET v == change_call_state(w, "ALERTING")
        u == Regulatory(v, start_timer(v, "T2"))
        t5 == IF "T5" \in w.s.failed THEN start_timer(u, "T5")
                                     ELSE send_event(u, "T5", "start") IN
    IF w.s.mode = "CALLORIG" THEN _enter_redialing(change_call_state(w, "ENDED"))
    ELSE _enter_decode_send_msd(IF w.s.ng \/ ~w.s.msd THEN u ELSE Regulatory(u, t5))

---------------------------------------------------------------------------
(* Events *)

start(w) == _enter_call_connect(change_call_state(_transition_to(w, "CallConnect"), "DIALING"))

\* A hangup while the call is being redialled is not for this state.
hangupIgnoresRedial(w) ==
    LET v == change_call_state(w, "ENDED") IN
    IF w.s.state \in {"CallConnect", "DecodeSendMSD", "CRCCheckonMSD", "DecodeMSD",
                      "CallConversation"}
    THEN _transition_to_psap_callback(Regulatory(v, send_event(v, "T2", "stop")))
    ELSE w

hangup(w) ==
    LET v == change_call_state(w, "ENDED") IN
    IF w.s.state \in {"CallConnect", "DecodeSendMSD", "CRCCheckonMSD", "DecodeMSD",
                      "CallConversation"}
    THEN _transition_to_psap_callback(Regulatory(v, send_event(v, "T2", "stop")))
    ELSE IF w.s.state = "Redialing" THEN _transition_to_psap_callback(v)
    ELSE w

\* _event_id is set in every state, and never cleared.
msd_pull_request(w) ==
    LET v == [w EXCEPT !.s.pull = TRUE] IN
    IF w.s.state # "CallConversation" THEN v
    ELSE IF w.s.ng THEN msd_transmission_status(v, "SUCCESS")
    ELSE _enter_decode_send_msd(v)

network_deregistration_request(w) ==
    IF w.s.state = "PSAPCallback" THEN Regulatory(w, send_event(w, "T10", "stop")) ELSE w

\* The call goes on without a word about the MSD.
MsdFailsSilently(w, t) == _enter_call_conversation(expiry_timer(w, t))

MsdFails(w, t) ==
    _enter_call_conversation(msd_transmission_status(expiry_timer(w, t), "FAILURE"))

on_hlap_timer_expiry(w, t) ==
    LET at(state, timer) == w.s.state = state /\ t = timer
        v == expiry_timer(w, t)
        ended == change_call_state(v, "ENDED") IN
    IF \/ at("DecodeSendMSD", "T5") /\ "T5" \in w.s.failed
       \/ at("CRCCheckonMSD", "T7")
       \/ at("DecodeMSD", "T6") /\ ~w.s.custom /\ ~w.s.ng
    THEN MsdFails(w, t)
    ELSE IF at("CallConversation", "T2") /\ ~w.s.custom
    THEN IF w.s.mode = "CALLDROP" THEN _enter_redialing(ended)
                                  ELSE _transition_to_psap_callback(ended)
    ELSE IF at("PSAPCallback", "T9") /\ ~w.s.custom
    THEN IF w.ecallOnly THEN start_timer(v, "T10")
                        ELSE [_transition_to(v, "Terminal") EXCEPT !.over = TRUE]
    ELSE IF at("PSAPCallback", "T10") THEN v
    ELSE w

\* One attempt more than the table has entries.
on_redial_timer_expiryPastEnd(w) ==
    LET again == [change_call_state(w, "ENDED") EXCEPT !.s.attempt = @ + 1, !.dial = TRUE] IN
    IF w.s.state # "Redialing" THEN w
    ELSE IF w.s.attempt = w.s.succeedAt
    THEN _enter_decode_send_msd(change_call_state(w, "ACTIVE"))
    ELSE IF w.s.attempt <= w.s.gaps THEN again
    ELSE _transition_to_psap_callback(change_call_state(w, "ENDED"))

\* Every attempt fails but the one the test asked to succeed.
on_redial_timer_expiry(w) ==
    LET again == [change_call_state(w, "ENDED") EXCEPT !.s.attempt = @ + 1, !.dial = TRUE] IN
    IF w.s.state # "Redialing" THEN w
    ELSE IF w.s.attempt = w.s.succeedAt
    THEN _enter_decode_send_msd(change_call_state(w, "ACTIVE"))
    ELSE IF w.s.attempt < w.s.gaps THEN again
    ELSE _transition_to_psap_callback(change_call_state(w, "ENDED"))
=============================================================================
