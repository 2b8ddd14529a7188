----------------------------- MODULE EcallProofs -----------------------------
(***************************************************************************)
(* What the clients of EcallManager can rely on, and that a session that   *)
(* waits for a timer has it, for every configuration and any number of     *)
(* calls.                                                                  *)
(***************************************************************************)
EXTENDS EcallManager, TLAPS

---------------------------------------------------------------------------
(* What each procedure of EcallSession leaves behind, for every session it *)
(* can be called on: the record has its type, the call keeps its index, a  *)
(* call that ended was announced, and a session that waits for a timer has *)
(* scheduled it.                                                           *)

Outcomes == {"none", "STARTED", "SUCCESS", "FAILURE"}
Sess == [state : SessionStates, idx : Nat, msd : BOOLEAN, ng : BOOLEAN, custom : BOOLEAN,
         failed : SUBSET Timers, mode : Modes \cup {"SUCCESS"}, succeedAt : Nat, gaps : Nat,
         attempt : Nat, pull : BOOLEAN, outcome : Outcomes]
Work == [s : Sess, call : CallStates, msd : Outcomes, on : SUBSET Timers,
         arm : SUBSET Timers, dial : BOOLEAN, over : BOOLEAN, ecallOnly : BOOLEAN]

\* A call without an MSD announces no transmission, unless it is pulled.
Quiet(v) == ~v.s.msd /\ v.msd = "STARTED" => PulledWithoutMsd(v.s)

\* v comes from w by callbacks and transitions that keep what the call was made
\* with and every timer already scheduled.
Follows(w, v) ==
    /\ v \in Work
    /\ v.s.idx = w.s.idx /\ v.s.attempt = w.s.attempt
    /\ v.s.msd = w.s.msd /\ v.s.ng = w.s.ng /\ v.s.custom = w.s.custom
    /\ v.s.failed = w.s.failed /\ v.s.pull = w.s.pull
    /\ v.s.mode = w.s.mode /\ v.s.gaps = w.s.gaps
    /\ v.over = w.over /\ w.arm \subseteq v.arm
    /\ Quiet(w) => Quiet(v)

\* A callback: the state of the session is kept as well.
CallsBack(w, v) == Follows(w, v) /\ v.s.state = w.s.state

\* Whose MSD is open: the calls without one that were pulled, and no other.
Resolved(v) == v.msd = "STARTED" <=> PulledWithoutMsd(v.s)

\* The redial attempt is one of the table, which is not empty when the call can
\* be redialled.
InTable(s) == s.attempt \in 0..s.gaps /\ (s.mode \in Modes => s.gaps >= 1)

\* What the call may tell of its MSD.
Speaks(w, m) == m = "STARTED" => w.s.msd \/ PulledWithoutMsd(w.s)

LEMMA CallbackFacts ==
    ASSUME NEW w \in Work
    PROVE  /\ \A c \in CallStates : /\ CallsBack(w, change_call_state(w, c))
                                    /\ change_call_state(w, c).call = c
                                    /\ change_call_state(w, c).msd = w.msd
           /\ \A m \in Outcomes : /\ Follows(w, w)
                                  /\ msd_transmission_status(w, m) \in Work
                                  /\ Speaks(w, m) => CallsBack(w, msd_transmission_status(w, m))
                                  /\ msd_transmission_status(w, m).call = w.call
                                  /\ msd_transmission_status(w, m).msd = m
           /\ \A t \in Timers : /\ CallsBack(w, start_timer(w, t))
                                /\ t \in start_timer(w, t).arm
                                /\ start_timer(w, t).call = w.call
                                /\ start_timer(w, t).msd = w.msd
                                /\ CallsBack(w, expiry_timer(w, t))
                                /\ expiry_timer(w, t).call = w.call
                                /\ expiry_timer(w, t).msd = w.msd
           /\ \A t \in Timers, x \in {"start", "stop"} :
                 /\ CallsBack(w, send_event(w, t, x)) /\ send_event(w, t, x).call = w.call
                 /\ send_event(w, t, x).msd = w.msd
<1>1. \A c \in CallStates : /\ CallsBack(w, change_call_state(w, c))
                            /\ change_call_state(w, c).call = c
                            /\ change_call_state(w, c).msd = w.msd
  BY DEF CallsBack, Follows, Quiet, change_call_state, Work
<1>2. \A m \in Outcomes : /\ Follows(w, w)
                          /\ msd_transmission_status(w, m) \in Work
                          /\ Speaks(w, m) => CallsBack(w, msd_transmission_status(w, m))
                          /\ msd_transmission_status(w, m).call = w.call
                          /\ msd_transmission_status(w, m).msd = m
  BY DEF CallsBack, Follows, Quiet, Speaks, msd_transmission_status, Work
<1>3. \A t \in Timers : /\ CallsBack(w, start_timer(w, t))
                        /\ t \in start_timer(w, t).arm
                        /\ start_timer(w, t).call = w.call
                        /\ start_timer(w, t).msd = w.msd
  BY Zenon DEF CallsBack, Follows, Quiet, start_timer, Work
<1>4. \A t \in Timers : /\ CallsBack(w, expiry_timer(w, t))
                        /\ expiry_timer(w, t).call = w.call /\ expiry_timer(w, t).msd = w.msd
  BY DEF CallsBack, Follows, Quiet, expiry_timer, Work
<1>5. \A t \in Timers, x \in {"start", "stop"} :
          /\ CallsBack(w, send_event(w, t, x)) /\ send_event(w, t, x).call = w.call
          /\ send_event(w, t, x).msd = w.msd
  BY DEF CallsBack, Follows, Quiet, send_event, Work
<1> QED BY <1>1, <1>2, <1>3, <1>4, <1>5

LEMMA TransitionFacts ==
    ASSUME NEW w \in Work, NEW x \in SessionStates
    PROVE  /\ Follows(w, _transition_to(w, x)) /\ _transition_to(w, x).s.state = x
           /\ _transition_to(w, x).call = w.call /\ _transition_to(w, x).msd = w.msd
BY DEF Follows, Quiet, PulledWithoutMsd, _transition_to, Work, Sess

LEMMA FollowsWork ==
    ASSUME NEW w, NEW v, Follows(w, v)
    PROVE  v \in Work
BY DEF Follows

LEMMA FollowsTrans ==
    ASSUME NEW w, NEW u, NEW v, Follows(w, u), Follows(u, v)
    PROVE  Follows(w, v)
BY DEF Follows

\* v is past DecodeSendMSD and has scheduled the timer it waits for, if any.
Settled(v) ==
    /\ v.s.state \in {"CRCCheckonMSD", "DecodeMSD", "CallConversation"}
    /\ v.s.state # "CallConversation" => v.s.msd
    /\ v.s.state = "CRCCheckonMSD" => "T7" \in v.arm
    /\ v.s.state = "DecodeMSD" => ~v.s.ng
    /\ v.s.state = "DecodeMSD" /\ ~v.s.custom => "T6" \in v.arm
    /\ v.s.state = "CallConversation" => Resolved(v)

LEMMA ConversationFacts ==
    ASSUME NEW w \in Work, Resolved(w)
    PROVE  Follows(w, _enter_call_conversation(w)) /\ Settled(_enter_call_conversation(w))
<1> DEFINE v == _transition_to(w, "CallConversation")
<1>1. Follows(w, v) /\ v.s.state = "CallConversation" /\ v.msd = w.msd
  BY TransitionFacts DEF SessionStates
<1>2. v = _enter_call_conversation(w)
  BY DEF _enter_call_conversation
<1> HIDE DEF v
<1> QED BY <1>1, <1>2 DEF Settled, Resolved, PulledWithoutMsd, Follows

LEMMA DecodeMsdFacts ==
    ASSUME NEW w \in Work, w.s.msd
    PROVE  Follows(w, _enter_decode_msd(w)) /\ Settled(_enter_decode_msd(w))
<1> DEFINE v == _transition_to(w, "DecodeMSD")
           u == msd_transmission_status(v, "SUCCESS")
           x == Regulatory(u, send_event(u, "T6", "stop"))
<1>1. Follows(w, v) /\ v \in Work /\ v.s.state = "DecodeMSD"
  BY TransitionFacts, FollowsWork DEF SessionStates
<1>2. Follows(v, u) /\ u \in Work /\ u.msd = "SUCCESS" /\ Resolved(u)
  <2>1. Follows(v, u) /\ u \in Work /\ u.msd = "SUCCESS"
    BY <1>1, CallbackFacts DEF CallsBack, Speaks, Outcomes
  <2> HIDE DEF v, u
  <2> QED BY <1>1, <2>1 DEF Follows, Resolved, PulledWithoutMsd
<1>3. Follows(u, u) /\ Follows(u, send_event(u, "T6", "stop"))
      /\ send_event(u, "T6", "stop").msd = u.msd
  BY ZenonT(120), <1>2, CallbackFacts DEF CallsBack, Follows, Timers
<1>4. Follows(u, x) /\ x \in Work /\ Resolved(x)
  <2> HIDE DEF u
  <2> QED BY <1>2, <1>3, Zenon DEF Regulatory, Follows, Resolved, PulledWithoutMsd
<1>5. Follows(w, u) /\ Follows(w, x)
  BY <1>1, <1>2, <1>4, FollowsTrans
<1>6. CASE w.s.ng
  BY <1>2, <1>5, <1>6, ConversationFacts, FollowsTrans DEF _enter_decode_msd
<1>7. CASE ~w.s.ng /\ "T6" \notin w.s.failed
  BY <1>4, <1>5, <1>7, ConversationFacts, FollowsTrans DEF _enter_decode_msd
<1>8. CASE ~w.s.ng /\ "T6" \in w.s.failed
  <2> DEFINE y == start_timer(v, "T6")
  <2>1. Follows(v, y) /\ y.s.state = "DecodeMSD" /\ "T6" \in y.arm
    BY <1>1, CallbackFacts DEF CallsBack, Timers
  <2>2. Follows(w, y)
    BY <1>1, <2>1, FollowsTrans
  <2>3. v.s.custom = w.s.custom
    BY <1>1 DEF Follows
  <2>4. _enter_decode_msd(w) = IF v.s.custom THEN v ELSE y
    BY <1>8 DEF _enter_decode_msd, Regulatory
  <2>5. ~v.s.ng /\ ~y.s.ng /\ v.s.msd /\ y.s.msd
    BY <1>1, <1>8, <2>2 DEF Follows
  <2> QED BY <1>1, <2>1, <2>2, <2>4, <2>5 DEF Settled
<1> QED BY <1>6, <1>7, <1>8

LEMMA CrcFacts ==
    ASSUME NEW w \in Work, w.s.msd
    PROVE  Follows(w, _enter_crc_check_on_msd(w)) /\ Settled(_enter_crc_check_on_msd(w))
<1> DEFINE v == _transition_to(w, "CRCCheckonMSD")
           a == Regulatory(v, send_event(v, "T7", "start"))
           u == _enter_decode_msd(a)
           z == Regulatory(u, send_event(u, "T7", "stop"))
<1>1. Follows(w, v) /\ v \in Work /\ v.s.state = "CRCCheckonMSD"
  BY TransitionFacts, FollowsWork DEF SessionStates
<1>2. Follows(v, v) /\ Follows(v, send_event(v, "T7", "start"))
  BY ZenonT(120), <1>1, CallbackFacts DEF CallsBack, Follows, Timers
<1>3. Follows(v, a) /\ a \in Work /\ a.s.msd
  BY <1>1, <1>2 DEF Regulatory, Follows
<1>4. Follows(a, u) /\ u \in Work /\ Settled(u)
  BY <1>3, DecodeMsdFacts DEF Follows
<1>5. CallsBack(u, u) /\ CallsBack(u, send_event(u, "T7", "stop"))
      /\ send_event(u, "T7", "stop").msd = u.msd
  BY ZenonT(120), <1>4, CallbackFacts DEF CallsBack, Follows, Timers
<1>6. CallsBack(u, z) /\ z.msd = u.msd
  BY <1>5 DEF Regulatory
<1>7. Follows(u, z) /\ Settled(z)
  <2> HIDE DEF u, z
  <2> QED BY <1>4, <1>6 DEF CallsBack, Follows, Settled, Resolved, PulledWithoutMsd
<1>8. Follows(w, z)
  BY <1>1, <1>3, <1>4, <1>7, FollowsTrans
<1>9. CASE "T7" \in w.s.failed
  <2> DEFINE y == start_timer(v, "T7")
  <2>1. CallsBack(v, y) /\ "T7" \in y.arm
    BY <1>1, CallbackFacts DEF Timers
  <2>2. y = _enter_crc_check_on_msd(w)
    BY <1>9 DEF _enter_crc_check_on_msd
  <2> HIDE DEF y, v
  <2>3. Follows(w, y)
    BY <1>1, <2>1, FollowsTrans DEF CallsBack
  <2>4. Settled(y)
    BY <1>1, <2>1, <2>3 DEF CallsBack, Settled, Follows
  <2> QED BY <2>2, <2>3, <2>4
<1>10. CASE "T7" \notin w.s.failed
  BY SMTT(120), <1>7, <1>8, <1>10 DEF _enter_crc_check_on_msd
<1> QED BY <1>9, <1>10

\* The one case in which a session stays in DecodeSendMSD.
AwaitsT5(w) == ~w.s.ng /\ w.s.msd /\ ~w.s.custom /\ ~w.s.pull /\ "T5" \in w.s.failed

LEMMA DecodeSendFacts ==
    ASSUME NEW w \in Work, Quiet(w)
    PROVE  LET v == _enter_decode_send_msd(w) IN
           Follows(w, v) /\ (Settled(v) \/ (v.s.state = "DecodeSendMSD" /\ AwaitsT5(w)))
<1> DEFINE v == _transition_to(w, "DecodeSendMSD")
           started == msd_transmission_status(v, "STARTED")
           active(u) == change_call_state(u, "ACTIVE")
           maybe == Regulatory(v, started)
           tells == w.s.msd \/ PulledWithoutMsd(w.s)
<1>1. Follows(w, v) /\ v \in Work /\ v.s.state = "DecodeSendMSD" /\ v.msd = w.msd
  BY SMTT(120), TransitionFacts DEF Follows, SessionStates
<1>2. started \in Work /\ started.msd = "STARTED" /\ (Speaks(v, "STARTED") => CallsBack(v, started))
  BY <1>1, CallbackFacts DEF Outcomes
<1> HIDE DEF v, started
<1>3. tells => Follows(w, started) /\ started.s.state = "DecodeSendMSD"
  <2>1. tells => Speaks(v, "STARTED")
    BY <1>1 DEF Speaks, Follows, PulledWithoutMsd
  <2> QED BY <1>1, <1>2, <2>1, FollowsTrans DEF CallsBack
<1>4. tells => Follows(w, maybe)
  BY <1>1, <1>3 DEF Regulatory
<1>5. \A u : Follows(w, u) => /\ Follows(w, active(u)) /\ active(u) \in Work
                              /\ active(u).s.state = u.s.state /\ active(u).msd = u.msd
  <2> SUFFICES ASSUME NEW u, Follows(w, u)
               PROVE  /\ Follows(w, active(u)) /\ active(u) \in Work
                      /\ active(u).s.state = u.s.state /\ active(u).msd = u.msd
    OBVIOUS
  <2>1. u \in Work
    BY DEF Follows
  <2>2. CallsBack(u, active(u)) /\ active(u).msd = u.msd
    BY <2>1, CallbackFacts DEF CallStates
  <2> QED BY <2>2, FollowsTrans DEF CallsBack, Follows
<1> HIDE DEF active, maybe
<1>6. CASE w.s.ng /\ w.s.msd
  <2>1. _enter_decode_send_msd(w) = _enter_decode_msd(active(maybe))
    BY <1>6 DEF _enter_decode_send_msd, v, started, active, maybe
  <2>2. Follows(w, active(maybe)) /\ active(maybe) \in Work /\ active(maybe).s.msd
    BY <1>4, <1>5, <1>6 DEF Follows
  <2> QED BY <2>1, <2>2, DecodeMsdFacts, FollowsTrans
<1>7. CASE w.s.ng /\ ~w.s.msd
  <2>1. _enter_decode_send_msd(w) = _enter_call_conversation(v)
    BY <1>7 DEF _enter_decode_send_msd, v
  <2>2. Resolved(v)
    BY <1>1, <1>7 DEF Quiet, Resolved, PulledWithoutMsd, Follows
  <2> QED BY <1>1, <2>1, <2>2, ConversationFacts, FollowsTrans
<1>8. CASE ~w.s.ng /\ ~w.s.msd
  <2> DEFINE u == IF PulledWithoutMsd(w.s) THEN started ELSE v
  <2>1. _enter_decode_send_msd(w) = _enter_call_conversation(active(u))
    <3>1. v.s.custom = w.s.custom
      BY <1>1 DEF Follows
    <3>2. CASE PulledWithoutMsd(w.s)
      BY <1>8, <3>1, <3>2
      DEF _enter_decode_send_msd, v, started, active, Regulatory, PulledWithoutMsd
    <3>3. CASE ~PulledWithoutMsd(w.s)
      BY <1>8, <3>1, <3>3
      DEF _enter_decode_send_msd, v, started, active, Regulatory, PulledWithoutMsd
    <3> QED BY <3>2, <3>3
  <2>2. Follows(w, u) /\ (u.msd = "STARTED" <=> PulledWithoutMsd(w.s))
    BY <1>1, <1>2, <1>3, <1>8 DEF Quiet
  <2> HIDE DEF u
  <2>3. Follows(w, active(u)) /\ active(u) \in Work /\ active(u).msd = u.msd
    BY <1>5, <2>2
  <2>4. Resolved(active(u))
    BY <2>2, <2>3 DEF Resolved, PulledWithoutMsd, Follows
  <2> QED BY <2>1, <2>3, <2>4, ConversationFacts, FollowsTrans
<1>9. CASE ~w.s.ng /\ w.s.msd /\ w.s.pull
  <2>1. _enter_decode_send_msd(w) = _enter_crc_check_on_msd(started)
    BY <1>9 DEF _enter_decode_send_msd, v, started
  <2>2. Follows(w, started) /\ started.s.msd
    BY <1>3, <1>9 DEF Follows
  <2> QED BY <1>2, <2>1, <2>2, CrcFacts, FollowsTrans
<1>10. CASE ~w.s.ng /\ w.s.msd /\ ~w.s.pull /\ w.s.custom
  <2>1. _enter_decode_send_msd(w) = _enter_crc_check_on_msd(active(started))
    BY <1>10 DEF _enter_decode_send_msd, v, started, active
  <2>2. Follows(w, active(started)) /\ active(started) \in Work /\ active(started).s.msd
    BY <1>3, <1>5, <1>10 DEF Follows
  <2> QED BY <2>1, <2>2, CrcFacts, FollowsTrans
<1>11. CASE AwaitsT5(w)
  <2>1. _enter_decode_send_msd(w) = active(started)
    BY <1>11 DEF _enter_decode_send_msd, v, started, active, AwaitsT5
  <2>2. w.s.msd
    BY <1>11 DEF AwaitsT5
  <2> QED BY <1>3, <1>5, <1>11, <2>1, <2>2
<1>12. CASE ~w.s.ng /\ w.s.msd /\ ~w.s.pull /\ ~w.s.custom /\ "T5" \notin w.s.failed
  <2> DEFINE x == send_event(active(started), "T5", "stop")
  <2>1. _enter_decode_send_msd(w) = _enter_crc_check_on_msd(x)
    BY SMTT(120), <1>12 DEF _enter_decode_send_msd, v, started, active
  <2>2. Follows(w, active(started)) /\ active(started) \in Work
    BY <1>3, <1>5, <1>12
  <2>3. CallsBack(active(started), x)
    BY <2>2, CallbackFacts DEF Timers
  <2> HIDE DEF x
  <2>4. Follows(w, x) /\ x \in Work /\ x.s.msd
    BY <1>12, <2>2, <2>3, FollowsTrans DEF CallsBack, Follows
  <2> QED BY <2>1, <2>4, CrcFacts, FollowsTrans
<1> QED BY <1>6, <1>7, <1>8, <1>9, <1>10, <1>11, <1>12 DEF AwaitsT5

LEMMA PsapFacts ==
    ASSUME NEW w \in Work
    PROVE  LET v == _transition_to_psap_callback(w) IN
           Follows(w, v) /\ v.call = w.call /\ v.s.state = "PSAPCallback"
<1> DEFINE v == _transition_to(w, "PSAPCallback")
           u == start_timer(v, "T9")
<1>1. Follows(w, v) /\ v \in Work /\ v.s.state = "PSAPCallback" /\ v.call = w.call
  BY TransitionFacts DEF Follows, SessionStates
<1>2. CallsBack(v, u) /\ u.call = v.call
  BY <1>1, CallbackFacts DEF Timers
<1>3. _transition_to_psap_callback(w) \in {u, v}
  BY DEF _transition_to_psap_callback, Regulatory
<1> QED BY <1>1, <1>2, <1>3, FollowsTrans DEF CallsBack

LEMMA RedialingFacts ==
    ASSUME NEW w \in Work, InTable(w.s), w.s.mode \in Modes, Quiet(w)
    PROVE  LET v == _enter_redialing(w) IN
           v \in Work /\ v.s.idx = w.s.idx /\ v.over = w.over
           /\ v.s.state = "Redialing" /\ v.s.attempt = 1 /\ v.dial /\ InTable(v.s)
           /\ Quiet(v)
<1> DEFINE v == _enter_redialing(w)
<1>1. /\ v \in Work /\ v.s.idx = w.s.idx /\ v.over = w.over /\ v.s.state = "Redialing"
      /\ v.s.attempt = 1 /\ v.dial /\ v.s.gaps = w.s.gaps /\ w.s.gaps \in Nat
      /\ v.s.msd = w.s.msd /\ v.s.ng = w.s.ng /\ v.s.custom = w.s.custom
      /\ v.s.pull = w.s.pull /\ v.msd = w.msd
  BY Zenon DEF _enter_redialing, Work, Sess, SessionStates
<1> HIDE DEF v
<1>2. InTable(v.s) /\ Quiet(v)
  BY <1>1 DEF InTable, Quiet, PulledWithoutMsd
<1> QED BY <1>1, <1>2 DEF v

LEMMA InTableKept ==
    ASSUME NEW w, NEW v, Follows(w, v), InTable(w.s)
    PROVE  InTable(v.s)
BY DEF Follows, InTable

\* What a session waits for, and what a procedure has scheduled.
WaitsOf(s, t) ==
    \/ t = Redial /\ s.state = "Redialing"
    \/ t = "T5" /\ s.state = "DecodeSendMSD" /\ s.attempt = 0
    \/ t = "T7" /\ s.state = "CRCCheckonMSD"
    \/ t = "T6" /\ s.state = "DecodeMSD" /\ ~s.custom
Armed(v) == v.arm \cup (IF v.dial THEN {Redial} ELSE {})
Timed(v) == \A t \in WaitTimers : WaitsOf(v.s, t) => t \in Armed(v)

\* Between events: an ended call is announced as such, only a session that is
\* over is Terminal, a redial has its attempt counted and within its table, a
\* session that stays before the conversation has an MSD and stays for a timer
\* that ends its stay, and one in the conversation has told what became of its MSD.
Good(w) ==
    /\ w \in Work
    /\ w.s.state \in {"PSAPCallback", "Terminal"} => w.call = "ENDED"
    /\ w.over <=> w.s.state = "Terminal"
    /\ w.s.state = "Redialing" => w.s.attempt >= 1
    /\ w.s.state = "DecodeMSD" => ~w.s.ng
    /\ w.s.state = "DecodeSendMSD" => "T5" \in w.s.failed
    /\ w.s.state \in {"DecodeSendMSD", "CRCCheckonMSD", "DecodeMSD"} => w.s.msd
    /\ w.s.state = "CallConversation" => Resolved(w)
    /\ Quiet(w) /\ InTable(w.s)

\* A procedure that ends past DecodeSendMSD, or redialling, leaves things good.
LEMMA SettledGood ==
    ASSUME NEW v \in Work, ~v.over, Settled(v), InTable(v.s)
    PROVE  Good(v) /\ Timed(v)
<1>1. Quiet(v)
  BY DEF Settled, Quiet, Resolved
<1> QED BY <1>1 DEF Good, Settled, Timed, WaitsOf, Armed, WaitTimers, Redial

LEMMA StartFacts ==
    ASSUME NEW w \in Work, ~w.over, InTable(w.s), Quiet(w)
    PROVE  Good(start(w)) /\ start(w).s.idx = w.s.idx /\ Timed(start(w))
<1> DEFINE z == change_call_state(_transition_to(w, "CallConnect"), "DIALING")
           v == change_call_state(z, "ALERTING")
           u == Regulatory(v, start_timer(v, "T2"))
           t5 == IF "T5" \in z.s.failed THEN start_timer(u, "T5")
                                        ELSE send_event(u, "T5", "start")
           x == IF z.s.ng \/ ~z.s.msd THEN u ELSE Regulatory(u, t5)
           e == change_call_state(z, "ENDED")
<1>1. z \in Work /\ z.s.idx = w.s.idx /\ ~z.over /\ InTable(z.s) /\ Quiet(z)
  <2> DEFINE q == _transition_to(w, "CallConnect")
  <2>1. Follows(w, q) /\ q \in Work
    BY TransitionFacts DEF SessionStates, Follows
  <2> HIDE DEF q
  <2>2. CallsBack(q, change_call_state(q, "DIALING"))
    BY <2>1, CallbackFacts DEF CallStates
  <2>3. Follows(q, z)
    BY SMTT(120), <2>2 DEF CallsBack, q
  <2>4. Follows(w, z)
    BY <2>1, <2>3, FollowsTrans
  <2> HIDE DEF z
  <2> QED BY <2>4, InTableKept DEF Follows
<1> HIDE DEF z
<1>2. Follows(z, v) /\ v \in Work
  <2>1. CallsBack(z, v)
    BY <1>1, CallbackFacts DEF CallStates
  <2> HIDE DEF v
  <2> QED BY <2>1 DEF CallsBack, Follows
<1>3. Follows(v, v) /\ Follows(v, start_timer(v, "T2"))
  BY ZenonT(120), <1>2, CallbackFacts DEF CallsBack, Follows, Timers
<1>4. Follows(z, u) /\ u \in Work
  BY <1>2, <1>3, FollowsTrans, Zenon DEF Regulatory, Follows
<1>5. /\ Follows(u, start_timer(u, "T5")) /\ Follows(u, send_event(u, "T5", "start"))
      /\ "T5" \in start_timer(u, "T5").arm
  BY ZenonT(120), <1>4, CallbackFacts DEF CallsBack, Timers
<1> HIDE DEF u
<1>6. Follows(u, t5) /\ ("T5" \in z.s.failed => "T5" \in t5.arm)
  BY SMTT(120), <1>5
<1> HIDE DEF t5
<1>7. Follows(z, x) /\ x \in Work /\ (AwaitsT5(z) => "T5" \in x.arm) /\ Quiet(x)
  BY <1>1, <1>4, <1>6, FollowsTrans DEF Regulatory, AwaitsT5, Follows
<1> HIDE DEF x
<1>8. CASE z.s.mode = "CALLORIG"
  <2>1. start(w) = _enter_redialing(e)
    BY SMTT(120), <1>8 DEF start, _enter_call_connect, z
  <2>2. Follows(z, e)
    BY ZenonT(120), <1>1, CallbackFacts DEF CallsBack, CallStates
  <2> HIDE DEF e
  <2>3. e \in Work /\ e.s.idx = z.s.idx /\ ~e.over /\ InTable(e.s) /\ e.s.mode \in Modes
        /\ Quiet(e)
    BY <1>1, <1>8, <2>2, InTableKept DEF Follows, Modes
  <2> QED BY <1>1, <2>1, <2>3, RedialingFacts DEF Good, Timed, WaitsOf, Armed, WaitTimers, Redial
<1>9. CASE z.s.mode # "CALLORIG"
  <2>1. start(w) = _enter_decode_send_msd(x)
    BY <1>9 DEF start, _enter_call_connect, x, t5, u, z
  <2>2. /\ Follows(x, start(w))
        /\ Settled(start(w)) \/ (start(w).s.state = "DecodeSendMSD" /\ AwaitsT5(x))
    BY <1>7, <2>1, DecodeSendFacts
  <2>3. start(w) \in Work /\ start(w).s.idx = w.s.idx /\ ~start(w).over /\ x.arm \subseteq start(w).arm
        /\ Quiet(start(w)) /\ start(w).s.msd = x.s.msd
    BY <1>1, <1>7, <2>2 DEF Follows
  <2>6. InTable(start(w).s)
    BY <1>1, <1>7, <2>2, InTableKept
  <2>4. CASE Settled(start(w))
    BY <2>3, <2>4, <2>6, SettledGood
  <2>5. CASE start(w).s.state = "DecodeSendMSD" /\ AwaitsT5(x)
    <3>1. "T5" \in start(w).arm
      BY SMTT(120), <1>7, <2>3, <2>5 DEF AwaitsT5, Follows
    <3>2. "T5" \in start(w).s.failed
      BY <1>7, <2>2, <2>5 DEF AwaitsT5, Follows
    <3>3. start(w).s.msd
      BY <2>3, <2>5 DEF AwaitsT5
    <3> QED BY <2>3, <2>5, <2>6, <3>1, <3>2, <3>3 DEF Good, Timed, WaitsOf, Armed, WaitTimers, Redial
  <2> QED BY ZenonT(120), <2>2, <2>4, <2>5
<1> QED BY <1>8, <1>9

\* What w waits for and v still waits for, or has scheduled.
Waiting(w, v) == \A t \in WaitTimers : WaitsOf(v.s, t) => t \in Armed(v) \/ WaitsOf(w.s, t)

\* A hangup always ends in PSAPCallback, with the call announced as ENDED.
LEMMA HangupFacts ==
    ASSUME NEW w, Good(w), ~w.over
    PROVE  LET v == hangup(w) IN
           /\ Good(v) /\ v.s.idx = w.s.idx /\ ~v.over /\ Waiting(w, v)
           /\ v.s.state = "PSAPCallback" /\ v.call = "ENDED"
<1> DEFINE e == change_call_state(w, "ENDED")
           x == Regulatory(e, send_event(e, "T2", "stop"))
<1>1. Follows(w, e) /\ e \in Work /\ e.call = "ENDED"
  BY CallbackFacts, Zenon DEF Good, CallsBack, Follows, CallStates
<1>2. Follows(w, x) /\ x \in Work /\ x.call = "ENDED"
  <2> DEFINE y == send_event(e, "T2", "stop")
  <2> HIDE DEF e
  <2>1. CallsBack(e, y) /\ y.call = e.call
    BY <1>1, CallbackFacts DEF Timers
  <2>2. x \in {e, y}
    BY DEF Regulatory
  <2> HIDE DEF x, y
  <2>3. Follows(w, x) /\ x.call = "ENDED"
    BY <1>1, <2>1, <2>2, FollowsTrans DEF CallsBack
  <2> QED BY <2>3 DEF Follows
<1>3. w.s.state \in SessionStates \ {"Terminal"} /\ w \in Work
  BY DEF Good, Work, Sess
<1>4. hangup(w) \in {_transition_to_psap_callback(x), _transition_to_psap_callback(e), w}
  BY DEF hangup
<1>5. hangup(w) = w => w.s.state = "PSAPCallback" /\ w.call = "ENDED"
  <2>1. _transition_to_psap_callback(x).s.state = "PSAPCallback"
        /\ _transition_to_psap_callback(e).s.state = "PSAPCallback"
    BY <1>1, <1>2, PsapFacts
  <2>2. CASE w.s.state = "PSAPCallback"
    BY <2>2 DEF Good
  <2>3. CASE w.s.state # "PSAPCallback"
    BY <1>3, <2>1, <2>3 DEF hangup, SessionStates
  <2> QED BY <2>2, <2>3
<1> HIDE DEF e, x
<1>6. LET v == hangup(w) IN Follows(w, v) /\ v.s.state = "PSAPCallback" /\ v.call = "ENDED"
  <2>1. Follows(w, w)
    BY <1>3 DEF Follows
  <2> QED BY <1>1, <1>2, <1>3, <1>4, <1>5, <2>1, PsapFacts, FollowsTrans
<1>7. InTable(hangup(w).s)
  BY <1>6, InTableKept DEF Good
<1> QED BY SMTT(120), <1>6, <1>7 DEF Good, Waiting, WaitsOf, Follows

LEMMA PullFacts ==
    ASSUME NEW w, Good(w), ~w.over
    PROVE  LET v == msd_pull_request(w) IN
           Good(v) /\ v.s.idx = w.s.idx /\ ~v.over /\ Waiting(w, v)
<1> DEFINE p == [w EXCEPT !.s.pull = TRUE]
<1>1. /\ p \in Work /\ p.s.idx = w.s.idx /\ p.s.state = w.s.state /\ p.s.pull
      /\ p.s.attempt = w.s.attempt /\ p.s.custom = w.s.custom /\ p.s.ng = w.s.ng
      /\ p.s.failed = w.s.failed /\ p.call = w.call /\ p.over = w.over
      /\ p.s.gaps = w.s.gaps /\ p.s.mode = w.s.mode
      /\ p.s.msd = w.s.msd /\ p.msd = w.msd
  BY Zenon DEF Good, Work, Sess
<1>t. InTable(p.s) /\ Quiet(p)
  <2> HIDE DEF p
  <2> QED BY <1>1 DEF Good, InTable, Quiet, PulledWithoutMsd
<1> HIDE DEF p
<1>2. CASE w.s.state # "CallConversation"
  <2>1. msd_pull_request(w) = p
    BY <1>2 DEF msd_pull_request, p
  <2> QED BY <1>1, <1>2, <1>t, <2>1 DEF Good, Waiting, WaitsOf
<1>3. CASE w.s.state = "CallConversation" /\ w.s.ng
  <2> DEFINE m == msd_transmission_status(p, "SUCCESS")
  <2>1. msd_pull_request(w) = m
    BY <1>3 DEF msd_pull_request, p
  <2>2. CallsBack(p, m) /\ m.msd = "SUCCESS"
    BY <1>1, CallbackFacts DEF Outcomes, Speaks
  <2> HIDE DEF m
  <2>3. m \in Work /\ m.s.idx = w.s.idx /\ m.s.state = "CallConversation" /\ ~m.over
        /\ m.s.ng /\ Quiet(m)
    BY <1>1, <1>3, <1>t, <2>2 DEF CallsBack, Follows
  <2>4. InTable(m.s)
    BY <1>t, <2>2, InTableKept DEF CallsBack
  <2> QED BY <2>1, <2>2, <2>3, <2>4 DEF Good, Waiting, WaitsOf, Resolved, PulledWithoutMsd
<1>4. CASE w.s.state = "CallConversation" /\ ~w.s.ng
  <2> DEFINE d == _enter_decode_send_msd(p)
  <2>1. msd_pull_request(w) = d
    BY <1>4 DEF msd_pull_request, p
  <2>2. Follows(p, d) /\ Settled(d)
    BY <1>1, <1>t, DecodeSendFacts DEF AwaitsT5
  <2> HIDE DEF d
  <2>3. d \in Work /\ d.s.idx = w.s.idx /\ ~d.over
    BY <1>1, <2>2 DEF Follows
  <2>4. Good(d) /\ Timed(d)
    BY <1>t, <2>2, <2>3, SettledGood, InTableKept
  <2> QED BY <2>1, <2>3, <2>4 DEF Timed, Waiting
<1> QED BY <1>2, <1>3, <1>4

LEMMA DeregistrationFacts ==
    ASSUME NEW w, Good(w), ~w.over
    PROVE  LET v == network_deregistration_request(w) IN
           Good(v) /\ v.s.idx = w.s.idx /\ ~v.over /\ Waiting(w, v)
<1> DEFINE u == send_event(w, "T10", "stop")
<1>1. CallsBack(w, u) /\ u.call = w.call /\ u.msd = w.msd
  BY CallbackFacts DEF Good, Timers
<1>2. network_deregistration_request(w) \in {u, w}
  BY SMTT(120) DEF network_deregistration_request, Regulatory
<1> HIDE DEF u
<1>3. InTable(u.s)
  BY <1>1, InTableKept DEF CallsBack, Good
<1>4. Good(u)
  BY <1>1, <1>3 DEF Good, CallsBack, Follows, Resolved, PulledWithoutMsd
<1> QED BY <1>1, <1>2, <1>4 DEF CallsBack, Follows, Waiting, WaitsOf

\* The timer that expired is not waited for any longer, unless anew.
WaitingPast(t, w, v) ==
    \A x \in WaitTimers : WaitsOf(v.s, x) => x \in Armed(v) \/ (x # t /\ WaitsOf(w.s, x))

LEMMA ExpiryFacts ==
    ASSUME NEW w, Good(w), ~w.over, NEW t \in Timers
    PROVE  LET v == on_hlap_timer_expiry(w, t) IN
           Good(v) /\ v.s.idx = w.s.idx /\ WaitingPast(t, w, v)
<1> DEFINE r == on_hlap_timer_expiry(w, t)
           v == expiry_timer(w, t)
           hung == change_call_state(v, "ENDED")
           f == msd_transmission_status(v, "FAILURE")
           c == _enter_call_conversation(f)
           over == [_transition_to(v, "Terminal") EXCEPT !.over = TRUE]
           t10 == start_timer(v, "T10")
           back == _transition_to_psap_callback(hung)
           again == _enter_redialing(hung)
<1>1. w \in Work /\ CallsBack(w, v) /\ v.call = w.call /\ v \in Work
  BY ZenonT(120), CallbackFacts DEF Good, CallsBack, Follows
<1>2. CallsBack(v, hung) /\ hung.call = "ENDED" /\ hung \in Work
  BY ZenonT(120), <1>1, CallbackFacts DEF CallsBack, Follows, CallStates
<1>3. CallsBack(v, f) /\ f \in Work /\ f.msd = "FAILURE"
  BY <1>1, CallbackFacts DEF Outcomes, Speaks
<1>4. w.s.msd => Follows(f, c) /\ Settled(c) /\ c.s.state = "CallConversation"
  <2>1. w.s.msd => Resolved(f)
    <3> HIDE DEF v, f
    <3> QED BY <1>1, <1>3 DEF CallsBack, Follows, Resolved, PulledWithoutMsd
  <2> HIDE DEF f
  <2> QED BY <1>3, <2>1, ConversationFacts, TransitionFacts
          DEF _enter_call_conversation, SessionStates
<1>5. CallsBack(v, t10) /\ t10.call = v.call
  BY <1>1, CallbackFacts DEF Timers
<1>6. over \in Work /\ over.s.idx = v.s.idx /\ over.s.state = "Terminal" /\ over.over
      /\ over.call = v.call /\ over.s.attempt = v.s.attempt /\ over.s.gaps = v.s.gaps
      /\ over.s.mode = v.s.mode
  BY ZenonT(120), <1>1 DEF _transition_to, Work, Sess, SessionStates
<1>q. Quiet(v) => Quiet(over)
  <2>1. /\ over.s.msd = v.s.msd /\ over.s.ng = v.s.ng /\ over.s.custom = v.s.custom
        /\ over.s.pull = v.s.pull /\ over.msd = v.msd
    BY ZenonT(120), <1>1 DEF _transition_to, Work, Sess, SessionStates
  <2> HIDE DEF v, over
  <2> QED BY <2>1 DEF Quiet, PulledWithoutMsd
<1>t. InTable(v.s) /\ InTable(hung.s) /\ Quiet(v) /\ Quiet(hung)
  <2> HIDE DEF v, hung
  <2> QED BY <1>1, <1>2, InTableKept DEF CallsBack, Good, Follows
<1>7. Follows(hung, back) /\ back.call = "ENDED" /\ back.s.state = "PSAPCallback"
  BY <1>2, PsapFacts
<1>8. w.s.mode = "CALLDROP" =>
          /\ again \in Work /\ again.s.idx = hung.s.idx /\ again.over = hung.over
          /\ again.s.state = "Redialing" /\ again.s.attempt = 1 /\ again.dial
          /\ InTable(again.s) /\ Quiet(again)
  <2>1. hung.s.mode = w.s.mode
    BY <1>1, <1>2 DEF CallsBack, Follows
  <2> HIDE DEF hung
  <2> QED BY <1>2, <1>t, <2>1, RedialingFacts DEF Modes
<1>a. MsdFails(w, t) = c
  BY DEF MsdFails
<1> DEFINE at(state, timer) == w.s.state = state /\ t = timer
           msd == \/ at("DecodeSendMSD", "T5") /\ "T5" \in w.s.failed
                  \/ at("CRCCheckonMSD", "T7")
                  \/ at("DecodeMSD", "T6") /\ ~w.s.custom /\ ~w.s.ng
           t2 == at("CallConversation", "T2") /\ ~w.s.custom
           t9 == at("PSAPCallback", "T9") /\ ~w.s.custom
<1>b. r = IF msd THEN c
          ELSE IF t2 THEN IF w.s.mode = "CALLDROP" THEN again ELSE back
          ELSE IF t9 THEN IF w.ecallOnly THEN t10 ELSE over
          ELSE IF at("PSAPCallback", "T10") THEN v ELSE w
  BY <1>a DEF on_hlap_timer_expiry
<1> HIDE DEF r, v, hung, f, c, over, t10, back, again
<1>c. CASE r = c /\ msd
  <2>0. w.s.msd
    BY <1>c DEF Good
  <2>1. c \in Work /\ c.s.idx = w.s.idx /\ ~c.over /\ Quiet(c)
    BY <1>1, <1>3, <1>4, <1>t, <2>0 DEF CallsBack, Follows
  <2>2. InTable(c.s)
    BY <1>3, <1>4, <1>t, <2>0, InTableKept DEF CallsBack
  <2> QED BY <1>4, <1>c, <2>0, <2>1, <2>2 DEF Good, WaitingPast, WaitsOf, r, Settled
<1>d. CASE r = back \/ (r = again /\ w.s.mode = "CALLDROP")
  <2>1. hung.s.idx = w.s.idx /\ ~hung.over
    BY SMTT(120), <1>1, <1>2 DEF CallsBack, Follows
  <2>2. back \in Work /\ back.s.idx = hung.s.idx /\ ~back.over /\ InTable(back.s) /\ Quiet(back)
    BY <1>7, <1>t, <2>1, InTableKept, Zenon DEF Follows
  <2> QED BY <1>7, <1>8, <1>d, <2>1, <2>2
          DEF Good, WaitingPast, WaitsOf, r, Armed, WaitTimers, Redial
<1>e. CASE r \in {t10, over, v} /\ w.s.state = "PSAPCallback"
  <2>1. InTable(t10.s) /\ InTable(over.s) /\ Quiet(t10) /\ Quiet(over)
    BY <1>5, <1>6, <1>q, <1>t, InTableKept DEF CallsBack, Follows, InTable
  <2> QED BY <1>1, <1>5, <1>6, <1>e, <1>t, <2>1
          DEF Good, CallsBack, Follows, WaitingPast, WaitsOf, r
<1>f. CASE r = w /\ ~msd
  BY <1>f DEF Good, WaitingPast, WaitsOf, r, Timers, Redial
<1> QED BY SMTT(120), <1>b, <1>c, <1>d, <1>e, <1>f

LEMMA RedialFacts ==
    ASSUME NEW w, Good(w), ~w.over
    PROVE  LET v == on_redial_timer_expiry(w) IN
           Good(v) /\ v.s.idx = w.s.idx /\ WaitingPast(Redial, w, v)
<1> DEFINE r == on_redial_timer_expiry(w)
           active == change_call_state(w, "ACTIVE")
           e == change_call_state(w, "ENDED")
           d == _enter_decode_send_msd(active)
           again == [e EXCEPT !.s.attempt = @ + 1, !.dial = TRUE]
           back == _transition_to_psap_callback(e)
<1>1. w \in Work /\ CallsBack(w, active) /\ CallsBack(w, e) /\ e.call = "ENDED"
      /\ active \in Work /\ e \in Work
  BY ZenonT(120), CallbackFacts DEF Good, CallsBack, Follows, CallStates
<1>t. InTable(active.s) /\ InTable(e.s) /\ Quiet(active) /\ Quiet(e)
  <2> HIDE DEF active, e
  <2> QED BY <1>1, InTableKept DEF CallsBack, Good, Follows
<1>2. Follows(active, d) /\ (Settled(d) \/ (d.s.state = "DecodeSendMSD" /\ AwaitsT5(active)))
  BY <1>1, <1>t, DecodeSendFacts
<1>3. Follows(e, back) /\ back.call = "ENDED" /\ back.s.state = "PSAPCallback"
  BY <1>1, PsapFacts
<1>4. again \in Work /\ again.s.idx = e.s.idx /\ again.over = e.over /\ again.dial
      /\ again.s.state = e.s.state /\ again.s.attempt = e.s.attempt + 1
      /\ again.s.gaps = e.s.gaps /\ again.s.mode = e.s.mode
      /\ again.s.msd = e.s.msd /\ again.s.ng = e.s.ng /\ again.s.custom = e.s.custom
      /\ again.s.pull = e.s.pull /\ again.msd = e.msd
  <2> HIDE DEF e
  <2>1. e.s \in Sess /\ e.s.attempt + 1 \in Nat
    BY <1>1 DEF Work, Sess
  <2>2. [e.s EXCEPT !.attempt = @ + 1] \in Sess
    BY <2>1 DEF Sess
  <2>3. again = [e EXCEPT !.s = [e.s EXCEPT !.attempt = @ + 1], !.dial = TRUE]
    BY <1>1 DEF Work
  <2> QED BY <1>1, <2>1, <2>2, <2>3, Zenon DEF Work, Sess
<1>5. \/ r = w /\ w.s.state # "Redialing"
      \/ w.s.state = "Redialing" /\ r \in {d, back}
      \/ w.s.state = "Redialing" /\ r = again /\ w.s.attempt < w.s.gaps
  BY DEF on_redial_timer_expiry
<1> HIDE DEF r, active, e, d, again, back
<1>6. CASE r = w /\ w.s.state # "Redialing"
  BY <1>6 DEF Good, WaitingPast, WaitsOf, r, Redial
<1>7. CASE w.s.state = "Redialing" /\ r = d
  <2>1. d \in Work /\ d.s.idx = w.s.idx /\ ~d.over /\ d.s.attempt >= 1
        /\ Quiet(d)
    BY <1>1, <1>2, <1>7, <1>t DEF CallsBack, Follows, Good
  <2>4. InTable(d.s)
    BY <1>2, <1>t, InTableKept
  <2>2. CASE Settled(d)
    <3>1. Good(d) /\ Timed(d)
      BY <2>1, <2>2, <2>4, SettledGood
    <3> QED BY <1>7, <2>1, <3>1 DEF Timed, WaitingPast, r
  <2>3. CASE d.s.state = "DecodeSendMSD" /\ AwaitsT5(active)
    <3>1. "T5" \in d.s.failed /\ d.s.msd
      BY SMTT(120), <1>2, <2>3 DEF AwaitsT5, Follows
    <3> QED BY <1>7, <2>1, <2>3, <2>4, <3>1 DEF Good, WaitingPast, WaitsOf, r, Redial
  <2> QED BY SMTT(120), <1>2, <2>2, <2>3
<1>8. CASE w.s.state = "Redialing" /\ r = again /\ w.s.attempt < w.s.gaps
  <2>1. e.s.state = "Redialing" /\ e.s.attempt >= 1 /\ e.s.attempt \in Nat /\ ~e.over
        /\ e.s.idx = w.s.idx
    BY <1>1, <1>8 DEF CallsBack, Follows, Good, Work, Sess
  <2>2. InTable(again.s)
    <3>1. e.s.attempt < e.s.gaps /\ e.s.gaps \in Nat
      BY <1>1, <1>8 DEF CallsBack, Follows, Work, Sess
    <3> QED BY <1>4, <1>t, <2>1, <3>1 DEF InTable
  <2>3. Quiet(again)
    BY <1>4, <1>t DEF Quiet, PulledWithoutMsd
  <2> QED BY <1>4, <1>8, <2>1, <2>2, <2>3 DEF Good, WaitingPast, WaitsOf, Armed, r, Redial, WaitTimers
<1>9. CASE r = back
  <2>1. e.s.idx = w.s.idx /\ ~e.over
    BY <1>1 DEF CallsBack, Follows
  <2>2. back \in Work /\ back.s.idx = e.s.idx /\ back.over = e.over /\ InTable(back.s)
        /\ Quiet(back)
    BY <1>3, <1>t, InTableKept DEF Follows
  <2> QED BY <1>3, <1>9, <2>1, <2>2 DEF Good, WaitingPast, WaitsOf, r
<1> QED BY SMTT(120), <1>5, <1>6, <1>7, <1>8, <1>9

---------------------------------------------------------------------------
(* Queues of events *)

\* Taking the head of a queue, position by position.
LEMMA TailFacts ==
    ASSUME NEW S, NEW s \in Seq(S), s # <<>>
    PROVE  /\ Head(s) \in S /\ Tail(s) \in Seq(S)
           /\ Len(s) > 1 => Tail(s) # <<>>
           /\ Len(s) <= 1 => Tail(s) = <<>>
           /\ \A e \in Range(s) : e = Head(s) \/ e \in Range(Tail(s))
<1>1. /\ Head(s) \in S /\ Tail(s) \in Seq(S)
      /\ Len(Tail(s)) = Len(s) - 1 /\ Len(s) \in Nat /\ Len(s) > 0
      /\ Head(s) = s[1]
  OBVIOUS
<1>2. \A i \in DOMAIN s : i = 1 \/ (i - 1 \in DOMAIN Tail(s) /\ Tail(s)[i - 1] = s[i])
  OBVIOUS
<1>3. Len(s) <= 1 => Tail(s) = <<>>
  BY <1>1
<1>4. Len(s) > 1 => Tail(s) # <<>>
  BY <1>1
<1> QED BY <1>1, <1>2, <1>3, <1>4, Zenon DEF Range

\* Appending to a queue.
LEMMA AppendFacts ==
    ASSUME NEW S, NEW s \in Seq(S), NEW e \in S
    PROVE  /\ Append(s, e) \in Seq(S) /\ Append(s, e) # <<>>
           /\ Head(Append(s, e)) = IF s = <<>> THEN e ELSE Head(s)
           /\ e \in Range(Append(s, e)) /\ Range(s) \subseteq Range(Append(s, e))
<1>1. /\ Append(s, e) \in Seq(S) /\ Len(s) \in Nat
      /\ DOMAIN Append(s, e) = 1..(Len(s) + 1) /\ DOMAIN s = 1..Len(s)
      /\ Append(s, e)[Len(s) + 1] = e
      /\ \A i \in 1..Len(s) : Append(s, e)[i] = s[i]
  OBVIOUS
<1>2. Append(s, e) # <<>> /\ Head(Append(s, e)) = Append(s, e)[1]
  BY <1>1
<1>3. s = <<>> => Len(s) = 0
  OBVIOUS
<1>4. s # <<>> => Len(s) > 0 /\ Head(s) = s[1]
  OBVIOUS
<1>5. Head(Append(s, e)) = IF s = <<>> THEN e ELSE Head(s)
  BY <1>1, <1>2, <1>3, <1>4
<1>6. e \in Range(Append(s, e)) /\ Range(s) \subseteq Range(Append(s, e))
  BY <1>1 DEF Range
<1> QED BY <1>1, <1>2, <1>5, <1>6

---------------------------------------------------------------------------
(* The inductive invariant *)

Event ==
    [k : {"Start"}, kind : Kinds] \cup [k : {"End"}, idx : Nat \ {0}]
    \cup [k : {"SendMsd", "Deregister", "SessionStart", "SessionMsdPull", "PsapHangup",
               "Stop", "Redial"}]
    \cup [k : {"Control"}, c : Controls] \cup [k : {"Expiry"}, t : Timers]
Config == [overridden : BOOLEAN, ecallOnly : BOOLEAN, failed : SUBSET Timers,
           mode : Modes \cup {"SUCCESS"}, succeedAt : Nat, gaps : [Modes -> Nat \ {0}]]

\* The session between events: what Good says of it, and that it is one of the
\* calls made.
Sane ==
    /\ session \in Sess /\ session.idx \in 1..calls /\ session.state # "Terminal"
    /\ session.state = "PSAPCallback" => said[session.idx] = "ENDED"
    /\ session.state = "Redialing" => session.attempt >= 1
    /\ session.state = "DecodeMSD" => ~session.ng
    /\ session.state = "DecodeSendMSD" => "T5" \in session.failed
    /\ session.state \in {"DecodeSendMSD", "CRCCheckonMSD", "DecodeMSD"} => session.msd
    /\ session.outcome = "STARTED" /\ ~session.msd => PulledWithoutMsd(session)
    /\ MsdIsResolved /\ InTable(session)

\* The call slot: what was said of every call agrees with the one session.
Slot ==
    /\ ready \in BOOLEAN /\ calls \in 0..MaxCalls
    /\ status \in SUBSET Timers /\ armed \in SUBSET (Timers \cup {Redial})
    /\ said \in [1..MaxCalls -> CallStates]
    /\ session = NoSession \/ Sane
    /\ ready => \A i \in 1..MaxCalls : Live(i) => session.idx = i
    /\ \A i \in 1..MaxCalls : i > calls => said[i] = "none"

Queue ==
    /\ fifo \in Seq(Event) /\ config \in Config
    /\ loose \in [Timers \cup {Redial} -> Nat]

Ended == ended \in SUBSET (1..calls) /\ EndIsFinal

Inv == Slot /\ Queue /\ Ended

LEMMA EventFields ==
    ASSUME NEW e \in Event
    PROVE  /\ e.k = "Start" => e.kind \in Kinds
           /\ e.k = "End" => e.idx \in Nat \ {0}
           /\ e.k = "Control" => e.c \in Controls
           /\ e.k = "Expiry" => e.t \in Timers /\ e = [k |-> "Expiry", t |-> e.t]
           /\ e.k = "Redial" => e = [k |-> "Redial"]
BY DEF Event

LEMMA NoSessionFacts ==
    NoSession.state = "none" /\ NoSession.idx = 0 /\ NoSession \notin Sess
BY DEF NoSession, Sess, SessionStates

LEMMA InitInv == Init => Inv
<1> SUFFICES ASSUME Init PROVE Inv
  OBVIOUS
<1>1. Slot
  <2>1. said \in [1..MaxCalls -> CallStates] /\ \A i \in 1..MaxCalls : said[i] = "none"
    BY DEF Init, CallStates
  <2>2. 0 \in 0..MaxCalls
    BY BoundsAssumption
  <2> QED BY <2>1, <2>2 DEF Init, Slot, Live
<1>2. Queue
  <2>1. Tables \in [Modes -> Nat \ {0}]
    BY BoundsAssumption DEF Modes, Bounds
  <2>2. config \in Config
    BY <2>1 DEF Init, Config
  <2> QED BY <2>2 DEF Init, Queue
<1>3. Ended
  BY DEF Init, Ended, EndIsFinal
<1> QED BY <1>1, <1>2, <1>3 DEF Inv

LEMMA SessionIndex == Slot /\ Sane => session.idx \in 1..MaxCalls
<1>1. Slot /\ Sane => session.idx \in 1..calls /\ calls \in 0..MaxCalls
  BY DEF Slot, Sane
<1> QED BY <1>1, BoundsAssumption

\* The record a procedure starts from.
LEMMA BeforeFacts ==
    ASSUME Slot, Queue, session # NoSession
    PROVE  Good(Before) /\ ~Before.over /\ Before.s = session
<1>1. Sane
  BY DEF Slot
<1>2. said[session.idx] \in CallStates
  BY <1>1, SessionIndex, Zenon DEF Slot
<1>3. Before \in Work /\ Before.s = session /\ ~Before.over /\ Before.call = said[session.idx]
      /\ Before.msd = session.outcome
  BY <1>1, <1>2 DEF Before, Work, Slot, Queue, Config, Sane, Sess
<1> HIDE DEF Before
<1> QED BY <1>1, <1>3 DEF Good, Sane, Quiet, Resolved, MsdIsResolved

\* The slot after a procedure that ends with w.
LEMMA AfterFacts ==
    ASSUME Slot, Sane, NEW w, Good(w), w.s.idx = session.idx,
           NEW kept \in SUBSET (Timers \cup {Redial}), NEW release \in BOOLEAN,
           After(w, kept, release), UNCHANGED <<ready, calls>>
    PROVE  /\ Slot'
           /\ session'.idx \in {0, session.idx}
           /\ \A i \in 1..MaxCalls : i # session.idx => said'[i] = said[i]
           /\ said'[session.idx] = w.call
           /\ release /\ w.s.state = "PSAPCallback" => session' = NoSession
           /\ \A t \in WaitTimers : WaitsOf(session', t) =>
                  WaitsOf(w.s, t) /\ kept \cup Armed(w) \subseteq armed'
<1>1. session.idx \in 1..MaxCalls /\ w.call \in CallStates /\ w.s \in Sess /\ w.msd \in Outcomes
      /\ w.on \in SUBSET Timers /\ w.arm \in SUBSET Timers
  BY SessionIndex DEF Good, Work
<1>2. /\ said' \in [1..MaxCalls -> CallStates] /\ said'[session.idx] = w.call
      /\ \A i \in 1..MaxCalls : i # session.idx => said'[i] = said[i]
  BY <1>1 DEF After, Slot
<1>3. \A i \in 1..MaxCalls : i > calls' => said'[i] = "none"
  BY <1>2 DEF Slot, Sane
<1>4. CASE w.over \/ (release /\ w.s.state = "PSAPCallback")
  <2>1. session' = NoSession /\ status' = {} /\ armed' = {}
    BY <1>4 DEF After, _clear_call_slot
  <2>2. w.call = "ENDED"
    BY <1>4 DEF Good
  <2>3. ready' => \A i \in 1..MaxCalls : Live(i)' => session'.idx = i
    BY <1>2, <2>2 DEF Slot, Live
  <2> QED BY <1>2, <1>3, <2>1, <2>3, NoSessionFacts DEF Slot, WaitsOf
<1>5. CASE ~(w.over \/ (release /\ w.s.state = "PSAPCallback"))
  <2>1. session' = [w.s EXCEPT !.outcome = w.msd] /\ status' = w.on
        /\ armed' = kept \cup Armed(w)
    BY <1>5 DEF After, Armed
  <2>2. /\ session' \in Sess /\ session'.idx = session.idx /\ session'.state = w.s.state
        /\ session'.attempt = w.s.attempt /\ session'.ng = w.s.ng
        /\ session'.failed = w.s.failed /\ session'.custom = w.s.custom
        /\ session'.mode = w.s.mode /\ session'.gaps = w.s.gaps
        /\ session'.msd = w.s.msd /\ session'.outcome = w.msd /\ session'.pull = w.s.pull
    BY <1>1, <2>1 DEF Sess
  <2>8. /\ InTable(session') /\ MsdIsResolved'
        /\ session'.outcome = "STARTED" /\ ~session'.msd => PulledWithoutMsd(session')
    BY <2>2 DEF Good, InTable, Quiet, Resolved, MsdIsResolved, PulledWithoutMsd
  <2>3. armed' \in SUBSET (Timers \cup {Redial})
    BY <1>1, <2>1 DEF Armed
  <2>4. Sane'
    BY <1>2, <1>5, <2>2, <2>8 DEF Sane, Good
  <2>5. ready' => \A i \in 1..MaxCalls : Live(i)' => session'.idx = i
    BY <1>2, <2>2 DEF Slot, Live
  <2>6. Slot'
    BY <1>1, <1>2, <1>3, <2>1, <2>3, <2>4, <2>5 DEF Slot
  <2>7. \A t \in WaitTimers : WaitsOf(session', t) => WaitsOf(w.s, t)
    BY <2>2 DEF WaitsOf
  <2> QED BY <1>2, <1>5, <2>1, <2>2, <2>6, <2>7
<1> QED BY <1>4, <1>5

LEMMA TailQueue ==
    ASSUME Queue, fifo # <<>>, fifo' = Tail(fifo), config' = config,
           loose' \in [Timers \cup {Redial} -> Nat]
    PROVE  Queue' /\ Head(fifo) \in Event
BY TailFacts DEF Queue

LEMMA AppendQueue ==
    ASSUME Queue, NEW e \in Event, fifo' = Append(fifo, e), config' = config,
           loose' \in [Timers \cup {Redial} -> Nat]
    PROVE  Queue'
BY AppendFacts DEF Queue

\* A procedure of a session that keeps its slot or gives it up leaves the calls
\* already ended alone.
LEMMA SessionInv ==
    ASSUME Inv, session # NoSession, NEW w, Good(w), w.s.idx = session.idx,
           NEW kept \in SUBSET (Timers \cup {Redial}), After(w, kept, FALSE),
           fifo # <<>>, fifo' = Tail(fifo), UNCHANGED <<ready, config, calls, ended>>,
           loose' \in [Timers \cup {Redial} -> Nat]
    PROVE  Inv'
<1>1. Sane /\ Slot /\ Queue /\ Ended
  BY DEF Inv, Slot
<1>2. /\ Slot' /\ session'.idx \in {0, session.idx}
      /\ \A i \in 1..MaxCalls : i # session.idx => said'[i] = said[i]
  BY <1>1, AfterFacts, Zenon
<1>3. ended \subseteq 1..MaxCalls
  BY <1>1, BoundsAssumption DEF Ended, Slot
<1>4. Ended'
  BY <1>1, <1>2, <1>3 DEF Ended, EndIsFinal
<1>5. Queue'
  BY <1>1, TailQueue
<1> QED BY <1>2, <1>4, <1>5 DEF Inv

\* A step that leaves the slot alone.
LEMMA SameSlot ==
    ASSUME Inv, NoCall, UNCHANGED <<ready, calls, ended>>, Queue'
    PROVE  Inv'
<1>1. Slot'
  BY DEF Inv, Slot, NoCall, Live, Sane, MsdIsResolved
<1>2. Ended'
  BY DEF Inv, Ended, EndIsFinal, NoCall
<1> QED BY <1>1, <1>2 DEF Inv

\* The same where timers run out or are cancelled.
LEMMA SameSession ==
    ASSUME Inv, UNCHANGED <<session, status, said, ready, calls, ended>>,
           armed' \in SUBSET (Timers \cup {Redial}), Queue'
    PROVE  Inv'
<1>1. Slot'
  BY DEF Inv, Slot, Live, Sane, MsdIsResolved
<1>2. Ended'
  BY DEF Inv, Ended, EndIsFinal
<1> QED BY <1>1, <1>2 DEF Inv

LEMMA SessionEvents ==
    ASSUME Inv, \/ _run_session_start \/ _run_session_hangup \/ _run_session_msd_pull
                \/ _handle_request_network_deregistration
    PROVE  Inv'
<1>1. Slot /\ Queue /\ armed \in SUBSET (Timers \cup {Redial})
      /\ loose \in [Timers \cup {Redial} -> Nat]
  BY DEF Inv, Slot, Queue
<1>2. fifo # <<>> /\ fifo' = Tail(fifo) /\ UNCHANGED <<ready, loose, config, calls, ended>>
  BY Zenon DEF _run_session_start, _run_session_hangup, _run_session_msd_pull,
         _handle_request_network_deregistration, Session, Takes
<1>3. loose' \in [Timers \cup {Redial} -> Nat]
  BY <1>1, <1>2
<1>4. CASE NoCall
  BY <1>1, <1>2, <1>3, <1>4, TailQueue, SameSlot
<1>5. ASSUME ~NoCall
      PROVE  session # NoSession /\ \E w \in {start(Before), hangup(Before),
                 msd_pull_request(Before), network_deregistration_request(Before)} :
                 After(w, armed, FALSE)
  BY <1>5, Zenon DEF _run_session_start, _run_session_hangup, _run_session_msd_pull,
              _handle_request_network_deregistration, Session
<1>6. ASSUME session # NoSession,
             NEW w \in {start(Before), hangup(Before), msd_pull_request(Before),
                        network_deregistration_request(Before)}
      PROVE  Good(w) /\ w.s.idx = session.idx
  <2>1. Good(Before) /\ ~Before.over /\ Before.s = session /\ Before \in Work
    BY <1>1, <1>6, BeforeFacts, Zenon DEF Good
  <2> HIDE DEF Before
  <2>2. CASE w = start(Before)
    BY <2>1, <2>2, StartFacts, Zenon DEF Good
  <2>3. CASE w = hangup(Before)
    BY <2>1, <2>3, HangupFacts DEF Good
  <2>4. CASE w = msd_pull_request(Before)
    BY <2>1, <2>4, PullFacts DEF Good
  <2>5. CASE w = network_deregistration_request(Before)
    BY <2>1, <2>5, DeregistrationFacts DEF Good
  <2> QED BY <1>6, <2>2, <2>3, <2>4, <2>5
<1> QED BY <1>1, <1>2, <1>3, <1>4, <1>5, <1>6, SessionInv, Zenon

LEMMA ExpiryEvents ==
    ASSUME Inv, _run_hlap_timer_expiry \/ _run_redial_timer_expiry
    PROVE  Inv'
<1> DEFINE t == IF Head(fifo).k = "Expiry" THEN Head(fifo).t ELSE Redial
           w == IF Head(fifo).k = "Expiry" THEN on_hlap_timer_expiry(Before, t)
                                           ELSE on_redial_timer_expiry(Before)
<1>1. Slot /\ Queue /\ armed \in SUBSET (Timers \cup {Redial})
  BY Zenon DEF Inv, Slot
<1>2. fifo # <<>> /\ Head(fifo).k \in {"Expiry", "Redial"} /\ Expire(t, w)
  BY DEF _run_hlap_timer_expiry, _run_redial_timer_expiry, Takes
<1>3. Head(fifo) \in Event
  BY <1>1, <1>2, TailFacts DEF Queue
<1>4. t \in Timers \cup {Redial} /\ (Head(fifo).k = "Expiry" => t \in Timers)
  BY <1>3, EventFields
<1>5. ASSUME session # NoSession PROVE Good(w) /\ w.s.idx = session.idx
  <2>1. Good(Before) /\ ~Before.over /\ Before.s = session
    BY <1>1, <1>5, BeforeFacts
  <2> HIDE DEF Before
  <2>2. CASE Head(fifo).k = "Expiry"
    BY <1>4, <2>1, <2>2, ExpiryFacts
  <2>3. CASE Head(fifo).k # "Expiry"
    BY <2>1, <2>3, RedialFacts
  <2> QED BY <2>2, <2>3
<1> HIDE DEF w, t
<1>6. fifo' = Tail(fifo) /\ UNCHANGED <<ready, config, calls, ended>>
  BY <1>2 DEF Expire
<1>7. loose' \in [Timers \cup {Redial} -> Nat]
  BY <1>1, <1>2, <1>4 DEF Expire, Queue
<1>8. CASE session = NoSession
  <2>1. armed' \in SUBSET (Timers \cup {Redial}) /\ UNCHANGED <<session, status, said>>
    BY <1>1, <1>2, <1>8 DEF Expire
  <2> QED BY <1>1, <1>2, <1>6, <1>7, <2>1, TailQueue, SameSession
<1>9. CASE session # NoSession
  <2>1. After(w, armed \ {t}, FALSE)
    BY <1>2, <1>9, Zenon DEF Expire
  <2> QED BY <1>1, <1>2, <1>5, <1>6, <1>7, <1>9, <2>1, SessionInv, Zenon
<1> QED BY <1>8, <1>9

LEMMA NewSessionFacts ==
    ASSUME config \in Config, calls \in Nat, NEW kind \in Kinds
    PROVE  NewSession(kind) \in Sess /\ NewSession(kind).idx = calls + 1
           /\ NewSession(kind).state = "CallConnect" /\ InTable(NewSession(kind))
           /\ NewSession(kind).outcome = "none"
<1>1. kind[2] \in BOOLEAN /\ NgDevice \in BOOLEAN
  BY BoundsAssumption
<1>2. (IF config.mode \in Modes THEN config.gaps[config.mode] ELSE 0) \in Nat
  BY DEF Config
<1>3. config.failed \in SUBSET Timers /\ config.mode \in Modes \cup {"SUCCESS"}
      /\ config.succeedAt \in Nat /\ config.overridden \in BOOLEAN
  BY DEF Config
<1> DEFINE custom == kind[1] = "CUSTOM" \/ (kind[1] # "PRIVATE" /\ config.overridden)
           ng == kind[1] = "PRIVATE" \/ NgDevice
           gaps == IF config.mode \in Modes THEN config.gaps[config.mode] ELSE 0
<1>4. custom \in BOOLEAN /\ ng \in BOOLEAN
  BY <1>1, <1>3
<1>5. NewSession(kind) =
          [state |-> "CallConnect", idx |-> calls + 1, msd |-> kind[2], ng |-> ng,
           custom |-> custom, failed |-> config.failed, mode |-> config.mode,
           succeedAt |-> config.succeedAt, gaps |-> gaps, attempt |-> 0, pull |-> FALSE,
           outcome |-> "none"]
  BY DEF NewSession
<1> HIDE DEF custom, ng, gaps
<1>6. "CallConnect" \in SessionStates /\ "none" \in Outcomes /\ calls + 1 \in Nat
  BY DEF SessionStates, Outcomes
<1>7. gaps \in Nat
  BY <1>2 DEF gaps
<1>8. config.mode \in Modes => gaps >= 1
  BY DEF gaps, Config
<1>9. InTable(NewSession(kind))
  BY <1>5, <1>7, <1>8 DEF InTable
<1> QED BY <1>1, <1>3, <1>4, <1>5, <1>6, <1>7, <1>9 DEF Sess

\* A call starts only over a free slot, so that no other call is live.
LEMMA StartInv == Inv /\ _handle_start_ecall => Inv'
<1> SUFFICES ASSUME Inv, _handle_start_ecall PROVE Inv'
  OBVIOUS
<1>1. Slot /\ Queue /\ Ended /\ config \in Config /\ calls \in Nat /\ fifo # <<>>
  BY BoundsAssumption DEF Inv, Slot, Queue, _handle_start_ecall, Takes
<1>2. /\ UNCHANGED <<ready, loose, config, ended>> /\ Head(fifo).k = "Start"
      /\ loose' \in [Timers \cup {Redial} -> Nat]
  BY <1>1 DEF _handle_start_ecall, Takes, Queue
<1>3. Head(fifo) \in Event /\ Tail(fifo) \in Seq(Event)
  BY <1>1, TailFacts DEF Queue
<1>4. CASE ~(Free /\ calls < MaxCalls)
  <2>1. fifo' = Tail(fifo) /\ NoCall /\ calls' = calls
    BY <1>4 DEF _handle_start_ecall, NoCall
  <2> QED BY <1>1, <1>2, <2>1, TailQueue, SameSlot
<1>5. CASE Free /\ calls < MaxCalls
  <2>1. /\ session' = NewSession(Head(fifo).kind) /\ calls' = calls + 1
        /\ said' = [said EXCEPT ![calls + 1] = "DIALING"]
        /\ fifo' = Append(Tail(fifo), [k |-> "SessionStart"])
        /\ status' \in {{}, status} /\ armed' \in {{}, armed}
    BY <1>5 DEF _handle_start_ecall
  <2>2. /\ session' \in Sess /\ session'.idx = calls + 1 /\ session'.state = "CallConnect"
        /\ InTable(session') /\ session'.outcome = "none"
    BY <1>1, <1>2, <1>3, <2>1, EventFields, NewSessionFacts
  <2>3. calls + 1 \in 1..MaxCalls
    BY <1>1, <1>5, BoundsAssumption
  <2>4. /\ said' \in [1..MaxCalls -> CallStates] /\ said'[calls + 1] = "DIALING"
        /\ \A i \in 1..MaxCalls : i # calls + 1 => said'[i] = said[i]
    BY <1>1, <2>1, <2>3 DEF Slot, CallStates
  <2>5. ASSUME ready, NEW i \in 1..MaxCalls PROVE ~Live(i)
    <3>1. Live(i) => session.idx = i /\ i # 0
      BY <1>1, <2>5 DEF Slot
    <3>2. Live(i) => session # NoSession /\ Sane
      BY <1>1, <3>1, NoSessionFacts DEF Slot
    <3> QED BY <1>5, <3>1, <3>2 DEF Live, Free, Sane, Sess, SessionStates
  <2>6. ready' => \A i \in 1..MaxCalls : Live(i)' => session'.idx = i
    BY <1>2, <2>2, <2>4, <2>5 DEF Live
  <2>7. \A i \in 1..MaxCalls : i > calls' => said'[i] = "none"
    BY <1>1, <2>1, <2>4 DEF Slot
  <2>8. Sane'
    BY <1>1, <2>1, <2>2 DEF Sane, MsdIsResolved
  <2>9. Slot'
    <3>1. /\ ready' \in BOOLEAN
          /\ status' \in SUBSET Timers /\ armed' \in SUBSET (Timers \cup {Redial})
      BY <1>1, <1>2, <2>1 DEF Slot
    <3>2. calls' \in 0..MaxCalls
      BY <1>1, <2>1, <2>3
    <3> QED BY <2>4, <2>6, <2>7, <2>8, <3>1, <3>2, Zenon DEF Slot
  <2>10. Queue'
    <3>1. [k |-> "SessionStart"] \in Event
      BY DEF Event
    <3>2. fifo' \in Seq(Event)
      BY <1>3, <2>1, <3>1
    <3> QED BY <1>1, <1>2, <3>2 DEF Queue
  <2>11. Ended'
    <3>1. ended' \in SUBSET (1..calls) /\ calls' = calls + 1
      BY <1>1, <1>2, <2>1 DEF Ended
    <3>2. ended' \in SUBSET (1..calls') /\ \A i \in ended' : i # calls + 1
      BY <1>1, <3>1
    <3>3. \A i \in ended' : i \in 1..MaxCalls
      BY <1>1, <2>3, <3>1, BoundsAssumption
    <3> QED BY <1>1, <1>2, <2>2, <2>4, <3>2, <3>3 DEF Ended, EndIsFinal
  <2> QED BY <2>9, <2>10, <2>11 DEF Inv
<1> QED BY <1>4, <1>5

\* The call that is ended gives up its slot in the same step.
LEMMA EndInv == Inv /\ _handle_end_ecall => Inv'
<1> SUFFICES ASSUME Inv, _handle_end_ecall PROVE Inv'
  OBVIOUS
<1>1. Slot /\ Queue /\ Ended /\ armed \in SUBSET (Timers \cup {Redial})
  BY DEF Inv, Slot
<1>2. /\ fifo # <<>> /\ fifo' = Tail(fifo) /\ Head(fifo).k = "End"
      /\ UNCHANGED <<ready, loose, config, calls>>
      /\ loose' \in [Timers \cup {Redial} -> Nat]
  BY <1>1 DEF _handle_end_ecall, Takes, Queue
<1>3. Head(fifo).idx \in Nat \ {0} /\ Queue'
  BY <1>1, <1>2, TailQueue, EventFields
<1>4. CASE session.idx # Head(fifo).idx
  <2>1. NoCall /\ ended' = ended
    BY <1>4 DEF _handle_end_ecall
  <2> QED BY <1>2, <1>3, <2>1, SameSlot
<1>5. CASE session.idx = Head(fifo).idx
  <2> DEFINE v == hangup(Before)
  <2>1. session # NoSession /\ Sane
    BY <1>1, <1>3, <1>5, NoSessionFacts DEF Slot
  <2>2. Good(v) /\ v.s.idx = session.idx /\ v.s.state = "PSAPCallback" /\ v.call = "ENDED"
    <3>1. Good(Before) /\ ~Before.over /\ Before.s = session
      BY <1>1, <2>1, BeforeFacts
    <3> HIDE DEF Before
    <3> QED BY <3>1, HangupFacts
  <2>3. After(v, armed, TRUE) /\ ended' = ended \cup {session.idx}
    BY <1>5, Zenon DEF _handle_end_ecall
  <2> HIDE DEF v
  <2>4. /\ Slot' /\ session' = NoSession /\ said'[session.idx] = "ENDED"
        /\ \A i \in 1..MaxCalls : i # session.idx => said'[i] = said[i]
    BY <1>1, <1>2, <2>1, <2>2, <2>3, AfterFacts, Zenon
  <2>5. ended \subseteq 1..MaxCalls /\ session.idx \in 1..calls
    BY <1>1, <2>1, BoundsAssumption DEF Ended, Slot, Sane
  <2>6. Ended'
    <3>1. ended' \in SUBSET (1..calls')
      BY <1>1, <1>2, <2>3, <2>5, Zenon DEF Ended
    <3>2. session'.idx = 0
      BY <2>4, NoSessionFacts
    <3>3. ASSUME NEW i \in ended' PROVE said'[i] = "ENDED" /\ session'.idx # i
      BY <1>1, <2>3, <2>4, <2>5, <3>1, <3>2 DEF Ended, EndIsFinal
    <3> QED BY <3>1, <3>3 DEF Ended, EndIsFinal
  <2> QED BY <1>3, <2>4, <2>6 DEF Inv
<1> QED BY <1>4, <1>5

LEMMA SendMsdInv == Inv /\ _handle_send_msd => Inv'
<1> SUFFICES ASSUME Inv, _handle_send_msd PROVE Inv'
  OBVIOUS
<1>1. Queue /\ fifo # <<>> /\ NoCall /\ UNCHANGED <<ready, loose, config, calls, ended>>
  BY DEF Inv, _handle_send_msd, Takes
<1>2. Tail(fifo) \in Seq(Event) /\ [k |-> "SessionMsdPull"] \in Event
  BY <1>1, TailFacts DEF Queue, Event
<1>3. fifo' \in Seq(Event)
  BY <1>2 DEF _handle_send_msd
<1> QED BY <1>1, <1>3, SameSlot DEF Queue

LEMMA ConfigureInv == Inv /\ Configure => Inv'
<1> SUFFICES ASSUME Inv, Configure PROVE Inv'
  OBVIOUS
<1>1. Queue /\ fifo # <<>> /\ NoCall /\ fifo' = Tail(fifo) /\ Head(fifo).k = "Control"
      /\ UNCHANGED <<ready, loose, calls, ended>>
  BY DEF Inv, Configure, Takes
<1>2. fifo' \in Seq(Event) /\ Head(fifo) \in Event
  BY <1>1, TailFacts DEF Queue
<1> DEFINE c == Head(fifo).c
<1>3. /\ c[1] \in {"overridden", "ecallOnly"} => c[2] \in BOOLEAN
      /\ c[1] \in Modes => c[2] \in Nat
      /\ c[1] = "redial" => c[2] \in Modes \cup {"SUCCESS"} /\ c[3] \in Nat
  <2>1. c \in Controls
    BY <1>1, <1>2, EventFields
  <2> HIDE DEF c
  <2> QED BY <2>1, BoundsAssumption DEF Modes
<1>4. \/ _handle_set_config(c) \/ _handle_set_operating_mode(c)
      \/ _handle_configure_ecall_redial(c)
      \/ _apply_force_timer_failure(c) \/ _apply_force_redial_mode(c)
  BY DEF Configure
<1> HIDE DEF c
<1>5. config \in Config
  BY <1>1 DEF Queue
<1>6. config' \in Config
  <2>1. CASE _handle_set_config(c)
    BY <1>3, <1>5, <2>1 DEF _handle_set_config, Config
  <2>2. CASE _handle_set_operating_mode(c)
    BY <1>3, <1>5, <2>2 DEF _handle_set_operating_mode, Config
  <2>3. CASE _handle_configure_ecall_redial(c)
    BY <1>3, <1>5, <2>3 DEF _handle_configure_ecall_redial, Config, Modes, Bounds
  <2>4. CASE _apply_force_timer_failure(c)
    BY <1>5, <2>4 DEF _apply_force_timer_failure, Config, Timers
  <2>5. CASE _apply_force_redial_mode(c)
    BY <1>3, <1>5, <2>5, Zenon DEF _apply_force_redial_mode, Config
  <2> QED BY <1>4, <2>1, <2>2, <2>3, <2>4, <2>5
<1>7. Queue'
  BY <1>1, <1>2, <1>6 DEF Queue
<1> QED BY <1>1, <1>7, SameSlot

LEMMA StoppingInv == Inv /\ smfn_stopping => Inv'
<1> SUFFICES ASSUME Inv, smfn_stopping PROVE Inv'
  OBVIOUS
<1>1. Slot'
  BY Zenon DEF Inv, Slot, smfn_stopping, told
<1>2. Queue'
  BY DEF Inv, Queue, smfn_stopping
<1>3. Ended'
  BY NoSessionFacts DEF Inv, Ended, EndIsFinal, smfn_stopping, told
<1> QED BY <1>1, <1>2, <1>3 DEF Inv

\* Whatever comes from outside or from a timer is an event at the end of the queue.
LEMMA PostedEvents ==
    ASSUME Client \/ Outside \/ Control
    PROVE  /\ \E e \in Event : fifo' = Append(fifo, e)
           /\ UNCHANGED <<rest, timers>>
<1>1. UNCHANGED <<rest, timers>>
  BY DEF Client, Outside, Control
<1>2. CASE Client
  <2>1. /\ \A kind \in Kinds : [k |-> "Start", kind |-> kind] \in Event
        /\ \A i \in 1..calls : [k |-> "End", idx |-> i] \in Event
        /\ [k |-> "SendMsd"] \in Event /\ [k |-> "Deregister"] \in Event
    BY DEF Event
  <2> QED BY <1>1, <1>2, <2>1, Zenon DEF Client, Arrives, ArrivesFirst, post_fifo
<1>3. CASE Outside
  <2>1. \A k \in {"PsapHangup", "SessionMsdPull", "Stop"} : [k |-> k] \in Event
    BY DEF Event
  <2> QED BY <1>1, <1>3, <2>1 DEF Outside, Arrives, ArrivesFirst, post_fifo
<1>4. CASE Control
  <2>1. \A c \in Controls : [k |-> "Control", c |-> c] \in Event
    BY DEF Event
  <2> QED BY <1>1, <1>4, <2>1 DEF Control, Arrives, ArrivesFirst, post_fifo
<1> QED BY <1>2, <1>3, <1>4

LEMMA PostInv == Inv /\ (Client \/ Outside \/ Control) => Inv'
<1> SUFFICES ASSUME Inv, Client \/ Outside \/ Control PROVE Inv'
  OBVIOUS
<1>1. \E e \in Event : fifo' = Append(fifo, e)
  BY PostedEvents
<1>2. NoCall /\ UNCHANGED <<ready, calls, ended, config, loose>>
  BY PostedEvents DEF rest, timers, told, NoCall
<1>3. Queue'
  BY <1>1, <1>2, AppendQueue DEF Inv, Queue
<1> QED BY <1>2, <1>3, SameSlot

\* The event a timer posts.
Fires(t) == IF t = Redial THEN [k |-> "Redial"] ELSE [k |-> "Expiry", t |-> t]

LEMMA TimerInv ==
    ASSUME Inv, NEW t \in Timers \cup {Redial}, TimerDue(t)
    PROVE  Inv' /\ Fires(t) \in Event /\ fifo' = Append(fifo, Fires(t))
<1>1. Fires(t) \in Event
  BY DEF Fires, Event
<1>2. fifo' = Append(fifo, Fires(t)) /\ UNCHANGED <<rest>>
  BY DEF TimerDue, post_fifo, Fires
<1>3. armed' \in SUBSET (Timers \cup {Redial})
  BY DEF Inv, Slot, TimerDue
<1>4. loose' \in [Timers \cup {Redial} -> Nat]
  <2>1. loose \in [Timers \cup {Redial} -> Nat]
    BY DEF Inv, Queue
  <2>2. loose[t] > 0 => loose[t] - 1 \in Nat
    BY <2>1
  <2> QED BY <2>1, <2>2 DEF TimerDue
<1>5. Queue'
  BY <1>1, <1>2, <1>4, AppendQueue DEF Inv, rest
<1> QED BY <1>1, <1>2, <1>3, <1>5, SameSession DEF rest, told

LEMMA NextInv == Inv /\ [Next]_vars => Inv'
<1> SUFFICES ASSUME Inv, [Next]_vars PROVE Inv'
  OBVIOUS
<1>1. CASE UNCHANGED vars
  <2>1. NoCall /\ UNCHANGED <<ready, calls, ended>> /\ Queue'
    BY <1>1 DEF vars, timers, told, NoCall, Inv, Queue
  <2> QED BY <2>1, SameSlot
<1>2. CASE Step
  BY <1>2, StartInv, EndInv, SendMsdInv, SessionEvents, ConfigureInv, ExpiryEvents,
     StoppingInv DEF Step
<1>3. CASE Client \/ Outside \/ Control
  BY <1>3, PostInv
<1>4. CASE \E t \in Timers \cup {Redial} : TimerDue(t)
  BY <1>4, TimerInv
<1> QED BY <1>1, <1>2, <1>3, <1>4 DEF Next

\* Whatever clients, the answering point, timers and the configuration do, a call
\* last announced as live is the session of the phone, and a session that waits
\* for a callback was announced as ENDED.
THEOREM EcallLiveCallIsOwned == Spec => []LiveCallIsOwned
<1>1. Inv => LiveCallIsOwned
  <2> SUFFICES ASSUME Inv PROVE LiveCallIsOwned
    OBVIOUS
  <2>1. Slot
    BY DEF Inv
  <2>2. CASE session = NoSession
    BY <2>1, <2>2, NoSessionFacts DEF Slot, LiveCallIsOwned
  <2>3. CASE Sane
    BY <2>1, <2>3 DEF Slot, Sane, LiveCallIsOwned, Live, Free, Sess, SessionStates
  <2> QED BY <2>1, <2>2, <2>3 DEF Slot
<1> QED BY <1>1, InitInv, NextInv, PTL DEF Spec

\* A call whose end_ecall was answered with success stays ENDED and never holds
\* the slot again.
THEOREM EcallEndIsFinal == Spec => []EndIsFinal
<1>1. Inv => EndIsFinal
  BY DEF Inv, Ended
<1> QED BY <1>1, InitInv, NextInv, PTL DEF Spec

\* In the conversation the last word on the MSD is STARTED for a call over circuits
\* that was made without an MSD, to the regulatory number, and pulled, and for no
\* other call, whichever pulls, redials and failing timers came before.
THEOREM EcallMsdIsResolved == Spec => []MsdIsResolved
<1>1. Inv => MsdIsResolved
  BY NoSessionFacts DEF Inv, Slot, Sane, MsdIsResolved
<1> QED BY <1>1, InitInv, NextInv, PTL DEF Spec

\* Every variable keeps its type; the redial attempt stays within the table the
\* call was made with.
THEOREM EcallTypeOK == Spec => []TypeOK
<1>1. ASSUME Inv PROVE TypeOK
  <2>1. Slot /\ Queue /\ Ended /\ calls \in Nat
    BY <1>1, BoundsAssumption DEF Inv, Slot
  <2>2. CASE session = NoSession
    BY <2>1, <2>2, NoSessionFacts DEF Slot, Queue, Ended, TypeOK
  <2>3. CASE Sane
    BY <2>1, <2>3 DEF Slot, Queue, Ended, TypeOK, Sane, Sess, InTable
  <2> QED BY <2>1, <2>2, <2>3 DEF Slot
<1> QED BY <1>1, InitInv, NextInv, PTL DEF Spec

---------------------------------------------------------------------------
(* Waiting for timers *)

Queued(t, q) ==
    [k |-> "Expiry", t |-> t] \in Range(q) \/ (t = Redial /\ [k |-> "Redial"] \in Range(q))

LEMMA TimedFacts ==
    /\ \A t \in WaitTimers : (Waits(t) <=> WaitsOf(session, t))
                              /\ (Due(t) <=> t \in armed \/ loose[t] > 0 \/ Queued(t, fifo))
    /\ \A t \in WaitTimers : (Waits(t)' <=> WaitsOf(session', t))
                              /\ (Due(t)' <=> t \in armed' \/ loose'[t] > 0 \/ Queued(t, fifo'))
    /\ WaitTimers \subseteq Timers \cup {Redial}
BY DEF Waits, WaitsOf, Due, Queued, WaitTimers, Timers

\* An expiry stays queued until it is handled.
LEMMA QueuedKept ==
    ASSUME NEW q \in Seq(Event), NEW t \in WaitTimers, Queued(t, q)
    PROVE  /\ \A e \in Event : Queued(t, Append(q, e))
           /\ q # <<>> /\ Head(q) # [k |-> "Expiry", t |-> t]
                       /\ (t = Redial => Head(q) # [k |-> "Redial"]) => Queued(t, Tail(q))
BY AppendFacts, TailFacts DEF Queued

\* A step that takes another event and starts no wait.
LEMMA TakenTimed ==
    ASSUME Inv, WaitIsTimed, NEW x, fifo # <<>>,
           Head(fifo).k \notin {"Expiry", "Redial"} \/ Head(fifo) = Fires(x),
           fifo' = Tail(fifo) \/ \E e \in Event : fifo' = Append(Tail(fifo), e),
           \A t \in WaitTimers : t # x => loose'[t] = loose[t],
           Head(fifo).k \notin {"Expiry", "Redial"} => loose' = loose,
           \A t \in WaitTimers : WaitsOf(session', t) =>
               \/ t \in armed'
               \/ /\ WaitsOf(session, t) /\ (t \in armed => t \in armed')
                  /\ t # x \/ Head(fifo).k \notin {"Expiry", "Redial"}
    PROVE  WaitIsTimed'
<1> SUFFICES ASSUME NEW t \in WaitTimers, WaitsOf(session', t), t \notin armed'
             PROVE  loose'[t] > 0 \/ Queued(t, fifo')
  BY TimedFacts DEF WaitIsTimed
<1>1. /\ WaitsOf(session, t) /\ t \notin armed
      /\ t # x \/ Head(fifo).k \notin {"Expiry", "Redial"}
  OBVIOUS
<1>2. loose[t] > 0 \/ Queued(t, fifo)
  BY <1>1, TimedFacts DEF WaitIsTimed
<1>3. loose'[t] = loose[t]
  BY <1>1
<1>4. Head(fifo) # [k |-> "Expiry", t |-> t] /\ (t = Redial => Head(fifo) # [k |-> "Redial"])
  BY <1>1 DEF Fires
<1>5. fifo \in Seq(Event) /\ Tail(fifo) \in Seq(Event)
  BY TailFacts DEF Inv, Queue
<1>6. Queued(t, fifo) => Queued(t, Tail(fifo))
  BY <1>4, <1>5, QueuedKept
<1>7. Queued(t, fifo) => Queued(t, fifo')
  BY <1>5, <1>6, QueuedKept, Zenon
<1> QED BY <1>2, <1>3, <1>7

\* Steps that take an event that is no expiry.
LEMMA EventsTimed ==
    ASSUME Inv, WaitIsTimed, Step, Head(fifo).k \notin {"Expiry", "Redial"}
    PROVE  WaitIsTimed'
<1> DEFINE Carries == \A t \in WaitTimers : WaitsOf(session', t) =>
               t \in armed' \/ (WaitsOf(session, t) /\ (t \in armed => t \in armed'))
<1>1. CASE smfn_stopping
  BY <1>1, TimedFacts, NoSessionFacts DEF smfn_stopping, WaitIsTimed, WaitsOf
<1>2. CASE _handle_start_ecall \/ _handle_send_msd
  <2>1. /\ fifo # <<>> /\ UNCHANGED loose
        /\ fifo' = Tail(fifo) \/ \E e \in Event : fifo' = Append(Tail(fifo), e)
    BY <1>2, Zenon DEF _handle_start_ecall, _handle_send_msd, Takes, Event
  <2>2. Carries
    <3>1. CASE UNCHANGED <<session, armed>>
      BY SMTT(120), <3>1 DEF Carries
    <3>2. CASE session' = NewSession(Head(fifo).kind)
      BY <3>2, Zenon DEF NewSession, WaitsOf
    <3> QED BY <1>2, <3>1, <3>2 DEF _handle_start_ecall, _handle_send_msd, NoCall
  <2> QED BY <2>1, <2>2, TakenTimed
<1>3. CASE Configure
  BY <1>3, TakenTimed DEF Configure, Takes, NoCall
<1>4. CASE \/ _handle_end_ecall \/ _run_session_start \/ _run_session_hangup
          \/ _run_session_msd_pull \/ _handle_request_network_deregistration
  <2>1. fifo # <<>> /\ fifo' = Tail(fifo) /\ UNCHANGED <<ready, loose, calls>>
    BY <1>4, Zenon DEF _handle_end_ecall, _run_session_start, _run_session_hangup,
         _run_session_msd_pull, _handle_request_network_deregistration, Session, Takes
  <2>2. Carries
    <3>1. CASE NoCall
      BY <3>1 DEF NoCall
    <3>2. CASE ~NoCall
      <4>1. PICK w \in {start(Before), hangup(Before), msd_pull_request(Before),
                        network_deregistration_request(Before)},
                 release \in BOOLEAN : After(w, armed, release)
        BY <1>4, <3>2, Zenon DEF _handle_end_ecall, _run_session_start, _run_session_hangup,
             _run_session_msd_pull, _handle_request_network_deregistration, Session
      <4>2. session # NoSession
        <5>1. CASE _handle_end_ecall
          <6>1. Head(fifo).idx \in Nat \ {0} /\ session.idx = Head(fifo).idx
            BY <2>1, <3>2, <5>1, TailFacts, EventFields, Zenon DEF _handle_end_ecall, Takes, Inv, Queue
          <6> QED BY <6>1, NoSessionFacts
        <5> QED BY <1>4, <3>2, <5>1, Zenon DEF _run_session_start, _run_session_hangup,
             _run_session_msd_pull, _handle_request_network_deregistration, Session
      <4>3. Good(Before) /\ ~Before.over /\ Before.s = session /\ Before \in Work
        BY <4>2, BeforeFacts DEF Inv, Good
      <4>4. Good(w) /\ w.s.idx = session.idx
            /\ \A t \in WaitTimers : WaitsOf(w.s, t) => t \in Armed(w) \/ WaitsOf(session, t)
        <5> HIDE DEF Before
        <5>1. CASE w = start(Before)
          BY <4>3, <5>1, StartFacts, Zenon DEF Timed, Good
        <5>2. CASE w = hangup(Before)
          BY <4>3, <5>2, HangupFacts, Zenon DEF Waiting
        <5>3. CASE w = msd_pull_request(Before)
          BY <4>3, <5>3, PullFacts DEF Waiting
        <5>4. CASE w = network_deregistration_request(Before)
          BY <4>3, <5>4, DeregistrationFacts DEF Waiting
        <5> QED BY <5>1, <5>2, <5>3, <5>4
      <4>5. \A t \in WaitTimers : WaitsOf(session', t) =>
                WaitsOf(w.s, t) /\ armed \cup Armed(w) \subseteq armed'
        <5>1. Slot /\ Sane /\ armed \in SUBSET (Timers \cup {Redial})
          BY <4>2 DEF Inv, Slot
        <5> QED BY ZenonT(120), <2>1, <4>1, <4>4, <5>1, AfterFacts
      <4> QED BY <4>4, <4>5
    <3> QED BY <3>1, <3>2
  <2> QED BY <2>1, <2>2, TakenTimed
<1>5. ~_run_hlap_timer_expiry /\ ~_run_redial_timer_expiry
  BY DEF _run_hlap_timer_expiry, _run_redial_timer_expiry, Takes
<1> QED BY <1>1, <1>2, <1>3, <1>4, <1>5 DEF Step

\* The expiry that is handled ends the wait for it, or the timer is started anew.
LEMMA ExpiryTimed ==
    ASSUME Inv, WaitIsTimed, _run_hlap_timer_expiry \/ _run_redial_timer_expiry
    PROVE  WaitIsTimed'
<1> DEFINE t == IF Head(fifo).k = "Expiry" THEN Head(fifo).t ELSE Redial
           w == IF Head(fifo).k = "Expiry" THEN on_hlap_timer_expiry(Before, t)
                                           ELSE on_redial_timer_expiry(Before)
<1>1. Slot /\ Queue /\ armed \in SUBSET (Timers \cup {Redial})
      /\ loose \in [Timers \cup {Redial} -> Nat]
  BY DEF Inv, Slot, Queue
<1>2. fifo # <<>> /\ Head(fifo).k \in {"Expiry", "Redial"} /\ Expire(t, w)
  BY DEF _run_hlap_timer_expiry, _run_redial_timer_expiry, Takes
<1>3. Head(fifo) \in Event
  BY <1>1, <1>2, TailFacts DEF Queue
<1>4. t \in Timers \cup {Redial} /\ (Head(fifo).k = "Expiry" => t \in Timers /\ t # Redial)
  BY <1>3, EventFields DEF Timers, Redial
<1>5. Head(fifo) = Fires(t)
  BY <1>2, <1>3, <1>4, EventFields DEF Fires
<1>6. ASSUME session # NoSession
      PROVE  Good(w) /\ w.s.idx = session.idx
             /\ \A x \in WaitTimers : WaitsOf(w.s, x) =>
                    x \in Armed(w) \/ (x # t /\ WaitsOf(session, x))
  <2>1. Good(Before) /\ ~Before.over /\ Before.s = session
    BY SMTT(120), <1>1, <1>6, BeforeFacts
  <2> HIDE DEF Before
  <2>2. CASE Head(fifo).k = "Expiry"
    BY ZenonT(120), <1>4, <2>1, <2>2, ExpiryFacts DEF WaitingPast
  <2>3. CASE Head(fifo).k # "Expiry"
    BY <2>1, <2>3, RedialFacts, Zenon DEF WaitingPast
  <2> QED BY <2>2, <2>3, Zenon
<1> HIDE DEF w, t
<1>7. fifo' = Tail(fifo) /\ UNCHANGED <<ready, calls>>
      /\ \A x \in WaitTimers : x # t => loose'[x] = loose[x]
  BY <1>1, <1>2, <1>4, TimedFacts DEF Expire
<1>8. \A x \in WaitTimers : WaitsOf(session', x) =>
          x \in armed' \/ (WaitsOf(session, x) /\ (x \in armed => x \in armed') /\ x # t)
  <2>1. CASE session = NoSession
    BY <1>2, <2>1, NoSessionFacts DEF Expire, WaitsOf
  <2>2. CASE session # NoSession
    <3>1. After(w, armed \ {t}, FALSE)
      BY <1>2, <2>2, Zenon DEF Expire
    <3>2. \A x \in WaitTimers : WaitsOf(session', x) =>
              WaitsOf(w.s, x) /\ (armed \ {t}) \cup Armed(w) \subseteq armed'
      BY <1>1, <1>6, <1>7, <2>2, <3>1, AfterFacts, Zenon DEF Slot
    <3> QED BY <1>6, <2>2, <3>2
  <2> QED BY <2>1, <2>2
<1> QED BY <1>2, <1>5, <1>7, <1>8, TakenTimed

\* A timer that falls due becomes a queued expiry; what arrives disturbs none.
LEMMA PostTimed ==
    ASSUME Inv, WaitIsTimed,
           \/ Client \/ Outside \/ Control
           \/ \E t \in Timers \cup {Redial} : TimerDue(t)
    PROVE  WaitIsTimed'
<1> SUFFICES ASSUME NEW t \in WaitTimers, WaitsOf(session', t)
             PROVE  t \in armed' \/ loose'[t] > 0 \/ Queued(t, fifo')
  BY TimedFacts DEF WaitIsTimed
<1>1. fifo \in Seq(Event) /\ loose \in [Timers \cup {Redial} -> Nat]
  BY DEF Inv, Queue
<1>2. CASE Client \/ Outside \/ Control
  <2>1. UNCHANGED <<session, armed, loose>> /\ \E e \in Event : fifo' = Append(fifo, e)
    BY <1>2, PostedEvents DEF rest, timers
  <2>2. t \in armed \/ loose[t] > 0 \/ Queued(t, fifo)
    BY <2>1, TimedFacts DEF WaitIsTimed
  <2> QED BY ZenonT(120), <1>1, <2>1, <2>2, QueuedKept
<1>3. ASSUME NEW x \in Timers \cup {Redial}, TimerDue(x)
      PROVE  t \in armed' \/ loose'[t] > 0 \/ Queued(t, fifo')
  <2>1. Fires(x) \in Event /\ fifo' = Append(fifo, Fires(x)) /\ session' = session
    BY <1>3, TimerInv, Zenon DEF TimerDue, rest
  <2>2. t \in armed \/ loose[t] > 0 \/ Queued(t, fifo)
    BY <2>1, TimedFacts, Zenon DEF WaitIsTimed
  <2>3. CASE t = x
    BY <1>1, <2>1, <2>3, AppendFacts DEF Fires, Queued
  <2>4. CASE t # x
    <3>1. (t \in armed => t \in armed') /\ loose'[t] = loose[t]
      BY <1>1, <1>3, <2>4, TimedFacts, Zenon DEF TimerDue
    <3> QED BY <1>1, <2>1, <2>2, <3>1, QueuedKept, Zenon
  <2> QED BY <2>3, <2>4
<1> QED BY <1>2, <1>3, Zenon

\* A session in one of the waits Waits lists has its timer running or the expiry
\* queued, whatever timers earlier calls, stale expiries and new configurations left
\* behind.
THEOREM EcallWaitIsTimed == Spec => []WaitIsTimed
<1>1. Init => WaitIsTimed
  BY NoSessionFacts DEF Init, WaitIsTimed, Waits
<1>2. ASSUME Inv, WaitIsTimed, [Next]_vars PROVE WaitIsTimed'
  <2>1. CASE UNCHANGED vars
    BY <1>2, <2>1, Zenon DEF vars, timers, WaitIsTimed, Waits, Due
  <2>2. CASE Step
    <3>1. CASE _run_hlap_timer_expiry \/ _run_redial_timer_expiry
      BY <1>2, <3>1, ExpiryTimed
    <3>2. CASE ~(_run_hlap_timer_expiry \/ _run_redial_timer_expiry)
      <4>1. Head(fifo).k \notin {"Expiry", "Redial"}
        BY <2>2, <3>2, Zenon DEF Step, Takes, _handle_start_ecall, _handle_end_ecall,
           _handle_send_msd, _handle_request_network_deregistration, Configure,
           _run_session_start, _run_session_hangup, _run_session_msd_pull,
           smfn_stopping, Session
      <4> QED BY SMTT(120), <1>2, <2>2, <4>1, EventsTimed
    <3> QED BY <3>1, <3>2
  <2>3. CASE \/ Client \/ Outside \/ Control
            \/ \E t \in Timers \cup {Redial} : TimerDue(t)
    BY <1>2, <2>3, PostTimed
  <2> QED BY SMTT(120), <1>2, <2>1, <2>2, <2>3 DEF Next
<1>3. Inv /\ WaitIsTimed /\ [Next]_vars => (Inv /\ WaitIsTimed)'
  BY <1>2, NextInv
<1> QED BY <1>1, <1>3, InitInv, PTL DEF Spec
=============================================================================
