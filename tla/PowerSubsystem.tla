--------------------------- MODULE PowerSubsystem ---------------------------
(***************************************************************************)
(* The power subsystem of the application processor                        *)
(* (sml/apss/power/__init__.py, PowerSubsystem): a miros active object     *)
(* that serialises requests for an activity state.  The request at the     *)
(* head of its queue has a round: the machines it changes are told the new *)
(* state, and for SUSPEND and SHUTDOWN they are awaited until all have     *)
(* acknowledged, one has refused or the round times out.                   *)
(*                                                                         *)
(* Timers are delayed posts to the object's own fifo; cancelling one has   *)
(* no effect once its event is queued.  Finishing a round starts the next  *)
(* one by a recursive call; pc splits that call chain into steps, between  *)
(* which other threads can only post to the fifo.  Indications that change *)
(* nothing here (slave_ack_status, machine_update, wakeup) are left out.   *)
(***************************************************************************)
EXTENDS Naturals, Sequences, Functions, FiniteSets

CONSTANTS
    Machines,    \* machine names
    Local,       \* the machine this processor runs on
    All,         \* ALL_MACHINES
    Asks,        \* the <<machine, state>> pairs masters ask for
    MaxReqs,     \* bound: requests
    MaxQueue,    \* bound: events queued when one comes from outside
    MaxControls  \* bound: actions of the control side, and the stop

States == {"RESUME", "SUSPEND", "SHUTDOWN"}

ASSUME NamesAssumption ==
    /\ Local \in Machines /\ All \notin Machines
    /\ Asks \subseteq (Machines \cup {All}) \X States
    /\ MaxReqs \in Nat /\ MaxQueue \in Nat /\ MaxControls \in Nat

VARIABLES
    apss,        \* "Ready", or "Stopping" once the object has stopped
    fifo,        \* its queue, messages on their way to it included
    registered,  \* _registered_machines
    state,       \* _machines_state, "UNKNOWN" for a machine without entry
    queue,       \* _request_queue
    round,       \* the pending round: the _pending_* members
    pc,          \* the call under way: "idle", "process" or "finish"
    timer,       \* _pending_timer_uuid, 0 for None
    running,     \* acknowledgement timers whose post is still to come
    ftimer,      \* the retry of the local confirmation is scheduled
    owes,        \* updates each machine has still to answer
    answers,     \* history: outcomes sent as set_state.rsp for each request
    asked,       \* requests made so far
    controls     \* control actions so far

round_ == <<queue, round, pc, timer, answers>>
world == <<owes, asked, controls>>
vars == <<apss, fifo, registered, state, round_, running, ftimer, world>>

NoRound ==
    [id |-> 0, m |-> Local, s |-> "RESUME", expected |-> {}, acked |-> {}, nacked |-> {}]

\* Ready, with the machines added so far.
Init ==
    /\ apss = "Ready" /\ fifo = <<>>
    /\ registered \in {{Local}, Machines}
    /\ state = [m \in Machines |-> IF m \in registered THEN "RESUME" ELSE "UNKNOWN"]
    /\ queue = <<>> /\ round = NoRound /\ pc = "idle"
    /\ timer = 0 /\ running = {} /\ ftimer = FALSE
    /\ owes = [m \in Machines |-> 0]
    /\ answers = [i \in 1..MaxReqs |-> <<>>]
    /\ asked = 0 /\ controls = 0

\* The object, not inside a call, takes the next event of its fifo.
Takes(k) ==
    /\ apss = "Ready" /\ pc = "idle"
    /\ fifo # <<>> /\ Head(fifo).k = k
    /\ fifo' = Tail(fifo)

Answer(i, r) == answers' = [answers EXCEPT ![i] = Append(@, r)]

---------------------------------------------------------------------------
(* Requests *)

_resolve_targets(m) == IF m = All THEN registered ELSE {m}

\* The state t will have once the queued requests are done.
_last_queued_state(t) ==
    LET mine == {i \in DOMAIN queue : t \in _resolve_targets(queue[i].m)} IN
    IF mine = {} THEN state[t] ELSE queue[CHOOSE i \in mine : \A j \in mine : j <= i].s

_should_enqueue(r) == \E t \in _resolve_targets(r.m) : _last_queued_state(t) # r.s

\* A request queued behind others starts its round at once.
EnqueueStarts(r) == queue' = Append(queue, r) /\ pc' = "process"

\* The round of the first request is left to somebody else.
EnqueueWaits(r) == queue' = Append(queue, r) /\ pc' = "idle"

Enqueue(r) ==
    /\ queue' = Append(queue, r)
    /\ pc' = IF queue = <<>> THEN "process" ELSE "idle"

\* Refused while a SHUTDOWN has its round, or when it would change nothing.
_handle_set_state ==
    /\ Takes("SetState")
    /\ LET r == Head(fifo)
           busy == queue # <<>> /\ Head(queue).s = "SHUTDOWN" IN
       IF busy \/ ~_should_enqueue(r)
       THEN Answer(r.id, "rejected") /\ UNCHANGED <<queue, pc>>
       ELSE Enqueue(r) /\ UNCHANGED answers
    /\ UNCHANGED <<apss, registered, state, round, timer, running, ftimer, world>>

---------------------------------------------------------------------------
(* Rounds *)

\* state_update for the machines ms, which have to answer all but RESUME.
Tell(ms, s) ==
    owes' = [m \in Machines |-> IF m \in ms /\ s # "RESUME" THEN owes[m] + 1 ELSE owes[m]]

\* The timer is only scheduled when none is.
_schedule_ack_timeoutOnce(i) ==
    IF running = {} THEN timer' = i /\ running' = {i} ELSE UNCHANGED <<timer, running>>

\* The timer in _pending_timer_uuid, if any, is cancelled; the new one is named
\* after the request.
_schedule_ack_timeout(i) ==
    /\ timer' = i
    /\ running' = (running \ {timer}) \cup {i}

_cancel_pending_timer == timer' = 0 /\ running' = running \ {timer}

_process_next_queued ==
    /\ pc = "process"
    /\ LET r == Head(queue)
           changed == {t \in _resolve_targets(r.m) : state[t] # r.s}
           awaited == IF r.s = "RESUME" THEN {} ELSE changed IN
       /\ Tell(changed, r.s)
       /\ round' = [NoRound EXCEPT !.id = r.id, !.m = r.m, !.s = r.s, !.expected = awaited]
       /\ IF awaited = {}
          THEN pc' = "finish" /\ UNCHANGED <<timer, running>>
          ELSE pc' = "idle" /\ _schedule_ack_timeout(r.id)
    /\ UNCHANGED <<apss, fifo, registered, state, queue, ftimer, answers, asked, controls>>

\* An answer counts whichever machine it comes from.
_record_ackAnyone ==
    /\ Takes("Ack")
    /\ LET a == Head(fifo)
           after == IF a.r = "ACK" THEN [round EXCEPT !.acked = @ \cup {a.m}]
                                   ELSE [round EXCEPT !.nacked = @ \cup {a.m}] IN
       IF round.id = 0
       THEN UNCHANGED <<round, pc, timer, running>>
       ELSE /\ round' = after
            /\ IF a.r = "NACK" \/ after.expected \subseteq after.acked
               THEN pc' = "finish" /\ _cancel_pending_timer
               ELSE UNCHANGED <<pc, timer, running>>
    /\ UNCHANGED <<apss, registered, state, queue, ftimer, answers, world>>

\* An answer carries the name of a machine, and nothing that tells its round.
_record_ack ==
    /\ Takes("Ack")
    /\ LET a == Head(fifo)
           after == IF a.r = "ACK" THEN [round EXCEPT !.acked = @ \cup {a.m}]
                                   ELSE [round EXCEPT !.nacked = @ \cup {a.m}] IN
       IF round.id = 0 \/ a.m \notin round.expected
       THEN UNCHANGED <<round, pc, timer, running>>
       ELSE /\ round' = after
            /\ IF a.r = "NACK" \/ after.expected \subseteq after.acked
               THEN pc' = "finish" /\ _cancel_pending_timer
               ELSE UNCHANGED <<pc, timer, running>>
    /\ UNCHANGED <<apss, registered, state, queue, ftimer, answers, world>>

\* The uuid is dropped without cancelling; the event may be another round's.
_on_ack_timeout ==
    /\ Takes("AckTimeout")
    /\ IF round.id = 0
       THEN UNCHANGED <<pc, timer>>
       ELSE pc' = "finish" /\ timer' = 0
    /\ UNCHANGED <<apss, registered, state, queue, round, running, ftimer, answers, world>>

\* The state is applied only when every machine agreed.
_apply_state_updateIfAgreed(r) ==
    IF r.expected = r.acked /\ r.nacked = {}
    THEN state' = [m \in Machines |->
                 IF (r.m = All /\ state[m] # "UNKNOWN") \/ r.m = m THEN r.s ELSE state[m]]
    ELSE UNCHANGED state

\* ALL_MACHINES also sets machines that were removed.
_apply_state_update(r) ==
    state' = [m \in Machines |->
                 IF (r.m = All /\ state[m] # "UNKNOWN") \/ r.m = m THEN r.s ELSE state[m]]

\* popleft() left out.
NextRequestKeepsHead == UNCHANGED queue /\ pc' = IF Len(queue) > 1 THEN "process" ELSE "idle"

NextRequest == queue' = Tail(queue) /\ pc' = IF Len(queue) > 1 THEN "process" ELSE "idle"

\* The state is recorded whether or not the machines agreed.
_finish_set_state_round ==
    /\ pc = "finish"
    /\ _apply_state_update(round)
    /\ LET ok == round.expected = round.acked /\ round.nacked = {} IN
       /\ Answer(round.id, IF ok THEN "ok" ELSE "failed")
       /\ ftimer' = (ftimer \/ (~ok /\ round.m \in {All, Local}))
    /\ round' = NoRound
    /\ NextRequest
    /\ UNCHANGED <<apss, fifo, registered, timer, running, world>>

\* The local machine is told its recorded state again.
_retry_local_confirm ==
    /\ Takes("FTimeout")
    /\ Tell({Local}, state[Local])
    /\ UNCHANGED <<apss, registered, state, round_, running, ftimer, asked, controls>>

---------------------------------------------------------------------------
(* Registry and life cycle *)

_apply_add_machine ==
    /\ Takes("AddMachine")
    /\ LET m == Head(fifo).m IN
       /\ registered' = registered \cup {m}
       /\ state' = [state EXCEPT ![m] = IF @ = "UNKNOWN" THEN "RESUME" ELSE @]
    /\ UNCHANGED <<apss, round_, running, ftimer, world>>

\* The machine keeps its state, and a round goes on waiting for it.
_apply_remove_machine ==
    /\ Takes("RemoveMachine")
    /\ registered' = registered \ {Head(fifo).m}
    /\ UNCHANGED <<apss, state, round_, running, ftimer, world>>

\* Stop: requests that wait are not answered any more.
smfn_stopping ==
    /\ Takes("Stop")
    /\ apss' = "Stopping"
    /\ _cancel_pending_timer /\ ftimer' = FALSE
    /\ UNCHANGED <<registered, state, queue, round, pc, answers, world>>

\* A step of the object's thread.
Step ==
    \/ _handle_set_state \/ _process_next_queued \/ _record_ack \/ _on_ack_timeout
    \/ _finish_set_state_round \/ _retry_local_confirm
    \/ _apply_add_machine \/ _apply_remove_machine \/ smfn_stopping

---------------------------------------------------------------------------
(* Timers and the outside *)

post_fifo(e) == fifo' = Append(fifo, e)
\* An event comes from outside.
Arrives(e) == apss = "Ready" /\ Len(fifo) < MaxQueue /\ post_fifo(e)
rest == <<apss, registered, state, round_>>

AckTimerDue ==
    /\ \E t \in running : running' = running \ {t}
    /\ post_fifo([k |-> "AckTimeout"])
    /\ UNCHANGED <<rest, ftimer, world>>

FTimerDue ==
    /\ ftimer /\ ftimer' = FALSE
    /\ post_fifo([k |-> "FTimeout"])
    /\ UNCHANGED <<rest, running, world>>

\* add_machine, remove_machine, force_slave_ack and stop, called from the control
\* side.
Control ==
    /\ controls < MaxControls
    /\ controls' = controls + 1
    /\ \/ \E m \in Machines : \/ Arrives([k |-> "AddMachine", m |-> m])
                              \/ Arrives([k |-> "RemoveMachine", m |-> m])
                              \/ \E r \in {"ACK", "NACK"} : Arrives([k |-> "Ack", m |-> m, r |-> r])
       \/ Arrives([k |-> "Stop"])
    /\ UNCHANGED <<rest, running, ftimer, owes, asked>>

\* A machine answers an update it was told.
slave_ack(m) ==
    /\ owes[m] > 0
    /\ owes' = [owes EXCEPT ![m] = @ - 1]
    /\ \E r \in {"ACK", "NACK"} : Arrives([k |-> "Ack", m |-> m, r |-> r])
    /\ UNCHANGED <<rest, running, ftimer, asked, controls>>

\* A master asks for a state.
set_state ==
    /\ asked < MaxReqs
    /\ asked' = asked + 1
    /\ \E a \in Asks :
           Arrives([k |-> "SetState", id |-> asked + 1, m |-> a[1], s |-> a[2]])
    /\ UNCHANGED <<rest, running, ftimer, owes, controls>>

Next ==
    \/ Step \/ AckTimerDue \/ FTimerDue
    \/ Control \/ set_state
    \/ \E m \in Machines : slave_ack(m)

Spec == Init /\ [][Next]_vars

\* The object's thread and its acknowledgement timers make progress; masters,
\* machines and the control side are under no obligation.
FairSpec == Spec /\ WF_vars(Step) /\ WF_vars(AckTimerDue)

---------------------------------------------------------------------------
(* Properties *)

Request == [k : {"SetState"}, id : 1..MaxReqs, m : Machines \cup {All}, s : States]

\* Every variable has its type.
TypeOK ==
    /\ apss \in {"Ready", "Stopping"}
    /\ registered \subseteq Machines
    /\ state \in [Machines -> States \cup {"UNKNOWN"}]
    /\ queue \in Seq(Request)
    /\ pc \in {"idle", "process", "finish"}
    /\ timer \in 0..MaxReqs /\ running \subseteq 1..MaxReqs
    /\ round.id \in 0..MaxReqs
    /\ round.acked \cup round.nacked \subseteq round.expected
    /\ ftimer \in BOOLEAN

\* The pending round is the one of the request at the head of the queue, and
\* between events the queue is empty only when no round is pending: the
\* handlers read one or the other and take them for the same.
RoundIsHead ==
    /\ round.id # 0 => queue # <<>> /\ round.id = Head(queue).id /\ round.s = Head(queue).s
    /\ pc = "idle" /\ queue # <<>> => round.id # 0
    /\ pc = "process" => queue # <<>> /\ round.id = 0

\* A round that waits for machines has a timeout to come, although a timeout
\* of an earlier round may have ended up in the fifo, or may have made
\* _pending_timer_uuid forget a timer that still runs.
RoundIsTimed ==
    apss = "Ready" /\ round.id # 0 /\ pc = "idle" =>
        round.id \in running \/ [k |-> "AckTimeout"] \in Range(fifo)

\* Every request is in one place: on its way, queued once, or answered once.
RequestAccounted ==
    \A i \in 1..asked :
        LET arriving == {j \in DOMAIN fifo : fifo[j].k = "SetState" /\ fifo[j].id = i}
            queued == {j \in DOMAIN queue : queue[j].id = i} IN
        Cardinality(arriving) + Cardinality(queued) + Len(answers[i]) = 1

\* As long as no machine comes or goes and every machine with a state is
\* registered, every round changes some machine: the duplicate check at the
\* arrival of a request predicts what the requests before it will leave,
\* whatever their outcome.  (A request for ALL_MACHINES also sets the machines
\* that got a state by their name alone, which the check does not foresee.)
NoIdleRound ==
    /\ pc = "process" /\ controls = 0
    /\ \A m \in Machines : state[m] # "UNKNOWN" => m \in registered
    => \E t \in _resolve_targets(Head(queue).m) : state[t] # Head(queue).s

\* Every request is answered in the end, also when machines stay silent.
EveryRequestAnswered ==
    \A i \in 1..MaxReqs : asked >= i ~> Len(answers[i]) = 1 \/ apss = "Stopping"
=============================================================================
