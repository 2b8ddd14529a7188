----------------------------- MODULE PowerProofs -----------------------------
(***************************************************************************)
(* Type correctness of PowerSubsystem, that its queue, its pending round   *)
(* and its acknowledgement timers stay consistent, that every request is   *)
(* in one place until it is answered once, and that no round is idle while *)
(* the machines stay the same, for every set of machines and any number of *)
(* requests.                                                               *)
(***************************************************************************)
EXTENDS PowerSubsystem, FiniteSetTheorems, TLAPS

---------------------------------------------------------------------------
(* Queues of events *)

\* Taking the head of a queue, position by position.
LEMMA TailFacts ==
    ASSUME NEW S, NEW s \in Seq(S), s # <<>>
    PROVE  /\ Head(s) \in S /\ Tail(s) \in Seq(S)
           /\ Len(s) > 1 => Tail(s) # <<>>
           /\ Len(s) <= 1 => Tail(s) = <<>>
           /\ \A e \in Range(s) : e = Head(s) \/ e \in Range(Tail(s))
<1>1. /\ Head(s) \in S /\ Tail(s) \in Seq(S)
      /\ Len(Tail(s)) = Len(s) - 1 /\ Len(s) \in Nat /\ Len(s) > 0
      /\ Head(s) = s[1]
  OBVIOUS
<1>2. \A i \in DOMAIN s : i = 1 \/ (i - 1 \in DOMAIN Tail(s) /\ Tail(s)[i - 1] = s[i])
  OBVIOUS
<1>3. Len(s) <= 1 => Tail(s) = <<>>
  BY <1>1
<1>4. Len(s) > 1 => Tail(s) # <<>>
  BY <1>1
<1> QED BY <1>1, <1>2, <1>3, <1>4, Zenon DEF Range

\* Appending to a queue.
LEMMA AppendFacts ==
    ASSUME NEW S, NEW s \in Seq(S), NEW e \in S
    PROVE  /\ Append(s, e) \in Seq(S) /\ Append(s, e) # <<>>
           /\ Head(Append(s, e)) = IF s = <<>> THEN e ELSE Head(s)
           /\ e \in Range(Append(s, e)) /\ Range(s) \subseteq Range(Append(s, e))
<1>1. /\ Append(s, e) \in Seq(S) /\ Len(s) \in Nat
      /\ DOMAIN Append(s, e) = 1..(Len(s) + 1) /\ DOMAIN s = 1..Len(s)
      /\ Append(s, e)[Len(s) + 1] = e
      /\ \A i \in 1..Len(s) : Append(s, e)[i] = s[i]
  OBVIOUS
<1>2. Append(s, e) # <<>> /\ Head(Append(s, e)) = Append(s, e)[1]
  BY <1>1
<1>3. s = <<>> => Len(s) = 0
  OBVIOUS
<1>4. s # <<>> => Len(s) > 0 /\ Head(s) = s[1]
  OBVIOUS
<1>5. Head(Append(s, e)) = IF s = <<>> THEN e ELSE Head(s)
  BY <1>1, <1>2, <1>3, <1>4
<1>6. e \in Range(Append(s, e)) /\ Range(s) \subseteq Range(Append(s, e))
  BY <1>1 DEF Range
<1> QED BY <1>1, <1>2, <1>5, <1>6

---------------------------------------------------------------------------
(* The inductive invariant *)

Names == Machines \cup {All}
Event ==
    Request \cup [k : {"Ack"}, m : Machines, r : {"ACK", "NACK"}]
            \cup [k : {"AckTimeout", "FTimeout", "Stop"}]
            \cup [k : {"AddMachine", "RemoveMachine"}, m : Machines]
Round == [id : 0..MaxReqs, m : Names, s : States, expected : SUBSET Machines,
          acked : SUBSET Machines, nacked : SUBSET Machines]

\* What TypeOK leaves open: events, the number of updates to be answered and the round.
Types ==
    /\ TypeOK
    /\ fifo \in Seq(Event) /\ owes \in [Machines -> Nat]
    /\ asked \in 0..MaxReqs /\ round \in Round

\* A round is finished only while it is pending.
Inv == Types /\ RoundIsHead /\ (pc = "finish" => round.id # 0)

\* What an event carries.
LEMMA EventFields ==
    ASSUME NEW e \in Event
    PROVE  /\ e.k = "SetState" => e \in Request /\ e.id \in 1..MaxReqs /\ e.m \in Names
                                  /\ e.s \in States
           /\ e.k = "Ack" => e.m \in Machines /\ e.r \in {"ACK", "NACK"}
           /\ e.k \in {"AddMachine", "RemoveMachine"} => e.m \in Machines
           /\ e.k = "AckTimeout" => e = [k |-> "AckTimeout"]
BY DEF Event, Request, Names

\* The events that are posted.
LEMMA EventKinds ==
    /\ \A i \in 1..MaxReqs, m \in Names, s \in States :
           [k |-> "SetState", id |-> i, m |-> m, s |-> s] \in Event
    /\ \A m \in Machines, r \in {"ACK", "NACK"} : [k |-> "Ack", m |-> m, r |-> r] \in Event
    /\ \A k \in {"AckTimeout", "FTimeout", "Stop"} : [k |-> k] \in Event
    /\ \A k \in {"AddMachine", "RemoveMachine"}, m \in Machines : [k |-> k, m |-> m] \in Event
BY DEF Event, Request, Names

\* What Takes finds.
LEMMA HeadFacts ==
    ASSUME Inv, fifo # <<>>
    PROVE  Head(fifo) \in Event /\ Tail(fifo) \in Seq(Event)
BY TailFacts DEF Inv, Types

\* Telling machines keeps what they owe well typed.
LEMMA TellType ==
    ASSUME Inv, NEW ms \in SUBSET Machines, NEW s, Tell(ms, s)
    PROVE  owes' \in [Machines -> Nat]
BY DEF Tell, Inv, Types

\* Sets of machines that requests name.
LEMMA TargetsType ==
    ASSUME Inv, NEW m \in Names
    PROVE  _resolve_targets(m) \subseteq Machines
BY DEF Inv, Types, TypeOK, _resolve_targets, Names

LEMMA InitInv == Init => Inv
<1> SUFFICES ASSUME Init PROVE Inv
  OBVIOUS
<1> USE NamesAssumption
<1>1. NoRound \in Round /\ NoRound.id = 0 /\ NoRound.acked \cup NoRound.nacked \subseteq NoRound.expected
  BY DEF NoRound, Round, Names, States
<1>2. registered \subseteq Machines /\ state \in [Machines -> States \cup {"UNKNOWN"}]
  BY DEF Init, States
<1>3. owes \in [Machines -> Nat] /\ fifo \in Seq(Event) /\ queue \in Seq(Request)
  BY DEF Init
<1>4. ftimer \in BOOLEAN /\ apss \in {"Ready", "Stopping"} /\ pc \in {"idle", "process", "finish"}
  BY Zenon DEF Init
<1>5. timer \in 0..MaxReqs /\ running \subseteq 1..MaxReqs /\ asked \in 0..MaxReqs
  BY DEF Init
<1>6. round = NoRound /\ queue = <<>> /\ pc = "idle"
  BY DEF Init
<1>7. Types
  BY <1>1, <1>2, <1>3, <1>4, <1>5, <1>6 DEF Types, TypeOK, Round
<1> QED BY <1>1, <1>6, <1>7 DEF Inv, RoundIsHead

\* Requests join the queue; the first of them starts a round.
LEMMA SetStateInv == Inv /\ _handle_set_state => Inv'
<1> SUFFICES ASSUME Inv, _handle_set_state PROVE Inv'
  OBVIOUS
<1> USE NamesAssumption
<1> DEFINE r == Head(fifo)
<1>1. r \in Request /\ r.id \in 1..MaxReqs /\ fifo' \in Seq(Event) /\ pc = "idle"
  BY HeadFacts, EventFields DEF _handle_set_state, Takes
<1>2. UNCHANGED <<apss, registered, state, round, timer, running, ftimer, owes, asked>>
  BY DEF _handle_set_state, world
<1>3. CASE UNCHANGED <<queue, pc>>
  BY <1>1, <1>2, <1>3 DEF Inv, Types, TypeOK, RoundIsHead
<1>4. CASE Enqueue(r)
  <2>1. /\ queue' \in Seq(Request) /\ queue' # <<>>
        /\ queue # <<>> => Head(queue') = Head(queue)
    BY <1>1, <1>4, AppendFacts DEF Enqueue, Inv, Types, TypeOK
  <2>2. Types'
    BY <1>1, <1>2, <1>4, <2>1 DEF Inv, Types, TypeOK, Enqueue
  <2>3. queue = <<>> => round.id = 0 /\ pc' = "process"
    BY <1>4 DEF Inv, RoundIsHead, Enqueue
  <2>4. queue # <<>> => round.id # 0 /\ pc' = "idle"
    BY <1>1, <1>4 DEF Inv, RoundIsHead, Enqueue
  <2> QED BY <1>2, <2>1, <2>2, <2>3, <2>4 DEF Inv, RoundIsHead
<1> QED BY <1>3, <1>4 DEF _handle_set_state

\* The round that starts is the one of the head.
LEMMA ProcessInv == Inv /\ _process_next_queued => Inv'
<1> SUFFICES ASSUME Inv, _process_next_queued PROVE Inv'
  OBVIOUS
<1> USE NamesAssumption
<1> DEFINE r == Head(queue)
           changed == {t \in _resolve_targets(r.m) : state[t] # r.s}
           awaited == IF r.s = "RESUME" THEN {} ELSE changed
<1>1. queue # <<>> /\ r \in Request /\ pc = "process"
  BY TailFacts DEF Inv, Types, TypeOK, RoundIsHead, _process_next_queued
<1>2. r.id \in 1..MaxReqs /\ r.m \in Names /\ r.s \in States
  BY <1>1 DEF Request, Names
<1>3. changed \subseteq Machines /\ awaited \subseteq Machines
  BY <1>2, TargetsType
<1>4. round' = [NoRound EXCEPT !.id = r.id, !.m = r.m, !.s = r.s, !.expected = awaited]
  BY DEF _process_next_queued
<1>5. /\ round' \in Round /\ round'.id = r.id /\ round'.s = r.s
      /\ round'.acked \cup round'.nacked \subseteq round'.expected
  <2>1. NoRound \in Round /\ NoRound.acked = {} /\ NoRound.nacked = {}
    BY DEF NoRound, Round, Names, States
  <2> HIDE DEF awaited
  <2>2. /\ round'.id = r.id /\ round'.m = r.m /\ round'.s = r.s /\ round'.expected = awaited
        /\ round'.acked = {} /\ round'.nacked = {}
    BY <1>4, <2>1 DEF Round
  <2>3. round' \in Round
    <3>1. r.id \in 0..MaxReqs /\ awaited \in SUBSET Machines
      BY <1>2, <1>3
    <3> HIDE DEF r
    <3> QED BY <1>2, <1>4, <2>1, <3>1, Zenon DEF Round
  <2> QED BY <2>2, <2>3
<1>6. owes' \in [Machines -> Nat]
  <2>1. Tell(changed, r.s)
    BY DEF _process_next_queued
  <2> QED BY <1>3, <2>1, TellType
<1>7. pc' \in {"idle", "finish"} /\ timer' \in 0..MaxReqs /\ running' \subseteq 1..MaxReqs
  BY <1>2 DEF _process_next_queued, _schedule_ack_timeout, Inv, Types, TypeOK
<1>8. UNCHANGED <<apss, fifo, registered, state, queue, ftimer, asked>>
  BY DEF _process_next_queued
<1>9. Types'
  <2>1. TypeOK'
    <3>1. round'.id \in 0..MaxReqs
      BY <1>5 DEF Round
    <3> QED BY <1>5, <1>7, <1>8, <3>1 DEF Inv, Types, TypeOK
  <2> QED BY <1>5, <1>6, <1>8, <2>1 DEF Inv, Types
<1> QED BY <1>1, <1>2, <1>5, <1>7, <1>8, <1>9 DEF Inv, RoundIsHead

\* Answers only move machines from awaited to answered.
LEMMA RecordAckInv == Inv /\ _record_ack => Inv'
<1> SUFFICES ASSUME Inv, _record_ack PROVE Inv'
  OBVIOUS
<1> USE NamesAssumption
<1> DEFINE a == Head(fifo)
           after == IF a.r = "ACK" THEN [round EXCEPT !.acked = @ \cup {a.m}]
                                   ELSE [round EXCEPT !.nacked = @ \cup {a.m}]
<1>1. a.m \in Machines /\ fifo' \in Seq(Event) /\ pc = "idle"
  BY HeadFacts, EventFields DEF _record_ack, Takes
<1>2. UNCHANGED <<apss, registered, state, queue, ftimer, owes, asked>>
  BY DEF _record_ack, world
<1>3. CASE UNCHANGED <<round, pc, timer, running>>
  BY <1>1, <1>2, <1>3 DEF Inv, Types, TypeOK, RoundIsHead
<1>4. CASE round.id # 0 /\ a.m \in round.expected /\ round' = after
  <2>1. /\ round' \in Round /\ round'.id = round.id /\ round'.s = round.s
        /\ round'.acked \cup round'.nacked \subseteq round'.expected
    <3>1. round \in Round /\ round.acked \cup round.nacked \subseteq round.expected
      BY DEF Inv, Types, TypeOK
    <3>2. CASE a.r = "ACK"
      BY <1>1, <1>4, <3>1, <3>2 DEF Round
    <3>3. CASE a.r # "ACK"
      BY <1>1, <1>4, <3>1, <3>3 DEF Round
    <3> QED BY <3>2, <3>3
  <2>2. pc' \in {"idle", "finish"} /\ timer' \in 0..MaxReqs /\ running' \subseteq 1..MaxReqs
    BY <1>1 DEF _record_ack, _cancel_pending_timer, Inv, Types, TypeOK
  <2>3. Types'
    BY <1>1, <1>2, <2>1, <2>2 DEF Inv, Types, TypeOK
  <2> QED BY <1>1, <1>2, <1>4, <2>1, <2>2, <2>3 DEF Inv, RoundIsHead
<1> QED BY <1>3, <1>4 DEF _record_ack

LEMMA AckTimeoutInv == Inv /\ _on_ack_timeout => Inv'
<1> SUFFICES ASSUME Inv, _on_ack_timeout PROVE Inv'
  OBVIOUS
<1> USE NamesAssumption
<1>1. fifo' \in Seq(Event) /\ pc = "idle"
  BY HeadFacts DEF _on_ack_timeout, Takes
<1>2. UNCHANGED <<apss, registered, state, queue, round, running, ftimer, owes, asked>>
  BY DEF _on_ack_timeout, world
<1>3. (pc' = pc /\ timer' = timer) \/ (round.id # 0 /\ pc' = "finish" /\ timer' = 0)
  BY DEF _on_ack_timeout
<1> QED BY <1>1, <1>2, <1>3 DEF Inv, Types, TypeOK, RoundIsHead

\* The finished request leaves the queue and the next one, if any, follows.
LEMMA FinishInv == Inv /\ _finish_set_state_round => Inv'
<1> SUFFICES ASSUME Inv, _finish_set_state_round PROVE Inv'
  OBVIOUS
<1> USE NamesAssumption
<1>1. queue # <<>> /\ queue \in Seq(Request)
  BY DEF _finish_set_state_round, Inv, Types, TypeOK, RoundIsHead
<1>2. /\ queue' \in Seq(Request)
      /\ pc' = IF queue' # <<>> THEN "process" ELSE "idle"
  BY <1>1, TailFacts DEF _finish_set_state_round, NextRequest
<1>3. /\ round' = NoRound /\ NoRound \in Round /\ NoRound.id = 0
      /\ NoRound.acked \cup NoRound.nacked \subseteq NoRound.expected
  BY DEF _finish_set_state_round, NoRound, Round, Names, States
<1>4. state' \in [Machines -> States \cup {"UNKNOWN"}] /\ ftimer' \in BOOLEAN
  BY DEF _finish_set_state_round, _apply_state_update, Inv, Types, TypeOK, Round
<1>5. UNCHANGED <<apss, fifo, registered, timer, running, owes, asked>>
  BY DEF _finish_set_state_round, world
<1>6. Types'
  BY <1>2, <1>3, <1>4, <1>5 DEF Inv, Types, TypeOK
<1> QED BY <1>2, <1>3, <1>6 DEF Inv, RoundIsHead

\* The actions that leave the queue and the round alone.
LEMMA RegistryInv ==
    Inv /\ (_retry_local_confirm \/ _apply_add_machine \/ _apply_remove_machine
            \/ smfn_stopping) => Inv'
<1> USE NamesAssumption
<1>1. ASSUME Inv, _retry_local_confirm PROVE Inv'
  <2>1. fifo' \in Seq(Event)
    BY <1>1, HeadFacts DEF _retry_local_confirm, Takes
  <2>2. {Local} \in SUBSET Machines
    OBVIOUS
  <2>3. owes' \in [Machines -> Nat]
    BY <1>1, <2>2, TellType DEF _retry_local_confirm
  <2>4. UNCHANGED <<apss, registered, state, queue, round, pc, timer, running, ftimer, asked>>
    BY <1>1 DEF _retry_local_confirm, round_
  <2> QED BY <1>1, <2>1, <2>3, <2>4 DEF Inv, Types, TypeOK, RoundIsHead
<1>2. ASSUME Inv, _apply_add_machine PROVE Inv'
  <2>1. fifo' \in Seq(Event) /\ Head(fifo).m \in Machines
    BY <1>2, HeadFacts, EventFields DEF _apply_add_machine, Takes
  <2>2. registered' \subseteq Machines /\ state' \in [Machines -> States \cup {"UNKNOWN"}]
    BY <1>2, <2>1 DEF _apply_add_machine, Inv, Types, TypeOK, States
  <2>3. UNCHANGED <<apss, queue, round, pc, timer, running, ftimer, owes, asked>>
    BY <1>2 DEF _apply_add_machine, round_, world
  <2> QED BY <1>2, <2>1, <2>2, <2>3 DEF Inv, Types, TypeOK, RoundIsHead
<1>3. ASSUME Inv, _apply_remove_machine PROVE Inv'
  <2>1. fifo' \in Seq(Event) /\ registered' \subseteq registered
    BY <1>3, HeadFacts DEF _apply_remove_machine, Takes
  <2>2. UNCHANGED <<apss, state, queue, round, pc, timer, running, ftimer, owes, asked>>
    BY <1>3 DEF _apply_remove_machine, round_, world
  <2> QED BY <1>3, <2>1, <2>2 DEF Inv, Types, TypeOK, RoundIsHead
<1>4. ASSUME Inv, smfn_stopping PROVE Inv'
  <2>1. fifo' \in Seq(Event)
    BY <1>4, HeadFacts DEF smfn_stopping, Takes
  <2>2. apss' = "Stopping" /\ timer' = 0 /\ running' \subseteq running /\ ftimer' \in BOOLEAN
    BY <1>4, Zenon DEF smfn_stopping, _cancel_pending_timer
  <2>3. UNCHANGED <<registered, state, queue, round, pc, owes, asked>>
    BY <1>4 DEF smfn_stopping, world
  <2> QED BY <1>4, <2>1, <2>2, <2>3 DEF Inv, Types, TypeOK, RoundIsHead
<1> QED BY <1>1, <1>2, <1>3, <1>4

\* What the outside posts are events.
LEMMA ControlEvent == Control => \E e \in Event : fifo' = Append(fifo, e)
<1> SUFFICES ASSUME Control PROVE \E e \in Event : fifo' = Append(fifo, e)
  OBVIOUS
<1>1. \/ \E m \in Machines : \/ fifo' = Append(fifo, [k |-> "AddMachine", m |-> m])
                            \/ fifo' = Append(fifo, [k |-> "RemoveMachine", m |-> m])
                            \/ \E r \in {"ACK", "NACK"} :
                                   fifo' = Append(fifo, [k |-> "Ack", m |-> m, r |-> r])
      \/ fifo' = Append(fifo, [k |-> "Stop"])
  BY Zenon DEF Control, Arrives, post_fifo
<1>2. /\ \A m \in Machines : [k |-> "AddMachine", m |-> m] \in Event
                            /\ [k |-> "RemoveMachine", m |-> m] \in Event
                            /\ \A r \in {"ACK", "NACK"} : [k |-> "Ack", m |-> m, r |-> r] \in Event
      /\ [k |-> "Stop"] \in Event
  BY EventKinds
<1> QED BY <1>1, <1>2, Zenon

LEMMA RequestEvent == Inv /\ set_state => \E e \in Event : fifo' = Append(fifo, e)
<1> SUFFICES ASSUME Inv, set_state PROVE \E e \in Event : fifo' = Append(fifo, e)
  OBVIOUS
<1>1. asked + 1 \in 1..MaxReqs
  BY NamesAssumption DEF set_state, Inv, Types
<1>2. PICK a \in Asks :
          fifo' = Append(fifo, [k |-> "SetState", id |-> asked + 1, m |-> a[1], s |-> a[2]])
  BY DEF set_state, Arrives, post_fifo
<1>3. a[1] \in Names /\ a[2] \in States
  BY NamesAssumption DEF Names
<1> QED BY <1>1, <1>2, <1>3, EventKinds

LEMMA AckEvent ==
    Inv /\ (\E m \in Machines : slave_ack(m)) => \E e \in Event : fifo' = Append(fifo, e)
<1> SUFFICES ASSUME Inv, NEW m \in Machines, slave_ack(m)
             PROVE  \E e \in Event : fifo' = Append(fifo, e)
  OBVIOUS
<1> QED BY EventKinds, Zenon DEF slave_ack, Arrives, post_fifo

\* Events that are posted while the object does something else.
LEMMA PostInv ==
    Inv /\ (AckTimerDue \/ FTimerDue \/ Control \/ set_state
            \/ \E m \in Machines : slave_ack(m)) => Inv'
<1> USE NamesAssumption
<1> DEFINE still == UNCHANGED <<apss, registered, state, queue, round, pc, timer>>
<1>1. ASSUME Inv, AckTimerDue PROVE Inv'
  <2>1. fifo' \in Seq(Event)
    BY <1>1, EventKinds, AppendFacts DEF AckTimerDue, post_fifo, Inv, Types
  <2>2. still /\ running' \subseteq running /\ UNCHANGED <<ftimer, owes, asked>>
    BY <1>1 DEF AckTimerDue, rest, round_, world
  <2> QED BY <1>1, <2>1, <2>2 DEF Inv, Types, TypeOK, RoundIsHead
<1>2. ASSUME Inv, FTimerDue PROVE Inv'
  <2>1. fifo' \in Seq(Event)
    BY <1>2, EventKinds, AppendFacts DEF FTimerDue, post_fifo, Inv, Types
  <2>2. still /\ ftimer' = FALSE /\ UNCHANGED <<running, owes, asked>>
    BY <1>2 DEF FTimerDue, rest, round_, world
  <2> QED BY <1>2, <2>1, <2>2, Zenon DEF Inv, Types, TypeOK, RoundIsHead
<1>3. ASSUME Inv, Control PROVE Inv'
  <2> fifo \in Seq(Event)
    BY <1>3 DEF Inv, Types
  <2>1. fifo' \in Seq(Event)
    <3>1. PICK e \in Event : fifo' = Append(fifo, e)
      BY <1>3, ControlEvent
    <3> QED BY <3>1, AppendFacts
  <2>2. still /\ UNCHANGED <<running, ftimer, owes, asked>>
    BY <1>3 DEF Control, rest, round_
  <2> QED BY <1>3, <2>1, <2>2 DEF Inv, Types, TypeOK, RoundIsHead
<1>4. ASSUME Inv, set_state PROVE Inv'
  <2>1. asked' \in 0..MaxReqs
    BY <1>4 DEF set_state, Inv, Types
  <2>2. fifo' \in Seq(Event)
    <3>1. \E e \in Event : fifo' = Append(fifo, e)
      BY <1>4, RequestEvent
    <3> QED BY <1>4, <3>1, AppendFacts DEF Inv, Types
  <2>3. still /\ UNCHANGED <<running, ftimer, owes>>
    BY <1>4 DEF set_state, rest, round_
  <2> QED BY <1>4, <2>1, <2>2, <2>3 DEF Inv, Types, TypeOK, RoundIsHead
<1>5. ASSUME Inv, NEW m \in Machines, slave_ack(m) PROVE Inv'
  <2>1. owes' \in [Machines -> Nat]
    BY <1>5 DEF slave_ack, Inv, Types
  <2>2. fifo' \in Seq(Event)
    <3>1. \E e \in Event : fifo' = Append(fifo, e)
      BY <1>5, AckEvent
    <3> QED BY <1>5, <3>1, AppendFacts DEF Inv, Types
  <2>3. still /\ UNCHANGED <<running, ftimer, asked>>
    BY <1>5 DEF slave_ack, rest, round_
  <2> QED BY <1>5, <2>1, <2>2, <2>3 DEF Inv, Types, TypeOK, RoundIsHead
<1> QED BY <1>1, <1>2, <1>3, <1>4, <1>5

\* Every step preserves the invariant.
LEMMA NextInv == Inv /\ [Next]_vars => Inv'
<1>1. Inv /\ UNCHANGED vars => Inv'
  BY DEF vars, round_, world, Inv, Types, TypeOK, RoundIsHead
<1>2. Inv /\ Next => Inv'
  BY SetStateInv, ProcessInv, RecordAckInv, AckTimeoutInv, FinishInv, RegistryInv, PostInv
     DEF Next, Step
<1> QED BY <1>1, <1>2

\* PowerSubsystem: every variable keeps its type, answers are only recorded for
\* machines of the round.
THEOREM PowerTypeOK == Spec => []TypeOK
<1>1. Inv => TypeOK
  BY DEF Inv, Types
<1> QED BY <1>1, InitInv, NextInv, PTL DEF Spec

\* PowerSubsystem: the _pending_* members always describe the request at the head
\* of _request_queue, and the object never sits on a queued request without a round.
THEOREM PowerRoundIsHead == Spec => []RoundIsHead
<1>1. Inv => RoundIsHead
  BY DEF Inv
<1> QED BY <1>1, InitInv, NextInv, PTL DEF Spec

Expiry == [k |-> "AckTimeout"]

\* A queued timeout stays queued while other events are taken or posted.
LEMMA ExpiryKept ==
    ASSUME Inv, Expiry \in Range(fifo)
    PROVE  /\ \A e \in Event : fifo' = Append(fifo, e) => Expiry \in Range(fifo')
           /\ fifo # <<>> /\ Head(fifo).k # "AckTimeout" /\ fifo' = Tail(fifo)
                  => Expiry \in Range(fifo')
<1>1. \A e \in Event : fifo' = Append(fifo, e) => Expiry \in Range(fifo')
  BY AppendFacts DEF Inv, Types
<1>2. ASSUME fifo # <<>>, Head(fifo).k # "AckTimeout", fifo' = Tail(fifo)
      PROVE  Expiry \in Range(fifo')
  <2>1. Expiry # Head(fifo)
    BY <1>2 DEF Expiry
  <2> QED BY <1>2, <2>1, TailFacts DEF Inv, Types
<1> QED BY <1>1, <1>2

\* Every step preserves that a waiting round has its timeout to come.
LEMMA NextTimed == Inv /\ RoundIsTimed /\ [Next]_vars => RoundIsTimed'
<1> SUFFICES ASSUME Inv, RoundIsTimed, [Next]_vars,
                    apss' = "Ready", round'.id # 0, pc' = "idle"
             PROVE  round'.id \in running' \/ Expiry \in Range(fifo')
  BY DEF RoundIsTimed, Expiry
<1> DEFINE before == apss = "Ready" /\ round.id # 0 /\ pc = "idle"
<1>1. before => round.id \in running \/ Expiry \in Range(fifo)
  BY DEF RoundIsTimed, Expiry
<1>2. CASE UNCHANGED vars
  BY <1>1, <1>2 DEF vars, round_
<1>3. CASE _handle_set_state
  <2>1. before /\ round' = round /\ running' = running /\ fifo # <<>>
        /\ Head(fifo).k # "AckTimeout" /\ fifo' = Tail(fifo)
    BY <1>3 DEF _handle_set_state, Takes
  <2> QED BY <1>1, <2>1, ExpiryKept
<1>4. CASE _process_next_queued
  <2>1. round'.id = Head(queue).id
    BY <1>4 DEF _process_next_queued, NoRound
  <2>2. Head(queue).id \in running'
    BY <1>4 DEF _process_next_queued, _schedule_ack_timeout
  <2> QED BY <2>1, <2>2
<1>5. CASE _record_ack
  <2>1. before /\ round'.id = round.id /\ running' = running /\ fifo # <<>>
        /\ Head(fifo).k # "AckTimeout" /\ fifo' = Tail(fifo)
    BY <1>5 DEF _record_ack, Takes, Inv, Types, Round
  <2> QED BY <1>1, <2>1, ExpiryKept
<1>6. CASE _on_ack_timeout
  BY <1>6 DEF _on_ack_timeout
<1>7. CASE _finish_set_state_round
  BY <1>7 DEF _finish_set_state_round, NoRound
<1>8. CASE _retry_local_confirm \/ _apply_add_machine \/ _apply_remove_machine
  <2>1. before /\ round' = round /\ running' = running /\ fifo # <<>>
        /\ Head(fifo).k # "AckTimeout" /\ fifo' = Tail(fifo)
    BY <1>8 DEF _retry_local_confirm, _apply_add_machine, _apply_remove_machine, Takes, round_
  <2> QED BY <1>1, <2>1, ExpiryKept
<1>9. CASE smfn_stopping
  BY <1>9 DEF smfn_stopping
<1>10. CASE AckTimerDue
  <2>1. Expiry \in Event /\ fifo' = Append(fifo, Expiry)
    BY <1>10, EventKinds DEF AckTimerDue, post_fifo, Expiry
  <2> QED BY <2>1, AppendFacts DEF Inv, Types
<1>11. CASE FTimerDue
  <2>1. before /\ round' = round /\ running' = running
    BY <1>11 DEF FTimerDue, rest, round_
  <2>2. [k |-> "FTimeout"] \in Event /\ fifo' = Append(fifo, [k |-> "FTimeout"])
    BY <1>11, EventKinds DEF FTimerDue, post_fifo
  <2> QED BY <1>1, <2>1, <2>2, ExpiryKept
<1>12. CASE Control
  <2>1. before /\ round' = round /\ running' = running
    BY <1>12 DEF Control, rest, round_
  <2>2. \E e \in Event : fifo' = Append(fifo, e)
    BY <1>12, ControlEvent
  <2> QED BY <1>1, <2>1, <2>2, ExpiryKept
<1>13. CASE set_state
  <2>1. before /\ round' = round /\ running' = running
    BY <1>13 DEF set_state, rest, round_
  <2>2. \E e \in Event : fifo' = Append(fifo, e)
    BY <1>13, RequestEvent
  <2> QED BY <1>1, <2>1, <2>2, ExpiryKept
<1>14. CASE \E m \in Machines : slave_ack(m)
  <2>1. before /\ round' = round /\ running' = running
    BY <1>14 DEF slave_ack, rest, round_
  <2>2. \E e \in Event : fifo' = Append(fifo, e)
    BY <1>14, AckEvent
  <2> QED BY <1>1, <2>1, <2>2, ExpiryKept
<1> QED
  BY <1>2, <1>3, <1>4, <1>5, <1>6, <1>7, <1>8, <1>9, <1>10, <1>11, <1>12, <1>13, <1>14
     DEF Next, Step

\* PowerSubsystem: a round that waits for machines always has a timeout of its own
\* running or one queued, so silent machines cannot block the queue.
THEOREM PowerRoundIsTimed == Spec => []RoundIsTimed
<1>1. Init => RoundIsTimed
  BY DEF Init, RoundIsTimed, NoRound
<1>2. Inv /\ RoundIsTimed /\ [Next]_vars => (Inv /\ RoundIsTimed)'
  BY NextInv, NextTimed
<1> QED BY <1>1, <1>2, InitInv, PTL DEF Spec
---------------------------------------------------------------------------
(* Where the requests are *)

\* The requests in a sequence of events, and that none is there twice.
Ids(s) == {i \in 1..MaxReqs : \E j \in DOMAIN s : s[j].k = "SetState" /\ s[j].id = i}
Once(s) == \A i, j \in DOMAIN s :
               s[i].k = "SetState" /\ s[j].k = "SetState" /\ s[i].id = s[j].id => i = j

\* Taking a request out of a queue.
LEMMA IdsTail ==
    ASSUME NEW s \in Seq(Event), s # <<>>, Once(s)
    PROVE  /\ Once(Tail(s))
           /\ Head(s).k = "SetState" => /\ Head(s).id \in Ids(s)
                                        /\ Ids(Tail(s)) = Ids(s) \ {Head(s).id}
           /\ Head(s).k # "SetState" => Ids(Tail(s)) = Ids(s)
<1>1. /\ \A j \in DOMAIN Tail(s) : j \in Nat /\ j > 0 /\ j + 1 \in DOMAIN s /\ Tail(s)[j] = s[j + 1]
      /\ \A j \in DOMAIN s : j = 1 \/ (j - 1 \in DOMAIN Tail(s) /\ Tail(s)[j - 1] = s[j])
      /\ 1 \in DOMAIN s /\ Head(s) = s[1] /\ Head(s) \in Event
  OBVIOUS
<1>2. Once(Tail(s))
  <2> SUFFICES ASSUME NEW i \in DOMAIN Tail(s), NEW j \in DOMAIN Tail(s),
                      Tail(s)[i].k = "SetState", Tail(s)[j].k = "SetState",
                      Tail(s)[i].id = Tail(s)[j].id
               PROVE  i = j
    BY DEF Once
  <2>1. i + 1 = j + 1 /\ i \in Nat /\ j \in Nat
    BY <1>1 DEF Once
  <2> QED BY <2>1
<1>3. Ids(Tail(s)) \subseteq Ids(s)
  BY <1>1 DEF Ids
<1>4. Ids(s) \subseteq Ids(Tail(s)) \cup (IF Head(s).k = "SetState" THEN {Head(s).id} ELSE {})
  <2> SUFFICES ASSUME NEW i \in 1..MaxReqs, NEW j \in DOMAIN s, s[j].k = "SetState", s[j].id = i
               PROVE  i \in Ids(Tail(s)) \/ (Head(s).k = "SetState" /\ i = Head(s).id)
    BY DEF Ids
  <2> QED BY <1>1, Zenon DEF Ids
<1>5. ASSUME Head(s).k = "SetState"
      PROVE  Head(s).id \in Ids(s) /\ Head(s).id \notin Ids(Tail(s))
  <2>1. Head(s).id \in 1..MaxReqs
    BY <1>1, <1>5, EventFields
  <2>2. \A j \in DOMAIN Tail(s) : ~(Tail(s)[j].k = "SetState" /\ Tail(s)[j].id = Head(s).id)
    <3> SUFFICES ASSUME NEW j \in DOMAIN Tail(s), Tail(s)[j].k = "SetState",
                        Tail(s)[j].id = Head(s).id
                 PROVE  FALSE
      OBVIOUS
    <3>1. j + 1 = 1 /\ j \in Nat /\ j > 0
      BY <1>1, <1>5 DEF Once
    <3> QED BY <3>1
  <2> QED BY <1>1, <1>5, <2>1, <2>2 DEF Ids
<1> QED BY <1>2, <1>3, <1>4, <1>5, Zenon

\* Posting an event; a request is posted where it is not yet.
LEMMA IdsAppend ==
    ASSUME NEW s \in Seq(Event), NEW e \in Event, Once(s),
           e.k = "SetState" => e.id \notin Ids(s)
    PROVE  /\ Once(Append(s, e))
           /\ e.k = "SetState" => Ids(Append(s, e)) = Ids(s) \cup {e.id}
           /\ e.k # "SetState" => Ids(Append(s, e)) = Ids(s)
<1> DEFINE t == Append(s, e)
<1>1. /\ Len(s) \in Nat /\ DOMAIN s = 1..Len(s) /\ DOMAIN t = 1..(Len(s) + 1)
      /\ t[Len(s) + 1] = e /\ \A j \in DOMAIN s : t[j] = s[j]
  OBVIOUS
<1>2. e.k = "SetState" => e.id \in 1..MaxReqs
  BY EventFields
<1> HIDE DEF t
<1>3. \A j \in DOMAIN t : j = Len(s) + 1 \/ j \in DOMAIN s
  BY <1>1
<1>4. DOMAIN s \subseteq DOMAIN t /\ Len(s) + 1 \in DOMAIN t
  BY <1>1
<1>5. e.k = "SetState" => \A j \in DOMAIN s : ~(s[j].k = "SetState" /\ s[j].id = e.id)
  BY <1>2 DEF Ids
<1>6. Once(t)
  BY <1>1, <1>3, <1>5 DEF Once
<1>7. Ids(t) = Ids(s) \cup (IF e.k = "SetState" THEN {e.id} ELSE {})
  <2>1. Ids(s) \subseteq Ids(t)
    BY <1>1, <1>4 DEF Ids
  <2>2. e.k = "SetState" => e.id \in Ids(t)
    BY <1>1, <1>2, <1>4 DEF Ids
  <2>3. Ids(t) \subseteq Ids(s) \cup (IF e.k = "SetState" THEN {e.id} ELSE {})
    <3> SUFFICES ASSUME NEW i \in 1..MaxReqs, NEW j \in DOMAIN t, t[j].k = "SetState", t[j].id = i
                 PROVE  i \in Ids(s) \/ (e.k = "SetState" /\ i = e.id)
      BY DEF Ids
    <3> QED BY <1>1, <1>3 DEF Ids
  <2> QED BY <2>1, <2>2, <2>3
<1> QED BY <1>6, <1>7 DEF t

\* A request on its way or queued is there once and was not answered; any other
\* request that was made has been answered once.
Placed ==
    /\ Once(fifo) /\ Once(queue)
    /\ Ids(fifo) \cap Ids(queue) = {} /\ Ids(fifo) \cup Ids(queue) \subseteq 1..asked
    /\ answers \in [1..MaxReqs -> Seq({"ok", "failed", "rejected"})]
    /\ \A i \in 1..MaxReqs :
           Len(answers[i]) = IF i <= asked /\ i \notin Ids(fifo) \cup Ids(queue) THEN 1 ELSE 0

\* The answer that ends the stay of a request.
LEMMA AnswerFacts ==
    ASSUME NEW i \in 1..MaxReqs, NEW r \in {"ok", "failed", "rejected"}, Answer(i, r),
           answers \in [1..MaxReqs -> Seq({"ok", "failed", "rejected"})]
    PROVE  /\ answers' \in [1..MaxReqs -> Seq({"ok", "failed", "rejected"})]
           /\ Len(answers'[i]) = Len(answers[i]) + 1
           /\ \A x \in 1..MaxReqs : x # i => answers'[x] = answers[x]
<1>1. answers[i] \in Seq({"ok", "failed", "rejected"})
  OBVIOUS
<1>2. /\ Append(answers[i], r) \in Seq({"ok", "failed", "rejected"})
      /\ Len(Append(answers[i], r)) = Len(answers[i]) + 1
  BY <1>1
<1> QED BY <1>2 DEF Answer

LEMMA NextPlaced == Inv /\ Placed /\ [Next]_vars => Placed'
<1> SUFFICES ASSUME Inv, Placed, [Next]_vars PROVE Placed'
  OBVIOUS
<1> USE NamesAssumption
<1>0. fifo \in Seq(Event) /\ queue \in Seq(Event) /\ asked \in 0..MaxReqs /\ queue \in Seq(Request)
  BY DEF Inv, Types, TypeOK, Event
<1> DEFINE still == UNCHANGED <<queue, answers, asked>>
<1>1. ASSUME still, Once(fifo'), Ids(fifo') = Ids(fifo) PROVE Placed'
  BY <1>1 DEF Placed
<1>2. CASE UNCHANGED vars \/ _process_next_queued
  BY <1>2, <1>1 DEF vars, round_, world, _process_next_queued, Placed
<1>3. CASE \/ _record_ack \/ _on_ack_timeout \/ _retry_local_confirm
          \/ _apply_add_machine \/ _apply_remove_machine \/ smfn_stopping
  <2>1. still /\ fifo # <<>> /\ fifo' = Tail(fifo) /\ Head(fifo).k # "SetState"
    BY <1>3 DEF _record_ack, _on_ack_timeout, _retry_local_confirm, _apply_add_machine,
                _apply_remove_machine, smfn_stopping, Takes, round_, world
  <2> QED BY <1>0, <1>1, <2>1, IdsTail DEF Placed
<1>4. CASE AckTimerDue \/ FTimerDue \/ Control \/ \E m \in Machines : slave_ack(m)
  <2>1. still
    BY <1>4, Zenon DEF AckTimerDue, FTimerDue, Control, slave_ack, rest, round_, world
  <2>2. \E e \in Event : e.k # "SetState" /\ fifo' = Append(fifo, e)
    <3>1. /\ \A m \in Machines, r \in {"ACK", "NACK"} : [k |-> "Ack", m |-> m, r |-> r] \in Event
          /\ \A k \in {"AckTimeout", "FTimeout", "Stop"} : [k |-> k] \in Event
          /\ \A k \in {"AddMachine", "RemoveMachine"}, m \in Machines : [k |-> k, m |-> m] \in Event
      BY EventKinds
    <3>2. CASE AckTimerDue \/ FTimerDue
      BY <3>1, <3>2 DEF AckTimerDue, FTimerDue, post_fifo
    <3>3. CASE Control
      BY <3>1, <3>3, Zenon DEF Control, Arrives, post_fifo
    <3>4. CASE \E m \in Machines : slave_ack(m)
      BY <3>1, <3>4, Zenon DEF slave_ack, Arrives, post_fifo
    <3> QED BY <1>4, <3>2, <3>3, <3>4
  <2> QED BY <1>0, <1>1, <2>1, <2>2, IdsAppend DEF Placed
<1>5. CASE _handle_set_state
  <2> DEFINE r == Head(fifo)
  <2>1. fifo # <<>> /\ fifo' = Tail(fifo) /\ r.k = "SetState" /\ asked' = asked
    BY <1>5 DEF _handle_set_state, Takes, world
  <2>2. r \in Event /\ r.id \in 1..MaxReqs
    BY <1>0, <2>1, TailFacts, EventFields
  <2>3. Once(fifo') /\ r.id \in Ids(fifo) /\ Ids(fifo') = Ids(fifo) \ {r.id}
    BY <1>0, <2>1, IdsTail DEF Placed
  <2> HIDE DEF r
  <2>4. r.id \notin Ids(queue) /\ r.id <= asked
    BY <2>3 DEF Placed
  <2>5. CASE Answer(r.id, "rejected") /\ UNCHANGED queue
    <3>1. /\ answers' \in [1..MaxReqs -> Seq({"ok", "failed", "rejected"})]
          /\ Len(answers'[r.id]) = Len(answers[r.id]) + 1
          /\ \A x \in 1..MaxReqs : x # r.id => answers'[x] = answers[x]
      BY <2>2, <2>5, AnswerFacts DEF Placed
    <3>2. Len(answers[r.id]) = 0
      BY <2>2, <2>3 DEF Placed
    <3>3. \A i \in 1..MaxReqs :
              Len(answers'[i]) = IF i <= asked /\ i \notin Ids(fifo') \cup Ids(queue) THEN 1 ELSE 0
      <4> SUFFICES ASSUME NEW i \in 1..MaxReqs
                   PROVE  Len(answers'[i])
                          = IF i <= asked /\ i \notin Ids(fifo') \cup Ids(queue) THEN 1 ELSE 0
        OBVIOUS
      <4>1. CASE i = r.id
        BY <2>3, <2>4, <3>1, <3>2, <4>1
      <4>2. CASE i # r.id
        BY <2>3, <3>1, <4>2, Zenon DEF Placed
      <4> QED BY <4>1, <4>2
    <3>4. Ids(fifo') \cap Ids(queue) = {} /\ Ids(fifo') \cup Ids(queue) \subseteq 1..asked
      BY <2>3 DEF Placed
    <3> QED BY <2>1, <2>3, <2>5, <3>1, <3>3, <3>4, Zenon DEF Placed
  <2>6. CASE Enqueue(r) /\ UNCHANGED answers
    <3>1. Once(queue') /\ Ids(queue') = Ids(queue) \cup {r.id}
      BY <1>0, <2>1, <2>2, <2>4, <2>6, IdsAppend, Zenon DEF Enqueue, Placed, r
    <3>2. Ids(fifo') \cup Ids(queue') = Ids(fifo) \cup Ids(queue) /\ Ids(fifo') \cap Ids(queue') = {}
      BY <2>3, <3>1 DEF Placed
    <3> QED BY <2>1, <2>3, <2>6, <3>1, <3>2 DEF Placed
  <2> QED BY <1>5, <2>5, <2>6 DEF _handle_set_state, r
<1>6. CASE _finish_set_state_round
  <2> DEFINE i == Head(queue).id
  <2>1. queue # <<>> /\ round.id = i /\ queue' = Tail(queue) /\ UNCHANGED <<fifo, asked>>
    BY <1>6 DEF _finish_set_state_round, NextRequest, Inv, RoundIsHead, world
  <2>2. Head(queue).k = "SetState" /\ i \in 1..MaxReqs
    <3>1. Head(queue) \in Request
      BY <1>0, <2>1
    <3> QED BY <3>1 DEF Request
  <2>3. Once(queue') /\ i \in Ids(queue) /\ Ids(queue') = Ids(queue) \ {i}
    BY <1>0, <2>1, <2>2, IdsTail DEF Placed
  <2>4. \E r \in {"ok", "failed", "rejected"} : Answer(round.id, r)
    BY <1>6 DEF _finish_set_state_round
  <2> HIDE DEF i
  <2>5. /\ answers' \in [1..MaxReqs -> Seq({"ok", "failed", "rejected"})]
        /\ Len(answers'[i]) = Len(answers[i]) + 1
        /\ \A x \in 1..MaxReqs : x # i => answers'[x] = answers[x]
    BY <2>1, <2>2, <2>4, AnswerFacts DEF Placed
  <2>6. i \notin Ids(fifo) /\ i <= asked /\ Len(answers[i]) = 0
    BY <2>2, <2>3 DEF Placed
  <2>7. \A x \in 1..MaxReqs :
            Len(answers'[x]) = IF x <= asked /\ x \notin Ids(fifo) \cup Ids(queue') THEN 1 ELSE 0
    <3> SUFFICES ASSUME NEW x \in 1..MaxReqs
                 PROVE  Len(answers'[x])
                        = IF x <= asked /\ x \notin Ids(fifo) \cup Ids(queue') THEN 1 ELSE 0
      OBVIOUS
    <3>1. CASE x = i
      BY <2>3, <2>5, <2>6, <3>1
    <3>2. CASE x # i
      BY <2>3, <2>5, <3>2 DEF Placed
    <3> QED BY <3>1, <3>2
  <2>8. Ids(fifo) \cap Ids(queue') = {} /\ Ids(fifo) \cup Ids(queue') \subseteq 1..asked
    BY <2>3 DEF Placed
  <2> QED BY <2>1, <2>3, <2>5, <2>7, <2>8, Zenon DEF Placed
<1>7. CASE set_state
  <2>1. PICK a \in Asks :
            fifo' = Append(fifo, [k |-> "SetState", id |-> asked + 1, m |-> a[1], s |-> a[2]])
    BY <1>7 DEF set_state, Arrives, post_fifo
  <2> DEFINE e == [k |-> "SetState", id |-> asked + 1, m |-> a[1], s |-> a[2]]
  <2>2. UNCHANGED <<queue, answers>> /\ asked' = asked + 1 /\ asked + 1 \in 1..MaxReqs
    BY <1>0, <1>7 DEF set_state, rest, round_
  <2>3. e \in Event /\ e.k = "SetState" /\ e.id = asked + 1
    <3>1. a[1] \in Names /\ a[2] \in States
      BY DEF Names
    <3> QED BY <2>2, <3>1, EventKinds
  <2>4. asked + 1 \notin Ids(fifo) /\ asked + 1 \notin Ids(queue)
    BY <1>0 DEF Placed
  <2> HIDE DEF e
  <2>5. Once(fifo') /\ Ids(fifo') = Ids(fifo) \cup {asked + 1}
    BY <1>0, <2>1, <2>3, <2>4, IdsAppend DEF Placed, e
  <2>6. /\ Ids(fifo') \cap Ids(queue) = {} /\ Ids(fifo') \cup Ids(queue) \subseteq 1..(asked + 1)
    <3>1. 1..asked \subseteq 1..(asked + 1) /\ asked + 1 \in 1..(asked + 1)
      BY <1>0
    <3> QED BY <2>4, <2>5, <3>1 DEF Placed
  <2>7. \A x \in 1..MaxReqs :
            Len(answers[x]) = IF x <= asked + 1 /\ x \notin Ids(fifo') \cup Ids(queue) THEN 1 ELSE 0
    BY <1>0, <2>4, <2>5 DEF Placed
  <2> QED BY <2>2, <2>5, <2>6, <2>7 DEF Placed
<1> QED BY <1>2, <1>3, <1>4, <1>5, <1>6, <1>7 DEF Next, Step

\* PowerSubsystem: from the moment it is made until it is answered a request is in
\* one place only, and it is answered once, however timeouts, refusals and the
\* arrival of others interleave.
THEOREM PowerRequestAccounted == Spec => []RequestAccounted
<1>1. Init => Placed
  <2> SUFFICES ASSUME Init PROVE Placed
    OBVIOUS
  <2>1. fifo = <<>> /\ queue = <<>> /\ asked = 0
    BY DEF Init
  <2>2. Once(<<>>) /\ Ids(<<>>) = {}
    BY DEF Once, Ids
  <2>3. /\ answers \in [1..MaxReqs -> Seq({"ok", "failed", "rejected"})]
        /\ \A i \in 1..MaxReqs : Len(answers[i]) = 0 /\ ~(i <= 0)
    BY DEF Init
  <2> QED BY <2>1, <2>2, <2>3 DEF Placed
<1>2. ASSUME Inv, Placed PROVE RequestAccounted
  <2> SUFFICES ASSUME NEW i \in 1..asked
               PROVE  Cardinality({j \in DOMAIN fifo : fifo[j].k = "SetState" /\ fifo[j].id = i})
                      + Cardinality({j \in DOMAIN queue : queue[j].id = i}) + Len(answers[i]) = 1
    BY DEF RequestAccounted
  <2> DEFINE A == {j \in DOMAIN fifo : fifo[j].k = "SetState" /\ fifo[j].id = i}
             Q == {j \in DOMAIN queue : queue[j].id = i}
  <2>1. i \in 1..MaxReqs /\ i <= asked
    BY <1>2, NamesAssumption DEF Inv, Types
  <2>2. Cardinality({}) = 0 /\ \A x : Cardinality({x}) = 1
    BY FS_EmptySet, FS_Singleton, Zenon
  <2>3. \A j \in DOMAIN queue : queue[j].k = "SetState"
    <3>1. \A j \in DOMAIN queue : queue[j] \in Request
      BY <1>2 DEF Inv, Types, TypeOK
    <3> QED BY <3>1 DEF Request
  <2>4. Cardinality(A) = IF i \in Ids(fifo) THEN 1 ELSE 0
    <3>1. CASE i \in Ids(fifo)
      <4>1. PICK j \in DOMAIN fifo : fifo[j].k = "SetState" /\ fifo[j].id = i
        BY <3>1 DEF Ids
      <4>2. A = {j}
        BY <1>2, <4>1 DEF Placed, Once
      <4> HIDE DEF A
      <4> QED BY <2>2, <3>1, <4>2, Zenon
    <3>2. CASE i \notin Ids(fifo)
      <4>1. A = {}
        BY <2>1, <3>2 DEF Ids
      <4> HIDE DEF A
      <4> QED BY <2>2, <3>2, <4>1
    <3> QED BY <3>1, <3>2
  <2>5. Cardinality(Q) = IF i \in Ids(queue) THEN 1 ELSE 0
    <3>1. CASE i \in Ids(queue)
      <4>1. PICK j \in DOMAIN queue : queue[j].k = "SetState" /\ queue[j].id = i
        BY <3>1 DEF Ids
      <4>2. Q = {j}
        BY <1>2, <2>3, <4>1 DEF Placed, Once
      <4> HIDE DEF Q
      <4> QED BY <2>2, <3>1, <4>2, Zenon
    <3>2. CASE i \notin Ids(queue)
      <4>1. Q = {}
        BY <2>1, <2>3, <3>2 DEF Ids
      <4> HIDE DEF Q
      <4> QED BY <2>2, <3>2, <4>1
    <3> QED BY <3>1, <3>2
  <2> HIDE DEF A, Q
  <2>6. /\ Len(answers[i]) = IF i \notin Ids(fifo) \cup Ids(queue) THEN 1 ELSE 0
        /\ ~(i \in Ids(fifo) /\ i \in Ids(queue))
    BY <1>2, <2>1 DEF Placed
  <2>7. Cardinality(A) + Cardinality(Q) + Len(answers[i]) = 1
    BY <2>4, <2>5, <2>6
  <2> QED BY <2>7 DEF A, Q
<1>3. Inv /\ Placed /\ [Next]_vars => (Inv /\ Placed)'
  BY NextInv, NextPlaced
<1> QED BY <1>1, <1>2, <1>3, InitInv, PTL DEF Spec

---------------------------------------------------------------------------
(* What the duplicate check foresees *)

\* A set of positions that is not empty has a last one.
LEMMA Largest ==
    ASSUME NEW n \in Nat, NEW M \in SUBSET (1..n), M # {}
    PROVE  \E x \in M : \A y \in M : y <= x
<1> DEFINE T == {k \in Nat : n - k \in M}
           R == {ss \in Nat \X Nat : ss[1] < ss[2]}
<1>1. T \subseteq Nat /\ T # {}
  <2>1. PICK x \in M : TRUE
    OBVIOUS
  <2>2. n - x \in Nat /\ n - (n - x) = x
    OBVIOUS
  <2> QED BY <2>1, <2>2
<1>2. \A a \in Nat, b \in Nat : <<a, b>> \in R <=> a < b
  OBVIOUS
<1>3. IsWellFoundedOn(R, Nat)
  BY NatLessThanWellFounded DEF OpToRel
<1> HIDE DEF T, R
<1>4. PICK k \in T : \A y \in T : ~(<<y, k>> \in R)
  BY <1>1, <1>3, WFMin, Zenon
<1>5. k \in Nat /\ n - k \in M
  BY <1>1 DEF T
<1>6. ASSUME NEW y \in M PROVE y <= n - k
  <2>1. n - y \in T /\ n - y \in Nat
    BY DEF T
  <2>2. ~(n - y < k)
    BY <1>2, <1>4, <1>5, <2>1, Zenon
  <2> QED BY <1>5, <2>1, <2>2
<1> QED BY <1>5, <1>6

\* No machine came or went, and every machine with a state is registered.
Steady == controls = 0 /\ \A m \in Machines : state[m] # "UNKNOWN" => m \in registered

\* The i-th request of q will change t: the last request before it that is for t
\* leaves another state, or none is for t and t has another state now.
Changes(q, i, t) ==
    \/ /\ \A j \in 1..(i - 1) : t \notin _resolve_targets(q[j].m)
       /\ state[t] # q[i].s
    \/ \E j \in 1..(i - 1) :
           /\ t \in _resolve_targets(q[j].m) /\ q[j].s # q[i].s
           /\ \A l \in (j + 1)..(i - 1) : t \notin _resolve_targets(q[l].m)

Useful(q, i) == \E t \in _resolve_targets(q[i].m) : Changes(q, i, t)

\* Every queued request that still waits for its round will change some machine.
Foreseen ==
    /\ round.id # 0 => round.m = Head(queue).m
    /\ \A m \in registered : state[m] # "UNKNOWN"
    /\ controls \in Nat
    /\ controls = 0 => \A e \in Range(fifo) : e.k \notin {"AddMachine", "RemoveMachine"}
    /\ Steady => \A i \in DOMAIN queue : i > 1 \/ pc = "process" => Useful(queue, i)

\* What the check at the arrival of a request says about its place in the queue.
LEMMA EnqueueUseful ==
    ASSUME Inv, NEW r \in Request, _should_enqueue(r)
    PROVE  Useful(Append(queue, r), Len(queue) + 1)
<1> DEFINE n == Len(queue)
           q == Append(queue, r)
<1>1. n \in Nat /\ DOMAIN queue = 1..n /\ q[n + 1] = r /\ \A j \in 1..n : q[j] = queue[j]
  BY DEF Inv, Types, TypeOK
<1>2. PICK t \in _resolve_targets(r.m) : _last_queued_state(t) # r.s
  BY DEF _should_enqueue
<1> DEFINE mine == {i \in DOMAIN queue : t \in _resolve_targets(queue[i].m)}
           last == CHOOSE i \in mine : \A j \in mine : j <= i
<1>3. _last_queued_state(t) = IF mine = {} THEN state[t] ELSE queue[last].s
  BY DEF _last_queued_state
<1>4. n + 1 - 1 = n
  BY <1>1
<1>5. CASE mine = {}
  <2>1. state[t] # r.s /\ \A j \in 1..n : t \notin _resolve_targets(queue[j].m)
    BY <1>1, <1>2, <1>3, <1>5
  <2> HIDE DEF q, n, mine
  <2> QED BY <1>1, <1>2, <1>4, <2>1 DEF Useful, Changes, q, n
<1>6. CASE mine # {}
  <2>1. last \in mine /\ \A j \in mine : j <= last
    <3>1. mine \in SUBSET (1..n)
      BY <1>1
    <3> HIDE DEF mine
    <3>2. \E x \in mine : \A y \in mine : y <= x
      BY <1>1, <1>6, <3>1, Largest, Zenon
    <3> QED BY <3>2
  <2> HIDE DEF last
  <2>2. last \in 1..n /\ t \in _resolve_targets(queue[last].m) /\ queue[last].s # r.s
    BY <1>1, <1>2, <1>3, <1>6, <2>1
  <2>3. \A l \in (last + 1)..n : t \notin _resolve_targets(queue[l].m)
    BY <1>1, <2>1, <2>2
  <2>4. \A l \in (last + 1)..n : l \in 1..n
    BY <1>1, <2>2
  <2> HIDE DEF q, n, mine
  <2>5. Changes(q, n + 1, t)
    BY <1>1, <1>4, <2>2, <2>3, <2>4 DEF Changes
  <2> QED BY <1>1, <1>2, <2>5 DEF Useful, q, n
<1> QED BY <1>5, <1>6

\* Events that do not come from the registry leave no trace of it.
LEMMA NoRegistryEvent ==
    ASSUME NEW s \in Seq(Event), NEW K,
           \A e \in Range(s) : e.k \notin K
    PROVE  /\ s # <<>> => Head(s).k \notin K /\ \A e \in Range(Tail(s)) : e.k \notin K
           /\ \A a \in Event : a.k \notin K => \A e \in Range(Append(s, a)) : e.k \notin K
<1>1. s # <<>> => /\ 1 \in DOMAIN s /\ Head(s) = s[1]
                  /\ \A j \in DOMAIN Tail(s) : j + 1 \in DOMAIN s /\ Tail(s)[j] = s[j + 1]
  OBVIOUS
<1>2. \A a \in Event : \A j \in DOMAIN Append(s, a) :
          Append(s, a)[j] = a \/ (j \in DOMAIN s /\ Append(s, a)[j] = s[j])
  OBVIOUS
<1> QED BY <1>1, <1>2 DEF Range

\* Steps that leave the queue and the machines alone.
LEMMA ForeseenStays ==
    ASSUME Foreseen, UNCHANGED <<queue, state, registered>>,
           pc' = "process" => pc = "process",
           round'.id # 0 => round'.m = Head(queue).m,
           controls' \in Nat,
           controls' = 0 => /\ controls = 0
                            /\ \A e \in Range(fifo') : e.k \notin {"AddMachine", "RemoveMachine"}
    PROVE  Foreseen'
<1>1. Steady' => Steady
  BY DEF Steady
<1>2. \A i \in DOMAIN queue : Useful(queue, i) => Useful(queue, i)'
  BY DEF Useful, Changes, _resolve_targets
<1> QED BY <1>1, <1>2 DEF Foreseen

\* A request that is queued will change a machine, and so will those before it.
LEMMA EnqueueForeseen ==
    ASSUME Inv, Foreseen, _handle_set_state, _should_enqueue(Head(fifo)), Enqueue(Head(fifo)),
           controls = 0 => \A e \in Range(fifo') : e.k \notin {"AddMachine", "RemoveMachine"}
    PROVE  Foreseen'
<1> DEFINE r == Head(fifo)
           n == Len(queue)
<1>1. r \in Request /\ UNCHANGED <<registered, state, round, controls>>
  BY HeadFacts, EventFields DEF _handle_set_state, Takes, world
<1>2. queue' = Append(queue, r) /\ pc' = IF queue = <<>> THEN "process" ELSE "idle"
  BY DEF Enqueue
<1>3. /\ n \in Nat /\ DOMAIN queue = 1..n /\ DOMAIN queue' = 1..(n + 1)
      /\ \A j \in 1..n : queue'[j] = queue[j]
  BY <1>1, <1>2 DEF Inv, Types, TypeOK
<1>4. round.id # 0 => round.m = Head(queue').m
  <2>1. round.id # 0 => queue # <<>>
    BY DEF Inv, RoundIsHead
  <2>2. queue # <<>> => Head(queue') = Head(queue)
    BY <1>1, <1>2, AppendFacts DEF Inv, Types, TypeOK
  <2> QED BY <2>1, <2>2 DEF Foreseen
<1>5. ASSUME Steady, NEW i \in DOMAIN queue', i > 1 \/ pc' = "process"
      PROVE  Useful(queue', i)
  <2>1. CASE i = n + 1
    BY <1>1, <1>2, <2>1, EnqueueUseful
  <2>2. CASE i \in 1..n
    <3>1. i > 1
      <4>1. queue # <<>>
        BY <1>3, <2>2
      <4> QED BY <1>2, <1>5, <4>1
    <3>2. Useful(queue, i)
      BY <1>3, <1>5, <2>2, <3>1 DEF Foreseen
    <3>3. queue'[i] = queue[i] /\ \A j \in 1..(i - 1) : queue'[j] = queue[j]
      BY <1>3, <2>2
    <3>4. \A j \in 1..(i - 1) : \A l \in (j + 1)..(i - 1) : l \in 1..(i - 1)
      BY <1>3, <2>2
    <3> QED BY <3>2, <3>3, <3>4 DEF Useful, Changes
  <2> QED BY <1>3, <2>1, <2>2
<1>6. Steady' => Steady
  BY <1>1 DEF Steady
<1>7. \A i \in DOMAIN queue' : Useful(queue', i) => Useful(queue, i)'
  BY <1>1 DEF Useful, Changes, _resolve_targets
<1> QED BY <1>1, <1>4, <1>5, <1>6, <1>7, Zenon DEF Foreseen

\* A round that ends leaves each machine in the state that was foreseen.
LEMMA FinishForeseen ==
    ASSUME Inv, Foreseen, _finish_set_state_round
    PROVE  Foreseen'
<1> USE NamesAssumption
<1> DEFINE h == Head(queue)
           Hits(t) == t \in _resolve_targets(h.m)
<1>1. /\ queue # <<>> /\ round.m = h.m /\ round.s = h.s
      /\ queue' = Tail(queue) /\ round'.id = 0
      /\ UNCHANGED <<fifo, registered, controls>>
  BY Zenon DEF _finish_set_state_round, NextRequest, NoRound, Inv, RoundIsHead, Foreseen, world
<1>2. h \in Request /\ h.m \in Names /\ h.s \in States /\ h.s # "UNKNOWN"
  <2>1. h \in Request
    BY <1>1, TailFacts, Zenon DEF Inv, Types, TypeOK
  <2> QED BY <2>1 DEF Request, Names, States
<1>3. /\ h = queue[1]
      /\ \A j \in DOMAIN queue' : j \in Nat /\ j > 0 /\ j + 1 \in DOMAIN queue
                                   /\ queue'[j] = queue[j + 1]
                                   /\ \A l \in 1..j : queue'[l] = queue[l + 1]
  <2>1. queue \in Seq(Request)
    BY DEF Inv, Types, TypeOK
  <2> QED BY <1>1, <2>1
<1>4. state' = [m \in Machines |-> IF (h.m = All /\ state[m] # "UNKNOWN") \/ h.m = m
                                   THEN h.s ELSE state[m]]
  BY <1>1, Zenon DEF _finish_set_state_round, _apply_state_update
<1> HIDE DEF h
<1>5. \A m \in Machines : state[m] # "UNKNOWN" => state'[m] # "UNKNOWN"
  BY <1>2, <1>4
<1>6. registered \subseteq Machines
  BY DEF Inv, Types, TypeOK
<1>7. Steady' => Steady
  BY <1>1, <1>5 DEF Steady
<1>8. \A t \in Machines : Hits(t) => state'[t] = h.s
  BY <1>4, <1>6 DEF _resolve_targets, Foreseen
<1>9. Steady => \A t \in Machines : ~Hits(t) => state'[t] = state[t]
  BY <1>4 DEF _resolve_targets, Steady
<1>10. ASSUME Steady, NEW i \in DOMAIN queue' PROVE Useful(queue, i)'
  <2>1. Useful(queue, i + 1) /\ i \in Nat /\ i > 0 /\ i + 1 - 1 = i /\ queue'[i] = queue[i + 1]
    BY <1>3, <1>10 DEF Foreseen
  <2>2. queue[i + 1] \in Request
    BY <1>3 DEF Inv, Types, TypeOK
  <2>3. queue[i + 1].m \in Names
    BY <2>2 DEF Request, Names
  <2>4. PICK t \in _resolve_targets(queue[i + 1].m) : Changes(queue, i + 1, t)
    BY <2>1 DEF Useful
  <2>5. t \in Machines
    BY <2>3, TargetsType
  <2> DEFINE For(j) == t \in _resolve_targets(queue[j].m)
             s == queue[i + 1].s
  <2>6. /\ \A j \in 1..(i - 1) : j + 1 \in 1..i /\ queue'[j] = queue[j + 1]
        /\ 1 \in 1..i
    BY <1>3, <2>1
  <2>7. For(1) <=> Hits(t)
    BY <1>3
  <2>8. \/ (\A j \in 1..i : ~For(j)) /\ state[t] # s
        \/ \E j \in 1..i : For(j) /\ queue[j].s # s /\ \A l \in (j + 1)..i : ~For(l)
    BY <2>1, <2>4 DEF Changes
  <2> DEFINE shifted ==
                 \/ (\A j \in 1..(i - 1) : ~For(j + 1)) /\ state'[t] # s
                 \/ \E j \in 1..(i - 1) : /\ For(j + 1) /\ queue[j + 1].s # s
                                          /\ \A l \in (j + 1)..(i - 1) : ~For(l + 1)
  <2>9. shifted
    <3>1. CASE (\A j \in 1..i : ~For(j)) /\ state[t] # s
      BY <1>9, <1>10, <2>5, <2>6, <2>7, <3>1
    <3>2. ASSUME NEW j \in 1..i, For(j), queue[j].s # s, \A l \in (j + 1)..i : ~For(l)
          PROVE  shifted
      <4> HIDE DEF For, s
      <4>1. CASE j = 1
        <5>1. \A l \in 1..(i - 1) : l + 1 \in (1 + 1)..i
          BY <2>1
        <5>2. state'[t] # s
          BY <1>3, <1>8, <2>5, <2>7, <3>2, <4>1
        <5> QED BY <3>2, <4>1, <5>1, <5>2
      <4>2. CASE j # 1
        <5>1. j - 1 \in 1..(i - 1) /\ (j - 1) + 1 = j
          BY <2>1, <4>2
        <5>2. \A l \in ((j - 1) + 1)..(i - 1) : l + 1 \in (j + 1)..i
          BY <2>1, <4>2
        <5> QED BY <3>2, <5>1, <5>2
      <4> QED BY <4>1, <4>2
    <3> QED BY <2>8, <3>1, <3>2
  <2>10. \A j \in 1..(i - 1) : (t \in _resolve_targets(queue[j].m))' <=> For(j + 1)
    BY <1>1, <2>6 DEF _resolve_targets
  <2>11. \A j \in 1..(i - 1) : \A l \in (j + 1)..(i - 1) : l \in 1..(i - 1)
    BY <2>1
  <2>12. Changes(queue, i, t)'
    <3> HIDE DEF For
    <3> QED BY <2>1, <2>6, <2>9, <2>10, <2>11 DEF Changes
  <2>13. (t \in _resolve_targets(queue[i].m))'
    BY <1>1, <2>1, <2>4 DEF _resolve_targets
  <2> QED BY <2>12, <2>13 DEF Useful
<1> QED BY <1>1, <1>5, <1>6, <1>7, <1>10, Zenon DEF Foreseen

LEMMA NextForeseen == Inv /\ Foreseen /\ [Next]_vars => Foreseen'
<1> SUFFICES ASSUME Inv, Foreseen, [Next]_vars PROVE Foreseen'
  OBVIOUS
<1> DEFINE K == {"AddMachine", "RemoveMachine"}
           still == UNCHANGED <<queue, state, registered>> /\ (pc' = "process" => pc = "process")
           kept == (round'.id = round.id /\ round'.m = round.m) \/ round'.id = 0
<1>0. fifo \in Seq(Event) /\ round \in Round /\ controls \in Nat
  BY DEF Inv, Types, Foreseen
<1>1. controls = 0 => /\ fifo # <<>> => Head(fifo).k \notin K
                      /\ fifo # <<>> => \A e \in Range(Tail(fifo)) : e.k \notin K
                      /\ \A a \in Event : a.k \notin K => \A e \in Range(Append(fifo, a)) : e.k \notin K
  <2> HIDE DEF K
  <2>1. controls = 0 => \A e \in Range(fifo) : e.k \notin K
    BY DEF Foreseen, K
  <2> QED BY <1>0, <2>1, NoRegistryEvent
<1>2. ASSUME still, kept, fifo' = fifo \/ (fifo # <<>> /\ fifo' = Tail(fifo)), controls' = controls
      PROVE  Foreseen'
  <2>1. round'.id # 0 => round'.m = Head(queue).m
    BY <1>2 DEF Foreseen
  <2>2. controls' = 0 => \A e \in Range(fifo') : e.k \notin K
    BY <1>1, <1>2, Zenon DEF Foreseen
  <2> QED BY <1>0, <1>2, <2>1, <2>2, ForeseenStays
<1>3. ASSUME still, kept, NEW a \in Event, fifo' = Append(fifo, a), a.k \notin K, controls' = controls
      PROVE  Foreseen'
  <2>1. round'.id # 0 => round'.m = Head(queue).m
    BY <1>3 DEF Foreseen
  <2>2. controls' = 0 => \A e \in Range(fifo') : e.k \notin K
    BY <1>1, <1>3
  <2> QED BY <1>0, <1>3, <2>1, <2>2, ForeseenStays
<1>4. CASE UNCHANGED vars
  BY <1>2, <1>4 DEF vars, round_, world
<1>5. CASE _handle_set_state
  <2>1. fifo # <<>> /\ fifo' = Tail(fifo) /\ UNCHANGED <<registered, state, round, controls>>
    BY <1>5 DEF _handle_set_state, Takes, world
  <2>2. CASE UNCHANGED <<queue, pc>>
    BY <1>2, <2>1, <2>2
  <2>3. CASE _should_enqueue(Head(fifo)) /\ Enqueue(Head(fifo))
    BY <1>1, <1>5, <2>1, <2>3, EnqueueForeseen
  <2> QED BY <1>5, <2>2, <2>3 DEF _handle_set_state
<1>6. CASE _process_next_queued
  <2>1. round'.m = Head(queue).m
    BY <1>6 DEF _process_next_queued, NoRound
  <2>2. still /\ UNCHANGED <<fifo, controls>>
    BY <1>6 DEF _process_next_queued
  <2> QED BY <2>1, <2>2, ForeseenStays DEF Foreseen
<1>7. CASE _record_ack \/ _on_ack_timeout \/ _retry_local_confirm \/ smfn_stopping
  <2>1. still /\ fifo # <<>> /\ fifo' = Tail(fifo) /\ controls' = controls
    BY <1>7 DEF _record_ack, _on_ack_timeout, _retry_local_confirm, smfn_stopping, Takes,
                round_, world
  <2>2. kept
    <3>1. CASE _record_ack
      BY <1>0, <3>1 DEF _record_ack, Round
    <3>2. CASE _on_ack_timeout \/ _retry_local_confirm \/ smfn_stopping
      BY <3>2 DEF _on_ack_timeout, _retry_local_confirm, smfn_stopping, round_
    <3> QED BY <1>7, <3>1, <3>2
  <2> QED BY <1>2, <2>1, <2>2
<1>8. CASE _finish_set_state_round
  BY <1>8, FinishForeseen
<1>9. CASE _apply_add_machine \/ _apply_remove_machine
  <2>1. /\ fifo # <<>> /\ Head(fifo).k \in K /\ Head(fifo) \in Event
        /\ UNCHANGED <<queue, round, controls>>
    BY <1>9, HeadFacts DEF _apply_add_machine, _apply_remove_machine, Takes, round_, world
  <2>2. controls # 0
    BY <1>1, <2>1
  <2>3. \A m \in registered' : state'[m] # "UNKNOWN"
    <3>1. Head(fifo).m \in Machines /\ state \in [Machines -> States \cup {"UNKNOWN"}]
          /\ registered \subseteq Machines
      BY <2>1, EventFields DEF Inv, Types, TypeOK
    <3> QED BY <1>9, <3>1 DEF _apply_add_machine, _apply_remove_machine, Foreseen
  <2> QED BY <2>1, <2>2, <2>3 DEF Foreseen, Steady
<1>10. CASE AckTimerDue \/ FTimerDue \/ set_state \/ \E m \in Machines : slave_ack(m)
  <2>1. still /\ kept /\ controls' = controls
    BY <1>10, Zenon DEF AckTimerDue, FTimerDue, set_state, slave_ack, rest, round_, world
  <2>2. \E a \in Event : a.k \notin K /\ fifo' = Append(fifo, a)
    <3>1. CASE AckTimerDue \/ FTimerDue
      BY <3>1, EventKinds, Zenon DEF AckTimerDue, FTimerDue, post_fifo
    <3>2. CASE set_state
      <4>1. PICK a \in Asks :
                fifo' = Append(fifo, [k |-> "SetState", id |-> asked + 1, m |-> a[1], s |-> a[2]])
        BY <3>2 DEF set_state, Arrives, post_fifo
      <4>2. a[1] \in Names /\ a[2] \in States /\ asked + 1 \in 1..MaxReqs
        BY <3>2, NamesAssumption DEF Names, set_state, Inv, Types
      <4> QED BY <4>1, <4>2, EventKinds
    <3>3. CASE \E m \in Machines : slave_ack(m)
      BY <3>3, EventKinds, Zenon DEF slave_ack, Arrives, post_fifo
    <3> QED BY <1>10, <3>1, <3>2, <3>3
  <2> QED BY <1>3, <2>1, <2>2
<1>11. CASE Control
  <2>1. UNCHANGED <<queue, state, registered, round, pc>> /\ controls' = controls + 1
    BY <1>11 DEF Control, rest, round_
  <2>2. controls' \in Nat /\ controls' # 0
    BY <1>0, <2>1
  <2> QED BY <2>1, <2>2, ForeseenStays, Zenon DEF Foreseen
<1> QED BY <1>4, <1>5, <1>6, <1>7, <1>8, <1>9, <1>10, <1>11 DEF Next, Step

\* PowerSubsystem: while no machine comes or goes and every machine with a state is
\* registered, the duplicate check lets no request through whose round would change
\* nothing, however many requests are queued and however their rounds end.
THEOREM PowerNoIdleRound == Spec => []NoIdleRound
<1>1. Init => Foreseen
  <2> SUFFICES ASSUME Init PROVE Foreseen
    OBVIOUS
  <2>1. round.id = 0 /\ controls = 0 /\ Range(fifo) = {} /\ DOMAIN queue = {}
    BY DEF Init, NoRound, Range
  <2>2. \A m \in registered : state[m] # "UNKNOWN"
    BY NamesAssumption DEF Init
  <2> QED BY <2>1, <2>2 DEF Foreseen
<1>2. ASSUME Inv, Foreseen PROVE NoIdleRound
  <2> SUFFICES ASSUME pc = "process", Steady
               PROVE  \E t \in _resolve_targets(Head(queue).m) : state[t] # Head(queue).s
    BY DEF NoIdleRound, Steady
  <2>1. 1 \in DOMAIN queue /\ Head(queue) = queue[1]
    BY <1>2 DEF Inv, Types, TypeOK, RoundIsHead
  <2>2. Useful(queue, 1)
    BY <1>2, <2>1 DEF Foreseen
  <2>3. 1..(1 - 1) = {}
    OBVIOUS
  <2> QED BY <2>1, <2>2, <2>3 DEF Useful, Changes
<1>3. Inv /\ Foreseen /\ [Next]_vars => (Inv /\ Foreseen)'
  BY NextInv, NextForeseen
<1> QED BY <1>1, <1>2, <1>3, InitInv, PTL DEF Spec
=============================================================================
