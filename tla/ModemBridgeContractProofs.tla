---------------------- MODULE ModemBridgeContractProofs ----------------------
(***************************************************************************)
(* What the callers of ModemBridge rely on.  An observer knows whether the *)
(* bridge is Operational; a subscriber keeps its callback until it         *)
(* unsubscribes, and drain() is a fence for callbacks, both within the     *)
(* bridge's first start().  And ModemBridge implements                     *)
(* RpcContract, for any number of requests: every step of the bridge is a  *)
(* step of the contract or leaves the status of every request alone.       *)
(*                                                                         *)
(* To the invariant of the RPC path the last proof adds who may drop a     *)
(* request: the terminal state is entered only after stop() was called     *)
(* (Asked).                                                                *)
(***************************************************************************)
EXTENDS ModemBridgePubSubProofs

(***************************************************************************)
(* What an observer was told.  A manager whose SubscribeConnectivity is    *)
(* not yet handled has been told nothing.                                  *)
(***************************************************************************)
Fresh ==
    \A m \in Managers :
        Stage(pc[m]) < 2 \/ Sub("SubscribeConnectivity", m) \in Evs(q, m)
            => m \notin observers /\ told[m] = "none"

\* Every step keeps an unhandled observer uninformed, and every observer told
\* whether the bridge is Operational.
LEMMA InformedStep ==
    ASSUME TypeOK, Stopping, Lives, Fresh, ObserversInformed, StepKind
    PROVE  Fresh' /\ ObserversInformed'
<1> DEFINE Sc(m) == Sub("SubscribeConnectivity", m)
           Pending(m) == Stage(pc[m]) < 2 \/ Sc(m) \in Evs(q, m)
<1>1. /\ pc \in [Managers -> {"new", "subscribed", "live", "leaving", "left", "draining", "gone"}]
      /\ told \in [Managers -> {"none", "up", "down"}] /\ observers \subseteq Managers
  BY DEF TypeOK
<1>f. \A m \in Managers : Pending(m) => m \notin observers /\ told[m] = "none"
  BY DEF Fresh
<1>c. Calm /\ pc' = pc => \A m \in Managers : Pending(m)' => Pending(m)
  BY DEF Calm
<1>g. ASSUME \A m \in Managers : Pending(m)' => Pending(m), observers' \subseteq observers,
             told' = told \/ \E v : notifyConnectivity_(v)
      PROVE  Fresh'
  BY <1>g, <1>f DEF Fresh, notifyConnectivity_
<1>2. CASE Nothing \/ Calling
  <2>1. Calm /\ UNCHANGED <<pc, observers, told, st>>
    BY <1>2 DEF Nothing, Calling, Quietly
  <2> QED BY <2>1, <1>c, <1>g DEF ObserversInformed
<1>3. CASE Moving
  <2>1. Calm /\ UNCHANGED <<pc, observers, told>> /\ st # "Operational" /\ st' # "Operational"
    BY <1>3 DEF Moving, Quietly
  <2> QED BY <2>1, <1>c, <1>g DEF ObserversInformed
<1>4. CASE Restarting
  <2>1. Calm /\ UNCHANGED <<pc, observers, told>> /\ st # "Operational" /\ st' # "Operational"
    BY <1>4 DEF Restarting, start_at, Stopping
  <2> QED BY <2>1, <1>c, <1>g DEF ObserversInformed
<1>5. CASE Falling
  <2>1. /\ Calm /\ UNCHANGED <<pc, observers>> /\ st' # "Operational"
        /\ notifyConnectivity_("down")
    BY <1>5 DEF Falling, Quietly
  <2>2. ObserversInformed'
    BY <2>1, <1>1 DEF ObserversInformed, notifyConnectivity_
  <2> QED BY <2>1, <2>2, <1>c, <1>g
<1>6. CASE Rising
  <2>1. Calm /\ UNCHANGED <<pc, observers>> /\ st' = "Operational" /\ notifyConnectivity_("up")
    BY <1>6 DEF Rising, Quietly
  <2>2. ObserversInformed'
    BY <2>1, <1>1 DEF ObserversInformed, notifyConnectivity_
  <2> QED BY <2>1, <2>2, <1>c, <1>g
<1>t. ASSUME NEW m \in Managers, NEW e, Takes(m, e), \A n \in Managers : Stage(pc'[n]) >= Stage(pc[n])
      PROVE  \A n \in Managers : Pending(n)' => Pending(n)
  BY <1>t, RankType DEF Takes, Becomes
<1>s. \A p : Stage(p) >= Stage(p)
  BY RankType
<1>7. ASSUME NEW m \in Managers, Observing(m) PROVE Fresh' /\ ObserversInformed'
  <2>1. /\ Takes(m, Sc(m)) /\ observers' = observers \cup {m} /\ UNCHANGED <<pc, st>>
        /\ \/ st = "Operational" /\ told' = [told EXCEPT ![m] = "up"]
           \/ st # "Operational" /\ told' = told
    BY <1>7 DEF Observing
  <2>2. Pending(m) /\ ~Pending(m)'
    <3>1. Sc(m) \in Evs(q, m) /\ Sc(m) \notin Evs(q', m)
      BY <2>1 DEF Takes, Becomes
    <3>2. Stage(pc[m]) >= 2
      BY <3>1, RankFacts, RankType DEF Lives
    <3> QED BY <2>1, <3>1, <3>2, RankType
  <2>3. \A n \in Managers : Pending(n)' => Pending(n)
    BY <2>1, <1>t, <1>s
  <2>4. Fresh'
    <3> SUFFICES ASSUME NEW n \in Managers, Pending(n)' PROVE n \notin observers' /\ told'[n] = "none"
      BY DEF Fresh
    <3>1. n # m /\ Pending(n)
      BY <2>2, <2>3, Zenon
    <3> HIDE DEF Pending
    <3> QED BY <2>1, <3>1, <1>1, <1>f
  <2>5. told[m] = "none"
    BY <2>2, <1>f, Zenon
  <2>6. ObserversInformed'
    BY <2>1, <2>5, <1>1 DEF ObserversInformed
  <2> QED BY <2>4, <2>6
<1>8. ASSUME NEW m \in Managers,
             Unobserving(m) \/ Subscribing(m) \/ Unsubscribing(m) \/ Discarding(m)
      PROVE  Fresh' /\ ObserversInformed'
  <2>1. /\ \E e : Takes(m, e)
        /\ observers' \subseteq observers /\ UNCHANGED <<pc, told, st>>
    BY <1>8 DEF Unobserving, Subscribing, Unsubscribing, Discarding
  <2>2. \A n \in Managers : Pending(n)' => Pending(n)
    BY <2>1, <1>t, <1>s
  <2> HIDE DEF Pending
  <2> QED BY <2>1, <2>2, <1>g DEF ObserversInformed
<1>9. ASSUME NEW m \in Managers, Drained(m) PROVE Fresh' /\ ObserversInformed'
  <2>1. /\ Takes(m, Drain(m)) /\ UNCHANGED <<observers, told, st>>
        /\ pc'[m] = "gone" /\ \A n \in Managers : n # m => pc'[n] = pc[n]
    BY <1>9, <1>1 DEF Drained
  <2>2. \A n \in Managers : Stage(pc'[n]) >= Stage(pc[n])
    BY <2>1, StageFacts, RankType
  <2>3. \A n \in Managers : Pending(n)' => Pending(n)
    BY <2>1, <2>2, <1>t, Zenon
  <2> HIDE DEF Pending
  <2> QED BY <2>1, <2>3, <1>g, Zenon DEF ObserversInformed
<1>10. ASSUME NEW m \in Managers, Posting(m) PROVE Fresh' /\ ObserversInformed'
  <2>1. UNCHANGED <<observers, told, st>>
    BY <1>10 DEF Posting
  <2>2. PICK e \in Event :
           /\ Rank(e) = Stage(pc[m]) + 1 /\ Stage(pc'[m]) = Stage(pc[m]) + 1
           /\ Becomes(m, IF running THEN Evs(q, m) \cup {e} ELSE Evs(q, m))
           /\ \A n \in Managers : n # m => pc'[n] = pc[n]
    BY <1>10, PostsFacts, Zenon
  <2>3. \A n \in Managers : /\ n # m => Evs(q', n) = Evs(q, n)
                            /\ Evs(q', m) \subseteq Evs(q, m) \cup {e}
    BY <2>2, Zenon DEF Becomes
  <2>4. e = Sc(m) => Stage(pc[m]) < 2
    <3>1. Rank(Sc(m)) = 2
      BY RankFacts
    <3>2. Stage(pc[m]) \in Nat
      BY RankType
    <3> QED BY <2>2, <3>1, <3>2
  <2>5. Stage(pc'[m]) < 2 => Stage(pc[m]) < 2
    <3>1. Stage(pc[m]) \in Nat
      BY RankType
    <3> QED BY <2>2, <3>1
  <2>6. \A n \in Managers : Pending(n)' => Pending(n)
    BY <2>2, <2>3, <2>4, <2>5, Zenon
  <2> HIDE DEF Pending
  <2> QED BY <2>1, <2>6, <1>g DEF ObserversInformed
<1> QED BY <1>2, <1>3, <1>4, <1>5, <1>6, <1>7, <1>8, <1>9, <1>10 DEF StepKind

\* The invariant of the managers' lives holds initially.
LEMMA LivesInit == Init => Lives /\ Fresh /\ ObserversInformed
<1> SUFFICES ASSUME Init PROVE Lives /\ Fresh /\ ObserversInformed
  OBVIOUS
<1>1. q = <<>> /\ observers = {} /\ told = [m \in Managers |-> "none"]
  BY DEF Init
<1>2. \A m \in Managers : Evs(q, m) = {} /\ Ordered(q, m)
  BY <1>1 DEF Evs, Image, Ordered
<1> QED BY <1>1, <1>2 DEF Lives, Fresh, ObserversInformed

\* subscribe_connectivity and notifyConnectivity_: for any number of managers,
\* flaps, stops and restarts, an observer on record has been told the bridge is
\* up exactly while it is Operational.
THEOREM ObserversAreInformed == Spec => []ObserversInformed
<1> DEFINE All == Inv /\ Lives /\ Fresh /\ ObserversInformed
<1>1. Init => All
  BY InvInit, LivesInit
<1>2. All /\ [Next]_vars => All'
  BY InvStep, StepKinds, LivesStep, InformedStep DEF Inv
<1>3. All => ObserversInformed
  OBVIOUS
<1> HIDE DEF All
<1> QED BY <1>1, <1>2, <1>3, PTL DEF Spec

---------------------------------------------------------------------------
(***************************************************************************)
(* The end of a manager's life, within the bridge's first start().  Until  *)
(* Stop is handled, a manager past its unsubscribe is in no table unless   *)
(* the unsubscribe is still queued, and one past its drain has nothing     *)
(* left in the queue; a bridge torn down runs nobody's callback any more.  *)
(***************************************************************************)
Begun ==
    /\ starts = 0 => \A m \in Managers : pc[m] = "new"
    /\ ~running /\ stopper = "idle" => starts = 0

OwnTopics == \A t \in Topics : subscriptions[t] # NoManager => Topic[subscriptions[t]] = t

\* The subscribe and unsubscribe that m has queued.
Has(s, m) == Sub(s, m) \in Evs(q, m)

LeavesObservers(m) ==
    Stage(pc[m]) >= 4 /\ (m \in observers \/ Has("SubscribeConnectivity", m))
        => Has("UnsubscribeConnectivity", m)
LeavesTopic(m) ==
    Stage(pc[m]) >= 3 /\ (subscriptions[Topic[m]] = m \/ Has("SubscribeEvent", m))
        => Has("UnsubscribeEvent", m)
LeavesQueue(m) == pc[m] = "gone" => Evs(q, m) = {}

First == starts <= 1 /\ st # "ShuttingDown"

Present == First => \A m \in Managers : LeavesObservers(m) /\ LeavesTopic(m) /\ LeavesQueue(m)

\* Every step keeps the run count in step with the managers and each callback
\* under its own topic.
LEMMA BegunStep ==
    ASSUME TypeOK, Lives, Begun, OwnTopics, StepKind
    PROVE  Begun' /\ OwnTopics'
<1>1. /\ pc \in [Managers -> {"new", "subscribed", "live", "leaving", "left", "draining", "gone"}]
      /\ subscriptions \in [Topics -> Managers \cup {NoManager}] /\ starts \in Nat
  BY DEF TypeOK
<1>q. Sound /\ UNCHANGED <<pc, starts>> => Begun'
  BY DEF Sound, Begun
<1>2. CASE Nothing \/ Moving \/ Falling \/ Rising \/ Calling
  BY <1>2, <1>q, Zenon DEF Nothing, Moving, Falling, Rising, Calling, Quietly, OwnTopics
<1>3. CASE Restarting
  BY <1>3, <1>1 DEF Restarting, start_at, Begun, OwnTopics
<1>4. ASSUME NEW m \in Managers, Observing(m) \/ Unobserving(m) \/ Discarding(m)
      PROVE  Begun' /\ OwnTopics'
  BY <1>4, <1>q, Zenon DEF Observing, Unobserving, Discarding, OwnTopics
<1>5. ASSUME NEW m \in Managers, Subscribing(m) \/ Unsubscribing(m)
      PROVE  Begun' /\ OwnTopics'
  <2>1. Begun'
    BY <1>5, <1>q DEF Subscribing, Unsubscribing
  <2>2. OwnTopics'
    BY <1>5, <1>1, ConstantsAssumption DEF Subscribing, Unsubscribing, OwnTopics
  <2> QED BY <2>1, <2>2
<1>6. ASSUME NEW m \in Managers, Drained(m) PROVE Begun' /\ OwnTopics'
  <2>1. Rank(Drain(m)) <= Stage(pc[m])
    BY <1>6 DEF Drained, Takes, Lives
  <2>2. pc[m] # "new" /\ starts # 0
    BY <2>1, RankFacts, StageFacts DEF Begun
  <2> QED BY <1>6, <2>2 DEF Drained, Sound, Begun, OwnTopics
<1>7. ASSUME NEW m \in Managers, Posting(m) PROVE Begun' /\ OwnTopics'
  BY <1>7, <1>1, SMTT(30) DEF Posting, Begun, OwnTopics
<1> QED BY <1>2, <1>3, <1>4, <1>5, <1>6, <1>7 DEF StepKind

\* Every step of a bridge that is not torn down keeps what its managers leave
\* behind accounted for.
LEMMA PresentStep ==
    ASSUME TypeOK, Stopping, Lives, Begun, Present, StepKind
    PROVE  Present'
<1> DEFINE P(m) == LeavesObservers(m) /\ LeavesTopic(m) /\ LeavesQueue(m)
<1> SUFFICES ASSUME First' PROVE \A m \in Managers : P(m)'
  BY DEF Present
<1>1. /\ pc \in [Managers -> {"new", "subscribed", "live", "leaving", "left", "draining", "gone"}]
      /\ subscriptions \in [Topics -> Managers \cup {NoManager}] /\ starts \in Nat
      /\ Topic \in [Managers -> Topics] /\ NoManager \notin Managers
  BY ConstantsAssumption DEF TypeOK
<1>2. CASE Restarting
  <2>1. starts = 0 /\ Calm /\ UNCHANGED pc
    BY <1>2, <1>1 DEF Restarting, start_at, First
  <2>2. \A m \in Managers : pc'[m] = "new"
    BY <2>1 DEF Begun
  <2> QED BY <2>2, StageFacts, SMTT(30) DEF LeavesObservers, LeavesTopic, LeavesQueue
<1>3. CASE ~Restarting
  <2>1. First
    BY <1>3, Zenon
    DEF First, StepKind, Nothing, Moving, Falling, Rising, Calling, Quietly, Observing,
        Unobserving, Subscribing, Unsubscribing, Discarding, Drained, Posting
  <2>2. \A m \in Managers : P(m)
    BY <2>1 DEF Present
  <2>3. ASSUME NEW m \in Managers, Evs(q', m) = Evs(q, m), pc'[m] = pc[m],
               m \in observers' => m \in observers,
               subscriptions'[Topic[m]] = m => subscriptions[Topic[m]] = m
        PROVE  P(m)'
    BY <2>2, <2>3, Zenon DEF LeavesObservers, LeavesTopic, LeavesQueue, Has
  <2>4. CASE Nothing \/ Moving \/ Falling \/ Rising \/ Calling
    <3>1. Calm /\ UNCHANGED <<pc, observers, subscriptions>>
      BY <2>4 DEF Nothing, Moving, Falling, Rising, Calling, Quietly
    <3> QED BY <3>1, <2>3, Zenon DEF Calm
  <2>d. /\ \A s, t \in SubSignals, m \in Managers : Sub(s, m) = Sub(t, m) => s = t
        /\ \A s \in SubSignals, m \in Managers : Sub(s, m) # Drain(m)
        /\ "SubscribeEvent" \in SubSignals /\ "UnsubscribeEvent" \in SubSignals
        /\ "SubscribeConnectivity" \in SubSignals /\ "UnsubscribeConnectivity" \in SubSignals
    BY DEF Sub, Drain, SubSignals
  <2>t. ASSUME NEW m \in Managers, NEW e, Takes(m, e)
        PROVE  /\ \A n \in Managers : n # m => Evs(q', n) = Evs(q, n)
               /\ e \in Evs(q, m) /\ Evs(q', m) = Evs(q, m) \ {e}
               /\ \A f \in Evs(q', m) : Rank(e) < Rank(f)
    BY <2>t DEF Takes, Becomes
  <2>5. ASSUME NEW m \in Managers, Observing(m) PROVE \A n \in Managers : P(n)'
    <3>1. /\ Takes(m, Sub("SubscribeConnectivity", m)) /\ observers' = observers \cup {m}
          /\ UNCHANGED <<pc, subscriptions>>
      BY <2>5 DEF Observing
    <3>2. \A n \in Managers : n # m => P(n)'
      BY <3>1, <2>t, <2>3, Zenon
    <3>3. P(m)'
      BY <3>1, <2>t, <2>2, <2>d, SMTT(30) DEF LeavesObservers, LeavesTopic, LeavesQueue, Has
    <3> QED BY <3>2, <3>3
  <2>6. ASSUME NEW m \in Managers, Unobserving(m) PROVE \A n \in Managers : P(n)'
    <3>1. /\ Takes(m, Sub("UnsubscribeConnectivity", m)) /\ observers' = observers \ {m}
          /\ UNCHANGED <<pc, subscriptions>>
      BY <2>6 DEF Unobserving
    <3>2. \A n \in Managers : n # m => P(n)'
      BY <3>1, <2>t, <2>3, Zenon
    <3>3. ~Has("SubscribeConnectivity", m)'
      BY <3>1, <2>t, RankFacts DEF Has
    <3>4. P(m)'
      BY <3>1, <3>3, <2>t, <2>2, <2>d, SMTT(30) DEF LeavesObservers, LeavesTopic, LeavesQueue, Has
    <3> QED BY <3>2, <3>4
  <2>7. ASSUME NEW m \in Managers, Subscribing(m) PROVE \A n \in Managers : P(n)'
    <3>1. /\ Takes(m, Sub("SubscribeEvent", m)) /\ UNCHANGED <<pc, observers>>
          /\ subscriptions' = [subscriptions EXCEPT ![Topic[m]] = m]
      BY <2>7 DEF Subscribing
    <3>2. \A n \in Managers : n # m => (subscriptions'[Topic[n]] = n => subscriptions[Topic[n]] = n)
      BY <3>1, <1>1
    <3>3. \A n \in Managers : n # m => P(n)'
      BY <3>1, <3>2, <2>t, <2>3, Zenon
    <3>4. P(m)'
      BY <3>1, <2>t, <2>2, <2>d, SMTT(30) DEF LeavesObservers, LeavesTopic, LeavesQueue, Has
    <3> QED BY <3>3, <3>4
  <2>8. ASSUME NEW m \in Managers, Unsubscribing(m) PROVE \A n \in Managers : P(n)'
    <3>1. /\ Takes(m, Sub("UnsubscribeEvent", m)) /\ UNCHANGED <<pc, observers>>
          /\ subscriptions' = [subscriptions EXCEPT ![Topic[m]] = NoManager]
      BY <2>8 DEF Unsubscribing
    <3>2. \A n \in Managers : subscriptions'[Topic[n]] = n =>
                                  subscriptions[Topic[n]] = n /\ n # m
      BY <3>1, <1>1
    <3>3. \A n \in Managers : n # m => P(n)'
      BY <3>1, <3>2, <2>t, <2>3, Zenon
    <3>4. ~Has("SubscribeEvent", m)'
      BY <3>1, <2>t, RankFacts DEF Has
    <3>5. P(m)'
      BY <3>1, <3>2, <3>4, <2>t, <2>2, <2>d, SMTT(30) DEF LeavesObservers, LeavesTopic, LeavesQueue, Has
    <3> QED BY <3>3, <3>5
  <2>9. ASSUME NEW m \in Managers, Discarding(m) PROVE FALSE
    BY <2>9, <2>1 DEF Discarding, First
  <2>10. ASSUME NEW m \in Managers, Drained(m) PROVE \A n \in Managers : P(n)'
    <3>1. /\ Takes(m, Drain(m)) /\ UNCHANGED <<observers, subscriptions>>
          /\ pc'[m] = "gone" /\ \A n \in Managers : n # m => pc'[n] = pc[n]
      BY <2>10, <1>1 DEF Drained
    <3>2. \A n \in Managers : n # m => P(n)'
      BY <3>1, <2>t, <2>3, Zenon
    <3>3. Evs(q', m) = {} /\ Drain(m) \in Evs(q, m)
      BY <3>1, <2>t, RankFacts, RankType, SMTT(30)
    <3>4. Stage(pc[m]) = 5 /\ Stage(pc'[m]) = 5
      BY <3>1, <3>3, RankFacts, RankType, StageFacts, SMTT(30) DEF Lives
    <3>5. Evs(q, m) = {Drain(m)}
      BY <3>1, <3>3, <2>t, Zenon
    <3>6. P(m)'
      BY <3>1, <3>3, <3>4, <3>5, <2>2, <2>d, Zenon DEF LeavesObservers, LeavesTopic, LeavesQueue, Has
    <3> QED BY <3>2, <3>6
  <2>11. ASSUME NEW m \in Managers, Posting(m) PROVE \A n \in Managers : P(n)'
    <3>1. running /\ UNCHANGED <<observers, subscriptions>>
      <4>1. starts > 0 /\ UNCHANGED <<observers, subscriptions>>
        BY <2>11 DEF Posting
      <4>2. running
        BY <2>1, <4>1, <1>1 DEF First, Stopping, Begun, TypeOK
      <4> QED BY <4>1, <4>2
    <3>2. PICK e \in Event :
             /\ Rank(e) = Stage(pc[m]) + 1 /\ Stage(pc'[m]) = Stage(pc[m]) + 1
             /\ Becomes(m, IF running THEN Evs(q, m) \cup {e} ELSE Evs(q, m))
             /\ \A n \in Managers : n # m => pc'[n] = pc[n]
             /\ pc[m] = "live" => e = Sub("UnsubscribeEvent", m)
             /\ pc[m] = "leaving" => e = Sub("UnsubscribeConnectivity", m)
             /\ pc'[m] = "gone" => ~running
      BY <2>11, PostsFacts, Zenon
    <3>3. /\ \A n \in Managers : n # m => Evs(q', n) = Evs(q, n)
          /\ Evs(q', m) = Evs(q, m) \cup {e}
      BY <3>1, <3>2, Zenon DEF Becomes
    <3>4. \A n \in Managers : n # m => P(n)'
      BY <3>1, <3>2, <3>3, <2>3, Zenon
    <3>5. LeavesQueue(m)'
      BY <3>1, <3>2, Zenon DEF LeavesQueue
    <3>6. LeavesObservers(m)'
      <4>1. CASE pc[m] = "leaving"
        BY <3>2, <3>3, <4>1, Zenon DEF LeavesObservers, Has
      <4>2. CASE pc[m] # "leaving" /\ Stage(pc'[m]) >= 4
        <5>1. Stage(pc[m]) >= 4 /\ Rank(e) = 5
          BY <3>2, <4>2, <1>1, StageFacts, RankType, SMTT(30)
        <5>2. Has("SubscribeConnectivity", m)' => Has("SubscribeConnectivity", m)
          BY <3>3, <5>1, RankFacts DEF Has
        <5> QED BY <3>1, <3>3, <5>1, <5>2, <2>2, Zenon DEF LeavesObservers, Has
      <4> QED BY <4>1, <4>2 DEF LeavesObservers
    <3>7. LeavesTopic(m)'
      <4>1. CASE pc[m] = "live"
        BY <3>2, <3>3, <4>1, Zenon DEF LeavesTopic, Has
      <4>2. CASE pc[m] # "live" /\ Stage(pc'[m]) >= 3
        <5>1. Stage(pc[m]) >= 3 /\ Rank(e) >= 4
          BY <3>2, <4>2, <1>1, StageFacts, RankType, SMTT(30)
        <5>2. Has("SubscribeEvent", m)' => Has("SubscribeEvent", m)
          BY <3>3, <5>1, RankFacts DEF Has
        <5> QED BY <3>1, <3>3, <5>1, <5>2, <2>2, Zenon DEF LeavesTopic, Has
      <4> QED BY <4>1, <4>2, Zenon DEF LeavesTopic
    <3> QED BY <3>4, <3>5, <3>6, <3>7
  <2> HIDE DEF P
  <2> QED BY <1>3, <2>4, <2>5, <2>6, <2>7, <2>8, <2>9, <2>10, <2>11 DEF StepKind
<1> QED BY <1>2, <1>3

\* A manager whose owner has not begun its destructor is subscribed or has its
\* subscribe queued, when no two managers share a topic.
Kept ==
    First => \A m \in Managers : pc[m] \in {"subscribed", "live"} =>
                 Has("SubscribeEvent", m) \/ subscriptions[Topic[m]] = m

\* Every step of a bridge that is not torn down keeps its managers subscribed.
LEMMA KeptStep ==
    ASSUME \A m, n \in Managers : Topic[m] = Topic[n] => m = n,
           TypeOK, Stopping, Lives, Begun, Kept, StepKind
    PROVE  Kept'
<1> SUFFICES ASSUME First', NEW n \in Managers, pc'[n] \in {"subscribed", "live"}
             PROVE  Has("SubscribeEvent", n)' \/ subscriptions'[Topic[n]] = n
  BY DEF Kept
<1>1. /\ pc \in [Managers -> {"new", "subscribed", "live", "leaving", "left", "draining", "gone"}]
      /\ subscriptions \in [Topics -> Managers \cup {NoManager}] /\ starts \in Nat
      /\ Topic \in [Managers -> Topics]
  BY ConstantsAssumption, SMTT(30) DEF TypeOK
<1>2. ~Restarting
  BY <1>1 DEF Restarting, start_at, First, Begun
<1>3. First
  BY <1>2, Zenon
  DEF First, StepKind, Nothing, Moving, Falling, Rising, Calling, Quietly, Observing,
      Unobserving, Subscribing, Unsubscribing, Discarding, Drained, Posting
<1>4. pc[n] \in {"subscribed", "live"} => Has("SubscribeEvent", n) \/ subscriptions[Topic[n]] = n
  BY <1>3, Zenon DEF Kept
<1>s. ASSUME pc'[n] = pc[n], Has("SubscribeEvent", n) => Has("SubscribeEvent", n)',
             subscriptions'[Topic[n]] = subscriptions[Topic[n]]
      PROVE  Has("SubscribeEvent", n)' \/ subscriptions'[Topic[n]] = n
  BY <1>s, <1>4, Zenon
<1>d. /\ \A s \in SubSignals, m \in Managers : s # "SubscribeEvent" => Sub(s, m) # Sub("SubscribeEvent", m)
      /\ \A m \in Managers : Sub("SubscribeEvent", m) # Drain(m)
      /\ "SubscribeEvent" \in SubSignals /\ "UnsubscribeEvent" \in SubSignals
      /\ "SubscribeConnectivity" \in SubSignals /\ "UnsubscribeConnectivity" \in SubSignals
  BY Zenon DEF Sub, Drain, SubSignals
<1>t. ASSUME NEW m \in Managers, NEW e, Takes(m, e), m # n \/ e # Sub("SubscribeEvent", m)
      PROVE  Has("SubscribeEvent", n) => Has("SubscribeEvent", n)'
  BY <1>t, Zenon DEF Takes, Becomes, Has
<1>5. CASE Nothing \/ Moving \/ Falling \/ Rising \/ Calling
  <2>1. Calm /\ UNCHANGED <<pc, subscriptions>>
    BY <1>5, Zenon DEF Nothing, Moving, Falling, Rising, Calling, Quietly
  <2>2. Has("SubscribeEvent", n) => Has("SubscribeEvent", n)'
    BY <2>1, Zenon DEF Calm, Has
  <2> QED BY <2>1, <2>2, <1>s, Zenon
<1>6. ASSUME NEW m \in Managers, Observing(m) \/ Unobserving(m)
      PROVE  Has("SubscribeEvent", n)' \/ subscriptions'[Topic[n]] = n
  BY <1>6, <1>t, <1>d, <1>s, Zenon DEF Observing, Unobserving
<1>7. ASSUME NEW m \in Managers, Subscribing(m)
      PROVE  Has("SubscribeEvent", n)' \/ subscriptions'[Topic[n]] = n
  <2>1. /\ Takes(m, Sub("SubscribeEvent", m)) /\ UNCHANGED pc
        /\ subscriptions' = [subscriptions EXCEPT ![Topic[m]] = m]
    BY <1>7 DEF Subscribing
  <2>2. CASE n = m
    BY <2>1, <2>2, <1>1
  <2>3. CASE n # m
    BY <2>1, <2>3, <1>1, <1>t, <1>s
  <2> QED BY <2>2, <2>3, Zenon
<1>8. ASSUME NEW m \in Managers, Unsubscribing(m)
      PROVE  Has("SubscribeEvent", n)' \/ subscriptions'[Topic[n]] = n
  <2>1. /\ Takes(m, Sub("UnsubscribeEvent", m)) /\ UNCHANGED pc
        /\ subscriptions' = [subscriptions EXCEPT ![Topic[m]] = NoManager]
    BY <1>8, Zenon DEF Unsubscribing
  <2>2. Stage(pc[m]) >= 3
    BY <2>1, RankFacts, RankType, Zenon DEF Takes, Lives
  <2>3. n # m
    BY <2>1, <2>2, StageFacts
  <2> QED BY <2>1, <2>3, <1>1, <1>t, <1>s
<1>9. ASSUME NEW m \in Managers, Discarding(m) PROVE FALSE
  BY <1>9, <1>3, Zenon DEF Discarding, First
<1>10. ASSUME NEW m \in Managers, Drained(m)
       PROVE  Has("SubscribeEvent", n)' \/ subscriptions'[Topic[n]] = n
  <2>1. n # m /\ pc'[n] = pc[n] /\ Takes(m, Drain(m)) /\ UNCHANGED subscriptions
    BY <1>10, <1>1 DEF Drained
  <2> QED BY <2>1, <1>t, <1>s, Zenon
<1>11. ASSUME NEW m \in Managers, Posting(m)
       PROVE  Has("SubscribeEvent", n)' \/ subscriptions'[Topic[n]] = n
  <2>1. running /\ UNCHANGED subscriptions
    <3>1. starts > 0 /\ UNCHANGED subscriptions
      BY <1>11, Zenon DEF Posting
    <3>2. running
      BY <1>3, <3>1, <1>1, SMTT(30) DEF First, Stopping, Begun, TypeOK
    <3> QED BY <3>1, <3>2
  <2>2. PICK e \in Event :
           /\ Stage(pc'[m]) = Stage(pc[m]) + 1
           /\ Becomes(m, IF running THEN Evs(q, m) \cup {e} ELSE Evs(q, m))
           /\ \A k \in Managers : k # m => pc'[k] = pc[k]
           /\ pc[m] = "new" => e = Sub("SubscribeEvent", m)
    BY <1>11, PostsFacts, Zenon
  <2>3. /\ \A k \in Managers : k # m => Evs(q', k) = Evs(q, k)
        /\ Evs(q', m) = Evs(q, m) \cup {e}
    BY <2>1, <2>2, Zenon DEF Becomes
  <2>4. CASE n # m
    BY <2>1, <2>2, <2>3, <2>4, <1>s, Zenon DEF Has
  <2>5. CASE n = m /\ pc[m] = "new"
    BY <2>2, <2>3, <2>5, Zenon DEF Has
  <2>6. CASE n = m /\ pc[m] # "new"
    <3>1. pc[m] \in {"subscribed", "live"}
      BY <2>2, <2>6, <1>1, StageFacts
    <3> QED BY <2>1, <2>3, <2>6, <3>1, <1>4, Zenon DEF Has
  <2> QED BY <2>4, <2>5, <2>6, Zenon
<1> QED BY <1>2, <1>5, <1>6, <1>7, <1>8, <1>9, <1>10, <1>11, Zenon DEF StepKind

\* When no request has an owner, no step of the first run reaches a manager past
\* its drain.
LEMMA FenceStep ==
    ASSUME \A r \in Reqs : Owner[r] = NoManager,
           TypeOK, Lives, OwnTopics, Present, starts <= 1 => DrainFence, StepKind
    PROVE  starts' <= 1 => DrainFence'
<1> SUFFICES ASSUME starts' <= 1 PROVE late' = {}
  BY DEF DrainFence
<1>1. /\ observers \subseteq Managers /\ starts \in Nat /\ NoManager \notin Managers
      /\ subscriptions \in [Topics -> Managers \cup {NoManager}]
  BY ConstantsAssumption DEF TypeOK
<1>2. starts <= 1
  <2>1. CASE Restarting
    BY <2>1, <1>1 DEF Restarting, start_at
  <2>2. CASE ~Restarting
    <3>1. starts' = starts
      BY <2>2, Zenon
      DEF StepKind, Nothing, Moving, Falling, Rising, Calling, Quietly, Observing,
          Unobserving, Subscribing, Unsubscribing, Discarding, Drained, Posting
    <3> QED BY <3>1
  <2> QED BY <2>1, <2>2
<1>3. late = {}
  BY <1>2 DEF DrainFence
<1>4. UNCHANGED late => late' = {}
  BY <1>3
<1>5. ASSUME NEW S, Reach(S), S \cap Gone = {} PROVE late' = {}
  BY <1>3, <1>5 DEF Reach
<1>6. ASSUME st # "ShuttingDown"
      PROVE  /\ \A R \in SUBSET Reqs : Owners(R) \cap Gone = {}
             /\ observers \cap Gone = {}
             /\ \A t \in Topics : {subscriptions[t]} \cap Gone = {}
             /\ \A m \in Gone : Evs(q, m) = {}
  <2>1. \A m \in Gone : /\ m \in Managers /\ pc[m] = "gone" /\ Evs(q, m) = {}
                        /\ LeavesObservers(m) /\ LeavesTopic(m)
    BY <1>2, <1>6 DEF Gone, Present, First, LeavesQueue
  <2>2. \A m \in Gone : m \notin observers /\ subscriptions[Topic[m]] # m
    BY <2>1, StageFacts, SMTT(30) DEF LeavesObservers, LeavesTopic, Has
  <2>3. \A R \in SUBSET Reqs : Owners(R) \cap Gone = {}
    BY <2>1, <1>1, SMTT(30) DEF Owners
  <2>4. \A t \in Topics : {subscriptions[t]} \cap Gone = {}
    BY <2>1, <2>2, <1>1, SMTT(30) DEF OwnTopics
  <2> QED BY <2>1, <2>2, <2>3, <2>4, Zenon
<1>7. CASE Falling
  <2>1. PICK R \in SUBSET Reqs : Reach(observers \cup Owners(R))
    BY <1>7 DEF Falling
  <2>2. (observers \cup Owners(R)) \cap Gone = {}
    BY <1>7, <1>6 DEF Falling
  <2> QED BY <2>1, <2>2, <1>5
<1>8. CASE Rising
  BY <1>8, <1>5, <1>6 DEF Rising
<1>9. CASE Calling
  <2>1. CASE \E r \in Reqs : Reach(Owners({r}))
    <3>1. PICK r \in Reqs : Reach(Owners({r}))
      BY <2>1, Zenon
    <3>2. Owners({r}) \cap Gone = {}
      BY <1>9, <1>6, Zenon DEF Calling
    <3> QED BY <3>1, <3>2, <1>5
  <2>2. CASE \E t \in Topics : Reach({subscriptions[t]})
    BY <1>9, <2>2, <1>5, <1>6, Zenon DEF Calling
  <2> QED BY <1>9, <2>1, <2>2, Zenon DEF Calling
<1>10. ASSUME NEW m \in Managers, Observing(m) PROVE late' = {}
  <2>1. st # "ShuttingDown" /\ Evs(q, m) # {} /\ (Reach({m}) \/ UNCHANGED late)
    BY <1>10 DEF Observing, Takes
  <2>2. {m} \cap Gone = {}
    BY <2>1, <1>6
  <2> QED BY <2>1, <2>2, <1>4, <1>5
<1>11. CASE UNCHANGED late
  BY <1>11, <1>4
<1> QED BY <1>7, <1>8, <1>9, <1>10, <1>11, Zenon
    DEF StepKind, Nothing, Moving, Restarting, Unobserving, Subscribing, Unsubscribing,
        Discarding, Drained, Posting

\* The invariant of the end of a life holds initially.
LEMMA PresentInit == Init => Begun /\ OwnTopics /\ Present /\ Kept /\ DrainFence
<1> SUFFICES ASSUME Init PROVE Begun /\ OwnTopics /\ Present /\ Kept /\ DrainFence
  OBVIOUS
<1>1. /\ starts = 0 /\ late = {} /\ subscriptions = [t \in Topics |-> NoManager]
      /\ pc = [m \in Managers |-> "new"]
  BY DEF Init
<1>2. Present /\ Kept
  BY <1>1, StageFacts DEF Present, Kept, LeavesObservers, LeavesTopic, LeavesQueue
<1> QED BY <1>1, <1>2 DEF Begun, OwnTopics, DrainFence

\* subscribe_event and unsubscribe_event: for any number of managers, none of
\* which shares its topic, a manager that finished start() keeps its callback
\* until its destructor, throughout the bridge's first run.
THEOREM SubscribersAreKept ==
    ASSUME \A m, n \in Managers : Topic[m] = Topic[n] => m = n
    PROVE  Spec => [](starts <= 1 => SubscriberKept)
<1> DEFINE All == Inv /\ Lives /\ Begun /\ OwnTopics /\ Kept
           Goal == starts <= 1 => SubscriberKept
<1>1. Init => All
  BY InvInit, LivesInit, PresentInit
<1>2. All /\ [Next]_vars => All'
  BY InvStep, StepKinds, LivesStep, BegunStep, KeptStep DEF Inv
<1>3. All => Goal
  <2> SUFFICES ASSUME All, starts <= 1, NEW m \in Managers, st # "ShuttingDown", pc[m] = "live",
                      Sub("SubscribeEvent", m) \notin Image(q)
               PROVE  subscriptions[Topic[m]] = m
    BY DEF SubscriberKept
  <2>1. ~Has("SubscribeEvent", m)
    BY DEF Has, Evs
  <2> QED BY <2>1, Zenon DEF Kept, First
<1> HIDE DEF All, Goal
<1>4. Spec => []Goal
  BY <1>1, <1>2, <1>3, PTL DEF Spec
<1> QED BY <1>4 DEF Goal

\* drain(): for any number of managers and topics, and when the requests belong
\* to nobody who drains, no callback reaches a manager past drain(), throughout
\* the bridge's first run.
THEOREM DrainFences ==
    ASSUME \A r \in Reqs : Owner[r] = NoManager
    PROVE  Spec => [](starts <= 1 => DrainFence)
<1> DEFINE Goal == starts <= 1 => DrainFence
           All == Inv /\ Lives /\ Begun /\ OwnTopics /\ Present /\ Goal
<1>1. Init => All
  BY InvInit, LivesInit, PresentInit
<1>2. All /\ [Next]_vars => All'
  BY InvStep, StepKinds, LivesStep, BegunStep, PresentStep, FenceStep DEF Inv
<1>3. All => Goal
  OBVIOUS
<1> HIDE DEF All, Goal
<1>4. Spec => []Goal
  BY <1>1, <1>2, <1>3, PTL DEF Spec
<1> QED BY <1>4 DEF Goal

---------------------------------------------------------------------------
\* The worker is told to stop by stop() alone.
Asked == st = "ShuttingDown" \/ Plain("Stop") \in Image(q) => stopper # "idle"

\* An RPC is answered when its callback runs.
AnsweredRan == answered \subseteq Called

Closing == ~running \/ stopper # "idle"

\* The requests that still have a callback to come.
Waiting == Held(q) \cup Held(deferred) \cup inFlight

\* Such a request is pending, and one that was not issued is idle.
LEMMA StatusFacts ==
    ASSUME TypeOK, Custodied, AnsweredRan
    PROVE  /\ calls \in [Reqs -> Nat] /\ answered \subseteq Reqs
           /\ \A r \in Waiting : r \in Reqs /\ r \in issued /\ r \notin lost /\ calls[r] = 0
                                 /\ status[r] = "pending" /\ r \notin answered
           /\ \A r \in Reqs : r \notin issued => status[r] = "idle" /\ r \notin lost /\ calls[r] = 0
<1>1. calls \in [Reqs -> Nat] /\ answered \subseteq Reqs /\ issued \subseteq Reqs
  BY DEF TypeOK
<1>2. \A r \in Waiting : r \in Reqs /\ r \in issued /\ r \notin lost /\ r \notin Called
  BY <1>1 DEF Waiting, Custodied, Split
<1>3. \A r \in Reqs : r \notin Called => calls[r] = 0
  BY <1>1 DEF Called
<1>4. \A r \in Reqs : r \notin issued => r \notin lost /\ r \notin Called
  BY DEF Custodied, Split
<1> QED BY <1>1, <1>2, <1>3, <1>4 DEF status, AnsweredRan

\* Callbacks that run with nullopt.
LEMMA FailStep ==
    ASSUME TypeOK, Custodied, AnsweredRan, NEW R \in SUBSET Waiting, Invoke(R),
           UNCHANGED <<issued, lost, answered>>, Closing' = Closing
    PROVE  AnsweredRan' /\ Contract!Next
<1>1. \A r \in R : r \in Reqs /\ r \in issued /\ r \notin lost /\ calls[r] = 0
                   /\ status[r] = "pending" /\ r \notin answered
  BY StatusFacts
<1>2. /\ \A r \in Reqs : r \notin R => calls'[r] = calls[r]
      /\ \A r \in R : calls'[r] = 1
  BY <1>1, StatusFacts DEF Invoke
<1>3. AnsweredRan'
  BY <1>1, <1>2, StatusFacts DEF AnsweredRan, Called
<1>4. status' = [r \in Reqs |-> IF r \in R THEN "failed" ELSE status[r]]
  <2>0. \A r \in R : r \in issued' /\ r \notin lost' /\ calls'[r] # 0 /\ r \notin answered'
    BY <1>1, <1>2
  <2>1. \A r \in Reqs : r \in R => status'[r] = "failed"
    BY <2>0 DEF status
  <2>2. \A r \in Reqs : r \notin R => status'[r] = status[r]
    BY <1>2 DEF status
  <2> QED BY <2>1, <2>2 DEF status
<1>5. Contract!Fail(R)
  BY <1>1, <1>4 DEF Contract!Fail, Contract!Pending, Closing
<1>6. R \in SUBSET Reqs
  BY <1>1
<1> QED BY <1>3, <1>5, <1>6 DEF Contract!Next

\* A callback that runs with an envelope.
LEMMA AnswerStep ==
    ASSUME TypeOK, Custodied, AnsweredRan, NEW r \in Waiting, Invoke({r}),
           answered' = answered \cup {r}, UNCHANGED <<issued, lost>>, Closing' = Closing
    PROVE  AnsweredRan' /\ Contract!Next
<1>1. r \in Reqs /\ r \in issued /\ r \notin lost /\ calls[r] = 0 /\ status[r] = "pending"
  BY StatusFacts
<1>2. /\ \A x \in Reqs : x # r => calls'[x] = calls[x]
      /\ calls'[r] = 1
  BY <1>1, StatusFacts DEF Invoke
<1>3. AnsweredRan'
  BY <1>1, <1>2, StatusFacts DEF AnsweredRan, Called
<1>4. status' = [status EXCEPT ![r] = "answered"]
  <2>1. status'[r] = "answered"
    BY <1>1, <1>2 DEF status
  <2>2. \A x \in Reqs : x # r => status'[x] = status[x]
    BY <1>2 DEF status
  <2> QED BY <2>1, <2>2, Zenon DEF status
<1>5. Contract!Answer(r)
  BY <1>1, <1>4 DEF Contract!Answer, Contract!Pending, Closing
<1> QED BY <1>1, <1>3, <1>5 DEF Contract!Next

\* A request that is discarded.
LEMMA DropStep ==
    ASSUME TypeOK, Custodied, AnsweredRan, NEW r \in Waiting, lost' = lost \cup {r},
           UNCHANGED <<issued, answered, calls>>, Closing, Closing' = Closing
    PROVE  AnsweredRan' /\ Contract!Next
<1>1. r \in Reqs /\ r \in issued /\ status[r] = "pending"
  BY StatusFacts
<1>2. AnsweredRan'
  BY DEF AnsweredRan, Called
<1>3. status' = [status EXCEPT ![r] = "dropped"]
  BY <1>1, Zenon DEF status
<1>4. Contract!Drop(r)
  BY <1>1, <1>3 DEF Contract!Drop, Contract!Pending, Closing
<1> QED BY <1>1, <1>2, <1>4 DEF Contract!Next

\* A request that is made, and lost at once when there is no worker.
LEMMA IssueStep ==
    ASSUME TypeOK, Custodied, AnsweredRan, NEW r \in Reqs, r \notin issued,
           issued' = issued \cup {r}, lost' = IF running THEN lost ELSE lost \cup {r},
           UNCHANGED <<answered, calls, running, stopper>>
    PROVE  AnsweredRan' /\ Contract!Next
<1>1. status[r] = "idle" /\ r \notin lost /\ calls[r] = 0
  BY StatusFacts
<1>2. AnsweredRan'
  BY DEF AnsweredRan, Called
<1>3. status' = [status EXCEPT ![r] = IF running THEN "pending" ELSE "dropped"]
  BY <1>1, Zenon DEF status
<1>4. Contract!Issue(r)
  BY <1>1, <1>3, Zenon DEF Contract!Issue
<1> QED BY <1>2, <1>4 DEF Contract!Next

\* Every step of the bridge is a step of the contract, or none.
LEMMA ContractStep ==
    ASSUME TypeOK, Stopping, Custodied, Asked, AnsweredRan, [Next]_vars
    PROVE  Asked' /\ AnsweredRan' /\ [Contract!Next]_(Contract!vars)
<1> DEFINE Goal == Asked' /\ AnsweredRan' /\ [Contract!Next]_(Contract!vars)
           Move == AnsweredRan' /\ [Contract!Next]_(Contract!vars)
           Same == UNCHANGED <<issued, lost, calls, answered>>
           Still == UNCHANGED <<running, stopper>>
           NoStop == /\ st' = "ShuttingDown" => st = "ShuttingDown" \/ Plain("Stop") \in Image(q)
                     /\ Plain("Stop") \in Image(q') => Plain("Stop") \in Image(q)
<1>d. q \in Seq(Event) /\ deferred \in Seq(Event)
  BY DEF TypeOK
<1>l. /\ \A s \in {"Start", "LinkDown", "ConnectTimeout", "AllSubAcked"} :
            Plain(s) \in Event /\ Plain(s) # Plain("Stop")
      /\ Plain("Stop") \in Event /\ Plain("Stop").sig = "Stop"
      /\ \A b \in BOOLEAN : LinkUp(b) \in Event /\ LinkUp(b) # Plain("Stop")
      /\ \A r \in Reqs : /\ SendReq(r) \in Event /\ SendReq(r) # Plain("Stop")
                         /\ Timeout(r) \in Event /\ Timeout(r) # Plain("Stop")
      /\ \A o \in Oneways : Oneway(o) \in Event /\ Oneway(o) # Plain("Stop")
      /\ \A s \in SubSignals, m \in Managers : Sub(s, m) \in Event /\ Sub(s, m) # Plain("Stop")
      /\ \A m \in Managers \cup {NoManager} : Drain(m) \in Event /\ Drain(m) # Plain("Stop")
      /\ \A t \in Topics : Ind(t, "valid") \in Event /\ Ind(t, "valid") # Plain("Stop")
  BY EventKinds, Zenon DEF Plain, LinkUp, SendReq, Timeout, Oneway, Sub, Drain, Ind, SubSignals, Bodies
<1>q. NoStop /\ (Still \/ (stopper = "idle") = (stopper' = "idle")) => Asked'
  BY DEF Asked
<1>m. Same /\ Closing' = Closing => Move
  BY DEF AnsweredRan, Called, status, Contract!vars, Closing
<1>s. Still => Closing' = Closing
  BY DEF Closing
<1>c. NoStop /\ Still /\ Same => Goal
  BY <1>q, <1>m, <1>s
<1>a. ASSUME NEW e \in Event, e # Plain("Stop"), post_fifo(e), st' = st PROVE NoStop
  BY <1>a, <1>d, ImageAppend DEF post_fifo
<1>t. q # <<>> => Tail(q) \in Seq(Event) /\ Image(q) = Image(Tail(q)) \cup {Head(q)}
  BY <1>d, TailFacts, ImageTail
<1>k. q # <<>> /\ Consume /\ (st' = st \/ st' # "ShuttingDown") => NoStop
  BY <1>t DEF Consume
<1>n. ASSUME q # <<>>, q' = Append(Tail(q), Plain("LinkDown"))
      PROVE  Plain("Stop") \in Image(q') => Plain("Stop") \in Image(q)
  <2>1. Image(q') = Image(Tail(q)) \cup {Plain("LinkDown")} /\ Plain("LinkDown") # Plain("Stop")
    BY <1>n, <1>t, <1>l, ImageAppend, Zenon
  <2> QED BY <2>1, <1>n, <1>t
<1>z. TearDown => Move /\ Still
  <2> SUFFICES ASSUME TearDown PROVE Move /\ Still
    OBVIOUS
  <2>1. Invoke(inFlight \cup Held(deferred)) /\ UNCHANGED <<issued, lost, answered>> /\ Still
    BY DEF TearDown, failAllInFlight_, envVars
  <2>2. inFlight \cup Held(deferred) \in SUBSET Waiting
    BY DEF Waiting
  <2> QED BY <2>1, <2>2, <1>s, FailStep
<1>b. q # <<>> /\ ToBackoff => Goal
  BY <1>z, <1>k, <1>q DEF ToBackoff
<1>o. q # <<>> /\ Head(q).sig = "Stop" /\ ToShuttingDown => Goal
  <2> SUFFICES ASSUME q # <<>>, Head(q).sig = "Stop", ToShuttingDown PROVE Goal
    OBVIOUS
  <2>1. Head(q) = Plain("Stop")
    BY <1>d, TailFacts DEF Event, Plain, SubSignals
  <2>2. Plain("Stop") \in Image(q)
    BY <2>1, <1>t
  <2> QED BY <2>2, <1>z, <1>q DEF ToShuttingDown
<1>f. q # <<>> /\ Head(q).sig = "SendReq" /\ FailFast(Head(q).req) => Goal
  <2> SUFFICES ASSUME q # <<>>, Head(q).sig = "SendReq", FailFast(Head(q).req) PROVE Goal
    OBVIOUS
  <2>1. {Head(q).req} \in SUBSET Waiting
    BY <1>d, HeldTail DEF Custodied, Waiting
  <2>2. Invoke({Head(q).req}) /\ UNCHANGED <<issued, lost, answered>> /\ Still /\ NoStop
    BY <1>k DEF FailFast, workerVars, envVars
  <2> QED BY <2>1, <2>2, <1>q, <1>s, FailStep
<1>h. q # <<>> /\ Head(q).sig = "Drain" /\ HandleDrain => Goal
  <2> SUFFICES ASSUME q # <<>>, Head(q).sig = "Drain", HandleDrain PROVE Goal
    OBVIOUS
  <2>1. NoStop /\ Same /\ UNCHANGED running /\ Fulfil(Head(q).who)
    BY <1>k DEF HandleDrain, workerVars, rpcVars
  <2>2. CASE Head(q).who = NoManager
    <3>1. Fence \in Image(q)
      BY <2>2, <1>t, HeadFields, EventFields DEF Fence
    <3>2. stopper = "draining" /\ stopper' = "fenced"
      BY <3>1, <2>1, <2>2 DEF Stopping, Fulfil
    <3> QED BY <3>2, <2>1, <1>q, <1>m DEF Closing
  <2>3. CASE Head(q).who # NoManager
    BY <2>1, <2>3, <1>c DEF Fulfil
  <2> QED BY <2>2, <2>3
<1>x. q # <<>> /\ Discard(Head(q)) /\ (st = "ShuttingDown" \/ Head(q).sig # "SendReq") => Goal
  <2> SUFFICES ASSUME q # <<>>, Discard(Head(q)), st = "ShuttingDown" \/ Head(q).sig # "SendReq"
               PROVE  Goal
    OBVIOUS
  <2>1. NoStop /\ Still /\ UNCHANGED <<issued, answered, calls>>
        /\ lost' = IF Head(q).sig = "SendReq" THEN lost \cup {Head(q).req} ELSE lost
    BY <1>k DEF Discard, workerVars, envVars
  <2>2. CASE Head(q).sig = "SendReq"
    <3>1. Head(q).req \in Waiting
      BY <2>2, <1>d, HeldTail, Zenon DEF Custodied, Waiting
    <3>2. Closing
      BY <2>2 DEF Asked, Closing
    <3> QED BY <2>1, <2>2, <3>1, <3>2, <1>q, <1>s, DropStep
  <2>3. CASE Head(q).sig # "SendReq"
    BY <2>1, <2>3, <1>c
  <2> QED BY <2>2, <2>3
<1>e. ASSUME q # <<>>, NEW r \in inFlight, NEW b \in BOOLEAN, Complete(r, b) PROVE Goal
  <2>1. /\ NoStop /\ Still /\ UNCHANGED <<issued, lost>> /\ Invoke({r})
        /\ answered' = IF b THEN answered \cup {r} ELSE answered
    BY <1>e, <1>k DEF Complete, workerVars, envVars
  <2>2. r \in Waiting /\ {r} \in SUBSET Waiting
    BY <1>e DEF Waiting
  <2>3. CASE b
    BY <2>1, <2>2, <2>3, <1>q, <1>s, AnswerStep
  <2>4. CASE ~b
    BY <2>1, <2>2, <2>4, <1>q, <1>s, FailStep
  <2> QED BY <2>3, <2>4
<1>1. CASE NotOperational_St
  BY <1>1, <1>k, <1>c, <1>h, Zenon
  DEF NotOperational_St, Dispatch, Tables, workerVars, rpcVars, envVars
<1>2. CASE Disconnected_St
  <2>1. CASE Head(q).sig = "Start"
    BY <1>2, <2>1, <1>k, <1>n, <1>c
    DEF Disconnected_St, Dispatch, ToConnecting, rpcVars, envVars
  <2>2. CASE Head(q).sig = "PublishOneway"
    BY <1>2, <2>2, <1>k, <1>c DEF Disconnected_St, Dispatch, workerVars, rpcVars, envVars
  <2> QED BY <1>2, <2>1, <2>2, <1>f, <1>o, Zenon DEF Disconnected_St, Dispatch
<1>v. q # <<>> /\ (ToConnected \/ Defer \/ Ignore \/ Tables) => Goal
  BY <1>k, <1>c, Zenon DEF ToConnected, Defer, Ignore, Tables, workerVars, rpcVars, envVars
<1>3. CASE Connecting_St
  BY <1>3, <1>v, <1>b, <1>o DEF Connecting_St, Dispatch
<1>4. CASE Connected_St
  BY <1>4, <1>v, <1>b, <1>o, <1>h, Zenon DEF Connected_St, Dispatch
<1>5. CASE Subscribing_St
  <2>1. CASE Head(q).sig = "AllSubAcked"
    <3>1. q # <<>> /\ q' = Tail(q) \o deferred /\ Same /\ Still /\ st' = "Operational"
      BY <1>5, <2>1 DEF Subscribing_St, Dispatch, ToOperational, rpcVars, envVars
    <3>2. Image(q') = Image(Tail(q)) \cup Image(deferred)
      BY <3>1, <1>t, <1>d, ImageConcat, Zenon
    <3>3. Plain("Stop") \notin Image(deferred)
      BY <1>l DEF Stopping
    <3> QED BY <3>1, <3>2, <3>3, <1>t, <1>c
  <2>2. CASE Head(q).sig # "AllSubAcked"
    BY <1>5, <2>2, <1>v, Zenon DEF Subscribing_St, Dispatch
  <2> QED BY <2>1, <2>2
<1>6. CASE SubscribingEntered
  BY <1>6, <1>a, <1>c, <1>l DEF SubscribingEntered, rpcVars, envVars

<1>7. CASE Operational_St
  <2>0. q # <<>>
    BY <1>7 DEF Operational_St, Dispatch
  <2>1. ASSUME Head(q).sig = "SendReq", doSendRequest_(Head(q).req) PROVE Goal
    <3>1. CASE FailFast(Head(q).req)
      BY <2>0, <2>1, <3>1, <1>f
    <3>2. CASE ~FailFast(Head(q).req)
      BY <2>0, <2>1, <3>2, <1>k, <1>c, Zenon DEF doSendRequest_, workerVars, envVars
    <3> QED BY <3>1, <3>2
  <2>2. ASSUME EvtRecvRsp(Head(q)) PROVE Goal
    <3>1. CASE Ignore
      BY <2>0, <3>1, <1>v
    <3>2. CASE ~Ignore
      <4>1. Head(q).req \in inFlight /\ Complete(Head(q).req, Head(q).body = "valid")
        BY <2>2, <3>2 DEF EvtRecvRsp
      <4> QED BY <2>0, <4>1, <1>e, Zenon
    <3> QED BY <3>1, <3>2
  <2>3. ASSUME RspTimeout(Head(q).req) PROVE Goal
    BY <2>0, <2>3, <1>e, <1>v, Zenon DEF RspTimeout
  <2>4. ASSUME EvtRecvInd(Head(q)) \/ doPublishOneway_(Head(q).msg) PROVE Goal
    BY <2>0, <2>4, <1>k, <1>c, Zenon
    DEF EvtRecvInd, doPublishOneway_, Ignore, workerVars, rpcVars, envVars
  <2> QED BY <1>7, <2>0, <2>1, <2>2, <2>3, <2>4, <1>v, Zenon DEF Operational_St, Dispatch
<1>8. CASE Backoff_St
  BY <1>8, <1>v, <1>o DEF Backoff_St, Dispatch
<1>9. CASE ShuttingDown_St
  BY <1>9, <1>h, <1>x DEF ShuttingDown_St, Dispatch
<1>10. CASE top
  <2>1. Head(q).sig # "SendReq"
    BY <1>10 DEF top, Dispatch, Handled, States
  <2> QED BY <1>10, <2>1, <1>x DEF top, Dispatch
<1>11. CASE start
  <2>1. Same
    BY <1>11 DEF start, rpcVars
  <2>2. CASE start_at
    <3>1. q' = q /\ q = <<>> /\ st' = "Disconnected" /\ ~running /\ running' /\ stopper' = "idle"
      BY <2>2 DEF start_at, Stopping
    <3>2. Plain("Stop") \notin Image(q')
      BY <3>1 DEF Image
    <3>3. Asked'
      BY <3>1, <3>2 DEF Asked
    <3>4. Contract!OpenOrClose
      BY <2>1, <3>1, Zenon DEF Contract!OpenOrClose, status
    <3> QED BY <2>1, <3>3, <3>4 DEF Contract!Next, AnsweredRan, Called
  <2>3. CASE StartPost
    BY <1>11, <2>1, <2>3, <1>a, <1>c, <1>l DEF StartPost, Post
  <2> QED BY <1>11, <2>2, <2>3 DEF start
<1>12. CASE stop
  <2>1. Same /\ st' = st
    BY <1>12 DEF stop, rpcVars, workerVars
  <2>2. CASE StopPost
    <3>1. stopper = "idle" /\ stopper' = "posted" /\ running /\ running'
      BY <2>2 DEF StopPost
    <3>2. Contract!OpenOrClose
      BY <2>1, <3>1 DEF Contract!OpenOrClose, status
    <3> QED BY <2>1, <3>1, <3>2 DEF Contract!Next, Asked, AnsweredRan, Called
  <2>3. CASE StopDrain
    <3>1. NoStop /\ stopper = "posted" /\ stopper' = "draining" /\ running' = running
      BY <2>1, <2>3, <1>a, <1>l DEF StopDrain, Post
    <3> QED BY <3>1, <2>1, <1>q, <1>m, Zenon DEF Closing
  <2>4. CASE StopClear \/ StopJoin
    <3>1. q' = q /\ stopper # "idle" /\ stopper' # "idle"
      BY <2>4 DEF StopClear, StopJoin
    <3> QED BY <3>1, <2>1, <1>q, <1>m DEF Closing
  <2> QED BY <1>12, <2>2, <2>3, <2>4 DEF stop
<1>13. ASSUME NEW r \in Reqs, send_request(r) PROVE Goal
  <2>1. /\ r \notin issued /\ issued' = issued \cup {r} /\ UNCHANGED <<answered, calls>>
        /\ lost' = IF running THEN lost ELSE lost \cup {r}
        /\ Still /\ NoStop
    BY <1>13, <1>a, <1>l, Zenon DEF send_request, Post, workerVars
  <2> QED BY <2>1, <1>q, IssueStep
<1>14. ASSUME NEW o \in Oneways, publish_oneway(o) PROVE Goal
  BY <1>14, <1>a, <1>c, <1>l, Zenon DEF publish_oneway, Post, workerVars, rpcVars, envVars
<1>15. ASSUME NEW m \in Managers, Manager(m) PROVE Goal
  <2>1. Same /\ Still /\ st' = st
    BY <1>15 DEF Manager, rpcVars, workerVars
  <2>2. NoStop
    BY <1>15, <2>1, <1>a, <1>l, Zenon DEF Manager, Advance, drain, Post, SubSignals
  <2> QED BY <2>1, <2>2, <1>c
<1>16. ASSUME NEW r \in Reqs, DeadlinePasses(r) \/ TimerTaken(r) PROVE Goal
  BY <1>16, <1>c DEF DeadlinePasses, TimerTaken, workerVars, rpcVars, envVars
<1>18. ASSUME NEW r \in Reqs, TimerFires(r) PROVE Goal
  BY <1>18, <1>a, <1>c, <1>l, Zenon DEF TimerFires, Post, workerVars, envVars
<1>19. ASSUME NEW t \in Topics, onRetained(t) PROVE Goal
  BY <1>19, <1>a, <1>c, <1>l, Zenon DEF onRetained, Post, workerVars, rpcVars, envVars
<1>20. ASSUME NEW e \in Messages, onMessage_(e) PROVE Goal
  <2>1. e \in Event /\ e.sig # "Stop"
    BY Zenon DEF Messages, Bodies, Event
  <2>2. e # Plain("Stop")
    BY <2>1, <1>l
  <2> QED BY <1>20, <2>1, <2>2, <1>a, <1>c, Zenon DEF onMessage_, Post, workerVars, rpcVars
<1>21. CASE ConnectTimer
  BY <1>21, <1>a, <1>c, <1>l, Zenon DEF ConnectTimer, Post, workerVars, rpcVars, envVars
<1>22. CASE onConnect_
  BY <1>22, <1>a, <1>c, <1>l, Zenon DEF onConnect_, Post, workerVars, rpcVars, envVars
<1>23. CASE Refused
  <2>1. LinkUp(FALSE) \in Event /\ Plain("LinkDown") \in Event
        /\ Append(q, LinkUp(FALSE)) \in Seq(Event)
    BY <1>d, <1>l, AppendFacts, Zenon
  <2>2. /\ Image(Append(q, LinkUp(FALSE))) = Image(q) \cup {LinkUp(FALSE)}
        /\ Image(Append(Append(q, LinkUp(FALSE)), Plain("LinkDown")))
              = Image(Append(q, LinkUp(FALSE))) \cup {Plain("LinkDown")}
    BY <2>1, <1>d, ImageAppend, Zenon
  <2>3. Same /\ Still /\ NoStop
    BY <1>23, <2>2, <1>l, Zenon DEF Refused, workerVars, rpcVars
  <2> QED BY <2>3, <1>c
<1>24. CASE onDisconnect_
  BY <1>24, <1>a, <1>c, <1>l, Zenon DEF onDisconnect_, Post, workerVars, rpcVars
<1>25. CASE UNCHANGED vars
  BY <1>25, <1>c DEF vars, workerVars, rpcVars, envVars
<1> QED
  BY <1>1, <1>2, <1>3, <1>4, <1>5, <1>6, <1>7, <1>8, <1>9, <1>10, <1>11, <1>12, <1>13, Zenon,
     <1>14, <1>15, <1>16, <1>18, <1>19, <1>20, <1>21, <1>22, <1>23, <1>24, <1>25
  DEF Next, Worker, Timers, Network, Clients

\* With all requests idle and no worker the contract is in its initial state.
LEMMA ContractInit == Init => Asked /\ AnsweredRan /\ Contract!Init
<1> SUFFICES ASSUME Init PROVE Asked /\ AnsweredRan /\ Contract!Init
  OBVIOUS
<1>1. Image(<<>>) = {}
  BY DEF Image
<1> QED BY <1>1 DEF Init, Asked, AnsweredRan, Contract!Init, status

\* ModemBridge implements RpcContract (IModemBridge.hpp, send_request): for any
\* number of RPCs, through deferral, reconnects, late timeouts, stop() and
\* restarts, each is settled once by an envelope or by nullopt and stays
\* settled, and only a bridge that is stopping or stopped drops one.
THEOREM BridgeImplementsContract == Spec => ImplementsContract
<1> DEFINE All == Inv /\ Asked /\ AnsweredRan
<1>1. Init => All
  BY InvInit, ContractInit
<1>2. All /\ [Next]_vars => All' /\ [Contract!Next]_(Contract!vars)
  BY InvStep, CustodySpelt, ContractStep DEF Inv
<1> HIDE DEF All
<1> QED BY <1>1, <1>2, ContractInit, PTL DEF Spec, ImplementsContract, Contract!Spec
=============================================================================
