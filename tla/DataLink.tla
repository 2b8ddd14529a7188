------------------------------ MODULE DataLink ------------------------------
(***************************************************************************)
(* What lies between the data connection manager of the adapter and the    *)
(* data connection object of the simulated modem: the bridge's request and *)
(* event service, reduced to what ModemBridge promises its callers, and    *)
(* the broker.                                                             *)
(*   - a request sent while the link is down is held and, when it is back, *)
(*     sent, or fails if its deadline has passed; a request in flight or   *)
(*     held when the link drops fails;                                     *)
(*   - an RPC ends once, by its reply, by a timeout or by such a failure,  *)
(*     and a reply that comes later is not delivered;                      *)
(*   - messages of the modem arrive in the order they were published, and  *)
(*     are lost while the link is down, except the retained readiness.     *)
(* A profile has at most one RPC outstanding, since each session sends the *)
(* next one only after it has the result of the last.                      *)
(***************************************************************************)
EXTENDS Naturals, Sequences, Functions

CONSTANTS
    Profiles,   \* profile identifiers
    NoIfname,   \* no interface name
    MaxFaults   \* bound: disturbances of every kind

ASSUME ProfilesAssumption == Profiles # {}

VARIABLES
    link,   \* the bridge is operational
    fifo,   \* queue of the modem's active object, messages on their way to it included
    wire,   \* messages on their way to the bridge
    held,   \* requests the bridge deferred
    rpc,    \* identifier of the RPC each profile's session waits for, 0 when none
    lastId, \* identifiers given out
    faults  \* disturbances so far: lost links, timeouts that overtake the reply,
            \* and what tests, operators and other processes do to the modem

linkVars == <<link, fifo, wire, held, rpc, lastId, faults>>

Req(k, p, i, w) == [k |-> k, p |-> p, id |-> i, want |-> w]
Rsp(p, i, r) == [k |-> "Rsp", p |-> p, id |-> i, result |-> r]
CallState(p, s) == [k |-> "CallState", p |-> p, status |-> s]
Readiness(b) == [k |-> "Readiness", ready |-> b]

Requests == {"Start", "Stop", "List"}

Disturb == faults < MaxFaults /\ faults' = faults + 1

\* A message the modem publishes reaches the adapter only over a live link.
Publish(ms) == wire' = IF link THEN wire \o ms ELSE wire

\* IModemBridge::send_request for profile p; a start names the interface it wants.
send_request(k, p, w) ==
    LET m == Req(k, p, lastId + 1, w) IN
    /\ lastId' = lastId + 1
    /\ rpc' = [rpc EXCEPT ![p] = lastId + 1]
    /\ IF link
       THEN fifo' = Append(fifo, m) /\ UNCHANGED held
       ELSE held' = Append(held, m) /\ UNCHANGED fifo

\* The requests that may be lost with the link: the last one published.
AfterLoss == {fifo} \cup
             IF fifo # <<>> /\ fifo[Len(fifo)].k \in Requests
             THEN {SubSeq(fifo, 1, Len(fifo) - 1)} ELSE {}

LinkInit ==
    /\ link = TRUE
    /\ fifo = <<>> /\ wire = <<Readiness(TRUE)>> /\ held = <<>>
    /\ rpc = [p \in Profiles |-> 0]
    /\ lastId = 0 /\ faults = 0
=============================================================================
