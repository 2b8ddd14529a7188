---------------------------- MODULE RpcContract ----------------------------
(***************************************************************************)
(* What ModemBridge keeps towards the caller of send_request, without      *)
(* queues, timers, links or states: an RPC is settled once, by an envelope *)
(* or by nullopt, and stays settled; it may be dropped without an answer   *)
(* only while the bridge is shutting down or down.                         *)
(*                                                                         *)
(* This is weaker than IModemBridge.hpp, where stop() "fails every         *)
(* in-flight and deferred RPC" and cb is invoked with std::nullopt "if the *)
(* bridge stops": Drop has no counterpart there.  DeferredCallEnds of      *)
(* ModemBridge states the header's promise, which the bridge breaks.       *)
(***************************************************************************)
EXTENDS FiniteSets

CONSTANT Reqs

VARIABLES
    status,   \* of each RPC
    closing   \* stop() has been called, or the bridge does not run

vars == <<status, closing>>

Pending == {r \in Reqs : status[r] = "pending"}

Init == /\ status = [r \in Reqs |-> "idle"]
        /\ closing = TRUE

Issue(r) ==
    /\ status[r] = "idle"
    /\ \/ status' = [status EXCEPT ![r] = "pending"]
       \/ closing /\ status' = [status EXCEPT ![r] = "dropped"]
    /\ UNCHANGED closing

Answer(r) ==
    /\ r \in Pending
    /\ status' = [status EXCEPT ![r] = "answered"]
    /\ UNCHANGED closing

\* A timeout or a rejection settles one RPC, the loss of the link many.
Fail(R) ==
    /\ R \subseteq Pending
    /\ status' = [r \in Reqs |-> IF r \in R THEN "failed" ELSE status[r]]
    /\ UNCHANGED closing

\* The silent end that the header does not allow.
Drop(r) ==
    /\ closing /\ r \in Pending
    /\ status' = [status EXCEPT ![r] = "dropped"]
    /\ UNCHANGED closing

OpenOrClose == closing' = ~closing /\ UNCHANGED status

Next == \/ \E r \in Reqs : Issue(r) \/ Answer(r) \/ Drop(r)
        \/ \E R \in SUBSET Reqs : Fail(R)
        \/ OpenOrClose

Spec == Init /\ [][Next]_vars
=============================================================================
