---------------------------- MODULE MCModemBridge ----------------------------
(* Instances of ModemBridge for TLC. *)
EXTENDS ModemBridge, TLC

\* No RPC callback captures its manager (every manager but the call manager).
NoOwner == [r \in Reqs |-> NoManager]

\* The call manager's start_ecall callback captures its manager.
AllOwned == [r \in Reqs |-> CHOOSE m \in Managers : TRUE]

\* Distinct topics per manager, and one topic for all of them.
OwnTopic == CHOOSE f \in [Managers -> Topics] :
                \A m, n \in Managers : m # n => f[m] # f[n]
SharedTopic == [m \in Managers |-> CHOOSE t \in Topics : TRUE]

\* Requests are interchangeable when none has an owner.
ReqSymmetry == Permutations(Reqs)
=============================================================================
