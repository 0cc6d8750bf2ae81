------------------------------- MODULE DeferOnce -------------------------------
(***************************************************************************)
(* What a deferred action promises its requester and its approvers: the    *)
(* action is opened once, is decided once, and is given up for want of a   *)
(* decision only when its whole waiting time has passed.                   *)
(***************************************************************************)
EXTENDS Naturals

CONSTANTS Token, Timeout

VARIABLES
    now,
    status,     \* "unknown", "pending" or the decision
    opened      \* when the token became pending

Decisions == {"approved", "denied", "expired"}

OnceInit ==
    /\ now = 0
    /\ status = [t \in Token |-> "unknown"]
    /\ opened = [t \in Token |-> 0]

Pass == now' = now + 1 /\ UNCHANGED <<status, opened>>

Open(t) ==
    /\ status[t] = "unknown"
    /\ status' = [status EXCEPT ![t] = "pending"]
    /\ opened' = [opened EXCEPT ![t] = now]
    /\ UNCHANGED now

Close(t, d) ==
    /\ status[t] = "pending"
    /\ d = "expired" => now >= opened[t] + Timeout
    /\ status' = [status EXCEPT ![t] = d]
    /\ UNCHANGED <<now, opened>>

OnceNext ==
    \/ Pass
    \/ \E t \in Token : Open(t) \/ \E d \in Decisions : Close(t, d)

OnceSpec == OnceInit /\ [][OnceNext]_<<now, status, opened>>
===============================================================================
