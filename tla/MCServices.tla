------------------------------ MODULE MCServices ------------------------------
(* The parts of a daemon that serve, wait and stop, for TLC: each behaviour *)
(* runs one part, and the others stay as they begin.                       *)
(* The fair actions of a part are disabled where it begins.                *)
EXTENDS DaemonStop, McpGateway, SdkServer, Callbacks, FanOut

VARIABLE part

ServiceParts == {"stop", "mcp", "sdk", "callbacks", "gate", "budget"}

(* A message alone, two batches, and the same that ask for a stream.      *)
SomeLines == {[form |-> "one", stream |-> FALSE, msgs |-> <<"call">>],
              [form |-> "batch", stream |-> FALSE, msgs |-> <<"quiet call", "bad">>],
              [form |-> "batch", stream |-> FALSE, msgs |-> <<"other", "junk">>],
              [form |-> "one", stream |-> TRUE, msgs |-> <<"quiet call">>],
              [form |-> "batch", stream |-> TRUE, msgs |-> <<"note">>]}

(* A gate that needs nobody, one agent or half of them.                    *)
NoGate == [required |-> {}, num |-> 0, den |-> 1, countFailed |-> FALSE, timeout |-> TRUE,
           onTimeout |-> "proceed"]
SomeGates == {NoGate, [NoGate EXCEPT !.required = {CHOOSE a \in FanAgents : TRUE}, !.onTimeout = "deny"],
              [NoGate EXCEPT !.num = 1, !.den = 2, !.countFailed = TRUE, !.timeout = FALSE]}

ServicesInit ==
    /\ part \in ServiceParts
    /\ StopInit /\ McpInit /\ SdkInit /\ CbInit /\ FanInit
    /\ part # "gate" => gatePolicy = NoGate

ServicesNext ==
    /\ part' = part
    /\ \/ part = "stop" /\ StopNext /\ UNCHANGED <<mcpVars, sdkVars, cbVars, fanVars>>
       \/ part = "mcp" /\ McpNext /\ UNCHANGED <<stopVars, sdkVars, cbVars, fanVars>>
       \/ part = "sdk" /\ SdkNext /\ UNCHANGED <<stopVars, mcpVars, cbVars, fanVars>>
       \/ part = "callbacks" /\ CbNext /\ UNCHANGED <<stopVars, mcpVars, sdkVars, fanVars>>
       \/ part = "gate" /\ GateNext /\ UNCHANGED <<stopVars, mcpVars, sdkVars, cbVars, budgetVars>>
       \/ part = "budget" /\ BudgetNext /\ UNCHANGED <<stopVars, mcpVars, sdkVars, cbVars, gateVars>>

ServicesSpec ==
    /\ ServicesInit /\ [][ServicesNext]_<<part, stopVars, mcpVars, sdkVars, cbVars, fanVars>>
    /\ StopFairness /\ McpFairness /\ SdkFairness /\ CbFairness /\ FanFairness

(* sync.go:112, server.go:487, callbacks.go:190: nobody waits for ever on    *)
(* another: a gate that times out lets its waiters go, a subscriber that   *)
(* stops reading holds up no other connection, and a queued callback runs. *)
NobodyIsBlocked == WaitersReturn /\ SlowSubscriberHurtsNobody /\ QueuedJobsRun

(* What holds at every moment of the three that fan out to others: the     *)
(* connections of the SDK socket, the callbacks, the agents of a fan-out.  *)
FanOutsHold == SdkSafe /\ CbSafe /\ FanSafe
===============================================================================
