-------------------------------- MODULE FanOut --------------------------------
(***************************************************************************)
(* What governs agents that work side by side (core/multiagent): the       *)
(* synchronisation gate at which their results are collected (sync.go) and *)
(* the budget they share (budget.go).  Every method holds the one lock of  *)
(* its object, except Wait, which blocks on the gate's channel and on a    *)
(* timer of its own.                                                       *)
(***************************************************************************)
EXTENDS Integers, Sequences, FiniteSets, FiniteSetsExt, Functions

CONSTANTS
    FanAgents,      \* the agents registered with the gate
    Waiters,        \* goroutines in SyncGate.Wait
    GatePolicies,   \* [required, num, den, countFailed, timeout, onTimeout]
    MaxUpdates,     \* bound on UpdateState calls
    AggregateMax,   \* the budget shared, in cost units
    Slices,         \* slices of it that AllocateAgent is asked for
    Costs,          \* costs of one call
    MaxCharges      \* bound on the calls that cost

ASSUME FanOutAssumption ==
    /\ IsFiniteSet(FanAgents) /\ FanAgents # {}
    /\ GatePolicies \subseteq [required : SUBSET FanAgents, num : Nat, den : Nat \ {0},
                               countFailed : BOOLEAN, timeout : BOOLEAN,
                               onTimeout : {"proceed", "deny"}]
    /\ MaxUpdates \in Nat /\ AggregateMax \in Nat /\ MaxCharges \in Nat
    /\ Slices \subseteq Nat /\ Costs \subseteq Nat
    /\ \E m \in Costs \cup {0} : \A c \in Costs : c <= m

AgentStates == {"running", "completed", "failed", "cancelled", "timed_out"}

VARIABLES
    gatePolicy,
    agentState,
    released,   \* SyncGate.released
    closes,     \* how often waitCh was closed
    waiter,     \* "none", "waiting", "released" or "timed_out" as Wait returned
    updates,
    budget,     \* agent -> its slice: [max, spent, reserved, cancelled]
    aggregate,  \* aggregateSpent
    charges,
    late        \* agents allocated after the aggregate was exceeded

gateVars == <<gatePolicy, agentState, released, closes, waiter, updates>>
budgetVars == <<budget, aggregate, charges, late>>
fanVars == <<gateVars, budgetVars>>

FanInit ==
    /\ gatePolicy \in GatePolicies
    /\ agentState = [a \in FanAgents |-> "running"]
    /\ released = FALSE /\ closes = 0 /\ updates = 0
    /\ waiter = [w \in Waiters |-> "none"]
    /\ budget = <<>> /\ aggregate = 0 /\ charges = 0 /\ late = {}

-------------------------------------------------------------------------------
(* The gate *)

Complete(p, st) ==
    {a \in FanAgents : st[a] = "completed" \/ (p.countFailed /\ st[a] = "failed")}

(* checkRelease, of a gate that is not released: the agents that are       *)
(* required have completed, a failed one among them never has, and enough  *)
(* of all have; with neither condition, all of them.                       *)
PolicyMet(p, st) ==
    LET n == Cardinality(Complete(p, st)) IN
    /\ \A a \in p.required : st[a] = "completed"
    /\ p.num > 0 => n * p.den >= p.num * Cardinality(FanAgents)
    /\ p.required = {} /\ p.num = 0 => n = Cardinality(FanAgents)

(* Mutant of Releases: a gate that is released is released again. *)
ReleasesAgain(st) == PolicyMet(gatePolicy, st)

Releases(st) == ~released /\ PolicyMet(gatePolicy, st)

UpdateState(a, s) ==
    LET st == [agentState EXCEPT ![a] = s] IN
    /\ updates < MaxUpdates /\ updates' = updates + 1
    /\ agentState' = st
    /\ released' = (released \/ Releases(st))
    /\ closes' = IF Releases(st) THEN closes + 1 ELSE closes
    /\ UNCHANGED <<gatePolicy, waiter, budgetVars>>

Wait(w) ==
    /\ waiter[w] = "none"
    /\ waiter' = [waiter EXCEPT ![w] = "waiting"]
    /\ UNCHANGED <<gatePolicy, agentState, released, closes, updates, budgetVars>>

WaitReleased(w) ==
    /\ waiter[w] = "waiting" /\ closes > 0
    /\ waiter' = [waiter EXCEPT ![w] = "released"]
    /\ UNCHANGED <<gatePolicy, agentState, released, closes, updates, budgetVars>>

(* Mutant of WaitTimesOut: of a gate that is released the channel is       *)
(* waited for.                                                             *)
WaitTimesOutUnreleased(w) ==
    /\ waiter[w] = "waiting" /\ gatePolicy.timeout /\ ~released
    /\ agentState' = [a \in FanAgents |-> IF agentState[a] = "running" THEN "timed_out" ELSE agentState[a]]
    /\ released' = (gatePolicy.onTimeout = "proceed")
    /\ waiter' = [waiter EXCEPT ![w] = IF gatePolicy.onTimeout = "proceed" THEN "released" ELSE "timed_out"]
    /\ UNCHANGED <<gatePolicy, closes, updates, budgetVars>>

(* The timer may win against a channel that was closed as well.  A waiter  *)
(* that proceeds releases the gate and leaves the channel open.            *)
WaitTimesOut(w) ==
    /\ waiter[w] = "waiting" /\ gatePolicy.timeout
    /\ agentState' = [a \in FanAgents |-> IF agentState[a] = "running" THEN "timed_out" ELSE agentState[a]]
    /\ released' = (released \/ gatePolicy.onTimeout = "proceed")
    /\ waiter' = [waiter EXCEPT ![w] = IF gatePolicy.onTimeout = "proceed" THEN "released" ELSE "timed_out"]
    /\ UNCHANGED <<gatePolicy, closes, updates, budgetVars>>

EndWaiting(w) == WaitReleased(w) \/ WaitTimesOut(w)

-------------------------------------------------------------------------------
(* The budget *)

Allocated == DOMAIN budget
Promised == SumFunction([a \in Allocated |-> budget[a].max])
Spent == SumFunction([a \in Allocated |-> budget[a].spent])

(* Mutant of Fits: what other agents were given is forgotten. *)
FitsAlone(m) == m <= AggregateMax
Fits(m) == Promised + m <= AggregateMax

AllocateAgent(a, m) ==
    /\ a \notin Allocated
    /\ Fits(m)
    /\ budget' = [x \in Allocated \cup {a} |->
                    IF x = a THEN [max |-> m, spent |-> 0, reserved |-> 0, cancelled |-> FALSE] ELSE budget[x]]
    /\ late' = IF aggregate > AggregateMax THEN late \cup {a} ELSE late
    /\ UNCHANGED <<gateVars, aggregate, charges>>

(* Mutant of CancelledBy: only the agent that spent is cancelled. *)
SpenderCancelledBy(a, c) ==
    IF aggregate + c > AggregateMax \/ budget[a].spent + c > budget[a].max THEN {a} ELSE {}

(* The agents that a cost cancels: all of them when the aggregate is       *)
(* exceeded, the one that spent when its slice is.                         *)
CancelledBy(a, c) ==
    CASE aggregate + c > AggregateMax -> Allocated
      [] aggregate + c <= AggregateMax /\ budget[a].spent + c > budget[a].max -> {a}
      [] OTHER -> {}

(* RecordCost: the cost of an agent that is cancelled is not booked. *)
RecordCost(a, c) ==
    /\ charges < MaxCharges /\ charges' = charges + 1
    /\ a \in Allocated /\ ~budget[a].cancelled
    /\ aggregate' = aggregate + c
    /\ budget' = [x \in Allocated |-> [budget[x] EXCEPT !.spent = IF x = a THEN @ + c ELSE @,
                                                       !.cancelled = @ \/ x \in CancelledBy(a, c)]]
    /\ UNCHANGED <<gateVars, late>>

(* Reserve: checked against the agent's slice with what it reserved, and   *)
(* against the aggregate without what the others did.                      *)
Reserve(a, c) ==
    /\ charges < MaxCharges /\ charges' = charges + 1
    /\ a \in Allocated /\ ~budget[a].cancelled
    /\ budget[a].spent + budget[a].reserved + c <= budget[a].max
    /\ aggregate + c <= AggregateMax
    /\ budget' = [budget EXCEPT ![a].reserved = @ + c]
    /\ UNCHANGED <<gateVars, aggregate, late>>

GateNext ==
    \/ \E a \in FanAgents, s \in AgentStates : UpdateState(a, s)
    \/ \E w \in Waiters : Wait(w) \/ EndWaiting(w)

BudgetNext ==
    \/ \E a \in FanAgents, m \in Slices : AllocateAgent(a, m)
    \/ \E a \in FanAgents, c \in Costs : RecordCost(a, c) \/ Reserve(a, c)

FanNext == GateNext \/ BudgetNext

FanSpec == FanInit /\ [][FanNext]_fanVars

(* A waiter is scheduled and its timer fires. *)
FanFairness == \A w \in Waiters : WF_fanVars(EndWaiting(w))

-------------------------------------------------------------------------------
(* Properties *)

FanTypeOK ==
    /\ agentState \in [FanAgents -> AgentStates]
    /\ waiter \in [Waiters -> {"none", "waiting", "released", "timed_out"}]
    /\ \A a \in Allocated : budget[a] \in [max : Nat, spent : Nat, reserved : Nat, cancelled : BOOLEAN]
    /\ aggregate \in Nat

(* The channel is closed once, whatever updates follow the release, a      *)
(* timeout that proceeded included: a second close would panic.            *)
GateClosesOnce == closes <= 1

(* With a timeout every waiter returns, although a waiter that proceeded   *)
(* has left the channel open and no later completion closes it.            *)
WaitersReturn == \A w \in Waiters : (waiter[w] = "waiting" /\ gatePolicy.timeout) ~> waiter[w] # "waiting"

LargestCost == Max(Costs \cup {0})

(* The fan-out overspends by one call at most, and by one more for every   *)
(* agent that was given a slice after the aggregate was exceeded: what is  *)
(* over the limit leaves no agent of that time running.                    *)
OverspendIsBounded ==
    /\ aggregate <= AggregateMax + LargestCost * (1 + Cardinality(late))
    /\ aggregate > AggregateMax => \A a \in Allocated \ late : budget[a].cancelled
    /\ \A a \in Allocated : budget[a].spent <= budget[a].max + LargestCost

(* The aggregate is what the agents spent, and what is promised fits it.   *)
BooksBalance ==
    /\ aggregate = Spent
    /\ Promised <= AggregateMax
    /\ \A a \in Allocated : budget[a].reserved <= budget[a].max

(* The gate and the budget together. *)
FanSafe == FanTypeOK /\ GateClosesOnce /\ OverspendIsBounded
===============================================================================
