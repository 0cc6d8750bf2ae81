-------------------------------- MODULE Windows --------------------------------
(***************************************************************************)
(* The governors that count in a sliding window: LoopGovernor.CheckAndTrack *)
(* (multiagent/loops.go) counts an agent's calls and their repetitions,    *)
(* AggregationGovernor.CheckAndTrack (multiagent/aggregation.go) the       *)
(* weights of a session's risky calls.  And the critique loops of loops.go.*)
(*                                                                         *)
(* A call carries the time its adapter received it, and reaches the        *)
(* governors later: calls are counted in the order in which they take the  *)
(* lock, which need not be that of their times.                            *)
(***************************************************************************)
EXTENDS Integers, Sequences, FiniteSets

CONSTANTS
    Loopers,        \* goroutines that evaluate calls of one agent and session
    Signatures,     \* tool and arguments of a call, as the governor keys them
    RiskWeight,     \* the aggregation governor's weight of each signature
    HighestRisk,    \* and the largest of them
    MaxCallsPerWindow, MaxRepeats, MaxRisky, WindowLength,
    MaxWindowTime, MaxWindowCalls,
    LoopConfigs,    \* [iterations, cost, minImprovement]: zero means no limit
    Scores, LoopCosts

ASSUME WindowsAssumption ==
    /\ IsFiniteSet(Loopers) /\ Loopers # {}
    /\ RiskWeight \in [Signatures -> Nat] /\ HighestRisk \in Nat
    /\ \A s \in Signatures : RiskWeight[s] <= HighestRisk
    /\ MaxCallsPerWindow \in Nat /\ MaxRepeats \in Nat /\ MaxRisky \in Nat /\ WindowLength \in Nat \ {0}
    /\ MaxWindowTime \in Nat /\ MaxWindowCalls \in Nat
    /\ LoopConfigs \subseteq [iterations : Nat, cost : Nat, minImprovement : Nat]
    /\ Scores \subseteq Int /\ LoopCosts \subseteq Nat

VARIABLES
    clock,
    looper,     \* each goroutine's call: [at, n, ts, sig], n its number
    runtime,    \* LoopGovernor.runtime of the agent and session
    risky,      \* AggregationGovernor.sessions of the session
    passed,     \* calls both governors let through
    windowCalls,
    loop        \* the critique loop: [config, started, scores, cost, stopped]

windowVars == <<clock, looper, runtime, risky, passed, windowCalls>>
wVars == <<windowVars, loop>>

NoCall == [at |-> "idle", n |-> 0, ts |-> 0, sig |-> "none"]
NoLoop == [config |-> [iterations |-> 0, cost |-> 0, minImprovement |-> 0],
           started |-> FALSE, scores |-> <<>>, cost |-> 0, stopped |-> "no"]

WInit ==
    /\ clock = 0 /\ windowCalls = 0
    /\ looper = [l \in Loopers |-> NoCall]
    /\ runtime = {} /\ risky = {} /\ passed = {}
    /\ loop = NoLoop

-------------------------------------------------------------------------------
(* Windows *)

TimePasses ==
    /\ clock < MaxWindowTime /\ clock' = clock + 1
    /\ UNCHANGED <<looper, runtime, risky, passed, windowCalls, loop>>

(* The adapter stamps the request before the pipeline sees it. *)
Receive(l) ==
    /\ looper[l].at = "idle" /\ windowCalls < MaxWindowCalls /\ windowCalls' = windowCalls + 1
    /\ \E s \in Signatures :
         looper' = [looper EXCEPT ![l] = [at |-> "loop", n |-> windowCalls + 1, ts |-> clock, sig |-> s]]
    /\ UNCHANGED <<clock, runtime, risky, passed, loop>>

(* Mutant of Kept: the entry at the edge of the window is forgotten. *)
KeptAfter(log, now) == {e \in log : e.ts > now - WindowLength}

(* What the filter keeps: entries not before the window, later ones too.   *)
Kept(log, now) == {e \in log : e.ts >= now - WindowLength}

(* What the governors add up: an entry is as many units as it weighs.      *)
WindowUnits(log, weight) == UNION {{e} \X (1 .. weight[e.sig]) : e \in log}
Weigh(log, weight) == Cardinality(WindowUnits(log, weight))
EachCall == [s \in Signatures |-> 1]
Repeats(sig) == [s \in Signatures |-> IF s = sig THEN 1 ELSE 0]

Entry(l) == [n |-> looper[l].n, ts |-> looper[l].ts, sig |-> looper[l].sig]

(* LoopGovernor.CheckAndTrack: a call is tracked whether or not it passes. *)
CheckLoop(l) ==
    LET kept == Kept(runtime, looper[l].ts)
        allowed == /\ MaxCallsPerWindow > 0 => Weigh(kept, EachCall) + 1 <= MaxCallsPerWindow
                   /\ MaxRepeats > 0 => Weigh(kept, Repeats(looper[l].sig)) + 1 <= MaxRepeats
    IN
    /\ looper[l].at = "loop"
    /\ runtime' = IF MaxCallsPerWindow = 0 /\ MaxRepeats = 0 THEN runtime ELSE kept \cup {Entry(l)}
    /\ looper' = [looper EXCEPT ![l] = IF allowed THEN [@ EXCEPT !.at = "risk"] ELSE NoCall]
    /\ UNCHANGED <<clock, risky, passed, windowCalls, loop>>

(* AggregationGovernor.CheckAndTrack: weightless calls are not looked at.  *)
CheckRisk(l) ==
    LET kept == Kept(risky, looper[l].ts)
        w == RiskWeight[looper[l].sig]
        allowed == w = 0 \/ MaxRisky = 0 \/ Weigh(kept, RiskWeight) + w <= MaxRisky
    IN
    /\ looper[l].at = "risk"
    /\ risky' = IF w = 0 \/ MaxRisky = 0 THEN risky ELSE kept \cup {Entry(l)}
    /\ passed' = IF allowed THEN passed \cup {Entry(l)} ELSE passed
    /\ looper' = [looper EXCEPT ![l] = NoCall]
    /\ UNCHANGED <<clock, runtime, windowCalls, loop>>

-------------------------------------------------------------------------------
(* Critique loops *)

StartLoop(c) ==
    /\ ~loop.started
    /\ loop' = [NoLoop EXCEPT !.config = c, !.started = TRUE]
    /\ UNCHANGED windowVars

(* The improvement on the score before, in percent; zero after a zero. *)
Abs(n) == IF n < 0 THEN -n ELSE n
Improvement(scores, s) ==
    LET p == scores[Len(scores)] IN IF scores = <<>> \/ p = 0 THEN 0 ELSE ((s - p) * 100) \div Abs(p)

(* RecordIteration: the iteration is recorded, then the limits are looked  *)
(* at in this order.                                                       *)
RecordIteration(s, c) ==
    LET n == Len(loop.scores) + 1
        cost == loop.cost + c
        cfg == loop.config
    IN
    /\ loop.started /\ loop.stopped = "no"
    /\ loop' = [loop EXCEPT !.scores = Append(@, s), !.cost = cost, !.stopped =
         CASE cfg.iterations > 0 /\ n >= cfg.iterations -> "MAX_ITERATIONS_REACHED"
           [] cfg.cost > 0 /\ cost >= cfg.cost /\ ~(cfg.iterations > 0 /\ n >= cfg.iterations) -> "MAX_COST_REACHED"
           [] OTHER -> IF cfg.minImprovement > 0 /\ n >= 2 /\ Improvement(loop.scores, s) < cfg.minImprovement
                         THEN "CONVERGED" ELSE "no"]
    /\ UNCHANGED windowVars

(* The duration limit, at an iteration, or EndLoop. *)
StopLoop ==
    /\ loop.started /\ loop.stopped = "no"
    /\ loop' = [loop EXCEPT !.stopped = "ENDED"]
    /\ UNCHANGED windowVars

WindowNext ==
    \/ TimePasses
    \/ \E l \in Loopers : Receive(l) \/ CheckLoop(l) \/ CheckRisk(l)

LoopNext ==
    \/ \E c \in LoopConfigs : StartLoop(c)
    \/ \E s \in Scores, c \in LoopCosts : RecordIteration(s, c)
    \/ StopLoop

WNext == WindowNext \/ LoopNext
WSpec == WInit /\ [][WNext]_wVars

-------------------------------------------------------------------------------
(* Properties *)

WTypeOK ==
    /\ clock \in 0 .. MaxWindowTime /\ windowCalls \in 0 .. MaxWindowCalls
    /\ \A l \in Loopers : looper[l].at \in {"idle", "loop", "risk"}
    /\ \A e \in runtime \cup risky \cup passed : e.n \in 1 .. windowCalls /\ e.ts \in 0 .. clock
    /\ loop.stopped \in {"no", "MAX_ITERATIONS_REACHED", "MAX_COST_REACHED", "CONVERGED", "ENDED"}

InWindow(log, t) == {e \in log : e.ts \in t - WindowLength .. t}

(* In no window of time do more calls pass than the limits say, but for    *)
(* the ones that were received before the window's end and overtaken by a  *)
(* call from behind it: one for every other goroutine at most.             *)
WindowsHold ==
    \A t \in 0 .. MaxWindowTime :
       LET overtaken == Cardinality(Loopers) - 1
           let == InWindow(passed, t)
       IN
       /\ MaxCallsPerWindow > 0 => Weigh(let, EachCall) <= MaxCallsPerWindow + overtaken
       /\ \A s \in Signatures : MaxRepeats > 0 => Weigh(let, Repeats(s)) <= MaxRepeats + overtaken
       /\ MaxRisky > 0 => Weigh(let, RiskWeight) <= MaxRisky + overtaken * HighestRisk

(* A loop of limited iterations makes no more of them, and one of limited  *)
(* cost goes over the limit by its last iteration only.                    *)
LoopsAreBounded ==
    /\ loop.config.iterations > 0 => Len(loop.scores) <= loop.config.iterations
    /\ loop.config.cost > 0 /\ loop.stopped = "no" => loop.cost < loop.config.cost
    /\ loop.config.iterations > 0 /\ Len(loop.scores) = loop.config.iterations => loop.stopped # "no"

(* Both governors. *)
GovernorsHold == WTypeOK /\ WindowsHold /\ LoopsAreBounded
===============================================================================
