------------------------------- MODULE Conditions -------------------------------
(***************************************************************************)
(* What the when: conditions of rules are computed from (core/policy): the *)
(* registries of operators and selectors, whose functions run on the side  *)
(* under a timeout and are cached; the helpers that look at the session's  *)
(* history; and the time, which a replay of old records sets.              *)
(***************************************************************************)
EXTENDS Integers, Sequences, FiniteSets, SequencesExt

CONSTANTS
    Evaluators,     \* goroutines that evaluate conditions
    Registries,     \* subset of {"operator", "selector"}
    ArgLists, ArgKey,   \* argument lists, and what cacheKey makes of each
    ResultTTL, MaxCondTime, MaxVersions,
    HistoryTools, MaxHistory, HistoryAges,  \* what a session's history may hold
    Dates           \* times of records: [year, month, day, hour]

ASSUME ConditionsAssumption ==
    Registries \subseteq {"operator", "selector"} /\ {ResultTTL, MaxVersions, MaxHistory} \subseteq Nat

VARIABLES
    condNow,
    functions,      \* each registry's function of the one name: [version, cached], version 0 without one
    results,        \* each registry's cache: key -> [version, args, at]
    evaluator,      \* each evaluator's call
    history,        \* a session's history, newest first: [tool, effect, age]
    replayed        \* the record a replay evaluates: its time

registryVars == <<condNow, functions, results, evaluator>>
conditionVars == <<registryVars, history, replayed>>

-------------------------------------------------------------------------------
(* Operators and selectors *)

Idle0 == [at |-> "idle"]

(* Register: a name registered again has another function; the cache       *)
(* keeps what it has. A selector is always cached, an operator when it is  *)
(* said to be deterministic.                                               *)
RegisterFunction(g, cached) ==
    /\ functions[g].version < MaxVersions /\ (g = "selector" => cached)
    /\ functions' = [functions EXCEPT ![g] = [version |-> functions[g].version + 1, cached |-> cached]]
    /\ UNCHANGED <<condNow, results, evaluator, history, replayed>>
ClearResults(g) ==
    /\ results[g] # <<>> /\ results' = [results EXCEPT ![g] = <<>>]
    /\ UNCHANGED <<condNow, functions, evaluator, history, replayed>>

(* Call and Fetch: the function and its description, under the read lock.  *)
LookUpFunction(e, g, args) ==
    /\ evaluator[e].at \in {"idle", "done"} /\ functions[g].version > 0
    /\ evaluator' = [evaluator EXCEPT ![e] =
                        [at |-> "cache", registry |-> g, args |-> args, fn |-> functions[g]]]
    /\ UNCHANGED <<condNow, functions, results, history, replayed>>

(* An operator's entry is good before its TTL, a selector's up to it.      *)
StillGood(g, k) ==
    /\ k \in DOMAIN results[g]
    /\ condNow - results[g][k].at < (IF g = "operator" THEN ResultTTL ELSE ResultTTL + 1)

Answered(e, entry, since) ==
    evaluator' = [evaluator EXCEPT ![e] = [at |-> "done", registry |-> evaluator[e].registry,
        args |-> evaluator[e].args, asked |-> evaluator[e].fn.version, of |-> entry, since |-> since,
        now |-> condNow]]

(* The cache, under the read lock again; the function starts on a          *)
(* goroutine of its own.                                                   *)
TryCache(e) ==
    /\ evaluator[e].at = "cache"
    /\ LET g == evaluator[e].registry k == ArgKey[evaluator[e].args] IN
       IF evaluator[e].fn.cached /\ StillGood(g, k)
         THEN Answered(e, <<results[g][k].version, results[g][k].args>>, results[g][k].at)
         ELSE evaluator' = [evaluator EXCEPT ![e].at = "runs"]
    /\ UNCHANGED <<condNow, functions, results, history, replayed>>

Put(g, k, entry) ==
    results' = [results EXCEPT ![g] = [j \in DOMAIN @ \cup {k} |-> IF j = k THEN entry ELSE @[j]]]

(* Mutant of Outcome: what a function that failed or was late left is      *)
(* cached too.                                                             *)
OutcomeCached(e, answer, entry) ==
    LET c == evaluator[e] IN
    /\ IF c.fn.cached THEN Put(c.registry, ArgKey[c.args], entry) ELSE UNCHANGED results
    /\ Answered(e, answer, condNow)

(* What the condition gets: the value; or, of an operator, a panic, which  *)
(* is a denial, and of a selector nil.                                     *)
Outcome(e, answer, entry) ==
    LET c == evaluator[e] IN
    /\ IF c.fn.cached /\ answer \notin {<<"panic">>, <<"nil">>}
         THEN Put(c.registry, ArgKey[c.args], entry) ELSE UNCHANGED results
    /\ Answered(e, answer, condNow)

(* The answer arrives, an error does, or the timeout; a late answer goes   *)
(* into a channel nobody reads.                                            *)
Return(e) ==
    /\ evaluator[e].at = "runs"
    /\ LET c == evaluator[e]
           failure == IF c.registry = "operator" THEN <<"panic">> ELSE <<"nil">>
       IN \E answer \in {<<c.fn.version, c.args>>, failure} :
            Outcome(e, answer, [version |-> IF answer = failure THEN 0 ELSE c.fn.version, args |-> c.args,
                                at |-> condNow])
    /\ UNCHANGED <<condNow, functions, history, replayed>>

CondTick == condNow < MaxCondTime /\ condNow' = condNow + 1
            /\ UNCHANGED <<functions, results, evaluator, history, replayed>>

RegistryNext ==
    \/ CondTick
    \/ \E g \in Registries : \/ \E cached \in BOOLEAN : RegisterFunction(g, cached)
                             \/ ClearResults(g)
    \/ \E e \in Evaluators : \/ \E g \in Registries, a \in ArgLists : LookUpFunction(e, g, a)
                             \/ TryCache(e) \/ Return(e)

-------------------------------------------------------------------------------
(* Helpers on the history *)

(* path.Match, for the patterns of the instance: a tool, "*", or a family. *)
MatchesTool(pattern, tool) == pattern \in {"*", tool}

HistoryContainsWithin(h, pattern, secs) ==
    \E n \in DOMAIN h : h[n].age <= secs /\ MatchesTool(pattern, h[n].tool)
HistoryToolCount(h, pattern) == Cardinality({n \in DOMAIN h : MatchesTool(pattern, h[n].tool)})
DenyCountWithin(h, secs) == Cardinality({n \in DOMAIN h : h[n].age <= secs /\ h[n].effect = "DENY"})

(* Each tool in turn, along the calls: the index of the tool that would    *)
(* be next.                                                                *)
NextTool(calls, tools) ==
    LET next[n \in 0 .. Len(calls)] ==
          IF n = 0 THEN 1
          ELSE IF next[n - 1] <= Len(tools) /\ MatchesTool(tools[next[n - 1]], calls[n].tool)
               THEN next[n - 1] + 1 ELSE next[n - 1]
    IN  next[Len(calls)]
(* Mutant of Found: the history is searched newest first.                  *)
FoundNewestFirst(h, tools) == NextTool(h, tools)
(* The history is searched from the oldest call on.                        *)
Found(h, tools) == NextTool(Reverse(h), tools)
HistorySequence(h, tools) == Found(h, tools) = Len(tools) + 1

(* RecordHistory: the newest call, and what the buffer drops.              *)
RecordCall(tool, effect) ==
    /\ history' = SubSeq(<<[tool |-> tool, effect |-> effect, age |-> 0]>> \o history, 1,
                         IF Len(history) < MaxHistory THEN Len(history) + 1 ELSE MaxHistory)
    /\ UNCHANGED <<registryVars, replayed>>
GrowOlder ==
    /\ \A n \in DOMAIN history : history[n].age + 1 \in HistoryAges
    /\ history # <<>>
    /\ history' = [n \in DOMAIN history |-> [history[n] EXCEPT !.age = @ + 1]]
    /\ UNCHANGED <<registryVars, replayed>>

HistoryNext == GrowOlder \/ \E tool \in HistoryTools, effect \in {"PERMIT", "DENY"} : RecordCall(tool, effect)

-------------------------------------------------------------------------------
(* The time of a replay *)

(* time.Weekday, 1 on Monday to 7 on Sunday.                               *)
Weekday(y, m, d) ==
    LET shift == <<0, 3, 2, 5, 0, 3, 5, 1, 4, 6, 2, 4>>
        z == IF m < 3 THEN y - 1 ELSE y
        sundayIs0 == (z + (z \div 4) - (z \div 100) + (z \div 400) + shift[m] + d) % 7
    IN IF sundayIs0 = 0 THEN 7 ELSE sundayIs0

(* replayEvalContext, and evalEnv, which builds a date of the year 2000    *)
(* from it and asks that for the weekday.                                  *)
ReplayContext(t) == [hour |-> t.hour, weekday |-> Weekday(t.year, t.month, t.day), month |-> t.month, day |-> t.day]
EvalTime(ctx) ==
    [hour |-> ctx.hour, weekday |-> Weekday(2000, ctx.month, ctx.day), month |-> ctx.month, day |-> ctx.day]

Replay(t) == replayed # t /\ replayed' = t /\ UNCHANGED <<registryVars, history>>
ReplayNext == \E t \in Dates : Replay(t)

ConditionsInit ==
    /\ condNow = 0
    /\ functions = [g \in Registries |-> [version |-> 0, cached |-> FALSE]]
    /\ results = [g \in Registries |-> <<>>]
    /\ evaluator = [e \in Evaluators |-> Idle0]
    /\ history = <<>> /\ replayed = [year |-> 2000, month |-> 1, day |-> 1, hour |-> 0]
ConditionsSpec == ConditionsInit /\ [][RegistryNext \/ HistoryNext \/ ReplayNext]_conditionVars

-------------------------------------------------------------------------------
(* Properties *)

(* operators.go:115-131, selectors.go:113-121: what a condition is given   *)
(* was computed by a registered function and no longer ago than results    *)
(* are kept; a failure is never a value, and never kept for the next call. *)
(* Where argument lists have keys of their own it is the value for these.  *)
ResultsAreComputed ==
    \A e \in Evaluators : evaluator[e].at = "done" =>
        LET c == evaluator[e] IN
        \/ c.of = (IF c.registry = "operator" THEN <<"panic">> ELSE <<"nil">>) /\ c.since = c.now
        \/ /\ c.of[1] \in 1 .. functions[c.registry].version
           /\ c.now - c.since <= ResultTTL
           /\ ArgKey[c.of[2]] = ArgKey[c.args]

(* engine.go:460: the tools are found in the history just when some calls  *)
(* of it, in the order they were made, match them; and the other helpers   *)
(* agree with one another.                                                 *)
SequenceIsEmbedded ==
    LET oldest == Reverse(history) IN
    \A tools \in UNION {[1 .. n -> HistoryTools \cup {"*"}] : n \in 0 .. 2} :
        HistorySequence(history, tools) <=>
            \E f \in [DOMAIN tools -> DOMAIN history] :
                /\ \A i, j \in DOMAIN tools : i < j => f[i] < f[j]
                /\ \A i \in DOMAIN tools : MatchesTool(tools[i], oldest[f[i]].tool)
HelpersAgree ==
    \A tool \in HistoryTools, secs \in HistoryAges :
        /\ HistoryContainsWithin(history, tool, secs) =>
              HistoryToolCount(history, tool) > 0 /\ HistorySequence(history, <<tool>>)
        /\ DenyCountWithin(history, secs) <= HistoryToolCount(history, "*")

ConditionsHold == ResultsAreComputed /\ SequenceIsEmbedded /\ HelpersAgree

(* An operator that is registered again is evaluated as registered, and for *)
(* the arguments of the condition: 1 and "1" are two.                      *)
NewestIsEvaluated ==
    \A e \in Evaluators : evaluator[e].at = "done" /\ Len(evaluator[e].of) = 2 =>
        evaluator[e].of = <<evaluator[e].asked, evaluator[e].args>>
(* engine.go:391: "allow explicit context to make replay deterministic".   *)
ReplayKeepsTime == EvalTime(ReplayContext(replayed)) = ReplayContext(replayed)
===============================================================================
