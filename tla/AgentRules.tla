------------------------------- MODULE AgentRules -------------------------------
(***************************************************************************)
(* The rule books for several agents at work (core/multiagent): which      *)
(* calls a phase needs before it may be left (phases.go), the seals on the *)
(* steps of a session (seals.go), who invoked whom (linkage.go), whose key *)
(* of the shared state is whose (sessiongov.go) and what an aggregated     *)
(* answer may show (aggregation.go).                                       *)
(*                                                                         *)
(* Names are joined with ":" to keys by string concatenation. A name is a  *)
(* sequence of the parts between its colons, so that joining is \o.        *)
(***************************************************************************)
EXTENDS Integers, Sequences, FiniteSets, SequencesExt

CONSTANTS
    AgentNames,     \* agent ids, as sequences of parts
    PhaseIDs,       \* phase ids, likewise
    Requirements,   \* phase -> its requirements [tools, min]
    RuleTools,      \* tools
    Sealers,        \* goroutines that seal the output of a step
    StepIndexes,    \* the step indexes they may name
    LinkedRecords,  \* ids of decision records
    AnswerText,     \* the aggregated answer: a sequence of characters, none of them of the placeholder's
    Spans,          \* what the patterns find in it: [type, from, to]
    Blocked,        \* blocked entity types
    MaxAnswer,      \* MaxOutputLength, 0 when unlimited
    MaxToolCalls, MaxSteps, MaxLinks

ASSUME AgentRulesAssumption ==
    /\ AgentNames \cup PhaseIDs \subseteq Seq(STRING) \ {<<>>}
    /\ \A p \in PhaseIDs : \A r \in Requirements[p] : r.tools \subseteq RuleTools /\ r.min \in Nat
    /\ StepIndexes \subseteq Int
    /\ IsFiniteSet(Spans) /\ AnswerText \in Seq(STRING)
    /\ \A e \in Spans : e.from \in 1 .. e.to /\ e.to \in 1 .. Len(AnswerText)

VARIABLES
    phaseCalls,     \* PhaseVerifier.records: key -> tool -> count
    made,           \* the tool calls agents made in phases
    asked,          \* the step index each call of Seal was given, in the order the calls began
    sealer,         \* each sealer's call, once its HMAC is computed: its place in asked, or 0
    seals,          \* SealManager.seals of one session: the calls they are of
    crossed,        \* the calls that began while another was under way
    links,          \* LinkageManager.links: <<outer record, inner record>>
    answer          \* what GovernOutput left of the answer: positions still readable

phasePart == <<phaseCalls, made>>
sealPart == <<asked, sealer, seals, crossed>>
ruleVars == <<phasePart, sealPart, links, answer>>

Whole == 1 .. Len(AnswerText)
RulesInit ==
    /\ phaseCalls = <<>> /\ made = <<>>
    /\ asked = <<>> /\ sealer = [s \in Sealers |-> 0] /\ seals = <<>> /\ crossed = {}
    /\ links = <<>>
    /\ answer = Whole

-------------------------------------------------------------------------------
(* Phases *)

PhaseKey(a, p) == a \o p

CountOf(k, t) == IF k \in DOMAIN phaseCalls THEN phaseCalls[k][t] ELSE 0

RecordToolCall(a, p, t) ==
    /\ Len(made) < MaxToolCalls
    /\ made' = Append(made, <<a, p, t>>)
    /\ phaseCalls' = [k \in DOMAIN phaseCalls \cup {PhaseKey(a, p)} |->
         [u \in RuleTools |-> CountOf(k, u) + IF k = PhaseKey(a, p) /\ u = t THEN 1 ELSE 0]]
    /\ UNCHANGED <<sealPart, links, answer>>

(* Mutant of CanTransition: one requirement is enough.                     *)
CanTransitionAny(a, p) ==
    \/ Requirements[p] = {}
    \/ \E r \in Requirements[p] : \E t \in r.tools : CountOf(PhaseKey(a, p), t) >= r.min

(* Each requirement needs one tool of its own that was called often enough.*)
CanTransition(a, p) ==
    \A r \in Requirements[p] : \E t \in r.tools : CountOf(PhaseKey(a, p), t) >= r.min

-------------------------------------------------------------------------------
(* Seals *)

(* Seal computes the HMAC before it takes the lock. The step's index is its *)
(* caller's argument: nothing numbers the steps, or looks at the index of  *)
(* the last.                                                               *)
BeginSeal(s, index) ==
    /\ sealer[s] = 0 /\ Len(asked) < MaxSteps
    /\ asked' = Append(asked, index) /\ sealer' = [sealer EXCEPT ![s] = Len(asked) + 1]
    /\ crossed' = IF \E r \in Sealers : sealer[r] # 0 THEN crossed \cup {Len(asked) + 1} ELSE crossed
    /\ UNCHANGED <<phasePart, seals, links, answer>>
KeepSeal(s) ==
    /\ sealer[s] # 0
    /\ seals' = Append(seals, sealer[s]) /\ sealer' = [sealer EXCEPT ![s] = 0]
    /\ UNCHANGED <<phasePart, asked, crossed, links, answer>>

(* The indexes of the session's seals, in the order they are kept in.      *)
StepsSealed == [i \in DOMAIN seals |-> asked[seals[i]]]

(* VerifyChain: each step after the first follows the one before it.       *)
VerifyChain(l) == \A i \in 2 .. Len(l) : l[i] = l[i - 1] + 1

-------------------------------------------------------------------------------
(* Links between records *)

RecordLink(o, i) ==
    /\ Len(links) < MaxLinks
    /\ links' = Append(links, <<o, i>>)
    /\ UNCHANGED <<phasePart, sealPart, answer>>

(* collectChain: depth first, a record only once.  What is added to the    *)
(* chain from d on, and the records visited then.                          *)
CollectChain(d, visited0) ==
    LET collect[r \in LinkedRecords, visited \in SUBSET LinkedRecords] ==
          IF r \in visited THEN [chain |-> <<>>, visited |-> visited]
          ELSE FoldLeft(LAMBDA acc, n :
                   IF links[n][1] # r THEN acc
                   ELSE LET inner == collect[links[n][2], acc.visited] IN
                        [chain |-> acc.chain \o <<n>> \o inner.chain, visited |-> inner.visited],
                 [chain |-> <<>>, visited |-> visited \cup {r}], [n \in 1 .. Len(links) |-> n])
    IN  collect[d, visited0]
ChainFromDPR(d) == CollectChain(d, {}).chain

-------------------------------------------------------------------------------
(* Whose key *)

ScopedPrefix(a) == <<"agent">> \o a
IsOwned(a, k) == IsPrefix(ScopedPrefix(a), k) /\ Len(k) > Len(ScopedPrefix(a))
(* CanWrite, CanRead of an agent that has a namespace, for keys without a  *)
(* schema and values the scanners find nothing in.                         *)
CanUse(a, k) == IsOwned(a, k) \/ Head(k) = "shared"

-------------------------------------------------------------------------------
(* The aggregated answer *)

(* A text stands at a place of what is left if all of it is there. What is *)
(* taken out leaves a placeholder, so nothing comes to stand across it.    *)
StandsAt(left, v, i) ==
    i .. i + Len(v) - 1 \subseteq left /\ \A k \in 1 .. Len(v) : AnswerText[i + k - 1] = v[k]

(* redactEntity: an entity is looked for by its text, wherever it stands,  *)
(* from the left, each time behind what was found before.                  *)
Value(e) == SubSeq(AnswerText, e.from, e.to)
FromTheLeft(places, left, v) ==
    \A i \in Whole : i \in places <=> StandsAt(left, v, i) /\ \A j \in places : j < i => j + Len(v) <= i
Places(left, v) == CHOOSE places \in SUBSET Whole : FromTheLeft(places, left, v)
TakeOut(left, places, v) == left \ UNION {i .. i + Len(v) - 1 : i \in places}

Redact(left, e) == TakeOut(left, Places(left, Value(e)), Value(e))

(* GovernOutput: entities are taken in the order in which the patterns'    *)
(* map is walked, type by type; then the answer is cut. Placeholders count *)
(* for its length, so that it may be cut anywhere.                         *)
GovernOutput ==
    /\ answer = Whole
    /\ \E order \in SetToSeqs({e \in Spans : e.type \in Blocked}) :
       \E cut \in IF MaxAnswer = 0 THEN {Len(AnswerText)} ELSE 0 .. Len(AnswerText) :
          answer' = {i \in FoldLeft(Redact, Whole, order) : i <= cut}
    /\ UNCHANGED <<phasePart, sealPart, links>>

-------------------------------------------------------------------------------

(* The rule books share no state.                                          *)
PhaseNext == \E a \in AgentNames, p \in PhaseIDs, t \in RuleTools : RecordToolCall(a, p, t)
SealNext == \E s \in Sealers : KeepSeal(s) \/ \E n \in StepIndexes : BeginSeal(s, n)
LinkNext == \E o, i \in LinkedRecords : RecordLink(o, i)
AnswerNext == GovernOutput

-------------------------------------------------------------------------------
(* Properties *)

(* Names of one part only: the names that cannot be taken for others.      *)
OnePart(name) == Len(name) = 1

(* An agent with a plain name leaves a phase with a plain name on the      *)
(* strength of calls it made itself, in that phase, for each requirement.  *)
CallsMade(a, p, t) == Cardinality({n \in DOMAIN made : made[n] = <<a, p, t>>})
PhasesAreEarned ==
    \A a \in AgentNames, p \in PhaseIDs : OnePart(a) /\ OnePart(p) /\ CanTransition(a, p) =>
        \A r \in Requirements[p] : \E t \in r.tools : CallsMade(a, p, t) >= r.min

(* The chain of a record holds every link that can be reached from it, and *)
(* each once, also when invocations go round in a circle.                  *)
Reach(d) ==
    LET from[n \in 0 .. Len(links)] ==
          IF n = 0 THEN {d}
          ELSE from[n - 1] \cup {links[m][2] : m \in {m \in DOMAIN links : links[m][1] \in from[n - 1]}}
    IN  from[Len(links)]
ChainsAreComplete ==
    \A d \in LinkedRecords :
        /\ ToSet(ChainFromDPR(d)) = {n \in DOMAIN links : links[n][1] \in Reach(d)}
        /\ IsInjective(ChainFromDPR(d))

(* seals.go:96: a session that verifies has no step sealed twice and none   *)
(* missing between two that are sealed.                                    *)
NoSealIsMissing ==
    VerifyChain(StepsSealed) => \A i, j \in DOMAIN seals : StepsSealed[j] - StepsSealed[i] = j - i
(* The seals of a pipeline, whose agents seal one after the other (seals.go *)
(* :3), are kept in the order of the steps: it verifies if and only if     *)
(* their indexes were given in turn.                                       *)
PipelinesVerify ==
    crossed = {} /\ (\A s \in Sealers : sealer[s] = 0) => (VerifyChain(StepsSealed) <=> VerifyChain(asked))
SealsAreSound == NoSealIsMissing /\ PipelinesVerify

(* No two agents with names of one part can use the same key that is not   *)
(* shared.                                                                 *)
KeysAreApart ==
    \A a, b \in AgentNames, p \in PhaseIDs : a # b /\ OnePart(a) /\ OnePart(b) =>
        ~(CanUse(a, ScopedPrefix(b) \o p))

(* aggregation.go:47: no text of a blocked entity stands anywhere in the    *)
(* answer, whatever order they are taken out in, overlap as they may.      *)
BlockedIsGone ==
    answer # Whole => \A e \in Spans : e.type \in Blocked => \A i \in Whole : ~StandsAt(answer, Value(e), i)

AgentRulesHold == PhasesAreEarned /\ SealsAreSound /\ KeysAreApart

(* The same without the restriction to names that hold no ":".             *)
EveryPhaseIsEarned ==
    \A a \in AgentNames, p \in PhaseIDs : CanTransition(a, p) =>
        \A r \in Requirements[p] : \E t \in r.tools : CallsMade(a, p, t) >= r.min
(* seals.go, VerifyChain: the seals of a session form a chain, although     *)
(* several sealers add to it.                                              *)
SealsVerify == VerifyChain(asked) /\ (\A s \in Sealers : sealer[s] = 0) => VerifyChain(StepsSealed)
(* No part of what is blocked shows, although entities overlap.            *)
NothingBlockedShows ==
    answer # Whole => \A e \in Spans : e.type \in Blocked => (e.from .. e.to) \cap answer = {}
===============================================================================
