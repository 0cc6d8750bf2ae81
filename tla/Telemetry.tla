-------------------------------- MODULE Telemetry --------------------------------
(***************************************************************************)
(* What the decisions leave behind for analysis (core/observe): the        *)
(* counters, the reads that another session of the principal carries out   *)
(* (crosssession.go), the figures of each rule (pie.go) and the records    *)
(* that arguments came from (provenance.go).                               *)
(*                                                                         *)
(* decide hands its observations to goroutines of their own, so they are   *)
(* made in any order.                                                      *)
(***************************************************************************)
EXTENDS Integers, Sequences, FiniteSets, SequencesExt

CONSTANTS
    Evaluations,    \* evaluations in flight
    SeenCalls,      \* [principal, session, words, effect, rule, takes, leaves]
    TextsIn,        \* the texts each argument contains
    TextSize,       \* 0 of a text shorter than 8 bytes
    FlowWindow, FlowRoom, GlobalRoom, ScopeRoom,
    MaxSeen, MaxScans, MaxTelTime

Effects4 == {"PERMIT", "DENY", "DEFER", "SHADOW"}

ASSUME TelemetryAssumption ==
    /\ FlowWindow \in Nat /\ {FlowRoom, GlobalRoom, ScopeRoom} \subseteq Nat \ {0}
    /\ TextSize \in [DOMAIN TextSize -> Nat] /\ "" \notin DOMAIN TextSize
    /\ \A c \in SeenCalls : /\ c.effect \in Effects4 /\ c.leaves \in {""} \cup DOMAIN TextSize
                            /\ c.session # "global"

VARIABLES
    telNow,
    evaluating,     \* each evaluation's call: when it began, where its arguments came from
    seen,           \* the calls decided, in order: [call, time, from, logged]
    scans,          \* outputs handed to ScanOutput
    jobs,           \* observations whose goroutine has not run
    flows,          \* FlowTracker.byPrincipal
    flagged,        \* the calls that raised suspicionCount
    tracked,        \* the calls RecordAccess was given, in order
    ruleStats,      \* PIEAnalyzer.rules
    counters,       \* Metrics: permits, denies, defers, shadows
    samples         \* provenanceTracker: "global" and each session's, [record, text]

telVars == <<telNow, evaluating, seen, scans, jobs, flows, flagged, tracked, ruleStats, counters, samples>>

(* classifyToolKind: by the words in the tool's id, those of exfiltration  *)
(* before those of reading.                                                *)
ExfilWords == {"exfil", "slack", "email", "webhook", "upload", "post:", "/send", "export"}
ReadWords == {"read", "fetch", "query", "list", "get", "download"}
Kind(c) == IF c.words \cap ExfilWords # {} THEN "exfil" ELSE IF c.words \cap ReadWords # {} THEN "read" ELSE "other"

SeenSessions == {c.session : c \in SeenCalls}
PrincipalKeys == {c.principal : c \in SeenCalls}
RuleIDs == {c.rule : c \in SeenCalls} \ {""}

TelInit ==
    /\ telNow = 0 /\ seen = <<>> /\ scans = 0 /\ jobs = {}
    /\ evaluating = [e \in Evaluations |-> [at |-> "idle"]]
    /\ flows = [p \in PrincipalKeys |-> <<>>] /\ flagged = {} /\ tracked = <<>>
    /\ ruleStats = [r \in RuleIDs |-> [e \in Effects4 \ {"SHADOW"} |-> 0]]
    /\ counters = [e \in Effects4 |-> 0]
    /\ samples = [s \in SeenSessions \cup {"global"} |-> <<>>]

TelTick == telNow < MaxTelTime /\ telNow' = telNow + 1
           /\ UNCHANGED <<evaluating, seen, scans, jobs, flows, flagged, tracked, ruleStats, counters, samples>>

-------------------------------------------------------------------------------
(* Where an argument came from *)

(* InferArgProvenance: the longest output the argument contains; of those  *)
(* as long, the first, everybody's before the session's own. An output     *)
(* without a record is passed over. 0 is "unknown".                        *)
Inferred(c) ==
    LET kept == samples["global"] \o samples[c.session]
        Size(n) == TextSize[kept[n].text]
        candidates == {n \in DOMAIN kept : kept[n].record # 0 /\ Size(n) > 0 /\ kept[n].text \in TextsIn[c.takes]}
        longest == {n \in candidates : \A m \in candidates : Size(m) <= Size(n)}
    IN IF candidates = {} THEN 0 ELSE kept[Min(longest)].record

(* The time of the request, and the provenance of its arguments.           *)
BeginSeen(e, c) ==
    /\ evaluating[e].at = "idle" /\ Len(seen) < MaxSeen
    /\ evaluating' = [evaluating EXCEPT ![e] =
                         [at |-> "evaluating", call |-> c, time |-> telNow, from |-> Inferred(c)]]
    /\ UNCHANGED <<telNow, seen, scans, jobs, flows, flagged, tracked, ruleStats, counters, samples>>

(* Pipeline.decide counts the decision, then logs it. A decision the log   *)
(* refused is answered with a denial and leaves nothing else.              *)
DecideSeen(e, logged) ==
    LET c == evaluating[e].call n == Len(seen) + 1
        Job(kind, wanted) == IF wanted THEN {[does |-> kind, of |-> n, text |-> c.leaves]} ELSE {}
    IN
    /\ evaluating[e].at = "evaluating" /\ Len(seen) < MaxSeen
    /\ counters' = [counters EXCEPT ![c.effect] = @ + 1]
    /\ seen' = Append(seen, [call |-> c, time |-> evaluating[e].time, from |-> evaluating[e].from,
                             logged |-> logged])
    /\ evaluating' = [evaluating EXCEPT ![e] = [at |-> "idle"]]
    /\ jobs' = IF ~logged THEN jobs
               ELSE jobs \cup Job("output", c.leaves # "") \cup Job("access", c.effect = "PERMIT")
                         \cup Job("rule", c.rule # "")
    /\ UNCHANGED <<telNow, scans, flows, flagged, tracked, ruleStats, samples>>

(* ScanOutput notes the output of a tool, of no agent and no record.       *)
ScanSeen(text) ==
    /\ scans < MaxScans /\ scans' = scans + 1
    /\ jobs' = jobs \cup {[does |-> "output", of |-> 0, text |-> text]}
    /\ UNCHANGED <<telNow, evaluating, seen, flows, flagged, tracked, ruleStats, counters, samples>>

-------------------------------------------------------------------------------
(* The goroutines *)

LastOf(s, room) == SubSeq(s, 1 + (IF Len(s) > room THEN Len(s) - room ELSE 0), Len(s))

(* RecordToolOutput. *)
NoteOutput(j) ==
    /\ j.does = "output"
    /\ LET o == [record |-> j.of, text |-> j.text]
           Noted(room, s) == LastOf(Append(s, o), room)
       IN samples' = [s \in DOMAIN samples |->
              CASE s = "global" -> Noted(GlobalRoom, samples[s])
                [] j.of # 0 /\ s # "global" /\ s = seen[j.of].call.session -> Noted(ScopeRoom, samples[s])
                [] OTHER -> samples[s]]
    /\ UNCHANGED <<flows, flagged, tracked, ruleStats>>

(* pruneFlowHistory, at the time of the call that is recorded.             *)
Those(s, ns) == FlattenSeq([n \in DOMAIN s |-> IF n \in ns THEN <<s[n]>> ELSE <<>>])
Pruned(p, at) == Those(flows[p], {n \in DOMAIN flows[p] : flows[p][n].time >= at - FlowWindow})

(* Mutant of Suspicious: a session's own reads count.                      *)
SuspiciousAlone(c, at, hist) ==
    Kind(c) = "exfil" /\ \E f \in ToSet(hist) : f.kind = "read" /\ at - f.time <= FlowWindow
(* An exfiltration, after a read in another session.                       *)
Suspicious(c, at, hist) ==
    Kind(c) = "exfil" /\ \E f \in ToSet(hist) :
        f.kind = "read" /\ f.session # c.session /\ at - f.time <= FlowWindow

(* FlowTracker.RecordAccess, under its lock. *)
NoteAccess(j) ==
    /\ j.does = "access"
    /\ LET c == seen[j.of].call at == seen[j.of].time hist == Pruned(c.principal, at) IN
       /\ flows' = [flows EXCEPT ![c.principal] =
                       LastOf(Append(hist, [session |-> c.session, kind |-> Kind(c), time |-> at]), FlowRoom)]
       /\ flagged' = IF Suspicious(c, at, hist) THEN flagged \cup {j.of} ELSE flagged
    /\ tracked' = Append(tracked, j.of)
    /\ UNCHANGED <<ruleStats, samples>>

(* PIEAnalyzer.RecordRuleDecision has no figure for shadows.               *)
NoteRule(j) ==
    /\ j.does = "rule"
    /\ LET c == seen[j.of].call IN
       ruleStats' = IF c.effect = "SHADOW" THEN ruleStats
                    ELSE [ruleStats EXCEPT ![c.rule][c.effect] = @ + 1]
    /\ UNCHANGED <<flows, flagged, tracked, samples>>

RunJob(j) ==
    /\ jobs' = jobs \ {j} /\ (NoteOutput(j) \/ NoteAccess(j) \/ NoteRule(j))
    /\ UNCHANGED <<telNow, evaluating, seen, scans, counters>>

TelNext ==
    \/ TelTick
    \/ \E e \in Evaluations : \/ \E c \in SeenCalls : BeginSeen(e, c)
                              \/ \E logged \in BOOLEAN : DecideSeen(e, logged)
    \/ \E t \in DOMAIN TextSize : ScanSeen(t)
    \/ \E j \in jobs : RunJob(j)
TelSpec == TelInit /\ [][TelNext]_telVars

-------------------------------------------------------------------------------
(* Properties *)

(* A read of the principal's in another session, no older than the window.  *)
ReadElsewhere(m, n) ==
    /\ Kind(seen[m].call) = "read" /\ seen[m].call.principal = seen[n].call.principal
    /\ seen[m].call.session # seen[n].call.session /\ seen[n].time - seen[m].time <= FlowWindow

(* crosssession.go:58: what is flagged is an exfiltration that was         *)
(* permitted, and some session of the principal but its own did read.      *)
SuspicionsAreReal ==
    \A n \in flagged : /\ Kind(seen[n].call) = "exfil" /\ seen[n].call.effect = "PERMIT"
                       /\ \E m \in ToSet(tracked) : ReadElsewhere(m, n)

(* The calls of the same principal between the i-th tracked and the n-th.   *)
Meanwhile(i, n) == {k \in i + 1 .. n - 1 : seen[tracked[k]].call.principal = seen[tracked[n]].call.principal}
Recent(n) ==
    {i \in 1 .. n - 1 : /\ seen[tracked[i]].call.principal = seen[tracked[n]].call.principal
                        /\ Cardinality(Meanwhile(i, n)) < FlowRoom}

(* If the goroutines ran in the order of the requests, none that is among  *)
(* the last ones kept for its principal was missed.                        *)
PairsInOrderAreFound ==
    (\A i, n \in DOMAIN tracked : i < n => seen[tracked[i]].time <= seen[tracked[n]].time) =>
        \A n \in DOMAIN tracked : Kind(seen[tracked[n]].call) = "exfil" =>
            (tracked[n] \in flagged <=> \E i \in Recent(n) : ReadElsewhere(tracked[i], tracked[n]))

(* Each logged decision of a rule is in its figures, or a goroutine is yet *)
(* to put it there: no update is lost.                                     *)
StatsAgree ==
    \A r \in RuleIDs, e \in Effects4 \ {"SHADOW"} :
        LET Of(ns) == Cardinality({n \in ns : seen[n].call.rule = r /\ seen[n].call.effect = e}) IN
        ruleStats[r][e] = Of({n \in DOMAIN seen : seen[n].logged}) - Of({j.of : j \in {k \in jobs : k.does = "rule"}})

(* An argument is traced to a record only if that is of an earlier call    *)
(* that was logged and left a text the argument contains.                  *)
ProvenanceIsSeen ==
    \A n \in DOMAIN seen : seen[n].from # 0 =>
        LET o == seen[seen[n].from] IN
        seen[n].from < n /\ o.logged /\ o.call.leaves \in TextsIn[seen[n].call.takes]

TelemetryHolds == SuspicionsAreReal /\ PairsInOrderAreFound /\ StatsAgree /\ ProvenanceIsSeen

(* provenance.go:10: an argument that contains an output kept is traced to  *)
(* something.                                                              *)
ScannedIsTraced ==
    \A c \in SeenCalls : Inferred(c) = 0 =>
        \A o \in ToSet(samples["global"]) : TextSize[o.text] = 0 \/ o.text \notin TextsIn[c.takes]
(* crosssession.go:23: a read first, and then an exfiltration.             *)
ReadCameFirst == \A n \in flagged : \E m \in ToSet(tracked) : ReadElsewhere(m, n) /\ seen[m].time <= seen[n].time
(* metrics.go:124: the decisions counted are the decisions answered.       *)
CountersAgree ==
    \A e \in Effects4 : counters[e] =
        Cardinality({n \in DOMAIN seen : e = (IF seen[n].logged THEN seen[n].call.effect ELSE "DENY")})
===============================================================================
