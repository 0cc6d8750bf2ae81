------------------------------ MODULE PolicyRules ------------------------------
(***************************************************************************)
(* What a policy's text means: the two ways FPL becomes rules              *)
(* (policy/loader.go for a .fpl file, policy/fpl_merge.go for FPL inside a *)
(* YAML policy), the manifest it declares (policy/topology_fpl.go), the    *)
(* checks of a loaded policy, and the first-match evaluation of            *)
(* policy/engine.go, with and without a timeout (policy/atomic.go).        *)
(* An author writes a policy item by item; every text is loaded and        *)
(* evaluated for every tool and every outcome of its conditions.           *)
(***************************************************************************)
EXTENDS FplLanguage, FiniteSets

CONSTANTS
    PatternTools,   \* tool pattern -> the tools path.Match lets it match
    Probes,         \* syntheticProbeIDs: the tools the overlap check tries
    FplRuleSet, YamlRuleSet, ManifestSet, Phrases,   \* what an author may write
    MaxItems        \* bound on items

Tools == UNION {PatternTools[p] : p \in DOMAIN PatternTools}

ASSUME PolicyRulesAssumption == Probes \subseteq Tools /\ MaxItems \in Nat

VARIABLES
    text,   \* the FPL of a policy: an agent's default, budget, phases, rules
    flat, topo, \* its flat rules and manifest lines, after the agent's block
    yaml    \* the YAML rules and manifest the FPL is merged into

policyVars == <<text, flat, topo, yaml>>

NoManifest == [agent |-> "", undeclared |-> "deny", allows |-> <<>>]

PolicyInit ==
    /\ text = [agent |-> "a", default |-> "deny", budget |-> 0, phases |-> <<>>, rules |-> <<>>]
    /\ flat = <<>> /\ topo = <<>>
    /\ yaml = [rules |-> <<>>, manifest |-> NoManifest]

Items == Len(text.rules) + Len(text.phases) + Len(flat) + Len(topo) + Len(yaml.rules) + Len(yaml.manifest.allows)

(* The text as its author wrote it.                                        *)
Lines ==
    LET agent == Decompile(text) n == Len(agent) + 2 IN
    agent \o PrintRules(n, flat) \o [i \in 1 .. Len(topo) |-> Words(n + Len(flat) + i - 1, <<"manifest">> \o topo[i])]

-------------------------------------------------------------------------------
(* Loading *)

PolicyRule(seq, tool, when, effect, strict) ==
    [id |-> seq, tool |-> tool, when |-> when, effect |-> effect, strict |-> strict, from |-> "fpl"]

(* fplRuleToRule keeps an effect it does not know.                         *)
FplRuleToRule(r, seq) ==
    PolicyRule(seq, r.tool[1], r.when,
        CASE r.effect \in {"allow", "approve"}        -> "permit"
          [] r.effect \in {"deny!", "block", "reject"} -> "deny"
          [] OTHER                                     -> r.effect,
        r.effect = "deny!")

(* fplDocToPolicy: the rules of the first agent, of its phases and the     *)
(* flat ones; a group's ids are counted from the rules before it, which    *)
(* grow while they are counted.                                            *)
AppendGroup(rules, group) ==
    rules \o [i \in 1 .. Len(group) |-> FplRuleToRule(group[i], Len(rules) + 2 * (i - 1))]

FplDocRules(doc) ==
    LET agents == SubsOf(doc, "agent")
        own == IF agents = <<>> THEN <<>>
               ELSE [i \in 1 .. Len(agents[1].rules) |-> FplRuleToRule(agents[1].rules[i], i - 1)]
        phases == IF agents = <<>> THEN <<>> ELSE SubsOf(agents[1], "phase")
    IN  AppendGroup(FoldLeft(LAMBDA acc, ph : AppendGroup(acc, ph.rules), own, phases), doc.rules)

ValueOf(node, key, otherwise) ==
    LET set == SelectSeq(node.kv, LAMBDA p : p[1] = key) IN IF set = <<>> THEN otherwise ELSE Last(set)[2][1]

(* Mutant of MergedRules: the FPL rules are put before the YAML rules.     *)
MergedBefore(base, compiled) ==
    [i \in 1 .. Len(compiled) |-> PolicyRule(i - 1, compiled[i].tool[1], compiled[i].when, compiled[i].effect, compiled[i].strict)]
    \o base

(* compiledRuleToRule: FPL rules follow the YAML rules.                    *)
MergedRules(base, compiled) ==
    base \o [i \in 1 .. Len(compiled) |->
               PolicyRule(Len(base) + i - 1, compiled[i].tool[1], compiled[i].when, compiled[i].effect, compiled[i].strict)]

(* mergeOrchestratorManifestFromFPL.  The orchestrator's name is compared  *)
(* with the one of the statement before, a declaration's with earlier      *)
(* declarations only.                                                      *)
Names(acc, st) ==
    IF st.kind = "orchestrator"
    THEN [acc EXCEPT !.ok = @ /\ ~(acc.seen /\ st.orch # acc.orch), !.seen = TRUE, !.orch = st.orch, !.undeclared = st.undeclared]
    ELSE [acc EXCEPT !.ok = @ /\ acc.orch \in {"", st.orch}, !.orch = IF @ = "" THEN st.orch ELSE @,
                     !.allows = Append(@, [target |-> st.target, max |-> st.max, approval |-> st.approval])]

(* Entries by target: a later one replaces an earlier one in its place.    *)
PutEntry(entries, e) ==
    LET same == {i \in DOMAIN entries : entries[i].target = e.target} IN
    IF same = {} THEN Append(entries, e) ELSE [i \in DOMAIN entries |-> IF i \in same THEN e ELSE entries[i]]

MergeManifest(base, stmts) ==
    LET n == FoldLeft(Names, [ok |-> TRUE, seen |-> FALSE, orch |-> "", undeclared |-> "", allows |-> <<>>], stmts) IN
    IF stmts = <<>> THEN [ok |-> TRUE, manifest |-> base]
    ELSE [ok |-> n.ok /\ base.agent \in {"", n.orch},
          manifest |-> [agent |-> n.orch, undeclared |-> IF n.seen THEN n.undeclared ELSE base.undeclared,
                        allows |-> FoldLeft(PutEntry, FoldLeft(PutEntry, <<>>, base.allows), n.allows)]]

(* loadFPLDocument drops the error of the manifest, and the manifest.      *)
FplPolicy(doc, agents, m) ==
    [ok |-> TRUE, rules |-> FplDocRules(doc), manifest |-> IF m.ok THEN m.manifest ELSE NoManifest,
     default |-> IF agents = <<>> THEN "deny" ELSE ValueOf(agents[1], "default", "deny")]
LoadFplDocument(d) ==
    IF ~d.ok THEN [ok |-> FALSE]
    ELSE FplPolicy(d.doc, SubsOf(d.doc, "agent"), MergeManifest(NoManifest, d.doc.topo))
LoadFpl(lines) == LoadFplDocument(ParseDocument(Flatten(lines)))

(* loadPolicyDocument and mergeFPLIntoDoc: an error anywhere loads nothing. *)
MergedPolicy(rules, base, m) ==
    IF (\E i \in DOMAIN rules : ~Compiles(rules[i])) \/ ~m.ok THEN [ok |-> FALSE]
    ELSE [ok |-> TRUE, manifest |-> m.manifest, default |-> "deny",
          rules |-> MergedRules(base.rules, [i \in DOMAIN rules |-> CompileRule(rules[i])])]
MergeProgram(p, base) ==
    IF ~p.ok THEN [ok |-> FALSE] ELSE MergedPolicy(p.rules, base, MergeManifest(base.manifest, p.topo))
LoadYaml(lines, base) == MergeProgram(ParseProgram(lines), base)

-------------------------------------------------------------------------------
(* Checking and evaluating *)

(* detectGlobOverlap: a rule without a condition is reported when one      *)
(* before it, also without one, matches every probe it matches.            *)
Probed(r) == PatternTools[r.tool] \cap Probes
Overlapped(rules) ==
    {i \in DOMAIN rules :
       /\ rules[i].tool # "*" /\ rules[i].when = <<>> /\ Probed(rules[i]) # {}
       /\ \E j \in 1 .. i - 1 : rules[j].when = <<>> /\ Probed(rules[j]) # {} /\ Probed(rules[i]) \subseteq Probed(rules[j])}

(* Validate: the findings that are errors.                                 *)
InvalidRules(rules) ==
    {i \in DOMAIN rules : \/ rules[i].effect \notin {"permit", "deny", "defer", "shadow"}
                          \/ \E j \in 1 .. i - 1 : rules[j].id = rules[i].id /\ rules[j].from = rules[i].from}

Conditions(rules) == {rules[i].when : i \in DOMAIN rules} \ {<<>>}

Considered(rules, tool, out) ==
    {i \in DOMAIN rules : tool \in PatternTools[rules[i].tool] /\ (rules[i].when = <<>> \/ out[rules[i].when] # "false")}

(* Engine.Evaluate: the first rule that matches decides, an expression     *)
(* that fails denies, and the default is for calls no rule matches.        *)
Evaluate(p, tool, out) ==
    LET hits == Considered(p.rules, tool, out)
        i == CHOOSE x \in hits : \A y \in hits : x <= y
    IN
    IF hits = {} THEN [effect |-> p.default, rule |-> 0]
    ELSE IF p.rules[i].when # <<>> /\ out[p.rules[i].when] = "error" THEN [effect |-> "deny", rule |-> i]
    ELSE [effect |-> p.rules[i].effect, rule |-> i]

(* EvaluateWithTimeout denies when the first condition it waits for is     *)
(* slow, or when the caller has given up before a condition.               *)
EvaluateWithTimeout(p, tool, out, slow) ==
    LET tried == {i \in DOMAIN p.rules : tool \in PatternTools[p.rules[i].tool] /\ p.rules[i].when \in slow}
        e == Evaluate(p, tool, out)
    IN  IF \E i \in tried : e.rule = 0 \/ i <= e.rule THEN [effect |-> "deny", rule |-> 0] ELSE e

-------------------------------------------------------------------------------
(* An author *)

Room == Items < MaxItems
AddRule ==
    /\ Room /\ UNCHANGED <<flat, topo, yaml>>
    /\ \E r \in FplRuleSet : text' = [text EXCEPT !.rules = Append(@, r)]
AddSentence ==
    /\ Room /\ UNCHANGED <<flat, topo, yaml>>
    /\ \E f \in SUBSET Phrases : text' = [text EXCEPT !.rules = Append(@, SentenceRule(f))]
AddPhase ==
    /\ Room /\ \E ts \in {<<"stripe/refund">>, <<"shell/*", "stripe/refund">>} :
         text' = [text EXCEPT !.phases = Append(@, [id |-> "p", tools |-> ts])]
    /\ UNCHANGED <<flat, topo, yaml>>
SetHead ==
    /\ text.budget = 0 /\ UNCHANGED <<flat, topo, yaml>>
    /\ text' = [text EXCEPT !.budget = 5, !.default = "permit"]
AddFlatRule ==
    /\ Room /\ UNCHANGED <<text, topo, yaml>>
    /\ \E r \in {x \in FplRuleSet : x.effect \in EffectWords} : flat' = Append(flat, r)
AddManifest == Room /\ \E l \in ManifestSet : topo' = Append(topo, l) /\ UNCHANGED <<text, flat, yaml>>
AddYamlRule ==
    /\ Room /\ UNCHANGED <<text, flat, topo>>
    /\ \E r \in YamlRuleSet \ {yaml.rules[i] : i \in DOMAIN yaml.rules} :
         yaml' = [yaml EXCEPT !.rules = Append(@, r)]
AddYamlGrant ==
    /\ Room /\ yaml.manifest = NoManifest /\ yaml' = [yaml EXCEPT !.manifest = [agent |-> "o1", undeclared |-> "defer",
                           allows |-> Append(@.allows, [target |-> "w1", max |-> "1", approval |-> FALSE])]]
    /\ UNCHANGED <<text, flat, topo>>

PolicyNext ==
    \/ AddRule \/ AddSentence \/ AddPhase \/ SetHead \/ AddFlatRule
    \/ AddManifest \/ AddYamlRule \/ AddYamlGrant
PolicySpec == PolicyInit /\ [][PolicyNext]_policyVars

-------------------------------------------------------------------------------
(* Properties *)

Authored ==
    LET permits(ph) == [i \in 1 .. Len(ph.tools) |-> Permit(ph.tools[i])] IN
    text.rules \o FoldLeft(LAMBDA acc, ph : acc \o permits(ph), <<>>, text.phases) \o flat
Outcomes(rules) == [Conditions(rules) -> {"true", "false", "error"}]
AllValid(rules) == \A i \in DOMAIN rules : NormalEffect(rules[i].effect) # "invalid"

(* What the decompiler prints the parser reads: every rule of an agent,    *)
(* its phases and the flat ones, in their order, with its condition.  An   *)
(* effect that is no word of FPL is excepted: after a condition it is read *)
(* as part of it.  p is the program read, said the rules written.          *)
RulesAreRead(p, said) ==
    AllValid(said) =>
    /\ p.ok /\ Len(p.rules) = Len(said)
    /\ \A i \in DOMAIN said :
         /\ p.rules[i].effect = said[i].effect /\ p.rules[i].tool = <<said[i].tool>>
         /\ p.rules[i].when = said[i].when /\ (said[i].reason # "" => p.rules[i].reason = <<said[i].reason>>)

(* The same FPL decides the same calls the same way from a file of its own *)
(* (f) and from within an empty YAML policy (y): two conversions of one    *)
(* language.                                                               *)
LoadersAgree(f, y) ==
    AllValid(Authored) /\ text.default = "deny" /\ y.ok =>
       /\ f.ok /\ f.manifest = y.manifest
       /\ \A tool \in Tools, out \in Outcomes(f.rules) : Evaluate(f, tool, out) = Evaluate(y, tool, out)

(* fpl_merge.go:13: a YAML rule that matches decides, whatever the FPL says. *)
YamlComesFirst(y) ==
    y.ok => \A tool \in Tools, out \in Outcomes(y.rules) :
               LET own == Evaluate([rules |-> yaml.rules, default |-> "none"], tool, out) IN
               own.rule # 0 => Evaluate(y, tool, out) = own

(* A rule reported as unreachable decides no call of a probed tool, and    *)
(* giving up on slow conditions turns answers into refusals only.          *)
ReportedAreUnreachable(y) ==
    y.ok => \A tool \in Tools, out \in Outcomes(y.rules) :
               /\ tool \in Probes => Evaluate(y, tool, out).rule \notin Overlapped(y.rules)
               /\ \A slow \in SUBSET Conditions(y.rules) :
                    EvaluateWithTimeout(y, tool, out, slow).effect \in {Evaluate(y, tool, out).effect, "deny"}

(* A merged manifest names each target once, keeps what FPL said last of   *)
(* it and what YAML said of the others.                                    *)
ManifestIsMerged(y) ==
    LET said == SelectSeq(topo, LAMBDA l : l[1] = "grant")
        targets == {said[i][4] : i \in DOMAIN said}
    IN
    y.ok => /\ \A i, j \in DOMAIN y.manifest.allows : y.manifest.allows[i].target = y.manifest.allows[j].target => i = j
            /\ {y.manifest.allows[i].target : i \in DOMAIN y.manifest.allows} =
                 targets \cup {yaml.manifest.allows[i].target : i \in DOMAIN yaml.manifest.allows}
            /\ \A i \in DOMAIN said : (\A j \in i + 1 .. Len(said) : said[j][4] # said[i][4]) =>
                 \E k \in DOMAIN y.manifest.allows : y.manifest.allows[k].target = said[i][4] /\ y.manifest.allows[k].max = said[i][6]

(* The rules' ids, by which records name them, are distinct; those of a    *)
(* .fpl file unless it has phases, whose rules' ids run into the next's.   *)
IDsAreDistinct(f, y) ==
    /\ y.ok /\ AllValid(Authored) => InvalidRules(y.rules) = {}
    /\ f.ok /\ AllValid(Authored) /\ text.phases = <<>> => InvalidRules(f.rules) = {}

(* What holds of the policy the text is, as a file (f) and within the YAML *)
(* policy (y).                                                             *)
MeansOneThing(f, y) ==
    /\ YamlComesFirst(y) /\ ReportedAreUnreachable(y) /\ ManifestIsMerged(y) /\ IDsAreDistinct(f, y)
    /\ LoadersAgree(f, MergeProgram(ParseProgram(Lines), [rules |-> <<>>, manifest |-> NoManifest]))

(* The language and the policy hold together: all of the above.            *)
PolicyHolds ==
    /\ RulesAreRead(ParseProgram(Lines), Authored)
    /\ MeansOneThing(LoadFpl(Lines), LoadYaml(Lines, yaml))

(* No call that a strict rule of f matches is permitted.                   *)
StrictRulesHold(f) ==
    f.ok => \A i \in DOMAIN f.rules, tool \in Tools, out \in Outcomes(f.rules) :
               f.rules[i].strict /\ i \in Considered(f.rules, tool, out) => Evaluate(f, tool, out).effect = "deny"

(* README.md:189, "It cannot be overridden by position": no call that a    *)
(* deny! rule matches is permitted.                                        *)
StrictDenyHolds == StrictRulesHold(LoadFpl(Lines))
===============================================================================
