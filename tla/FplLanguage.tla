------------------------------ MODULE FplLanguage ------------------------------
(***************************************************************************)
(* The policy language FPL: the recursive-descent parser of fpl/parser.go  *)
(* as one step per token, the manifest lines of manifest_line.go, the      *)
(* compilation of a rule (compiler.go), and the decompiler that prints a   *)
(* policy as tokens again.  A token is a record of its kind, its text and  *)
(* its line; the characters it is made of are left out.                    *)
(***************************************************************************)
EXTENDS Integers, Sequences, SequencesExt

EffectWords == {"permit", "allow", "approve", "deny", "deny!", "block", "reject", "defer"}
TopWords == EffectWords \cup {"agent", "system", "manifest"}
Units == {"s", "ms", "m", "h", "d", "w", "b", "kb", "mb", "gb", "tb", "usd", "eur", "gbp"}

Token(kind, text, line) == [k |-> kind, v |-> text, ln |-> line]
Texts == {"ident", "string", "number"}
IsWord(t, words) == t.k = "ident" /\ t.v \in words

(* What a block may hold: settings of one value, amounts of money, whole   *)
(* numbers, and blocks, which are named or not.                            *)
Settings(kind) ==
    CASE kind = "agent"      -> {"default", "model", "framework", "version"}
      [] kind = "system"     -> {"version", "on_policy_load_failure", "kill_switch_default"}
      [] kind = "budget"     -> {"on_exceed"}
      [] kind = "phase"      -> {"duration", "next"}
      [] kind = "delegate"   -> {"scope", "ttl", "ceiling"}
      [] kind = "selector"   -> {"source", "cache", "on_unavailable", "on_timeout"}
      [] kind = "credential" -> {"max_scope", "backend", "path", "ttl"}
      [] OTHER               -> {}
Amounts(kind) == IF kind = "budget" THEN {"max", "daily"} ELSE {}
Counts(kind) == IF kind = "budget" THEN {"max_calls"} ELSE IF kind = "system" THEN {"max_output_bytes"} ELSE {}
NamedBlocks(kind) ==
    IF kind = "doc" THEN {"agent", "system"}
    ELSE IF kind = "agent" THEN {"budget", "phase", "delegate", "selector", "credential"} ELSE {}
PlainBlocks(kind) == IF kind = "agent" THEN {"rules", "ambient"} ELSE {}
HoldsRules(kind) == kind \in {"doc", "agent", "phase"}

Node(kind) == [kind |-> kind, id |-> <<>>, kv |-> <<>>, rules |-> <<>>, subs |-> <<>>, topo |-> <<>>]
Rule(effect) == [effect |-> effect, tool |-> <<>>, when |-> <<>>, notify |-> <<>>, reason |-> <<>>]

(* The parser between two tokens: the blocks that are open, what it waits  *)
(* for, where the next value goes, and the rule it is reading.             *)
ParserAt(kind) ==
    [open |-> <<Node(kind)>>, at |-> "item", dest |-> "", key |-> "", val |-> <<>>, rule |-> Rule(""),
     line |-> 0, fields |-> <<>>, ok |-> TRUE]

Top(s) == Last(s.open)
Fail(s) == [s EXCEPT !.ok = FALSE]
InTop(s, field, x) == [s EXCEPT !.open = Front(@) \o <<[Top(s) EXCEPT ![field] = Append(@, x)]>>, !.at = "item"]
Await(s, at, dest, key) == [s EXCEPT !.at = at, !.dest = dest, !.key = key]

(* A value has been read: it goes where it was awaited.                    *)
Deliver(s, v) ==
    CASE s.dest = "setting" -> InTop(s, "kv", <<s.key, v>>)
      [] s.dest = "name"    -> Await([s EXCEPT !.open = Front(@) \o <<[Top(s) EXCEPT !.id = v]>>], "brace", "", "")
      [] s.dest = "var"     -> Await([s EXCEPT !.val = v], "var_value", "", "")
      [] s.dest = "tool"    -> [s EXCEPT !.rule.tool = v, !.at = "clauses"]
      [] s.dest = "notify"  -> [s EXCEPT !.rule.notify = v, !.at = "clauses"]
      [] OTHER              -> [s EXCEPT !.rule.reason = v, !.at = "clauses"]

(* stringOrIdent; a number may be followed by its unit.                    *)
TakeValue(s, t) ==
    IF t.k \in {"string", "ident"} THEN Deliver(s, <<t.v>>)
    ELSE IF t.k = "number" THEN [s EXCEPT !.at = "unit", !.val = <<t.v>>] ELSE Fail(s)

(* parseManifestLine: the fields of one line, caps of one digit.           *)
ParseManifest(f) ==
    IF Len(f) = 5 /\ f[2] = "orchestrator" /\ f[4] = "undeclared" /\ f[5] \in {"deny", "defer"}
    THEN [ok |-> TRUE, kind |-> "orchestrator", orch |-> f[3], undeclared |-> f[5]]
    ELSE IF Len(f) \in {7, 8} /\ f[2] = "grant" /\ f[4] = "to" /\ f[6] = "max" /\ f[7] \in {ToString(n) : n \in 0 .. 9}
            /\ (Len(f) = 8 => f[8] = "approval")
    THEN [ok |-> TRUE, kind |-> "grant", orch |-> f[3], target |-> f[5], max |-> f[7], approval |-> Len(f) = 8]
    ELSE [ok |-> FALSE]

(* consumeUntilKeyword ends at a brace, at the next clause, and at a word  *)
(* that begins a rule or a top-level item, on whatever line.               *)
EndsCondition(s, t) ==
    \/ t.k \in {"eof", "{", "}"}
    \/ IsWord(t, {"notify", "reason"} \cup TopWords)

FinishRule(s) == [InTop(s, "rules", s.rule) EXCEPT !.rule = Rule("")]

(* What ends when t is seen, before t itself is taken: a number without    *)
(* a unit, a condition, a rule, a credential's scope, a manifest line.     *)
EndUnit(s, t) == IF s.at = "unit" /\ ~IsWord(t, Units) THEN Deliver(s, s.val) ELSE s
EndCondition(s, t) == IF s.at = "condition" /\ EndsCondition(s, t) THEN [s EXCEPT !.at = "clauses"] ELSE s
EndClauses(s, t) == IF s.at = "clauses" /\ ~IsWord(t, {"when", "notify", "reason"}) THEN FinishRule(s) ELSE s
EndScope(s, t) ==
    IF s.at = "scope" /\ (t.k \notin {"ident", "string"} \/ IsWord(t, {"scope", "max_scope", "backend", "path", "ttl"}))
    THEN [s EXCEPT !.at = "item"] ELSE s
TakeManifest(s, m) == IF m.ok THEN InTop(s, "topo", m) ELSE Fail(s)
EndManifest(s, t) ==
    IF s.at # "manifest" \/ (t.k # "eof" /\ t.ln = s.line) THEN s
    ELSE IF Len(s.fields) = 1 THEN [s EXCEPT !.at = "item"] ELSE TakeManifest(s, ParseManifest(s.fields))

Settle(s, t) == EndManifest(EndScope(EndClauses(EndCondition(EndUnit(s, t), t), t), t), t)

CloseBlock(s) ==
    LET b == Top(s) outer == Front(s.open) p == Last(outer) IN
    [s EXCEPT !.open = Front(outer) \o
       <<IF b.kind = "rules" THEN [p EXCEPT !.rules = @ \o b.rules] ELSE [p EXCEPT !.subs = Append(@, b)]>>]

(* parseDocument and the blocks' loops: the beginning of an item.          *)
TakeItem(s, t) ==
    LET kind == Top(s).kind IN
    CASE t.k = "}" /\ Len(s.open) > 1 -> CloseBlock(s)
      [] t.k = "eof" -> IF Len(s.open) = 1 THEN s ELSE Fail(s)
      [] kind = "rules" /\ t.k \notin {"}", "eof"} -> [Await(s, "value", "tool", "") EXCEPT !.rule = Rule(t.v)]
      [] HoldsRules(kind) /\ IsWord(t, EffectWords) -> [Await(s, "value", "tool", "") EXCEPT !.rule = Rule(t.v)]
      [] IsWord(t, NamedBlocks(kind)) -> [Await(s, "value", "name", "") EXCEPT !.open = Append(@, Node(t.v))]
      [] IsWord(t, PlainBlocks(kind)) -> [Await(s, "brace", "", "") EXCEPT !.open = Append(@, Node(t.v))]
      [] IsWord(t, Settings(kind)) \/ (kind = "ambient" /\ t.k = "ident") -> Await(s, "value", "setting", t.v)
      [] IsWord(t, Amounts(kind)) -> Await(s, "amount", "", t.v)
      [] IsWord(t, Counts(kind)) -> Await(s, "count", "", t.v)
      [] kind = "agent" /\ IsWord(t, {"var"}) -> Await(s, "value", "var", "")
      [] kind = "credential" /\ IsWord(t, {"scope"}) -> Await(s, "scope", "", "scope")
      [] kind = "doc" /\ IsWord(t, {"manifest"}) -> [s EXCEPT !.at = "manifest", !.line = t.ln, !.fields = <<t.v>>]
      [] OTHER -> Fail(s)

TakeToken(s, t) ==
    CASE s.at = "item"      -> TakeItem(s, t)
      [] s.at = "value"     -> IF s.dest = "tool" /\ s.rule.effect = "deny" /\ t.k = "!"
                               THEN [s EXCEPT !.rule.effect = "deny!"] ELSE TakeValue(s, t)
      [] s.at = "unit"      -> Deliver(s, Append(s.val, t.v))
      [] s.at = "brace"     -> IF t.k = "{" THEN [s EXCEPT !.at = "item"] ELSE Fail(s)
      [] s.at = "amount"    -> IF t.k = "$" THEN [s EXCEPT !.at = "count"]
                               ELSE IF t.k = "number" THEN InTop(s, "kv", <<s.key, <<t.v>>>>) ELSE Fail(s)
      [] s.at = "count"     -> IF t.k = "number" THEN InTop(s, "kv", <<s.key, <<t.v>>>>) ELSE Fail(s)
      [] s.at = "var_value" -> IF t.k = "$" THEN [s EXCEPT !.at = "var_amount"]
                               ELSE IF t.k \in Texts THEN InTop(s, "kv", <<"var", s.val \o <<t.v>>>>) ELSE Fail(s)
      [] s.at = "var_amount" -> InTop(s, "kv", <<"var", s.val \o <<"$", t.v>>>>)
      [] s.at = "scope"     -> [InTop(s, "kv", <<"scope", <<t.v>>>>) EXCEPT !.at = "scope"]
      [] s.at = "manifest"  -> [s EXCEPT !.fields = Append(@, t.v)]
      [] s.at = "condition" -> [s EXCEPT !.rule.when = Append(@, IF t.k = "string" THEN <<t.v>> ELSE t.v)]
      [] s.at = "clauses"   -> IF t.v = "when" THEN [s EXCEPT !.at = "condition"] ELSE Await(s, "colon", t.v, "")
      [] OTHER              -> IF t.k = ":" THEN [s EXCEPT !.at = "value"] ELSE TakeValue([s EXCEPT !.at = "value"], t)

TakeSettled(s, t) == IF s.ok THEN TakeToken(s, t) ELSE s
ParseStep(s, t) == IF s.ok THEN TakeSettled(Settle(s, t), t) ELSE s

Parsed(s) == [ok |-> s.ok /\ s.at = "item" /\ Len(s.open) = 1, doc |-> s.open[1]]
Parse(kind, tokens) == Parsed(FoldLeft(ParseStep, ParserAt(kind), Append(tokens, Token("eof", "", 0))))

ParseDocument(tokens) == Parse("doc", tokens)

SubsOf(node, kind) == SelectSeq(node.subs, LAMBDA b : b.kind = kind)
RulesOfAll(nodes) == FoldLeft(LAMBDA acc, b : acc \o b.rules, <<>>, nodes)

(* ParseProgram: the manifest lines come first, whatever becomes of the    *)
(* rest.  A document with agents gives the rules of each agent, then of    *)
(* its phases, and last the flat ones; any other text is read as flat      *)
(* rules.                                                                  *)
IsManifest(l) == Len(l) > 1 /\ l[1].v = "manifest"
ManifestLines(lines) == SelectSeq(lines, IsManifest)
RuleLines(lines) == SelectSeq(lines, LAMBDA l : ~IsManifest(l))
Flatten(lines) == FoldLeft(LAMBDA acc, l : acc \o l, <<>>, lines)
FieldsOf(l) == [i \in 1 .. Len(l) |-> l[i].v]

OfAgents(agents) == FoldLeft(LAMBDA acc, a : acc \o a.rules \o RulesOfAll(SubsOf(a, "phase")), <<>>, agents)

ProgramOf(topo, whole, flat) ==
    IF \E i \in DOMAIN topo : ~topo[i].ok THEN [ok |-> FALSE]
    ELSE IF whole.ok /\ SubsOf(whole.doc, "agent") # <<>>
         THEN [ok |-> TRUE, rules |-> OfAgents(SubsOf(whole.doc, "agent")) \o whole.doc.rules, topo |-> whole.doc.topo]
    ELSE IF flat.ok THEN [ok |-> TRUE, rules |-> flat.doc.rules, topo |-> topo] ELSE [ok |-> FALSE]

ParseProgram(lines) ==
    ProgramOf([i \in 1 .. Len(ManifestLines(lines)) |-> ParseManifest(FieldsOf(ManifestLines(lines)[i]))],
              ParseDocument(Flatten(lines)), Parse("rules", Flatten(RuleLines(lines))))

(* CompileRule: the effect's aliases, and deny! as a flag.                 *)
NormalEffect(e) ==
    CASE e \in {"permit", "allow", "approve"} -> "permit"
      [] e \in {"deny", "deny!", "block", "reject"} -> "deny"
      [] e = "defer" -> "defer"
      [] OTHER -> "invalid"
Compiles(r) == NormalEffect(r.effect) # "invalid" /\ r.tool # <<>>
CompileRule(r) == [effect |-> NormalEffect(r.effect), strict |-> r.effect = "deny!", tool |-> r.tool, when |-> r.when]

(* CompileDocument gives up at the first rule that does not compile.       *)
CompileDocument(doc) ==
    LET ofAgent(a) == RulesOfAll(SubsOf(a, "phase")) \o a.rules
        rules == doc.rules \o FoldLeft(LAMBDA acc, a : acc \o ofAgent(a), <<>>, SubsOf(doc, "agent")) IN
    [ok |-> \A i \in DOMAIN rules : Compiles(rules[i]), rules |-> [i \in DOMAIN rules |-> CompileRule(rules[i])]]

(* nlpSentenceToRule: the first kind of phrase found decides the effect,   *)
(* the tool and the condition; found is the set of phrases.                *)
SentenceRule(found) ==
    [effect |-> IF "deny" \in found THEN IF "never" \in found THEN "deny!" ELSE "deny"
                ELSE IF "defer" \in found THEN "defer" ELSE IF "permit" \in found THEN "permit" ELSE "deny",
     tool |-> IF "shell" \in found THEN "shell/*" ELSE IF "refund" \in found THEN "stripe/refund" ELSE "*",
     when |-> IF "over" \in found THEN <<"amount", ">", "5">>
              ELSE IF "under" \in found THEN <<"amount", "<", "5">> ELSE <<>>,
     reason |-> "sentence"]

-------------------------------------------------------------------------------
(* DecompileToFPL: a policy as lines of tokens.  Every phase's tools are   *)
(* printed as rules that permit them, and amounts in whole dollars.        *)

Words(line, ws) == [i \in 1 .. Len(ws) |-> Token("ident", ws[i], line)]
Sym(line, c) == <<Token(c, c, line)>>
Money(line, n) == <<Token("$", "$", line), Token("number", ToString(n), line)>>

PrintRule(line, r) ==
    Words(line, <<r.effect, r.tool>>) \o (IF r.when = <<>> THEN <<>> ELSE Words(line, <<"when">> \o r.when))
    \o (IF r.reason = "" THEN <<>>
        ELSE Words(line, <<"reason">>) \o Sym(line, ":") \o <<Token("string", r.reason, line)>>)

Permit(tool) == [effect |-> "permit", tool |-> tool, when |-> <<>>, reason |-> ""]

(* Lines from the number of the first one; a block's lines are numbered    *)
(* from its own.                                                           *)
PrintRules(first, rules) == [i \in 1 .. Len(rules) |-> PrintRule(first + i - 1, rules[i])]
PrintPhase(first, ph) ==
    <<Words(first, <<"phase", ph.id>>) \o Sym(first, "{")>>
    \o PrintRules(first + 1, [i \in 1 .. Len(ph.tools) |-> Permit(ph.tools[i])])
    \o <<Sym(first + Len(ph.tools) + 1, "}")>>
PrintBudget(first, b) ==
    IF b = 0 THEN <<>>
    ELSE <<Words(first, <<"budget", "session">>) \o Sym(first, "{"),
           Words(first + 1, <<"max">>) \o Money(first + 1, b), Sym(first + 2, "}")>>

Decompile(p) ==
    LET head == <<Words(1, <<"agent", p.agent>>) \o Sym(1, "{"), Words(2, <<"default", p.default>>)>>
                \o PrintBudget(3, p.budget)
        phases == FoldLeft(LAMBDA acc, ph : acc \o PrintPhase(Len(acc) + 1, ph), head, p.phases)
        n == Len(phases) + 1
    IN
    phases
    \o (IF p.rules = <<>> THEN <<>>
        ELSE <<Words(n, <<"rules">>) \o Sym(n, "{")>> \o PrintRules(n + 1, p.rules)
             \o <<Sym(n + Len(p.rules) + 1, "}")>>)
    \o <<Sym(n + Len(p.rules) + 2, "}")>>
===============================================================================
