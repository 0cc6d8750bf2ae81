-------------------------------- MODULE PostScan --------------------------------
(***************************************************************************)
(* What a tool answered, on its way back to the agent: the post-condition  *)
(* scanner (postcondition/scanner.go), compiled from the post_rules of the *)
(* policy (core/pipeline.go), and the two ways an output reaches it: the   *)
(* scan_output requests of the SDK and the proxy, which carry one text,    *)
(* and the MCP gateways, which take a text out of a tools/call result and  *)
(* put what the scanner made of it back (adapter/mcp/postscan.go).         *)
(*                                                                         *)
(* A text is a sequence of fragments, each with word characters at both of *)
(* its edges or at neither. A regular expression is the set of fragments   *)
(* it finds, and whether it asks for a word boundary on both sides.        *)
(***************************************************************************)
EXTENDS Naturals, Sequences, FiniteSets, SequencesExt

CONSTANTS
    Fragments,      \* pieces of text
    WordFragments,  \* those with word characters at their edges
    FoundBy,        \* pattern -> fragments it finds; the domain: patterns that compile
    WordBounded,    \* patterns between \b and \b
    Expanded,       \* replacement of a rule -> what it puts in the place of a fragment
    PostRules,      \* lists of post rules a policy may carry
    ToolPatterns,   \* tool pattern -> the tools it matches
    ToolResults,    \* results of tools/call an MCP server may send
    OutputTools,    \* tools whose output is scanned
    MaxOutputs,     \* values of max_output_bytes, in fragments; 0 is no limit
    MaxScannings, MaxRuleLoads

Redacted == "[REDACTED]"
Actions == {"redact", "hash", "deny", "warn", "truncate"}
Replacements == {""} \cup DOMAIN Expanded
ASSUME PostScanAssumption ==
    /\ WordFragments \subseteq Fragments /\ Redacted \in Fragments \ WordFragments
    /\ \A p \in DOMAIN FoundBy : FoundBy[p] \subseteq Fragments
    /\ \A p \in WordBounded : p \in DOMAIN FoundBy /\ FoundBy[p] \subseteq WordFragments
    /\ \A e \in DOMAIN Expanded : Expanded[e] \in [Fragments -> Fragments]
    /\ PostRules \subseteq Seq([tool : DOMAIN ToolPatterns,
                              scan : Seq([pattern : STRING, action : Actions, replacement : Replacements])])
    /\ ToolResults \subseteq Seq([text : Seq(Fragments), embedded : Seq(Fragments)])
    /\ MaxOutputs \subseteq Nat

VARIABLES
    postDoc,        \* post_rules and max_output_bytes of the policy in force
    firstDoc,       \* what the daemon began with
    postScanner,    \* the scanner of the artifacts built from it
    scanned,        \* what was scanned, and what the agent got
    ruleLoads

scanVars == <<postDoc, firstDoc, postScanner, scanned, ruleLoads>>

-------------------------------------------------------------------------------
(* Compiling the rules *)

NoScanner == [on |-> FALSE]

(* NewScanner: scans are grouped by the tool pattern of their rule.        *)
PatternsCompile(rules) ==
    \A i \in DOMAIN rules : \A j \in DOMAIN rules[i].scan :
        rules[i].scan[j].pattern \in DOMAIN FoundBy
Grouped(rules) ==
    [t \in {rules[i].tool : i \in DOMAIN rules} |->
        FlattenSeq([i \in DOMAIN rules |-> IF rules[i].tool = t THEN rules[i].scan ELSE <<>>])]
NewScanner(doc) ==
    [on |-> TRUE, compiled |-> Grouped(doc.rules), max |-> doc.max]

(* buildPolicyArtifacts: rules that do not compile leave no scanner.       *)
ScannerOf(doc) ==
    IF doc.rules # <<>> /\ PatternsCompile(doc.rules) THEN NewScanner(doc) ELSE NoScanner

PostDocs == [rules : PostRules, max : MaxOutputs]

(* NewPipeline takes the artifacts as they are.                            *)
PostInit ==
    /\ postDoc \in PostDocs
    /\ firstDoc = postDoc
    /\ postScanner = ScannerOf(postDoc)
    /\ scanned = <<>> /\ ruleLoads = 0

(* ApplyPolicyBundle refuses rules that do not compile, and keeps what is  *)
(* in force.                                                               *)
ApplyPostRules(doc) ==
    /\ ruleLoads < MaxRuleLoads /\ ruleLoads' = ruleLoads + 1
    /\ IF doc.rules # <<>> /\ ~ScannerOf(doc).on
         THEN UNCHANGED <<postDoc, postScanner>>
         ELSE postDoc' = doc /\ postScanner' = ScannerOf(doc)
    /\ UNCHANGED <<scanned, firstDoc>>

-------------------------------------------------------------------------------
(* Scanning a text *)

NextTo(text, i) == {j \in DOMAIN text : j = i + 1 \/ i = j + 1}
AtBoundaries(text, i) == \A j \in NextTo(text, i) : text[j] \notin WordFragments
FoundIn(text, p) == {i \in DOMAIN text : text[i] \in FoundBy[p] /\ (p \in WordBounded => AtBoundaries(text, i))}

(* What a rule puts in the place of a fragment: ReplaceAllString expands   *)
(* $1 and the like in the replacement of the rule.                         *)
Replacement(s, fragment) == IF s.replacement = "" THEN Redacted ELSE Expanded[s.replacement][fragment]

Result(outcome, text) == [outcome |-> outcome, text |-> text]

(* One compiled scan on what the scans before it left. An action the       *)
(* switch does not name ("hash", "truncate") changes nothing.              *)
ApplyScan(r, s) ==
    LET found == FoundIn(r.text, s.pattern) IN
    IF r.outcome = "DENIED" \/ found = {} THEN r ELSE
    CASE s.action = "deny" -> Result("DENIED", <<>>)
      [] s.action = "redact" ->
           Result("REDACTED", [i \in DOMAIN r.text |-> IF i \in found THEN Replacement(s, r.text[i]) ELSE r.text[i]])
      [] s.action = "warn" /\ r.outcome = "PASS" -> Result("WARNED", r.text)
      [] OTHER -> r

(* Scanner.Scan: the groups whose tool pattern matches, in the order in    *)
(* which Go walks a map, which is any order.                               *)
ApplyingTo(scanner, tool) ==
    LET groups == {t \in DOMAIN scanner.compiled : tool \in ToolPatterns[t]}
    IN  {FlattenSeq([i \in DOMAIN o |-> scanner.compiled[o[i]]]) : o \in SetToSeqs(groups)}
Scan(scanner, tool, text) ==
    IF ~scanner.on THEN {Result("PASS", text)}
    ELSE IF scanner.max > 0 /\ Len(text) > scanner.max THEN {Result("DENIED", <<>>)}
    ELSE {FoldLeft(ApplyScan, Result("PASS", text), l) : l \in ApplyingTo(scanner, tool)}

-------------------------------------------------------------------------------
(* A text out of an MCP result, and back *)

(* A result is a list of content items; an item is a map with or without a *)
(* text of its own, and with text in places of its own (a resource).       *)
ItemText(item) == item.text
ContentText(items) == FlattenSeq([i \in DOMAIN items |-> ItemText(items[i])])
AllText(items) == FlattenSeq([i \in DOMAIN items |-> items[i].text \o items[i].embedded])

(* extractToolResultText: the texts of the items; when there are none, the *)
(* whole result as JSON.                                                   *)
ExtractToolResultText(items) ==
    IF ContentText(items) # <<>> THEN ContentText(items) ELSE AllText(items)

(* rebuildMCPResultWithText: the first item gets the new text; the others  *)
(* stay.                                                                   *)
RebuildMCPResultWithText(items, text) ==
    IF items = <<>> THEN <<[text |-> text, embedded |-> <<>>]>>
    ELSE [items EXCEPT ![1].text = text]

(* Mutant of PostScanned: a denied result is handed on.                    *)
PostScannedUnlessDenied(items, r) ==
    IF r.outcome = "REDACTED" THEN RebuildMCPResultWithText(items, r.text) ELSE items

(* applyPostScanMCPMessage.                                                *)
PostScanned(items, r) ==
    CASE r.outcome = "DENIED" -> <<>>
      [] r.outcome \in {"REDACTED", "WARNED"} /\ r.text # ExtractToolResultText(items) ->
           RebuildMCPResultWithText(items, r.text)
      [] OTHER -> items

Scanned(via, tool, items, text, r, got) ==
    scanned' = Append(scanned, [via |-> via, tool |-> tool, doc |-> postDoc, scanner |-> postScanner.on,
                            items |-> items, sent |-> text, outcome |-> r.outcome, got |-> got])

(* Pipeline.ScanOutput asked for by the SDK or the proxy.                  *)
ScanOutput(tool, items) ==
    /\ Len(scanned) < MaxScannings
    /\ \E r \in Scan(postScanner, tool, AllText(items)) :
         Scanned("text", tool, items, AllText(items), r, r.text)
    /\ UNCHANGED <<postDoc, firstDoc, postScanner, ruleLoads>>

(* A permitted tools/call answered by an MCP server, on stdio, over HTTP,  *)
(* in a batch or as a line of an event stream.                             *)
AnswerToolCall(tool, items) ==
    /\ Len(scanned) < MaxScannings
    /\ LET text == ExtractToolResultText(items) IN
       IF text = <<>> THEN Scanned("mcp", tool, items, text, Result("PASS", text), AllText(items))
       ELSE \E r \in Scan(postScanner, tool, text) :
              Scanned("mcp", tool, items, text, r, AllText(PostScanned(items, r)))
    /\ UNCHANGED <<postDoc, firstDoc, postScanner, ruleLoads>>

PostNext ==
    \/ \E tool \in OutputTools, items \in ToolResults : ScanOutput(tool, items) \/ AnswerToolCall(tool, items)
    \/ \E doc \in PostDocs : ApplyPostRules(doc)

PostSpec == PostInit /\ [][PostNext]_scanVars

-------------------------------------------------------------------------------
(* Properties *)

(* The scans of a policy for the output of a tool, and what those that     *)
(* redact or deny find.                                                    *)
ScanType == [pattern : DOMAIN FoundBy, action : Actions, replacement : Replacements]
ScansFor(doc, tool) ==
    {t \in ScanType : \E i \in DOMAIN doc.rules : /\ tool \in ToolPatterns[doc.rules[i].tool]
                                                  /\ t \in ToSet(doc.rules[i].scan)}
Cleans(t) == t.action \in {"redact", "deny"}
Finds(doc, tool, text) == \E t \in ScansFor(doc, tool) : Cleans(t) /\ FoundIn(text, t.pattern) # {}

(* What a rule puts in the place of what it redacts is nothing another, or *)
(* it itself, looks for.                                                   *)
Inert(doc, tool) ==
    \A t \in ScansFor(doc, tool), u \in ScansFor(doc, tool) : Cleans(t) /\ Cleans(u) =>
        \A f \in FoundBy[t.pattern] : Replacement(t, f) \notin FoundBy[u.pattern]

(* No two words stand next to each other.                                  *)
StandApart(text) == \A i \in DOMAIN text : text[i] \in WordFragments => AtBoundaries(text, i)

(* A policy that is loaded over a running one never turns scanning off     *)
(* because its rules do not compile: only the one the daemon began with    *)
(* can have post_rules and no scanner.                                     *)
RulesAreCompiled == postDoc.rules # <<>> /\ ~postScanner.on => postDoc = firstDoc

(* One text was scanned, and comes back as one text.                       *)
OneText(s) == s.via = "text" \/ (Len(s.items) = 1 /\ s.items[1].embedded = <<>>)

(* Whatever order the groups of a scanner are taken in, a text never comes *)
(* back with something a redact or deny rule for that tool finds, provided *)
(* that no replacement of the policy is itself looked for, and that words  *)
(* stood apart: otherwise a rule that has been tried finds later what an   *)
(* other put there, or what lost the neighbour that hid it.                *)
OneTextIsClean ==
    \A n \in DOMAIN scanned : LET s == scanned[n] IN
        s.scanner /\ OneText(s) /\ Inert(s.doc, s.tool) /\ StandApart(s.sent) => ~Finds(s.doc, s.tool, s.got)

(* An output no redact or deny rule finds anything in, and that is not too *)
(* long, comes back as it was, whichever way it took.                      *)
CleanIsUntouched ==
    \A n \in DOMAIN scanned : LET s == scanned[n] IN
        /\ s.doc.max = 0 \/ Len(s.sent) <= s.doc.max
        /\ ~Finds(s.doc, s.tool, s.sent)
        => s.got = AllText(s.items)

OutputsHold == RulesAreCompiled /\ OneTextIsClean /\ CleanIsUntouched

(* scanner.go:3-5: output passes through these scanners before it reaches  *)
(* the agent's context: after a redaction no text of the result still has  *)
(* what the rules of its tool redact.                                      *)
RedactedIsGone ==
    \A n \in DOMAIN scanned : LET s == scanned[n] IN
        s.outcome = "REDACTED" =>
            \A t \in ScansFor(s.doc, s.tool) : t.action = "redact" => FoundIn(s.got, t.pattern) = {}
===============================================================================
