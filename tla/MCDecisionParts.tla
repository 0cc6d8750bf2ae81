---------------------------- MODULE MCDecisionParts ----------------------------
(* The policy routing and the parts that take part in a decision or keep   *)
(* something of it, for TLC: each behaviour runs one part, and the others  *)
(* stay as they begin.                                                     *)
EXTENDS PolicyRouting, Windows, CallGates, CredentialLeases, MCPolicyRules, PostScan, HttpEdges,
        AgentRules, Principals, RecordStores, Conditions, Telemetry, DeferBatches, HubPacks,
        CallArguments, TLC

VARIABLE part

-------------------------------------------------------------------------------
(* Instances *)

(* A capped target, an undeclared one, and no manifest at all. *)
ThreePolicies ==
    {[manifest |-> TRUE, entry |-> "declared", cap |-> 1, rule |-> "permit"],
     [manifest |-> TRUE, entry |-> "defer", cap |-> 0, rule |-> "deny"],
     [manifest |-> FALSE, entry |-> "deny", cap |-> 0, rule |-> "permit"]}

SomeWeights == [s \in Signatures |-> IF s = (CHOOSE x \in Signatures : TRUE) THEN 2 ELSE 1]
SomeLoops == {[iterations |-> 3, cost |-> 0, minImprovement |-> 0],
              [iterations |-> 4, cost |-> 3, minImprovement |-> 50]}

(* A plain call, a trusted one with an isolated environment, one of a      *)
(* workflow step, and one with another agent's idempotency key.            *)
PlainCall == [id |-> "c1", tool |-> "t1", principal |-> "none", step |-> "none", env |-> 0, timeout |-> 0,
              argMs |-> 0, argSecs |-> 0, schema |-> TRUE, scan |-> TRUE, scope |-> {},
              sub |-> [attached |-> FALSE, blocked |-> {}, allowed |-> {}], key |-> "none"]
SomeCalls == {PlainCall,
              [PlainCall EXCEPT !.id = "c2", !.tool = "t2", !.principal = "trusted", !.env = 1, !.timeout = 3],
              [PlainCall EXCEPT !.id = "c3", !.tool = "t2", !.step = "s1", !.argSecs = 1, !.env = 1],
              [PlainCall EXCEPT !.id = "c4", !.key = "foreign"]}
PlainTag == [min |-> 0, max |-> 0, required |-> FALSE, risk |-> 0, credential |-> "none"]
PhasedPolicy ==
    [phases |-> [a |-> [tools |-> {"t1"}, steps |-> [s1 |-> {"t2"}]], b |-> [tools |-> {"t2"}, steps |-> <<>>]],
     isolation |-> {[tools |-> {"t2"}, mode |-> "required"]}, backend |-> 1,
     tags |-> [t1 |-> PlainTag, t2 |-> [PlainTag EXCEPT !.max = 3, !.risk = 1, !.credential = "required"]],
     guard |-> "none", maxCalls |-> 2, rules |-> [t1 |-> "permit", t2 |-> "defer"]]
GuardedPolicy ==
    [PhasedPolicy EXCEPT !.phases = <<>>, !.guard = "DEFER", !.rules = [t1 |-> "pending", t2 |-> "allow"],
        !.isolation = {[tools |-> {"t2"}, mode |-> "required"], [tools |-> {"t1", "t2"}, mode |-> "optional"]},
        !.maxCalls = 1]
TwoGatePolicies == {PhasedPolicy, GuardedPolicy}
TwoPhases == <<"a", "b">>

SomeLeaseTools == "t1" :> {"required"} @@ "t2" :> {}
SomeFlags == {{}, {"broker"}}
SomeRoutes == "t1" :> {"dynamic", "azure"} @@ "t2" :> {"static", "env", "none"}

(* "mask" is a word put in the place of a fragment, and found by a rule of  *)
(* its own; "mail" is looked for between word boundaries.                  *)
SomeFragments == {"key", "mail", "word", " ", "mask", Redacted}
SomeWords == {"key", "mail", "word", "mask"}
SomeFinds == [secret |-> {"key"}, pii |-> {"mail"}, wide |-> {"key", "mail"}, masked |-> {"mask"}]
SomeExpanded == [mask |-> [f \in SomeFragments |-> "mask"], itself |-> [f \in SomeFragments |-> f]]
SomeToolPatterns == [all |-> {"http", "sql"}, web |-> {"http"}]
Scans(p, a) == [pattern |-> p, action |-> a, replacement |-> ""]
Puts(p, e) == [pattern |-> p, action |-> "redact", replacement |-> e]
For(t, s) == [tool |-> t, scan |-> s]
SomePostRules ==
    {<<>>, <<For("all", <<Scans("secret", "redact")>>)>>,
     <<For("all", <<Scans("secret", "redact")>>), For("web", <<Scans("wide", "deny")>>)>>,
     <<For("all", <<Scans("wide", "warn"), Scans("pii", "redact")>>), For("web", <<Scans("secret", "hash")>>)>>,
     <<For("all", <<Puts("secret", "mask"), Scans("pii", "redact")>>)>>,
     <<For("all", <<Puts("secret", "mask")>>), For("web", <<Scans("masked", "redact")>>)>>,
     <<For("web", <<Puts("pii", "itself")>>)>>,
     <<For("all", <<Scans("pii", "redact")>>), For("web", <<Scans("secret", "redact")>>)>>,
     <<For("web", <<Scans("broken", "deny")>>)>>}
Item(t, e) == [text |-> t, embedded |-> e]
SomeResults == {<<>>, <<Item(<<"key", "word">>, <<>>)>>, <<Item(<<"word">>, <<>>)>>,
                <<Item(<<"mail">>, <<>>), Item(<<"key">>, <<>>)>>, <<Item(<<>>, <<"key">>)>>,
                <<Item(<<"mail", " ", "key", "word">>, <<>>)>>, <<Item(<<"mail", " ", "key">>, <<>>)>>}

EdgeCall(via, agent, header, tool, call) ==
    [via |-> via, agent |-> agent, header |-> header, tool |-> tool, session |-> "", call |-> call]
SomeRequests == {EdgeCall("authorize", "", "a", "pay", "k"), EdgeCall("connect", "", "", "host", ""),
                 EdgeCall("absolute", "", "a", "host", ""), EdgeCall("guard", "", "", "pay", ""),
                 EdgeCall("authorize", "", "", "pay", ""), EdgeCall("function", "a", "", "pay", "l")}
SomeCallIds == {<<"k", 0>>, <<"l", 0>>} \cup ({""} \X (1 .. 3))
(* The calls k and l of one tool make the same token.                      *)
SomeHash == [c \in SomeCallIds \X {"pay", "proxy/http", "proxy/connect"} |->
                IF c = <<<<"l", 0>>, "pay">> THEN <<<<"k", 0>>, "pay">> ELSE c]
SomeWays == {<<>>, <<"pay", "host">>}

(* An agent whose id begins with another's, and phases likewise.           *)
SomeAgents == {<<"a">>, <<"b">>, <<"a", "x">>}
SomePhaseIDs == {<<"y">>, <<"x", "y">>}
SomeRequirements == (<<"y">> :> {[tools |-> {"t", "u"}, min |-> 1], [tools |-> {"u"}, min |-> 2]}) @@
                    (<<"x", "y">> :> {[tools |-> {"t"}, min |-> 1]})
(* "p12q121" with p12q, the first 12, which stands in it twice, and the 21  *)
(* that overlaps the second.                                               *)
SomeAnswer == <<"p", "1", "2", "q", "1", "2", "1">>
SomeSpans == {[type |-> "ip", from |-> 2, to |-> 3], [type |-> "cred", from |-> 1, to |-> 4],
              [type |-> "ssn", from |-> 6, to |-> 7]}

TrustDoc(i, from, to, depth) ==
    [id |-> i, from |-> from, to |-> to, tools |-> {"db"}, depth |-> depth, ends |-> 2, revoked |-> FALSE]
SomeTrust == {TrustDoc("d1", "o1", "o2", 0), TrustDoc("d2", "o1", "o2", 1), TrustDoc("d1", "o2", "o1", 0)}
SomeEnvironments == {{}, {"AWS_WEB_IDENTITY_TOKEN_FILE"}, {"GITHUB_ACTIONS"},
                     {"FARAMESH_SPIFFE_SOCKET_PATH", "FARAMESH_SPIFFE_ID"}}
SomeTokenKeys == "t1" :> "k" @@ "t2" :> "l"

SomeArgKeys == [a \in {"one", "1"} |-> "1"]
SomeDates == {[year |-> y, month |-> 3, day |-> 1, hour |-> 9] : y \in {2024, 2028}}

Sees(s, k, e, r, t, l) ==
    [principal |-> "p", session |-> s, words |-> k, effect |-> e, rule |-> r, takes |-> t, leaves |-> l]
SomeSeen == {Sees("s1", {"read"}, "PERMIT", "", "none", "long"),
             Sees("s1", {"email"}, "PERMIT", "", "none", ""),
             Sees("s2", {"list", "email"}, "PERMIT", "r1", "both", "")}
SomeTexts == [none |-> {}, both |-> {"short", "long", "longer"}]
SomeSizes == [short |-> 0, long |-> 1, longer |-> 2]

SomeGroups == [t \in Deferred |-> IF t = "t3" THEN <<"r", "b">> ELSE <<"r", "a">>]
SomeDeadlines == [t \in Deferred |-> IF t = "t1" THEN 0 ELSE 2]

(* A signed pack, one whose directory is the same, one that was tampered   *)
(* with, and one that claims to be verified and is not signed.             *)
SignedBy(k, b) == <<[algorithm |-> "ed25519", key |-> k, value |-> <<k, b>>]>>
Pack(n, b, sha, tier, sig) == [name |-> n, version |-> "1", body |-> b, sha |-> sha, tier |-> tier, signature |-> sig]
SomePacks == {Pack("a/b", "x", "x", "verified", SignedBy("k1", "x")), Pack("a_b", "y", "", "community", <<>>),
              Pack("a/b", "y", "x", "verified", SignedBy("k1", "y")), Pack("c", "z", "z", "verified", <<>>)}
SomePackDirs == [n \in {"a/b", "a_b", "c"} |-> IF n = "c" THEN "c" ELSE "a_b"]
SomeSettings == {[go |-> "1", os |-> "l"], [go |-> "", os |-> "l"], [go |-> "1", os |-> ""], [go |-> "2"]}

ShortSpellings == SeqOf({"c", "es", "mark", "c-mark", "cedilla", " ", "shy"}, 3) \cup SeqOf({"c", ".", "/", "shy"}, 4)
SomeFloats == [digits : {100, 104, 105, 994, 995, 999, 1000, 1005, 9994, 9995}, mag : {-4, -2, 0, 3}] \cup
              {NotANumber, Zero}
SomeGuards == SeqOf([endpoint : {TRUE}, required : {{}, {"f"}}, maxAge : {0, 1},
                     onMissing : {"", "defer"}, onStale : {"deny"}], 2)
SomeGuardAnswers == [fails : BOOLEAN, fields : {{}, {"f"}}, stamp : {-1, 0, 1}]
SomeMappings == {<<>>, <<[a |-> <<"x">>]>>, <<[a |-> <<"x", "", "y">>, b |-> <<"z">>]>>, <<[a |-> <<>>]>>}
SomeUndoings == [kind : {"", "reversible", "compensatable", "irreversible", "other"}, mapping : SomeMappings,
                 args : SUBSET {<<"x", "y">>, <<"x", "w">>, <<"z">>}, effect : {"PERMIT", "DENY"}]

-------------------------------------------------------------------------------
(* Composition *)

DecisionParts ==
    {"routing", "windows", "loop", "gates", "leases", "policy", "outputs", "edges", "phases", "seals",
     "links", "answers", "elevation", "trust", "tokens", "stores", "functions", "history", "replay",
     "telemetry", "batches", "resumed", "packs", "normalize", "guards", "undo"}

(* The routing begins with the capped policy; reloads put the others in    *)
(* force. A source at a URL only skips some of the loads of a file's, so    *)
(* the run takes a file. What another part leaves open has one value.      *)
PartsInit ==
    /\ part \in DecisionParts
    /\ Init /\ WInit /\ GatesInit /\ LeasesInit /\ PolicyInit /\ PostInit /\ EdgesInit /\ RulesInit
    /\ PrincipalInit /\ RecordsInit /\ ConditionsInit /\ TelInit /\ BatchInit /\ HubInit /\ ArgInit
    /\ engine.cap > 0
    /\ url = FALSE
    /\ part # "gates" => policy = CHOOSE p \in GatePolicies0 : TRUE
    /\ part # "outputs" => postDoc = CHOOSE d \in PostDocs : TRUE
    /\ part # "elevation" => workload = [env |-> {}, provider |-> "none"]
    /\ part # "stores" => /\ backends = CHOOSE b \in Backends : TRUE
                          /\ queueKind = CHOOSE q \in Queues : TRUE

(* Approval and denial are interchangeable in each group of DeferBatches:   *)
(* let its first batch be approved.                                        *)
FirstIsApproved ==
    \A b \in DOMAIN batches' : batches'[b].decision = "denied" =>
        \E a \in 1 .. b - 1 : batches'[a].group = batches'[b].group

(* Workers are interchangeable in PolicyRouting: let the chosen one begin   *)
(* the next call while none is under way.                                  *)
FirstIsChosen ==
    (\A w \in Workers : pc[w] = "idle") =>
        \A w \in Workers : pc'[w] # pc[w] => w = CHOOSE x \in Workers : TRUE

PartsNext ==
    /\ part' = part
    /\ part # "routing" => UNCHANGED vars
    /\ part \notin {"windows", "loop"} => UNCHANGED wVars
    /\ part # "gates" => UNCHANGED gatesVars
    /\ part # "leases" => UNCHANGED leaseVars
    /\ part # "policy" => UNCHANGED policyVars
    /\ part # "outputs" => UNCHANGED scanVars
    /\ part # "edges" => UNCHANGED edgeVars
    /\ part \notin {"phases", "seals", "links", "answers"} => UNCHANGED ruleVars
    /\ part \notin {"elevation", "trust", "tokens"} => UNCHANGED principalVars
    /\ part # "stores" => UNCHANGED recordVars
    /\ part \notin {"functions", "history", "replay"} => UNCHANGED conditionVars
    /\ part # "telemetry" => UNCHANGED telVars
    /\ part \notin {"batches", "resumed"} => UNCHANGED batchVars
    /\ part # "packs" => UNCHANGED hubVars
    /\ part \notin {"normalize", "guards", "undo"} => UNCHANGED argVars
    /\ \/ part = "routing" /\ Next /\ FirstIsChosen
       \/ part = "windows" /\ WindowNext
       \/ part = "loop" /\ LoopNext
       \/ part = "gates" /\ GatesNext
       \/ part = "leases" /\ LeasesNext
       \/ part = "policy" /\ PolicyNext
       \/ part = "outputs" /\ PostNext
       \/ part = "edges" /\ EdgesNext
       \/ part = "phases" /\ PhaseNext
       \/ part = "seals" /\ SealNext
       \/ part = "links" /\ LinkNext
       \/ part = "answers" /\ AnswerNext
       \/ part = "elevation" /\ ElevationNext
       \/ part = "trust" /\ TrustNext
       \/ part = "tokens" /\ TokenNext
       \/ part = "stores" /\ RecordsNext
       \/ part = "functions" /\ RegistryNext
       \/ part = "history" /\ HistoryNext
       \/ part = "replay" /\ ReplayNext
       \/ part = "telemetry" /\ TelNext
       \/ part = "batches" /\ BatchNext /\ FirstIsApproved
       \/ part = "resumed" /\ Resume
       \/ part = "packs" /\ HubNext
       \/ part = "normalize" /\ Normalize
       \/ part = "guards" /\ GuardNext
       \/ part = "undo" /\ BuildUndoing

partsVars == <<part, vars, wVars, gatesVars, leaseVars, policyVars, scanVars, edgeVars, ruleVars, principalVars,
               recordVars, conditionVars, telVars, batchVars, hubVars, argVars>>
PartsSpec == PartsInit /\ [][PartsNext]_partsVars

-------------------------------------------------------------------------------
Runs(parts) == part \in parts

(* What the checks of a call promise: the governors' windows and loops,    *)
(* and the gates in the order decide takes them.                           *)
ChecksHold == (Runs({"windows", "loop"}) => GovernorsHold) /\ (Runs({"gates"}) => GatesHold)

(* Who may do what, and with which secret: principals, elevations, trust   *)
(* between organisations, phases, seals, keys and leases.                  *)
AuthorityHolds ==
    /\ Runs({"elevation", "trust", "tokens"}) => PrincipalsHold
    /\ Runs({"leases"}) => LeasesHold
    /\ Runs({"phases", "seals"}) => AgentRulesHold

(* What a policy means: the rules of its text, merged with YAML's, and the  *)
(* functions, histories and dates its conditions see.                      *)
RulesHold == (Runs({"policy"}) => PolicyHolds) /\ (Runs({"functions", "history", "replay"}) => ConditionsHold)

(* What reaches a policy, a server or a tool of a call's arguments, and     *)
(* what a tool's output, an aggregated one and an HTTP answer give away.   *)
BoundariesHold ==
    /\ Runs({"normalize", "guards", "undo"}) => ArgumentsHold
    /\ Runs({"outputs"}) => OutputsHold
    /\ Runs({"answers"}) => BlockedIsGone
    /\ Runs({"edges"}) => EdgesHold

(* What is kept of decisions: rows, chains, exports and links, packs,      *)
(* statistics.                                                             *)
EvidenceHolds ==
    /\ Runs({"stores"}) => RecordsHold
    /\ Runs({"links"}) => ChainsAreComplete
    /\ Runs({"packs"}) => HubHolds
    /\ Runs({"telemetry"}) => TelemetryHolds

(* What an operator decides on a batch of deferred calls.                  *)
DeferralsHold == Runs({"batches", "resumed"}) => BatchesHold
===============================================================================
