----------------------------- MODULE MCPolicyRules -----------------------------
(* Instances of PolicyRules for TLC. *)
EXTENDS PolicyRules

(* Patterns that overlap, a rule of every effect, and two of the YAML.     *)
SomePatterns == [p \in {"*", "shell/*", "stripe/refund", "rare"} |->
                    CASE p = "*" -> {"shell/run", "stripe/refund", "rare"}
                      [] p = "shell/*" -> {"shell/run"} [] OTHER -> {p}]
FplRule(e, t, w) == [effect |-> e, tool |-> t, when |-> w, reason |-> IF e = "deny!" THEN "never" ELSE ""]
SomeFplRules == {FplRule("deny!", "shell/*", <<>>), FplRule("permit", "*", <<>>),
                 FplRule("allow", "shell/*", <<"amount", "<", "5">>),
                 FplRule("defer", "stripe/refund", <<>>), FplRule("shadow", "rare", <<>>)}
YamlRule(n, t, w, e) == [id |-> n, from |-> "yaml", strict |-> FALSE, tool |-> t, when |-> w, effect |-> e]
SomeYamlRules == {YamlRule(1, "*", <<"c">>, "permit"), YamlRule(2, "stripe/refund", <<>>, "deny")}
SomeManifests == {<<"orchestrator", "o1", "undeclared", "deny">>, <<"orchestrator", "o2", "undeclared", "defer">>,
                  <<"grant", "o1", "to", "w1", "max", "2">>, <<"grant", "o1", "to", "w2", "max", "0", "approval">>}
===============================================================================
