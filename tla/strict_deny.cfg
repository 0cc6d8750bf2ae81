SPECIFICATION PolicySpec
CONSTANTS
    PatternTools <- SomePatterns
    Probes = {"shell/run", "stripe/refund"}
    FplRuleSet <- SomeFplRules
    YamlRuleSet <- SomeYamlRules
    ManifestSet <- SomeManifests
    Phrases = {"never", "shell"}
    MaxItems = 3
INVARIANTS
    StrictDenyHolds
CHECK_DEADLOCK FALSE
