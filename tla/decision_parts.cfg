SPECIFICATION PartsSpec
CONSTANTS
    Policies <- ThreePolicies
    Workers = {w1, w2}
    None = None
    MaxCalls = 3
    MaxReloads = 2
    Loopers = {l1, l2}
    Signatures = {g1, g2}
    RiskWeight <- SomeWeights
    HighestRisk = 2
    MaxCallsPerWindow = 2
    MaxRepeats = 1
    MaxRisky = 3
    WindowLength = 2
    MaxWindowTime = 4
    MaxWindowCalls = 4
    LoopConfigs <- SomeLoops
    Scores = {0, 1, 2}
    LoopCosts = {1, 2}
    GateEvaluators = {v1, v2}
    GateCalls <- SomeCalls
    GatePolicies0 <- TwoGatePolicies
    PhaseNames <- TwoPhases
    RuntimeLimit = 2
    RiskLimit = 1
    MinTimeout = 2
    MaxTimeout = 5
    MsPerSecond = 3
    MaxEvaluations = 2
    MaxGateReloads = 0
    Borrowers = {b1, b2}
    LeaseTools <- SomeLeaseTools
    CallFlags <- SomeFlags
    Routed <- SomeRoutes
    MaxBorrowed = 2
    TokenLife = 2
    MaxLeaseClock = 2
    PatternTools <- SomePatterns
    Probes = {"shell/run", "stripe/refund"}
    FplRuleSet <- SomeFplRules
    YamlRuleSet <- SomeYamlRules
    ManifestSet <- SomeManifests
    Phrases = {"never", "shell"}
    MaxItems = 3
    Fragments <- SomeFragments
    WordFragments <- SomeWords
    FoundBy <- SomeFinds
    WordBounded = {"pii"}
    Expanded <- SomeExpanded
    PostRules <- SomePostRules
    ToolPatterns <- SomeToolPatterns
    ToolResults <- SomeResults
    OutputTools = {"http", "sql"}
    MaxOutputs = {0, 2}
    MaxScannings = 1
    MaxRuleLoads = 1
    IPs = {i1}
    EdgeRequests <- SomeRequests
    TokenHash <- SomeHash
    Redirects <- SomeWays
    MostRequests = 2
    EdgeEffects = {"PERMIT", "DEFER"}
    ConnectProxy = TRUE
    ForwardHTTP = TRUE
    BucketRate = 1
    BucketBurst = 1
    MaxEdgeTime = 1
    MaxEdgeRequests = 3
    AgentNames <- SomeAgents
    PhaseIDs <- SomePhaseIDs
    Requirements <- SomeRequirements
    RuleTools = {"t", "u"}
    Sealers = {s1, s2}
    LinkedRecords = {1, 2, 3}
    Spans <- SomeSpans
    Blocked = {"ip", "cred", "ssn"}
    AnswerText <- SomeAnswer
    MaxAnswer = 12
    StepIndexes = {1, 2, 3}
    MaxToolCalls = 4
    MaxSteps = 4
    MaxLinks = 3
    Ids = {"p1"}
    Callers = {c1, c2}
    Environments <- SomeEnvironments
    MaxTTL = 1
    Orgs = {"o1", "o2"}
    DocIDs = {"d1", "d2"}
    TrustDocs <- SomeTrust
    Tokens = {"t1", "t2"}
    KeyOf <- SomeTokenKeys
    CacheTTL = 2
    MaxClock = 2
    MaxGrants = 2
    MaxDocs = 2
    MaxVerifications = 2
    RecordAgents = {a1}
    Instants = {0, 15, 100}
    Offsets = {0}
    Timeouts = {0}
    Backends = {{"sqlite"}, {"sqlite", "postgres"}}
    Queues = {"inproc", "river"}
    QueueRoom = 1
    MaxRecords = 3
    MaxFailures = 1
    MaxReopens = 1
    Evaluators = {e1, e2}
    Registries = {"operator", "selector"}
    ArgLists = {"one", "1"}
    ArgKey <- SomeArgKeys
    ResultTTL = 1
    MaxCondTime = 2
    MaxVersions = 1
    HistoryTools = {"a", "b"}
    MaxHistory = 3
    HistoryAges = {0, 1, 2}
    Dates <- SomeDates
    Evaluations = {x1}
    SeenCalls <- SomeSeen
    TextsIn <- SomeTexts
    TextSize <- SomeSizes
    FlowWindow = 0
    FlowRoom = 2
    GlobalRoom = 2
    ScopeRoom = 1
    MaxSeen = 3
    MaxScans = 1
    MaxTelTime = 1
    Deferred = {"t1", "t2", "t3"}
    Operators = {o1}
    GroupOf <- SomeGroups
    DeadlineOf <- SomeDeadlines
    MaxBatchTime = 1
    MaxAge = 0
    Overridden = {"t1"}
    MaxAlone = 1
    StateKeys = {"k", "l"}
    ResumeHashes = {"", "p"}
    Installers = {i2, i3}
    HubAnswers <- SomePacks
    PackDir <- SomePackDirs
    SigningKeys = {"k1", "k2"}
    SettingsOf <- SomeSettings
    MaxInstalls = 2
    MaxAttested = 1
    Spellings <- ShortSpellings
    Floats <- SomeFloats
    KeptFigures = 3
    LargestPower = 5
    GuardLists <- SomeGuards
    GuardAnswers <- SomeGuardAnswers
    MaxGuardTime = 2
    Undoings <- SomeUndoings
INVARIANTS
    TypeOK
    InvocationsAreBounded
    PartsAgree
    DecidedByOnePolicy
    HashNamesPolicy
    ChecksHold
    AuthorityHolds
    RulesHold
    BoundariesHold
    EvidenceHolds
    DeferralsHold
CHECK_DEADLOCK FALSE
