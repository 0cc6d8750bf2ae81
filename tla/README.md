# Faramesh core: a verification project

Faramesh governs what AI agents do. Adapters (a Unix-socket SDK server, a gRPC
daemon, an MCP gateway, HTTP proxies, a serverless handler) turn each tool call
into a `CanonicalActionRequest` and call `Pipeline.Evaluate`; the pipeline
answers PERMIT, DENY, DEFER or SHADOW, and writes a decision record (DPR) before
it does. This directory holds TLA+ models of the stateful, concurrent core of
that program, the TLC runs that check them, and TLAPS proofs about them. Paths
below are relative to the repository.

Contents: [inventory](#inventory) · [modules and code](#modules-and-the-code-they-model)
· [runs](#the-runs) · [bounds](#bounds) · [fairness](#fairness) · [proofs](#proofs)
· [findings](#what-the-violation-runs-show) · [not modelled](#what-is-not-modelled-and-why)
· [plan](#plan).

## Inventory

| Component | State | Operations | What makes it correct |
|---|---|---|---|
| **Decision pipeline** `internal/core/pipeline.go` | chain cache `chainMu`, call-chain set, governors, policy pointers | `Evaluate`: gates in a fixed order, then `decide` | a decision is made by one policy; no decision before its record |
| **Audit chain** `core/dpr/wal.go`, `core/jobs/dpr_queue.go`, `core/dpr/sqlite.go` | WAL file, buffered queue, SQLite records | `buildRecord`, `WAL.Write`, `recoverWALTail`, `EnqueueDPR`, `Save`, `LastHash`, `ReplayValidated`, `VerifyChain` | no execution without a durable record; the chain of an agent neither forks nor breaks; records reach the store |
| **Defer workflow** `core/defer/workflow.go`, `adapter/daemon/server.go` | `pending`, `resolved`, handles with channels, expiry goroutines | `DeferWithToken`, `Resolve`, expiry, `Status`, `waitForApproval`, re-evaluation | one decision per handle; nothing runs unapproved; every wait ends |
| **Defer triage** `core/defer/triage.go` | a list behind an `RWMutex` | `Classify`, `Remove` | registration returns |
| **Session state** `core/session/*` | kill switch, call count, costs, history, in the process and in Redis; SQLite store of daily costs | `IncrCallCount`, `AddCost`, `RecordHistory`, `Kill`, `IsKilled` | limits hold; the kill switch holds; history is not behind |
| **Policy reload** `daemon/daemon.go`, `adapter/daemon/server.go`, `core/policy/atomic.go` | engine, artifacts, manifests, `lastPolicyHash` | file/URL reload, fleet event, `PushPolicy`, each through `ApplyPolicyBundle` | the parts are of one policy; no update is skipped |
| **Routing governor** `core/multiagent/routing.go` | manifests, invocation counts | `CheckInvocation`, `RecordInvocation`, `ReplaceManifests` | caps per session hold |
| **Decision gates** `core/pipeline.go`, `core/phases`, `core/session/governor.go`, `core/principal/delegation.go`, `core/multiagent/subpolicy.go` | phases in the session and in the manager, call count, call chain | the gates of `Evaluate` in order | the answer is the record; what is permitted passed every gate |
| **FPL, policy engine** `core/fpl`, `core/policy` | immutable after compilation; operator and selector caches | parse, compile, merge, match | a rule means what its text says; first match wins; caches do not change a condition |
| **Loop and aggregation governors** `core/multiagent/loops.go`, `aggregation.go` | sliding windows | check and track | no window lets more through than its limit |
| **Sync gate, fan-out budgets** `core/multiagent/sync.go`, `budget.go` | agent states, a channel, allocations | update, wait, reserve, record | a gate opens once and for all waiters; overspending is bounded |
| **Phases, seals, linkage, shared keys** `core/multiagent/{phases,seals,linkage,sessiongov}.go` | maps behind one lock each | record, seal, link | a phase is earned; a chain reads back whole; keys stay their agent's |
| **Principals** `core/principal` | elevation grants, revocations, trust documents, identity cache | grant, revoke, verify | what is expired or revoked is not used |
| **Credential broker** `core/credential` | leases and tokens at secret stores | fetch, inject, release | every lease is revoked; who needs a credential has one |
| **Callbacks** `core/callbacks` | a shared slice, two queues, workers | register, `Fire`, `Stop` | each registered function is called once |
| **Orderly stop** `daemon.go`, `core/webhook`, `cloud/sync.go` | three queues and their workers | `stop` | it ends; nothing is written to a closed store; taken events are delivered |
| **MCP gateway** `adapter/mcp` | table of waiting requests, a subprocess | forward, read, time out | a reply is the reply to that request; every line is answered |
| **SDK socket** `adapter/sdk` | connections, subscriptions | govern, approve, poll, subscribe | nobody waits for a subscriber |
| **HTTP proxy, serverless** `adapter/proxy`, `adapter/serverless` | rate buckets | authorize, connect, forward, approve | no transfer begins undecided; an approval is for its own calls |
| **Output scanning** `core/postcondition`, `adapter/mcp/postscan.go` | compiled rules | scan, rebuild | what is redacted is gone, as far as rules do not undo each other |
| **Call arguments** `core/canonicalize`, `core/contextguard`, `core/compensation` | none | normalise, guard, undo | one spelling per name; guards hold |
| **Record stores and exports** `core/dpr`, `core/jobs` | SQLite, PostgreSQL, Merkle trees | save, verify, prove | a gap is found; what is whole verifies |
| **Observability** `core/observe` | counters, histories | record, trace | a suspicion is real |
| **Hub, verification** `internal/hub`, `artifactverify`, `reprobuild` | files on disk | install, verify, attest | installed packs are what was signed |
| **Defer batches** `core/defer/batch.go`, `context.go` | batches of tokens | add, approve, override | an approved batch decides its items |
| **Degraded mode, topology, bootstrap, sandbox, CLI, SDKs** | flags, none | - | not modelled, [below](#what-is-not-modelled-and-why) |

**How they interact.** Adapters call `Evaluate` from one goroutine per request.
`Evaluate` reads the policy through atomic pointers, the session through its
mutexes or through Redis, the governors through a mutex each, and calls the
defer workflow and the WAL. Behind the answer run goroutines that save the
record, book the cost and emit webhooks. Humans resolve tokens through any
adapter. A reloader, a fleet subscriber and a gRPC handler replace the policy
while evaluations run. Several daemons share Redis and hear of each other's
reloads through it.

**What is hard here.** Two critical sections where one is needed (build then
write, check then record, three writes of one bundle); work done after the
answer; state kept in two places with a fallback between them (Redis and the
process, the WAL and the store, the status map and the channel); timers racing
people; partial writes; and everything that a restart forgets. `PROJECT.json`
lists these as hazards, at the lines where they bite, each with the properties
that cover it or a note saying why none does.

## Modules and the code they model

| Module | Models | Lines of state |
|---|---|---|
| `AuditLog` | abstract: answered implies durable, durable-and-answered is for ever | `durable`, `answered` |
| `AuditChain` | `decide`, `buildRecord`, the WAL, the queue, the store, restart | see below |
| `DeferOnce` | abstract: a token is opened once, closed once, and expires no earlier than its deadline | `status`, `opened` |
| `DeferWorkflow` | the workflow and the gRPC requester | see below |
| `DeferTriage` | the locks `Classify` takes inside a registration | `readers`, `writer` |
| `SessionState` | the session gates of `Evaluate` over one agent's state, and the backend | see below |
| `PolicyRouting` | reloads against evaluations of `invoke_agent` | see below |
| `CallGates` | the gates of `Evaluate` from the call chain to the answer | `ev`, `policy`, `phaseManager`, `phase`, `counted`, `answers` |
| `Windows` | loop and aggregation governors, critique loops | `runtime`, `risky`, `passed`, `loop` |
| `CredentialLeases` | plan, fetch, inject, release, record, tool | `borrower`, `lease` |
| `FplLanguage`, `PolicyRules` | the FPL parser and compiler; loading, merging and matching rules | `text`, `flat`, `topo`, `yaml` |
| `Conditions` | registries and caches, history helpers, replay time | registries, history, clock |
| `PostScan` | post-condition rules and scans | `postDoc`, `postScanner`, `scanned` |
| `HttpEdges` | the doors of the proxies and the functions | buckets, `decided`, `upstream`, `doorHandles`, `approvals` |
| `AgentRules` | phases, seals, links, keys, aggregated answers | one part each |
| `Principals` | identity, elevation, revocation, trust, token cache | one part each |
| `RecordStores` | stores, queues, chain verification, Merkle proofs | `walRecords`, `rows`, `export` |
| `Telemetry` | counters, cross-session tracker, rule figures, provenance | one part each |
| `DeferBatches` | batches of deferred calls, resume contexts | `batches`, handles |
| `HubPacks` | installs, signatures, manifests, fingerprints | disk, attestations |
| `CallArguments` | canonical form, context guards, compensation | the value at hand |
| `DaemonStop` | `stop()` against what it closes | positions of evaluations, queues, workers |
| `McpGateway`, `SdkServer`, `Callbacks`, `FanOut` | as named | connections, tables, queues, gate and budget |
| `AuditChainProofs`, `DeferWorkflowProofs`, `SessionStateProofs` | theorems about the module of that name | - |
| `PartsProofs` | theorems about `PolicyRouting`, `Windows`, `CallGates`, `DeferBatches`, `Principals`, `CredentialLeases`, `AgentRules` and `HttpEdges` | - |
| `DataProofs` | induction over data, as lemmas; theorems about `PostScan`, `CallArguments`, `AgentRules` (answers), `FanOut` (books), `Telemetry`, `Conditions` and `HubPacks` | - |
| `MCAuditChainProofs` | the theorems of `AuditChainProofs` for the regimes of `MCAuditChain` | - |
| `MCServicesProofs`, `DecisionPartsProofs` | theorems about the modules composed in `MCServices` and `MCDecisionParts` | - |
| `MCAuditChain` | `AuditChain` under three regimes | `regime` |
| `MCServices`, `MCDecisionParts` | which module is at work in a behaviour | `part` |
| `MCPolicyRules`, `MCDeferWorkflow`, `MCSessionState` | instances for TLC | - |

**`AuditChain`.** A record is its position in `built`, in the order
`buildRecord` made them; the position stands for the SHA-256 hash, which is taken
to be injective. `BuildRecord` is one step (it is one critical section of
`chainLock`); `WriteHeader`, `WritePayload` and `Sync` are the three system
calls of `WAL.Write`, under `walMu`; `HeaderFails` and `PayloadOrSyncFails` are
its error returns, and what was already written stays in `file`. `Deny` and
`Replicate`/`Answer` are the rest of `decide`. `QueueTake`/`QueueSave` are the
queue's worker, `FallbackSave` the goroutine that saves a record the queue had
no room for. `Crash` keeps any prefix of the unsynced frames, the last possibly
cut (`CrashImages`); `Start` is `OpenWAL` with `recoverWALTail`, then
`NewPipeline` taking the chain's tails from the store.

**`DeferWorkflow`.** A handle is its index in `handles`; a token is a call and
whether it is the `-resume` evaluation. `Register` is `DeferWithToken` under
the lock, `StartTimer` its goroutine, `Win` is `resolveInternal` up to the
unlock, `Send` the channel send after it. `Govern`, `Evaluate`, `Poll`, `GiveUp`,
`Reevaluate` and `EvaluateAgain` are the requester in `Server.Govern`, with the
call-chain guard (`InChain`). `ChangeRule` is a reload that changes the effect
of the rule; `Restart` forgets everything but the history kept for the
properties. The channel and the requester's polling of `Status` are both kept,
since the properties relate them.

**`DeferTriage`.** Go's `RWMutex` is not upgradable; `WriteLock` needs
`readers = {}`, and the caller is a reader.

**`SessionState`.** One agent (agents share nothing), several daemons, a
shared backend or none. Each method of `State` is one request to the backend
with three outcomes: answered, not carried out, carried out with the reply
lost; in the last two the method goes on with the process's own field.
`Begin` … `Decide` are the session gates of `Evaluate` in their order, `Book` is
`accountCost` behind the answer, `DecideUnaudited` the refusal after a WAL
error, which leaves no history. `before`, `booked`, `saw` and `ticket` record
what a call saw, for the properties.

**`PolicyRouting`.** A policy is a record of what the two gates read: has it a
manifest, what it says of the target, the cap, and the effect of the rule.
`Swap`, `Store` and `SyncRouting` are the three writes of `ApplyPolicyBundle`;
three reloaders may run them at once (only the local source's reload holds
`reloadMu`, so each reloader is one process). Evaluations take the artifacts in
`Begin`, look at the manifest in `FindManifest` and again in `CheckInvocation`,
and record the invocation in `Decide`.

**The services.** `DaemonStop` follows `stop()` statement by statement. A
decision is handed to the record queue, the webhook sender and the syncer, the
last two by goroutines nobody waits for; a send on a closed channel ends the
process (`EnqueueDPR` on the SDK socket) or one connection (under `net/http`).
`McpGateway` numbers each message handed to a tool server, which the code does
not, so that a property can say whose reply a caller got. `SdkServer` has peers
that stop reading or leave. `Callbacks` keeps the backing array of the Go slice
that `Fire` reads without the lock. `FanOut` keeps the gate's channel and the
`released` flag apart.

**The parts of a decision.** `CallGates` takes the gates that share nothing as
one step (`FirstRefusal`, in the code's order) and the others as one each; the
rest of these modules go one component each, with the interleavings that
component has: a lookup and a store under two locks (`Conditions`), a read lock
and a later write lock (`Principals`), saves that fail between two stores
(`RecordStores`), items resolved without the batch's lock (`DeferBatches`),
installs side by side (`HubPacks`), observations in any order (`Telemetry`).
A log of `Windows` is a set of numbered entries, and what it weighs is the number of
units its entries come to, so that the sum over a slice is the size of a set.
`FplLanguage` and `PolicyRules` build programs item by item, print them as
tokens, parse the tokens and compare what is compiled with what was written.

## The runs

| Run | Question | Distinct states |
|---|---|---|
| `chain_regimes` | With every WAL fault and a full queue: is any decision answered before its own record is synced (`AuditBeforeAnswer`), does a refused record reach the store (`StoreIsAudited`), does a chain fork within a run (`NoForkWithinRun`), does every evaluation end, is every accepted record stored? Through two crashes: does an answered record stay readable, is the abstract log implemented? With one call per agent in flight: does the log replay as the chain, and is what is stored of an agent one line of records (`StoredInOneLineSerial`)? | 213 thousand |
| `defer_retry` | Two requests for one call, all resolvers, one restart: is a handle decided once (`OneWinner`), is every deferral decided and every wait ended? | 648 thousand |
| `defer_once` | Two calls, a policy change: does nothing run without an approval and a permit after it (`NoRunWithoutApproval`), do channel and status agree, is `DeferOnce` implemented? | 1.3 million |
| `session_gates` | Every gate with and without a backend, under one fault, one restart, one kill and a midnight: which guarantee survives what? | 5.5 million |
| `services` | Does a stop end and keep its order (`StopSafe`, `StopEnds`), does an MCP caller get its own reply and every line an answer (`McpSafe`, `EveryLineIsAnswered`), do sockets, callbacks and fan-outs keep their invariants (`FanOutsHold`, `BooksBalance`), and does nobody wait for ever on another (`NobodyIsBlocked`)? | 189 thousand |
| `decision_parts` | Two reloads of any kind against two evaluations: are caps exceeded by calls in flight only (`InvocationsAreBounded`), when do the parts of the policy agree (`PartsAgree`, `HashNamesPolicy`), and which policy decides a call (`DecidedByOnePolicy`)? What does each other part of a decision promise: checks, authority, rules, boundaries, evidence, deferrals? | 2.7 million |
| `chain_torn_write`, `chain_restart`, `defer_approved`, `defer_triage`, `session_kill`, `strict_deny` | violation runs, [below](#what-the-violation-runs-show) | - |

**One run, several regimes or parts.** `MCAuditChain` chooses a regime at the
start and keeps it: *failing* (every write fault), *crashing* (two crashes, and
the faults recovery copes with) and *serial* (an agent waits for its answer).
The regimes are instances of `AuditChain` with other constants, so the module
that is proved about is the one that runs; a property that needs a regime says
so in its name and in its formula. `MCServices` and `MCDecisionParts` choose a
part at the start; the others stay as they begin. The parts share no variable,
so a product of them would show nothing more: each part's property is a
conjunct guarded by `part`, and a part in which nothing happened satisfies it as
every initial state does.

The named parts of the composite properties, each with its comment in its module:

- `StopSafe`: `WebhooksDrained`, `QueueStopsFirst`. `McpSafe`: `RepliesAreOwn`,
  `CallsAreGoverned`, `PendingWaits`. `FanOutsHold`: `AnnouncementsAgree`,
  `AllRegisteredFire`, `GateClosesOnce`, `OverspendIsBounded`. (`BooksBalance`,
  that what is allocated fits the aggregate, is an invariant of its own: it is a
  sum over the agents and stays with TLC.)
  `NobodyIsBlocked`: `WaitersReturn`, `SlowSubscriberHurtsNobody`, `QueuedJobsRun`.
- `ChecksHold`: `WindowsHold`, `LoopsAreBounded`, `AnsweredAsRecorded`,
  `HandlesAreAnswered`, `BudgetCountsCheckedCalls`, `PassedInPhase`,
  `PermitsKeepContracts`.
- `AuthorityHolds`: `ElevatedIsGranted`, `RevokedIsDenied`, `DocIDsAreTheirs`,
  `TrustIsDocumented`, `IdentitiesAreFresh`, `LeasesAreReturned`,
  `RequiredIsGiven`, `PhasesAreEarned`, `SealsAreSound`, `KeysAreApart`.
- `RulesHold`: `RulesAreRead`, `LoadersAgree`, `YamlComesFirst`,
  `ReportedAreUnreachable`, `ManifestIsMerged`, `IDsAreDistinct`,
  `ResultsAreComputed`, `SequenceIsEmbedded`, `HelpersAgree`.
- `BoundariesHold`: `NothingHides`, `FiguresAreKept`, `GuardsAreHeld`,
  `UndoingIsComplete`, `RulesAreCompiled`, `OneTextIsClean`, `CleanIsUntouched`,
  `BlockedIsGone`, `TransfersAreDecided`, `AddressesAreLimited`,
  `ApprovalsStand`, `TokensAreTheirs`, `SessionsAreApart`.
- `EvidenceHolds`: `MirrorFollows`, `GapsAreFound`, `WholeIsVerified`,
  `ExportsAreProved`, `ChainsAreComplete`, `InstalledIsValid`, `AttestationsHold`,
  `FingerprintsMatch`, `PackRefsAreRead`, `SuspicionsAreReal`,
  `PairsInOrderAreFound`, `StatsAgree`, `ProvenanceIsSeen`.
- `DeferralsHold`: `OneOpenBatch`, `BatchesAreDecided`, `ChangesAreWarnedOf`,
  `EarlyOverridesHold`.

What the session properties say exactly. `CallsAreBounded`: a counter that
serves calls lets at most `max_calls` through, and there is one such counter as
long as nothing fails; each fallback brings one more. `BudgetsHold`: a call is
never permitted when the costs booked before it began reach a limit (costs are
booked after the answer, so calls in flight may overspend: that is what the
code does, and why the property speaks of booked costs). `HistoryIsFresh`: a
call sees each decision of its session that was out before it began.
`StoredKillHolds`: a kill that both places have taken stops every later call.

What the routing properties say. `InvocationsAreBounded`: of the invocations
that were compared with a cap, at most `cap + workers - 1` are recorded.
`PartsAgree`, `DecidedByOnePolicy` and `HashNamesPolicy` hold as long as no two
reloads ever overlapped (`overlapped`), and the last one as long as no policy
was pushed; both conditions are needed, and they are conditions that only
`reloadMu` and the callers' habits establish: two of the three callers do not
take the lock. The models keep the overlapping behaviours, so that the cap is
checked in them too.

Every passing run has for each of its properties a mutant of the code's model
that breaks it (`PROJECT.json`, `mutants`): a dropped sync, a lock kept on an
error path, a stale chain tail, a record dropped by a full queue, an expiry that
ignores the deadline, a call count read before it is incremented, and so on. A
composite property has more mutants than the one listed: each module says
"Mutant of" above them, and with each of them put in its place TLC finds the
composite property violated:

| Property | Further mutants |
|---|---|
| `StopSafe`, `McpSafe` | `EndDeliveryAtOnce`; `LetsDeferThrough` |
| `FanOutsHold` | `ApproveDeferAnyway`, `ReleasesAgain`, `SpenderCancelledBy` |
| `NobodyIsBlocked` | `OfferOrWait`, `EndJobOrWorker` |
| `ChecksHold` | `IsToolAllowedAnywhere` |
| `AuthorityHolds` | `CanTransitionAny`, `PassGatesOfVerified`, `FreshAlways` |
| `RulesHold` | `OutcomeCached`, `FoundNewestFirst` |
| `BoundariesHold` | `MapNoConfusables`, `CheckedAge`, `CompensationOfSome`, `LetsUndenied`, `TakeUncounted` |
| `EvidenceHolds` | `ValidatesEither`, `VerifyManifestOfAny`, `SuspiciousAlone` |

### Stated and not true of the code

The modules also state what a comment says and the code does not do. No run has
them as a property: give one to TLC as the only invariant of `services` or
`decision_parts` and it finds a counterexample.

| Property | What the code does instead |
|---|---|
| `DaemonStop.SyncerFlushed` | `stop` says the syncer "flushes remaining records" (daemon.go:954); its `Close` returns at once |
| `DaemonStop.NoSendOnClosed` | the sender and the record queue close channels that others send on |
| `SdkServer.StreamsEnd` | a subscriber's goroutine ends only by its channel, which only that goroutine's end closes |
| `Callbacks.AllRegisteredFireAlways` | a removal filters in place the list that `Fire` is reading |
| `CredentialLeases.LiveWhileToolRuns` | the lease is revoked before the tool runs, against broker.go |
| `PostScan.RedactedIsGone` | of a result with several texts the first gets the scanned text, the others stay (postscan.go:79) |
| `HttpEdges.DeferralsAreKnown`, `CallsHaveAnAgent` | a proxy tells nobody its token; the guard forgets its default agent |
| `AgentRules.EveryPhaseIsEarned`, `SealsVerify`, `NothingBlockedShows` | names joined by ":" collide; two sealers' steps come out of order; of two entities that overlap one is not found again once the other is redacted |
| `Principals.GrantsLast`, `TrustIsNamed`, `IdentityIsTheTokens` | a new grant is deleted with the old one's expiry (elevation.go:104); a document registered again under its id counts for the organisations of the first; the identity cache's key is shared by tokens and outlives them |
| `RecordStores.CompleteIsVerified`, `AuditFindsGaps` | records of one second are read back in another order; an audit counts violations of what is there |
| `Conditions.NewestIsEvaluated`, `ReplayKeepsTime` | a cache outlives its function; a replay's year is lost, and the weekday with it (engine.go:391) |
| `Telemetry.ScannedIsTraced`, `ReadCameFirst`, `CountersAgree` | goroutines observe in any order; an output that is kept may not be looked for; a decision is counted before it is logged |
| `DeferBatches.OverridesHold`, `UnchangedIsQuiet` | an override is accepted while the batch is being decided, or after; a state's hash is taken in the order of a map |
| `HubPacks.ManifestIsOfPolicy` | policy and manifest are two writes, and two installs into one directory may mix them |
| `CallArguments.CanonicalIsFinal`, `PassedAreFresh`, `OnlyPermittedIsUndone` | a canonical name may change when made canonical again; a source that answered first may be stale when the last has; an undoing is proposed of a denied call as well |

`CHECK_DEADLOCK FALSE` is set everywhere: calls, crashes and reloads are bounded
and every system comes to rest when they are used up.

### What some properties leave open

Some of the code's promises hold within limits, and the properties say which.

- **The chain.** A crash tears the payload of the last frame. One within its header
  of twelve bytes is not modelled: recovery takes such a header for the end of the
  log and leaves it (wal.go:167-169, 194-196), so that frames behind it are not read.
  `StoredInOneLine` is about which records are stored and how they are linked. Whether
  `VerifyChain` accepts them is the matter of `RecordStores`, where rows are read in
  the order of the text of their times and every hash is computed again from the
  columns: whole chains verify (`WholeIsVerified`) if their times are in UTC and of
  distinct seconds and no call had an `execution_timeout_ms`, which is hashed without
  a column (record.go:116, 129).
- **MCP.** Of the calls a batch may hold, those without an id are handed on ungoverned
  (gateway.go:175, 495), although gateway.go:5-6 speaks of every `tools/call`;
  `CallsAreGoverned` excepts them by name (`Exempt`). Two waits have no limit: a
  write to a subprocess that does not read while its pipe is full (gateway.go:262;
  the timer starts behind it), and an event stream (gateway.go:580-583);
  `EveryLineIsAnswered` says nothing else holds a line for ever (`Held`).
- **The stop.** `GracefulStop` has no timeout and waits for every RPC, also for the
  streams of the health service (adapter/daemon/server.go:85-88). `StopEnds` says that
  these are the only thing that may hold a stop, and that it ends once they have.
- **The HTTP doors.** A forwarded request follows redirects (forward_http.go:154-156).
  Each transfer begins at a target that was decided; up to nine others it is led on to
  were decided by nobody. The token of a deferral is made of the call id and the tool
  (pipeline.go:735) and cut to eight digits, and a caller may choose the call id:
  `TokensAreTheirs` says that calls wait on one handle only if they make the same
  token while it is pending, and `ApprovalsStand` that an approval covers no later call.
- **Scans.** Rules are applied one after the other, each to what the ones before left.
  A replacement is the policy's (scanner.go:59, 195-199) and may be what a rule that
  was tried before looks for; a pattern between word boundaries may find a word only
  when its neighbour has been replaced. `OneTextIsClean` asks for replacements nothing
  looks for (`Inert`) and words that stand apart (`StandApart`); without either TLC
  finds a text that leaves with what a rule looks for. A match is one fragment of
  a text, a replacement makes one fragment of it, and a category's patterns come in
  one of the orders `PostRules` holds.
- **Aggregated answers.** An entity is taken out by its text, wherever it stands, and a
  second one that overlaps it is then not found (aggregation.go:200-212). No blocked
  text is left whole (`BlockedIsGone`), but part of a broken one may be
  (`NothingBlockedShows` is not true of the code). The error of too few sources and
  the mark of a cut answer are left out.
- **Batches.** An override is written under the lock and read without it: read half
  written it decides as no override would, and a half-written first one may end the
  process, which the model does not do.
- **Seals.** The step of a seal is its caller's argument (seals.go:44). A session that
  verifies has no step twice and none missing; one whose agents sealed in turn verifies
  just if they gave the steps in turn.
- **Credentials.** The environment's broker returns a marker without a value
  (broker.go:110-117), and `RequiredIsGiven` takes it for a credential, as the code does.
- **Excluded cases.** `ReplayValidatesSerial` excludes two calls of an agent in flight;
  `ImplementsDeferOnce` a call id sent again, whose first timer may expire the second
  handle; `BudgetsHold` what a burst overspends and what a dropped store error loses;
  `PartsAgree`, `DecidedByOnePolicy` and `HashNamesPolicy` overlapping reloads,
  pushes, and calls a reload crosses. `PROJECT.json` says so at each hazard.

## Bounds

- **Two of each actor** (workers, requesters, daemons, evaluations). Every hazard
  listed is a race of two: two builders of one chain, two resolvers of one
  handle, a reloader and an evaluation. The chain's runs let a worker make
  several calls: three of one agent, so that a third record can show a fork, and
  four serial ones of two agents, which let direct saves overtake a full queue.
- `MaxCrashes` (`Deaths` in `chain_regimes`) 2: the second crash finds a file that recovery has already cut.
- `QueueCap` 1 and 0: the queue is full while its worker saves, or always.
- `defer_*`: `Timeout` 1 and `MaxTime` 0: calls arrive until time 0 and the
  clock runs on while a timer waits, so expiry, approval and poll meet in every
  order. One restart, one rule change: the second would repeat the first.
- `session_gates`: limits of one unit and a history of one entry are reached by
  the first of two calls; one fault of any kind, one restart, one kill and two
  days put each hazard before, between and after the two calls.
- `decision_parts`, routing: three calls on two workers with a cap of one reach
  cap + 1; two reloads overlap in every way; the three policies have a capped
  target, which is in force at first, an undeclared one that is deferred, and no
  manifest.
- `decision_parts`, governors: two goroutines, four calls and four ticks with a
  window of two, and weights of one and two (`HighestRisk`), so that a call
  overtakes another over the edge of a window and the heaviest one does.
- `decision_parts`, others: two evaluators, borrowers, callers, installers, three
  items, records or calls (two of borrowers), one clock tick past each lifetime. Four spellings in a
  row hold every pair of a confusable, a mark and a path; three texts in a result
  put a finding before, in and after the one the scanner returns; four records
  make the first unbalanced Merkle tree.
- `services`: two evaluations, queues of one, two connections and a subscriber,
  two callers of the gateway and a subprocess that answers twice or stops reading,
  a stream of the health service, two agents of a fan-out. Two connections have two
  tokens, so that the limit on connections refuses none here;
  `SubscribersAreToldTheOutcome` is proved for any number of both.
- `decision_parts`, gates: no reload replaces the phase manager (`MaxGateReloads` 0);
  `GatesAreKept` is proved for any number.
- `decision_parts`, batches: one operator, and one token that is overridden, as often
  as it may be; a second operator makes fifteen million states of it, and
  `DeferralsAreSound` is proved for any number of both.
- `decision_parts`, doors: call ids that make the same token and ids that do not; no
  redirect, or one more than the client follows (`MostRequests` 2).

Symmetry is used in the run of invariants `session_gates` (of daemons and calls)
and in `defer_once`, whose temporal property is a box formula that treats
requesters and calls alike; the liveness runs use none. `MCAuditChain` names the
first agent and worker to be called, and `MCDecisionParts` the worker that begins
a routed call when none is under way and the approval of each group's first batch:
they break a symmetry that liveness forbids to declare, or that one part of a run
has. Its policy source is a file: one at a URL loads a part of what a file does.

## Fairness

- `AuditChain`: strong fairness of a worker's steps, since a Go mutex hands
  itself to a starved waiter; weak fairness of the queue's worker and the saving
  goroutines. Calls and crashes are not fair.
- `DeferWorkflow`: weak fairness of requesters (the poll ticker ticks), of the
  expiry goroutines, and of the clock while a timer waits. People, policy
  changes, cancellations and restarts are not fair: nobody has to approve.
- `DeferTriage`: the same, with strong fairness of lock acquisition, so that its
  counterexample is not one of starvation.

- `services`: weak fairness of goroutines, workers, timers and of `stop` once it
  began; none of clients, subprocesses, people, health watches and event streams. A
  request to an HTTP upstream ends with its client's thirty seconds at the latest. A
  write to a subprocess is strongly fair: it goes on if the pipe has room again and
  again, and waits for ever if it never has. Where a handler waits for a peer that
  need not read, the property excepts that connection and no other.

`EventuallyStored` is checked with a store that does not fail: the queue's worker
and the fallback both drop the error of `Save`, so it cannot hold otherwise.

## Proofs

All theorems are proved for every value of the constants that satisfies the
assumption of the module they are about (`ChainAssumption`, `DeferAssumption`,
`SessionAssumption`, `RoutingAssumption`, `WindowsAssumption`, `GatesAssumption`, `McpAssumption`,
`DaemonStopAssumption`, `SdkAssumption`, `CallbacksAssumption`,
`FanOutAssumption`, `BatchAssumption`, `AgentRulesAssumption`,
`PrincipalsAssumption`, `LeaseAssumption`, `EdgesAssumption`, `PostScanAssumption`,
`CallArgumentsAssumption`, `HubAssumption`, `TelemetryAssumption`,
`ConditionsAssumption`), which TLC evaluates on the instances.
Four results of `AuditChain` and one of `DeferWorkflow` need more than that; the
condition is the hypothesis of the theorem and is explained with it.

**`AuditChainProofs`**: `TypeCorrect`, `AuditPrecedesAnswer` (`AuditBeforeAnswer`),
`StoreHoldsAuditedOnly` (`StoreIsAudited`) and `ChainDoesNotFork`
(`NoForkWithinRun`), with every write fault and every tear. None is inductive
alone. `IInv` adds: the lock is held exactly by the worker between header and
fsync, and the last frame is that worker's (`LockInv`), so that the fsync covers
its own record; accepted records of this run are synced frames (`LoggedInv`); what
is answered was accepted (`AcceptedInv`); the cached tail is at least as new as
every record of its agent and predecessors are older (`TailInv`), so that a new
record's predecessor is nobody else's. The lemma on `CrashImages` says that a
crash keeps the synced frames.

`AnsweredReadable` (`AnsweredStaysReadable`) and `LogIsImplemented`
(`ImplementsAuditLog`) hold where a torn frame can be told from a whole one
(`TearsShow`): a failed write leaves nothing or fails at the fsync, and if the
daemon may die, a crash cuts payloads only. Then `FrameInv` holds: only the last
frame of the log is ever incomplete, it is not synced, and while the daemon is up
some worker is still writing it; so readers get to the end of the synced part.
The hypothesis is needed: `chain_torn_write` is the counterexample without it.
For the refinement every step is mapped to `Append`, `Answer` or a stutter of
`AuditLog`, under `Durable` of the state before and after (`DurableShows`).

`LogReplays` (`ReplayValidates`) and `StoreKeepsOneLine` (`StoredInOneLine`) hold
while agents wait for an answer before they call again and nothing fails
(`Orderly`). Then no record is made but for a call of its own (`CountInv`), an
agent's records are linked in the order of its calls (`BuildInv`), one worker at
a time serves an agent and its record is the tail (`CallInv`), and so the log
holds an agent's records in the order they were made (`OrderInv`). A store that takes
every save loses none: each logged record is stored or has its copy on the way
(`CopyInv`), whatever overtakes it there.

**`MCAuditChainProofs`** states these four of the regimes of `MCAuditChain`, as the
run `chain_regimes` checks them: `CrashesLoseNothingAnswered`
(`AnsweredStaysReadableInCrash`), `CrashingLogIsImplemented`
(`CrashingImplementsAuditLog`), `SerialLogReplays` (`ReplayValidatesSerial`) and
`SerialStoreKeepsOneLine` (`StoredInOneLineSerial`). It instantiates
`AuditChainProofs` with the constants of a regime, which satisfy `TearsShow` or
`Orderly`, and shows that a behaviour keeps to its regime and that each of its steps
is one of the instance; the number of calls and deaths stays a constant.

**`DeferWorkflowProofs`**: `TypeCorrect`, `HandleDecidedOnce` (`OneWinner`) and
`RunsOnlyApproved` (`NoRunWithoutApproval`), with restarts, retries and any
number of policy changes. `OneWinner` is inductive with the types: it says of
the pending map what a resolver needs to know. `NoRunWithoutApproval` needs to
know what each step of a requester knows (`StepInv`): while its token is pending
it is so for the requester's handle or a later one; once the token reads
"approved", one of those handles was approved (`ApprovedBy`); and the policy
version that the re-evaluation works with is not older than that approval.

`ChannelAgrees` (`WaitAgreesWithStatus`) rests on `ChannelInv`: what was sent on a
handle's channel is its winner's decision, and the token's resolved status is
that of its last handle. `DefersOnce` (`ImplementsDeferOnce`) is the refinement of
`DeferOnce`, for callers that use a call id once (`SingleUse`) and a daemon that
does not restart: a second call or a restart opens a token again, which the
abstract deferral excludes. `OnceInv` says that a token has one handle at most
(`HandleInv`) and which callers have still to register theirs (`CallerInv`).

**`SessionStateProofs`**: `TypeCorrect`, `CallsBounded` (`CallsAreBounded`) and
`KillsHold` (`StoredKillHolds`), for any number of daemons, calls, faults,
restarts and kills. `KillInv`: a stored kill is in the field of the daemon and in
the backend, whichever of the two the daemon looks at, and a call that began after
it went straight to its denial. `TicketInv`: every number drawn was counted by the
counter it names, if that daemon still runs; so no two calls drew the same number
from one counter, and a permitted call drew one within the limit. The theorem is
then a count: permitted calls map one to one to pairs of a counter and a number up
to the limit (`NumbersBound`). `SoundInv`: without trouble no daemon draws from a
counter of its own. The assumption asks for finitely many calls, for the count.

`BudgetsRespected` (`BudgetsHold`) and `HistoryFresh` (`HistoryIsFresh`) are about
runs without trouble, as the properties are. `CostInv`: each cost counter is the
sum of what the calls booked on it, counted over the finite set of those calls,
so that it only grows and holds what was booked before a call began; `RoomInv`: a
call beyond the budget gates read a counter below the limit after it began.
`HistoryInv`: a decision that is out is in the history of its session, or the
history is full, and what a call read covers what was out when it began.
`LiveInv` says which daemon a call in progress is served by, and that it runs.

**`PartsProofs`** is about parts of a decision, each by itself: `TypeCorrect`, `CapsHold` (`InvocationsAreBounded`),
`PartsOfOnePolicy` (`PartsAgree`), `OnePolicyDecides` (`DecidedByOnePolicy`) and
`HashIsCurrent` (`HashNamesPolicy`). The bound on invocations is proved with the
set of workers that hold a place under the cap (`Holders`: compared with it and
possibly still to be recorded): each took its place while the count was below the
largest cap, so what is recorded plus the holders never exceeds that cap by all
the workers. `BundleInv` says, for the one reloader that is not idle, which parts
are already its policy's; `CalmInv`, that a call no reload crosses holds the parts
in force. The assumption on the policies is that one of them has the largest cap.

- `GovernorsAreKept` (`GovernorsHold`). Nobody holds a lock from the time stamp of
  a call to its check, so calls reach a governor out of the order of their stamps
  and each check prunes what another one would still have counted: what passed in
  a window is not what a log holds. `Bounded` says, for the window that ends at any
  time `t`, what takes its place: as long as the governor has seen nothing stamped
  later than `t`, the window is part of its log and within the limit; once it has,
  the calls stamped up to `t` that are still on their way fill what is left of an
  allowance of one call for each goroutine but the one that overtook them. The
  aggregation governor needs the same with the weight of its heaviest call.
- `GatesAreKept` (`GatesHold`). `GatesInv` says of each evaluation what it has
  been through where it stands (`FlightOk`) and of each answer what remains of it
  (`AnswerOk`); that no two calls share a number or a place in the count, answered
  or not (`Apart`); that the log holds each number once (`Written`); that a handle
  is answered or about to be (`Handled`); that the active chains are those of the
  calls that own them (`Owned`); and that the evaluations suffice for the counters
  and for the calls still before them (`GateCounts`), which is what bounds both
  counters. `NoneRefuses` turns the code's list of refusals into the contract of
  a permitted call.
- `BatchesInv` follows an operator through the items of a batch: what he has left
  is of that batch, or of none since a cleanup (`OperatorInv`, `ItemsInv`), and of
  a resolved batch he has every item left that is still pending (`WaitingInv`); an
  open batch is found by its group, so there is one (`OneOpen`); the override that
  was acknowledged is the one that is kept, and an early one decides (`HandleInv`).
- `PrincipalsInv`: a grant in force was made to that caller and had not run out
  when it was read (`ElevationInv`); the table of trust is the list it was made
  from (`TrustInv`); a cached identity is the one its token was verified as, no
  older than its lifetime (`TokenInv`).
- `LeaseInv`: every lease that is live is kept by a call that has yet to go through
  its release, and no two calls have the same lease; a call that requires a
  credential is recorded as permitted only with one injected.
- `PhasesInv`: the count under the key of a plain name is at most the calls made
  in that phase, for which `PlainKeys` shows that joining two plain names is
  injective; `SealsInv`: as long as no two agents seal at once, the seals are kept in
  the order they were asked for; that a chain which verifies has no gap is an
  induction along it (`StepsFollow`).
- `DoorsAreKept` (`EdgesHold`), for any addresses, requests and limits: `BucketInv`
  weighs what an address got past the limiter since any of its requests, together
  with what its bucket still holds, against a full bucket and what trickled in since;
  that sum is what a refill and a request keep, and the bound is what remains of it
  when the bucket's part is dropped. Transfers and the decisions that let them pass
  are counted for each agent and target, and a step that adds to the first adds to
  the second. `OnePending`: of the handles of a token one at most is pending, so that a
  deferral that finds one joins calls of its own token (`WaitsInv`), and one that was
  decided is joined by nobody; `ToldInv`: who is told a token has a call that waits
  on a handle of it.

**`DataProofs`** is about what the code computes from data of any size. It begins with
what proofs about texts, sums and folds rest on. The
library's induction theorems take a predicate or an operator, which none of the
provers can find; here they are stated for a set and a function (`NumberInduction`,
`IntervalInduction`, `FiniteSetInduction`, `SetRecursion`, `NumberRecursion`),
proved from the library's fact that the strict subsets of a finite set are well
founded. From them come what the community modules' definitions compute:
`SumIsSum` and `AnyOrderSums` (`SumFunction` is a sum, in any order), `FlattenSteps`
and `FlattenElements` (`FlattenSeq`), `LeftFold` and `FoldSteps` (`FoldLeft`, for a
step that keeps a set). What a definition computes is then shown by a claim about
every prefix of its input, the set of lengths for which it holds taken for the
predicate.

- `BooksAreBalanced` (`BooksBalance`): the aggregate of a session is the sum of what
  its agents spent, and the shares they were promised fit it: `SumGrows` and
  `SumMoves` say what one more agent, or one agent's cost, does to a sum.
- `OutputsAreScanned` (`OutputsHold`): where replacements are inert and words stand
  apart, one scan leaves nothing of what it looks for and adds nothing another one
  looks for (`OneScan`), so neither do any number, in whatever order (`ScansInTurn`); the text an answer of several items was scanned as
  is the text that comes back (`OneItem`).
- `ArgumentsAreKept` (`ArgumentsHold`): a replacement leaves none of the characters it
  replaces (`ReplacedBy`), and what comes after it brings none back, through folding
  of slashes (`CollapseLeaves`) and cutting of prefixes (`WithoutLeaves`), for texts of
  any length; rounding is arithmetic on a power of ten (`FloatOnce`); `GuardInv` says of
  the sources asked so far that all but the last one held.
- Of an aggregated answer `RedactsInTurn` shows that blocked entities, taken out in any
  order, leave none of their texts standing whole: what is taken out leaves a gap that
  nothing stands across, so a text that is gone does not come back (`TakenOut`).
- `TelemetryIsTrue` (`TelemetryHolds`, a part of `EvidenceHolds`). Each goroutine
  that records something is a member of `jobs`, and may run at any time and in any
  order. `ParticularsInv` says that what it carries, and what the tables keep, is of
  a call that was seen; `StatsInv` counts the decided calls of a rule that no
  goroutine is left for. That an exfiltration is flagged just when it should be,
  if the goroutines ran in the order of their calls, needs to know what the history
  of a principal is: `Follows` says it is the accesses of its last calls, as many
  as there is room for, without those too old for any later call to ask for. A
  history whose times only grow loses a prefix when it is pruned (`YoungAreLast`),
  so pruning keeps this (`FollowStep`).
- `ConditionsAreMet` (`ConditionsHold`, a part of `RulesHold`). `ResultsInv`: what a
  cache keeps under a key is of a function its registry had, for arguments with
  that key, and not of the future; `DoneInv`, what an evaluation was answered. The
  search for tools in a history is greedy; `NextToolCounts` shows that after any
  prefix of the calls it has found as many tools as can be matched in order, so it
  finds all of them exactly if they are there (`SequencesFound`).
- `PacksAreValid` (`HubHolds`, a part of `EvidenceHolds`). `HubInv`: what an installer that passed the checks writes is what was checked, so
  a file on disk is torn or was validated; the file under an attestation that
  still verifies has not changed.

**`MCServicesProofs`**: `StopIsSafe` (`StopSafe`), `SubscribersAreToldTheOutcome` (`SdkSafe`),
`EveryCallbackIsFired` (`CbSafe`), `FanOutIsBounded` (`FanSafe`), and
`FanOutsAreSafe` (`FanOutsHold`) of the last three composed, and
`GatewayIsSafe` (`McpSafe`). `HookInv`: what the
webhook sender took was tried or is in its queue, and after its drain the queue is
empty; `WorkerInv`: the store is closed only after the queue's worker has gone, and
nothing is saved later; `HandlersInv` and `DecisionsInv`: only what the log accepted
is handed on, and a call waits for an approval once, so that decisions stay bounded.
`SdkInv`: the connections
served are no more than there are tokens (`ServingInv`); a subscriber's channel
holds no more than its buffer, and of a deferral only what became of it
(`ChannelInv`). `CbInv` is about a Go slice over
arrays that are shared until one is outgrown: as long as no removal has moved the
array under it, a loop sees each entry once (`LoopsInv`). `FanInv`: the channel of
the gate is closed at most once, and only by the step that released it, whichever
of an update and the timeout came first (`GateInv`); once the aggregate is over its
limit every agent that was allocated before is cancelled, and it is over by one
cost at most and one for each later agent that was stopped (`BudgetInv`).

`GatewayIsSafe` is for any number of clients of
both transports and whatever the subprocess sends back. The heart is `RouteInv`:
the number of a request in the pipe, if it is still in the table of waiting
requests, leads to the channel of the client that drew it; so a late or doubled
reply reaches its own client or nobody. `ReplyInv` says the same of what the reader
has in hand or has delivered; `CountInv`, that no more numbers were drawn than
requests begun, so that none is drawn twice; `OneCaller`, that no two clients wait
on one channel; `PendingWaits`, that an entry of the table is of a client that
waits, which is why nobody answered is left in it.

**`DecisionPartsProofs`** puts together what is proved of the parts: the modules
that `MCDecisionParts` composes step one at a time, and each keeps its invariant
whatever the others do. `DeferralsAreSound` (`DeferralsHold`), `AuthorityIsEarned`
(`AuthorityHolds`), `ChecksAreKept` (`ChecksHold`) and `BoundariesAreKept`
(`BoundariesHold`: arguments, outputs, aggregated answers and the HTTP doors).

**Only model-checked.** Liveness (`EvaluationEnds`, `EventuallyStored`,
`EveryDeferIsDecided`, `EveryWaitEnds`, `StopEnds`, `EveryLineIsAnswered`,
`NobodyIsBlocked`): the prover does not do fairness. Of `RulesHold` the half about
policies (`PolicyHolds`): that what is decompiled is read again as it was is a
parser's work on programs of any length, several layers of recursion deep. Of
`EvidenceHolds` the records (`RecordsHold`) and links (`ChainsAreComplete`): they
compare what verification, a Merkle proof and a walk along links make of a whole
chain. Induction over such data can be done here, as `DataProofs` shows; these
proofs have not been written.

## What the violation runs show

- **`chain_torn_write`**: `WAL.Write` leaves a half-written payload in the file
  when the write fails; records that are appended behind it are answered and can
  never be read back, until and after a restart (`recoverWALTail` cuts them off).
- **`chain_restart`**: the chain is seeded from the store, which lags behind the
  log; a crash in between forks the chain, against the comment on `NewPipeline`.
- **`defer_approved`**: the evaluation after an approval meets the rule that
  deferred the call; unless the policy was changed meanwhile the approved call is
  denied, against the troubleshooting guide.
- **`defer_triage`**: `Classify` waits for its own read lock; with triage
  configured no deferral is ever registered, timed or answered.
- **`session_kill`**: a kill the backend missed is forgotten when it answers again.
- **`strict_deny`**: a `deny!` rule after a permit rule for the same tool denies
  nothing; position overrides it, against README.md, SECURITY.md and the language
  reference.

Each is a run whose cfg is as small as the behaviour needs; `PROJECT.json`
(`findings`) quotes the sentences they contradict.

## What is not modelled, and why

- Degraded mode: two flags and two signals, read by a label of the record only.
- `topology.go` picks a target from arguments; the bootstrap enforcer is
  constructed by nothing.
- The sandbox, eBPF, environment detection, SPIFFE, the identity providers'
  protocols, the command line and the SDKs are I/O around the core. The hub is
  modelled from the response on, the secret stores from the request on.
- The expression language of `when` is a third-party library: a condition has any
  outcome. Characters are left out of FPL, and arguments have one level.
- The text of times: `LastHash` and `VerifyChain` order by a text column, which
  `RecordStores` models and `AuditChain` does not; a crash within a frame's header.
- Within modelled components: escalation and notification of deferrals, approvals
  with changed arguments; intents of a session, the two-phase cost reservation
  nothing calls, Redis key expiry; what is in the MCP gateway's event streams, and
  those a client opens without a message; copying of
  HTTP bodies; reports and metrics text; fleet registration.
- Two hazards have no property, as no module has both their halves: the cost
  booked after an answer is looked up in the policy of that moment
  (pipeline.go:997), and the event published to the fleet carries the policy file
  as read again after it was loaded (daemon.go:343).

## Plan

1. *Done:* audit chain; defer workflow and triage; session state; reload and
   routing; proofs about each of them.
2. *Done:* governors, gates, principals, credentials, FPL and the policy engine,
   scans, edges, stores, telemetry, batches, hub; stop, gateway, sockets,
   callbacks, fan-out.
3. *Done:* proofs about `AuditChain`, `DeferWorkflow`, `SessionState`,
   `McpGateway`, `DaemonStop`, `Telemetry`, `Conditions` and `HubPacks`, the
   refinements of `AuditLog` and `DeferOnce` included; `FanOutsHold`,
   `BooksBalance`, `ChecksHold`, `DeferralsHold`, `AuthorityHolds` and
   `BoundariesHold` of the modules composed for TLC.
4. **Proofs left**: `RecordStores`, the links of `AgentRules`, `PolicyRules`.
5. **Composition**: `SessionState` with `PolicyRouting`, for the cost of a call
   whose policy changes under way; `RecordStores` behind `AuditChain`.
