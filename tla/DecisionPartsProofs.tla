-------------------------- MODULE DecisionPartsProofs --------------------------
(***************************************************************************)
(* What the parts that take part in a decision give together: MCDecision-  *)
(* Parts steps one of them at a time, and each keeps its own invariant.    *)
(***************************************************************************)
EXTENDS MCDecisionParts, PartsProofs, DataProofs

-------------------------------------------------------------------------------
(* Deferrals *)

DeferralsInv == BatchesInv /\ ChangesAreWarnedOf

LEMMA DeferralsKept == DeferralsInv /\ [PartsNext]_partsVars => DeferralsInv'
<1>. SUFFICES ASSUME DeferralsInv, [PartsNext]_partsVars PROVE DeferralsInv'
  OBVIOUS
<1>1. CASE UNCHANGED batchVars
  <2>1. UNCHANGED <<batchNow, handleVars, context>>
    BY <1>1 DEF batchVars
  <2>2. batchNow \in Int
    BY DEF DeferralsInv, BatchesInv, BatchTypes
  <2>3. BatchesInv'
    BY <2>1, <2>2, BatchesStay DEF DeferralsInv
  <2>. QED BY <2>1, <2>3 DEF DeferralsInv, ChangesAreWarnedOf
<1>2. CASE BatchNext
  <2>1. BatchesInv'
    BY <1>2, BatchStep DEF DeferralsInv
  <2>2. UNCHANGED context
    BY <1>2, BatchesLeaveContext
  <2>. QED BY <2>1, <2>2 DEF DeferralsInv, ChangesAreWarnedOf
<1>3. CASE Resume
  <2>1. UNCHANGED <<batchNow, handleVars>>
    BY <1>3 DEF Resume
  <2>2. batchNow \in Int
    BY DEF DeferralsInv, BatchesInv, BatchTypes
  <2>3. BatchesInv'
    BY <2>1, <2>2, BatchesStay DEF DeferralsInv
  <2>. QED BY <2>3, <1>3, ResumeIsWarnedOf DEF DeferralsInv
<1>4. CASE PartsNext
  <2>1. part \notin {"batches", "resumed"} => UNCHANGED batchVars
    BY <1>4 DEF PartsNext
  <2>2. part = "batches" => BatchNext
    BY <1>4 DEF PartsNext
  <2>3. part = "resumed" => Resume
    BY <1>4 DEF PartsNext
  <2>. QED BY <2>1, <2>2, <2>3, <1>1, <1>2, <1>3
<1>. QED BY <1>1, <1>4 DEF partsVars

(* DeferralsHold, for any calls, operators, groups and deadlines: no two   *)
(* open batches are of one group, no item of a decided batch is left       *)
(* waiting when its operator is done, an override taken before the batch   *)
(* was decided is what decides (batch.go:7-11, 72), and a resumed call is  *)
(* told of a state that has changed (context.go:85).                       *)
THEOREM DeferralsAreSound == PartsSpec => []DeferralsHold
<1>1. PartsInit => DeferralsInv
  <2>. SUFFICES ASSUME PartsInit PROVE DeferralsInv
    OBVIOUS
  <2>1. BatchInit
    BY DEF PartsInit
  <2>2. context = <<>>
    BY <2>1 DEF BatchInit
  <2>. QED BY <2>1, <2>2, BatchesBegin DEF DeferralsInv, ChangesAreWarnedOf
<1>2. DeferralsInv => DeferralsHold
  BY BatchesAreSound DEF DeferralsInv, DeferralsHold, BatchesHold
<1>. QED BY <1>1, <1>2, DeferralsKept, PTL DEF PartsSpec

-------------------------------------------------------------------------------
(* Who may do what *)

AuthorityInv == PrincipalsInv /\ LeaseInv /\ BooksInv

LEMMA AuthorityBegins == PartsInit => AuthorityInv
<1>. SUFFICES ASSUME PartsInit PROVE AuthorityInv
  OBVIOUS
<1>1. PrincipalInit /\ LeasesInit /\ RulesInit
  BY DEF PartsInit
<1>. QED BY <1>1, PrincipalsBegin, LeasesBegin, BooksBegin DEF AuthorityInv

LEMMA SealsHaveNoGap == SealsInv => NoSealIsMissing
<1>. SUFFICES ASSUME SealsInv, VerifyChain(StepsSealed), NEW i \in DOMAIN seals, NEW j \in DOMAIN seals
              PROVE  StepsSealed[j] - StepsSealed[i] = j - i
  BY DEF NoSealIsMissing
<1>1. StepsSealed \in Seq(Int) /\ DOMAIN StepsSealed = DOMAIN seals
  BY StepsAreNumbers
<1>. DEFINE f == StepsSealed
<1>2. f \in Seq(Int) /\ VerifyChain(f) /\ i \in DOMAIN f /\ j \in DOMAIN f
  BY <1>1
<1>. HIDE DEF f
<1>3. f[j] - f[i] = j - i
  BY <1>2, StepsFollow
<1>. QED BY <1>3 DEF f

LEMMA AuthorityKept == AuthorityInv /\ [PartsNext]_partsVars => AuthorityInv'
<1>. SUFFICES ASSUME AuthorityInv, [PartsNext]_partsVars PROVE AuthorityInv'
  OBVIOUS
<1>1. ElevationNext \/ TrustNext \/ TokenNext \/ UNCHANGED principalVars
  <2>1. CASE PartsNext
    <3>1. part \notin {"elevation", "trust", "tokens"} => UNCHANGED principalVars
      BY <2>1 DEF PartsNext
    <3>2. /\ part = "elevation" => ElevationNext
          /\ part = "trust" => TrustNext
          /\ part = "tokens" => TokenNext
      BY <2>1 DEF PartsNext
    <3>. QED BY <3>1, <3>2
  <2>2. CASE UNCHANGED partsVars
    BY <2>2 DEF partsVars
  <2>. QED BY <2>1, <2>2
<1>2. LeasesNext \/ UNCHANGED leaseVars
  <2>1. CASE PartsNext
    <3>1. (part # "leases" => UNCHANGED leaseVars) /\ (part = "leases" => LeasesNext)
      BY <2>1 DEF PartsNext
    <3>. QED BY <3>1
  <2>2. CASE UNCHANGED partsVars
    BY <2>2 DEF partsVars
  <2>. QED BY <2>1, <2>2
<1>3. PhaseNext \/ SealNext \/ LinkNext \/ AnswerNext \/ UNCHANGED ruleVars
  <2>1. CASE PartsNext
    <3>1. part \notin {"phases", "seals", "links", "answers"} => UNCHANGED ruleVars
      BY <2>1 DEF PartsNext
    <3>2. /\ part = "phases" => PhaseNext
          /\ part = "seals" => SealNext
          /\ part = "links" => LinkNext
          /\ part = "answers" => AnswerNext
      BY <2>1 DEF PartsNext
    <3>. QED BY <3>1, <3>2
  <2>2. CASE UNCHANGED partsVars
    BY <2>2 DEF partsVars
  <2>. QED BY <2>1, <2>2
<1>. QED BY <1>1, <1>2, <1>3, PrincipalsStep, LeasesStep, BooksStep DEF AuthorityInv

(* AuthorityHolds, for any callers, documents, tokens, borrowers, agents   *)
(* and sealers: a call is at the elevated tier only on a grant that had    *)
(* not run out when it began or was made since (elevation.go, ActiveGrant),*)
(* and is denied if a revocation of its principal had returned before it   *)
(* began (revocation.go, Revoke); a chain of trust has a document in force *)
(* (federation.go, Valid); a cached identity is as young as its entry;     *)
(* nobody who knows a lease to be good leaves it behind, and no call that  *)
(* requires a credential is permitted without one (pipeline.go [8.5]); a   *)
(* phase is left on calls made in it, a session whose seals verify lacks   *)
(* no step and has none twice, and one whose agents sealed one after the   *)
(* other verifies, and keys of plain names are apart (core/multiagent).    *)
THEOREM AuthorityIsEarned == PartsSpec => []AuthorityHolds
<1>1. AuthorityInv => AuthorityHolds
  <2>1. AuthorityInv => NoSealIsMissing
    BY SealsHaveNoGap DEF AuthorityInv, BooksInv
  <2>2. AuthorityInv => AgentRulesHold
    BY <2>1, BooksAreSafe DEF AuthorityInv, AgentRulesHold, SealsAreSound
  <2>. QED BY <2>2, PrincipalsAreSafe, LeasesAreSafe DEF AuthorityInv, AuthorityHolds
<1>. QED BY <1>1, AuthorityBegins, AuthorityKept, PTL DEF PartsSpec

-------------------------------------------------------------------------------
(* What a call is checked against *)

ChecksInv == WindowsInv /\ LoopInv /\ GatesInv

LEMMA ChecksKept == ChecksInv /\ [PartsNext]_partsVars => ChecksInv'
<1>. SUFFICES ASSUME ChecksInv, [PartsNext]_partsVars PROVE ChecksInv'
  OBVIOUS
<1>1. WindowNext \/ LoopNext \/ UNCHANGED wVars
  <2>1. CASE PartsNext
    <3>1. part \notin {"windows", "loop"} => UNCHANGED wVars
      BY <2>1 DEF PartsNext
    <3>2. (part = "windows" => WindowNext) /\ (part = "loop" => LoopNext)
      BY <2>1 DEF PartsNext
    <3>. QED BY <3>1, <3>2
  <2>2. CASE UNCHANGED partsVars
    BY <2>2 DEF partsVars
  <2>. QED BY <2>1, <2>2
<1>2. GatesNext \/ UNCHANGED gatesVars
  <2>1. CASE PartsNext
    <3>1. (part # "gates" => UNCHANGED gatesVars) /\ (part = "gates" => GatesNext)
      BY <2>1 DEF PartsNext
    <3>. QED BY <3>1
  <2>2. CASE UNCHANGED partsVars
    BY <2>2 DEF partsVars
  <2>. QED BY <2>1, <2>2
<1>3. [WNext]_wVars
  BY <1>1 DEF WNext
<1>4. WindowsInv' /\ LoopInv'
  BY <1>3, GovernorsStep DEF ChecksInv
<1>5. GatesInv'
  BY <1>2, GatesKeep, GatesStay DEF ChecksInv
<1>. QED BY <1>4, <1>5 DEF ChecksInv

(* ChecksHold: no window of the loop and aggregation governors lets more   *)
(* pass than its limit and one overtaken call of each other goroutine      *)
(* (loop/governor.go, aggregation/governor.go), the critique loops stop at *)
(* their limits, and the gates of decide hold whatever order goroutines    *)
(* take them in (core/pipeline.go, Evaluate).                              *)
THEOREM ChecksAreKept == PartsSpec => []ChecksHold
<1>1. PartsInit => ChecksInv
  BY WindowsBegin, GatesBegin DEF PartsInit, ChecksInv
<1>2. ChecksInv => ChecksHold
  BY WindowsAreSafe, GatesAreSafe DEF ChecksInv, ChecksHold
<1>. QED BY <1>1, <1>2, ChecksKept, PTL DEF PartsSpec

-------------------------------------------------------------------------------
(* What crosses a boundary *)

BoundariesInv == ArgInv /\ OutputsInv /\ BlockedIsGone /\ EdgesInv

LEMMA BoundariesBegin == PartsInit => BoundariesInv
<1>. SUFFICES ASSUME PartsInit PROVE BoundariesInv
  OBVIOUS
<1>1. ArgInit /\ PostInit /\ RulesInit /\ EdgesInit
  BY DEF PartsInit
<1>2. BlockedIsGone
  BY <1>1 DEF RulesInit, BlockedIsGone
<1>. QED BY <1>1, <1>2, ArgBegins, OutputsBegin, EdgesBegin DEF BoundariesInv

LEMMA AnswersKeep ==
  ASSUME BlockedIsGone, PhaseNext \/ SealNext \/ LinkNext \/ AnswerNext \/ UNCHANGED ruleVars
  PROVE  BlockedIsGone'
<1>1. CASE AnswerNext
  BY <1>1, GovernOutputKeeps DEF AnswerNext
<1>2. CASE PhaseNext \/ SealNext \/ LinkNext \/ UNCHANGED ruleVars
  <2>1. UNCHANGED answer
    BY <1>2 DEF PhaseNext, RecordToolCall, SealNext, BeginSeal, KeepSeal, LinkNext, RecordLink, ruleVars
  <2>. QED BY <2>1 DEF BlockedIsGone
<1>. QED BY <1>1, <1>2

LEMMA BoundariesKept == BoundariesInv /\ [PartsNext]_partsVars => BoundariesInv'
<1>. SUFFICES ASSUME BoundariesInv, [PartsNext]_partsVars PROVE BoundariesInv'
  OBVIOUS
<1>1. ArgNext \/ UNCHANGED argVars
  <2>1. CASE PartsNext
    <3>1. part \notin {"normalize", "guards", "undo"} => UNCHANGED argVars
      BY <2>1 DEF PartsNext
    <3>2. /\ part = "normalize" => Normalize
          /\ part = "guards" => GuardNext
          /\ part = "undo" => BuildUndoing
      BY <2>1 DEF PartsNext
    <3>. QED BY <3>1, <3>2 DEF ArgNext
  <2>2. CASE UNCHANGED partsVars
    BY <2>2 DEF partsVars
  <2>. QED BY <2>1, <2>2
<1>2. PostNext \/ UNCHANGED scanVars
  <2>1. CASE PartsNext
    <3>1. (part # "outputs" => UNCHANGED scanVars) /\ (part = "outputs" => PostNext)
      BY <2>1 DEF PartsNext
    <3>. QED BY <3>1
  <2>2. CASE UNCHANGED partsVars
    BY <2>2 DEF partsVars
  <2>. QED BY <2>1, <2>2
<1>3. EdgesNext \/ UNCHANGED edgeVars
  <2>1. CASE PartsNext
    <3>1. (part # "edges" => UNCHANGED edgeVars) /\ (part = "edges" => EdgesNext)
      BY <2>1 DEF PartsNext
    <3>. QED BY <3>1
  <2>2. CASE UNCHANGED partsVars
    BY <2>2 DEF partsVars
  <2>. QED BY <2>1, <2>2
<1>4. PhaseNext \/ SealNext \/ LinkNext \/ AnswerNext \/ UNCHANGED ruleVars
  <2>1. CASE PartsNext
    <3>1. part \notin {"phases", "seals", "links", "answers"} => UNCHANGED ruleVars
      BY <2>1 DEF PartsNext
    <3>2. /\ part = "phases" => PhaseNext
          /\ part = "seals" => SealNext
          /\ part = "links" => LinkNext
          /\ part = "answers" => AnswerNext
      BY <2>1 DEF PartsNext
    <3>. QED BY <3>1, <3>2
  <2>2. CASE UNCHANGED partsVars
    BY <2>2 DEF partsVars
  <2>. QED BY <2>1, <2>2
<1>. QED BY <1>1, <1>2, <1>3, <1>4, ArgStep, OutputsStep, EdgesStep, AnswersKeep DEF BoundariesInv

(* BoundariesHold, for any spellings, numbers, guards, compensations, post *)
(* rules, outputs, answers and requests. Before a call: no tool's name     *)
(* keeps a lookalike, an invisible character, an empty part or a "../" at  *)
(* its front, a number keeps its figures (canonicalize.go, toolname.go), a *)
(* call passes only if every context guard was asked and answered          *)
(* (guard.go, Check), and a compensation is proposed with all its          *)
(* arguments (compensation/engine.go). After it: one text whose words      *)
(* stand apart never comes back with what a rule for its tool redacts or   *)
(* denies if no replacement is looked for itself, and one without any      *)
(* comes back as it was (scanner.go); the text of a blocked entity stands  *)
(* nowhere in the answer as a whole (aggregation.go). And the HTTP doors   *)
(* begin a transfer only to what was decided, wherever redirects may lead  *)
(* it (connect.go, forward_http.go), and calls wait on one handle only     *)
(* when their ids and tools make the same token (pipeline.go:735).         *)
THEOREM BoundariesAreKept == PartsSpec => []BoundariesHold
<1>1. BoundariesInv => BoundariesHold
  BY ArgSafe, OutputsInvHolds, EdgesAreSafe DEF BoundariesInv, BoundariesHold
<1>. QED BY <1>1, BoundariesBegin, BoundariesKept, PTL DEF PartsSpec
===============================================================================

