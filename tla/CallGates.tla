------------------------------- MODULE CallGates -------------------------------
(***************************************************************************)
(* The gates one call passes in Pipeline.Evaluate (core/pipeline.go), from *)
(* the call chain to the record that is answered: which of them looks at   *)
(* what, in which order, and what a call that is refused by one of them    *)
(* has already changed.  Evaluations of one agent run side by side; the    *)
(* gates that share state with other calls are steps of their own, the     *)
(* gates that only look at the call and at the policy captured at its      *)
(* beginning are taken together (FirstRefusal).                            *)
(*                                                                         *)
(* Left to the modules that are about them: the chain of records, the      *)
(* deferral after its registration, budgets in USD, the routing manifest,  *)
(* the windows of the governors, the credential's life.                    *)
(***************************************************************************)
EXTENDS Integers, Sequences, FiniteSets, SequencesExt

CONSTANTS
    GateEvaluators,     \* goroutines that evaluate calls of one agent
    GateCalls,      \* the calls that may be sent: records of CallFields
    GatePolicies0,  \* the policies that may be in force
    PhaseNames,     \* phase names in the order of sort.Strings
    RuntimeLimit,   \* calls the loop governor lets through; 0 when it is off
    RiskLimit,      \* weight the aggregation governor lets through; 0 when off
    MinTimeout, MaxTimeout, MsPerSecond,   \* milliseconds
    MaxEvaluations, MaxGateReloads

CallFields == {"id", "tool", "principal", "step", "env", "timeout", "argMs", "argSecs",
               "schema", "scan", "scope", "sub", "key"}

(* Environments and backends are compared by rank; what a context guard    *)
(* answers when a context is missing or stale is a deferral or a refusal.  *)
ASSUME GatesAssumption ==
    /\ IsFiniteSet(GateEvaluators) /\ RuntimeLimit \in Nat /\ MaxEvaluations \in Nat
    /\ \A c \in GateCalls : DOMAIN c = CallFields /\ c.env \in Nat
    /\ \A p \in GatePolicies0 : p.backend \in Nat /\ p.maxCalls \in Nat /\ p.guard \in {"none", "DEFER", "DENY"}

VARIABLES
    policy,     \* the policy in force
    phaseManager,    \* PhaseManager: the phases of the policy the daemon began with,
                \* and the phase the agent is in
    phase,      \* session.State.phase
    ev,         \* each evaluator's call
    active,     \* Pipeline.activeCallChains
    loopCalls, counted, risk,   \* of the loop governor, session, aggregation governor
    killed, revoked,
    gateHandles,    \* tokens registered with the defer workflow
    wal, answers,
    evaluations, gateReloads

gateState == <<policy, phaseManager, phase, killed, revoked, gateReloads>>
callState == <<active, loopCalls, counted, risk, gateHandles, wal, answers, evaluations>>
gatesVars == <<gateState, ev, callState>>

NoEv == [at |-> "idle"]

(* buildPhaseManagerFromPolicy: nil when the first policy has no phases.   *)
GatesInit ==
    /\ policy \in GatePolicies0
    /\ phaseManager = [phases |-> policy.phases, current |-> "none", moves |-> 0]
    /\ phase = "none" /\ killed = FALSE /\ revoked = FALSE
    /\ ev = [w \in GateEvaluators |-> NoEv]
    /\ active = {} /\ loopCalls = 0 /\ counted = 0 /\ risk = 0
    /\ gateHandles = {} /\ wal = <<>> /\ answers = <<>>
    /\ evaluations = 0 /\ gateReloads = 0

-------------------------------------------------------------------------------
(* What the gates that look at the call alone decide                       *)

(* pairs is a list of <<reason code, whether it refuses>>.                 *)
FirstRefusal(pairs) ==
    LET i == SelectInSeq(pairs, LAMBDA p : p[2]) IN IF i = 0 THEN "none" ELSE pairs[i][1]

(* firstPhaseName *)
FirstPhase(p) ==
    IF "init" \in DOMAIN p.phases THEN "init"
    ELSE PhaseNames[CHOOSE i \in 1 .. Len(PhaseNames) :
            /\ PhaseNames[i] \in DOMAIN p.phases
            /\ \A j \in 1 .. (i - 1) : PhaseNames[j] \notin DOMAIN p.phases]

(* A phase lists tools, some of them for one step of the workflow only.    *)
PhaseTools(p, n) == p.phases[n].tools
StepTools(p, n) == IF n \in DOMAIN p.phases THEN p.phases[n].steps ELSE <<>>
ListsTools(p, n) == n \in DOMAIN p.phases /\ (PhaseTools(p, n) # {} \/ DOMAIN StepTools(p, n) # {})

(* The step must be listed, and list the tool, when any step is.           *)
StepRefusal(c, p, n) ==
    LET steps == StepTools(p, n) IN
    FirstRefusal(<< <<"UNKNOWN_WORKFLOW_STEP", c.step # "none" /\ DOMAIN steps # {} /\ c.step \notin DOMAIN steps>>,
                    <<"OUT_OF_WORKFLOW_STEP_TOOL_CALL",
                      c.step \in DOMAIN steps /\ c.tool \notin steps[c.step]>> >>)

(* requiredIsolationForTool ranges over a map: of the entries that match   *)
(* and have a mode it knows, any may be met first.                         *)
RequiredIsolation(c, p) ==
    LET modes == {e.mode : e \in {x \in p.isolation : c.tool \in x.tools /\ x.mode \in {"required", "optional"}}} IN
    IF modes = {} THEN {0} ELSE {IF m = "required" THEN p.backend ELSE 0 : m \in modes}

(* The timeout of the call, or of its arguments in the order they are      *)
(* looked up: two in milliseconds, two in seconds; zero where not given.   *)
Timeout(c) ==
    LET given == SelectSeq(<<c.timeout, c.argMs, c.argSecs * MsPerSecond>>, LAMBDA t : t > 0) IN
    IF given = <<>> THEN 0 ELSE given[1]

(* The bounds of the tool's tags within the general ones, and exchanged    *)
(* when that leaves them in the wrong order.                               *)
TimeoutBounds(tags) ==
    LET lo == IF tags.min > MinTimeout THEN tags.min ELSE MinTimeout
        hi == IF tags.max > 0 /\ tags.max < MaxTimeout THEN tags.max ELSE MaxTimeout
    IN IF lo <= hi THEN lo .. hi ELSE hi .. lo

TimeoutRefusal(c, p) ==
    LET t == Timeout(c)
        tags == p.tags[c.tool]
    IN FirstRefusal(<< <<"EXECUTION_TIMEOUT_INVALID", t > 0 /\ t \notin MinTimeout .. MaxTimeout>>,
                       <<"EXECUTION_TIMEOUT_REQUIRED", tags.required /\ t = 0>>,
                       <<"EXECUTION_TIMEOUT_POLICY_VIOLATION", t > 0 /\ t \notin TimeoutBounds(tags)>> >>)

(* DelegationChain.ToolInScope: the last link's scope, empty for any tool. *)
InScope(c) == c.scope = {} \/ c.tool \in c.scope

(* SubPolicyManager.IsToolAllowed: blocked first, then the allowed list.   *)
SubPolicyAllows(c) ==
    c.sub.attached => c.tool \notin c.sub.blocked /\ (c.sub.allowed = {} \/ c.tool \in c.sub.allowed)

(* Governor.CanWrite, for the tools that write session state.              *)
WriteRefusal(c) ==
    FirstRefusal(<< <<"SESSION_STATE_WRITE_BLOCKED", c.key = "missing">>,
                    <<"SESSION_STATE_NAMESPACE_VIOLATION", c.key = "foreign">>,
                    <<"HIGH_ENTROPY_SECRET", c.key = "secret">> >>)

(* From the isolation to the session write, in this order.                 *)
CallRefusal(c, p, isolation) ==
    LET step == StepRefusal(c, p, c.phase)
        timeout == TimeoutRefusal(c, p)
        write == WriteRefusal(c)
    IN FirstRefusal(<< <<step, ListsTools(p, c.phase) /\ step # "none">>,
                       <<"ISOLATION_REQUIRED", c.env < isolation>>,
                       <<timeout, timeout # "none">>,
                       <<"SCHEMA_VALIDATION_FAIL", ~c.schema>>,
                       <<"SCANNER", ~c.scan>>,
                       <<"DELEGATION_EXCEEDS_AUTHORITY", ~InScope(c)>>,
                       <<"ROUTING_INVOCATION_SUB_POLICY_DENIED", ~SubPolicyAllows(c)>>,
                       <<write, write # "none">> >>)

(* riskWeight *)
Risk(c, p) == p.tags[c.tool].risk

(* The effects a rule may name, and what they are taken for.               *)
EffectOf(raw) ==
    CASE raw \in {"permit", "allow"} -> "PERMIT"
      [] raw \in {"deny", "halt"} -> "DENY"
      [] raw \in {"defer", "abstain", "pending"} -> "DEFER"
      [] raw = "shadow" -> "SHADOW"
      [] OTHER -> "DENY"

-------------------------------------------------------------------------------
(* An evaluation *)

Move(w, at) == ev' = [ev EXCEPT ![w].at = at]
Refuse(w, effect, code) == ev' = [ev EXCEPT ![w] = [@ EXCEPT !.at = "decide", !.effect = effect, !.code = code]]

Enter(w, c) ==
    LET wraps == c.id \in active
        call == [f \in CallFields \cup {"phase"} |-> IF f = "phase" THEN "none" ELSE c[f]]
    IN
    /\ ev[w] = NoEv /\ evaluations < MaxEvaluations /\ evaluations' = evaluations + 1
    /\ active' = active \cup {c.id}
    /\ ev' = [ev EXCEPT ![w] = [at |-> IF wraps THEN "decide" ELSE "principal", call |-> call,
                                doc |-> policy, owns |-> ~wraps, n |-> evaluations + 1, counted |-> 0,
                                effect |-> IF wraps THEN "DENY" ELSE "none", gated |-> "none",
                                code |-> IF wraps THEN "GOVERNANCE_DOUBLE_WRAP_DENIED" ELSE "none"]]
    /\ UNCHANGED <<gateState, loopCalls, counted, risk, gateHandles, wal, answers>>

(* Verification source and revocation; elevation only changes the tier.    *)
CheckPrincipal(w) ==
    LET code == FirstRefusal(<< <<"PRINCIPAL_VERIFICATION_UNTRUSTED", ev[w].call.principal = "untrusted">>,
                                <<"PRINCIPAL_REVOKED", ev[w].call.principal # "none" /\ revoked>> >>) IN
    /\ ev[w].at = "principal"
    /\ IF code # "none" THEN Refuse(w, "DENY", code) ELSE Move(w, "session")
    /\ UNCHANGED <<gateState, callState>>

(* The kill switch, then the session's phase: read, and set to the first   *)
(* phase when there is none.                                               *)
CheckSession(w) ==
    LET d == ev[w].doc
        n == IF phase = "none" THEN FirstPhase(d) ELSE phase
        hasPhases == DOMAIN d.phases # {}
    IN
    /\ ev[w].at = "session"
    /\ IF killed THEN Refuse(w, "DENY", "KILL_SWITCH_ACTIVE") /\ UNCHANGED phase
       ELSE /\ ev' = [ev EXCEPT ![w] = [@ EXCEPT !.call.phase = IF hasPhases THEN n ELSE "none",
                          !.at = IF ~hasPhases \/ ~ListsTools(d, n) THEN "checks"
                                 ELSE IF phaseManager.phases = <<>> THEN "fallback" ELSE "manager"]]
            /\ phase' = IF hasPhases THEN n ELSE phase
    /\ UNCHANGED <<policy, phaseManager, killed, revoked, gateReloads, callState>>

(* isToolAllowedInPhase without a manager, or with one.                   *)
CheckPhaseTools(w) ==
    LET c == ev[w].call IN
    /\ ev[w].at = "fallback"
    /\ IF c.tool \in PhaseTools(ev[w].doc, c.phase)
         THEN Move(w, "checks")
         ELSE Refuse(w, "DENY", "OUT_OF_PHASE_TOOL_CALL")
    /\ UNCHANGED <<gateState, callState>>

(* The manager's phase is looked up, and set under another lock; a phase  *)
(* the manager does not know is not set.                                  *)
LookUpPhase(w) ==
    /\ ev[w].at = "manager"
    /\ Move(w, IF phaseManager.current = "none" THEN "set_phase" ELSE "in_phase")
    /\ UNCHANGED <<gateState, callState>>

SetPhase(w) ==
    /\ ev[w].at = "set_phase" /\ Move(w, "in_phase")
    /\ phaseManager' = IF ev[w].call.phase \in DOMAIN phaseManager.phases
                  THEN [phaseManager EXCEPT !.current = ev[w].call.phase] ELSE phaseManager
    /\ UNCHANGED <<policy, phase, killed, revoked, gateReloads, callState>>

ManagerAllows(t) ==
    \/ phaseManager.current = "none"
    \/ LET listed == phaseManager.phases[phaseManager.current] IN ~ListsTools(phaseManager, phaseManager.current) \/ t \in listed.tools

(* Mutant of IsToolAllowed: the manager is asked about the session's phase. *)
IsToolAllowedAnywhere(w) ==
    /\ ev[w].at = "in_phase"
    /\ IF \E n \in DOMAIN phaseManager.phases : ev[w].call.tool \in phaseManager.phases[n].tools
       THEN ev' = [ev EXCEPT ![w] = [@ EXCEPT !.at = "checks", !.gated = phaseManager.current]]
       ELSE Refuse(w, "DENY", "OUT_OF_PHASE_TOOL_CALL")
    /\ UNCHANGED <<gateState, callState>>

IsToolAllowed(w) ==
    /\ ev[w].at = "in_phase"
    /\ IF ManagerAllows(ev[w].call.tool)
       THEN ev' = [ev EXCEPT ![w] = [@ EXCEPT !.at = "checks", !.gated = phaseManager.current]]
       ELSE Refuse(w, "DENY", "OUT_OF_PHASE_TOOL_CALL")
    /\ UNCHANGED <<gateState, callState>>

CheckCall(w) ==
    /\ ev[w].at = "checks"
    /\ \E isolation \in RequiredIsolation(ev[w].call, ev[w].doc) :
         LET code == CallRefusal(ev[w].call, ev[w].doc, isolation) IN
         IF code # "none" THEN Refuse(w, "DENY", code) ELSE Move(w, "loop")
    /\ UNCHANGED <<gateState, callState>>

(* LoopGovernor.CheckAndTrack tracks the call it refuses as well.          *)
CheckRunLoop(w) ==
    /\ ev[w].at = "loop"
    /\ loopCalls' = IF RuntimeLimit = 0 THEN loopCalls ELSE loopCalls + 1
    /\ IF RuntimeLimit > 0 /\ loopCalls + 1 > RuntimeLimit THEN Refuse(w, "DENY", "LOOP") ELSE Move(w, "guard")
    /\ UNCHANGED <<gateState, active, counted, risk, gateHandles, wal, answers, evaluations>>

(* A context guard asks another service: what it answers is anything.      *)
CheckContext(w) ==
    /\ ev[w].at = "guard"
    /\ \/ Move(w, "count")
       \/ /\ ev[w].doc.guard # "none"
          /\ \E stale \in BOOLEAN : Refuse(w, IF stale THEN ev[w].doc.guard ELSE "DENY", "CONTEXT")
    /\ UNCHANGED <<gateState, callState>>

(* IncrCallCount, and the limit on calls of checkBudget.                   *)
CountCall(w) ==
    LET limit == ev[w].doc.maxCalls IN
    /\ ev[w].at = "count" /\ counted' = counted + 1
    /\ IF limit > 0 /\ counted + 1 > limit
       THEN ev' = [ev EXCEPT ![w] = [@ EXCEPT !.counted = counted + 1, !.at = "decide",
                                              !.effect = "DENY", !.code = "SESSION_TOOL_LIMIT"]]
       ELSE ev' = [ev EXCEPT ![w] = [@ EXCEPT !.counted = counted + 1, !.at = "risk"]]
    /\ UNCHANGED <<gateState, active, loopCalls, risk, gateHandles, wal, answers, evaluations>>

(* AggregationGovernor.CheckAndTrack looks at calls that weigh something.  *)
CheckRiskWeight(w) ==
    LET n == Risk(ev[w].call, ev[w].doc) IN
    /\ ev[w].at = "risk"
    /\ risk' = IF RiskLimit = 0 THEN risk ELSE risk + n
    /\ IF RiskLimit > 0 /\ n > 0 /\ risk + n > RiskLimit THEN Refuse(w, "DENY", "AGGREGATE") ELSE Move(w, "rules")
    /\ UNCHANGED <<gateState, active, loopCalls, counted, gateHandles, wal, answers, evaluations>>

(* The rules; a deferral registers its handle before it is recorded.       *)
TryRules(w) ==
    LET effect == EffectOf(ev[w].doc.rules[ev[w].call.tool]) IN
    /\ ev[w].at = "rules"
    /\ gateHandles' = IF effect = "DEFER" THEN gateHandles \cup {ev[w].call.id} ELSE gateHandles
    /\ ev' = [ev EXCEPT ![w] = [@ EXCEPT !.effect = effect, !.code = "RULE",
                                         !.at = IF effect = "PERMIT" THEN "credential" ELSE "decide"]]
    /\ UNCHANGED <<gateState, active, loopCalls, counted, risk, wal, answers, evaluations>>

(* A credential that is required and cannot be had refuses the call.       *)
BrokerCredential(w) ==
    /\ ev[w].at = "credential"
    /\ \/ Move(w, "decide")
       \/ ev[w].doc.tags[ev[w].call.tool].credential = "required" /\ Refuse(w, "DENY", "CREDENTIAL")
    /\ UNCHANGED <<gateState, callState>>

(* decide: the record is written, or the answer is a refusal.  The answer  *)
(* follows, and the call chain is left unless the call never entered it.   *)
Answer(w, effect, code, recorded) ==
    /\ wal' = IF recorded THEN Append(wal, [n |-> ev[w].n, effect |-> effect, code |-> code]) ELSE wal
    /\ answers' = Append(answers, [n |-> ev[w].n, id |-> ev[w].call.id, tool |-> ev[w].call.tool, gated |-> ev[w].gated,
                                   effect |-> effect, code |-> code, counted |-> ev[w].counted, doc |-> ev[w].doc,
                                   timeout |-> Timeout(ev[w].call), env |-> ev[w].call.env])
    /\ active' = IF ev[w].owns THEN active \ {ev[w].call.id} ELSE active
    /\ ev' = [ev EXCEPT ![w] = NoEv]
    /\ UNCHANGED <<gateState, loopCalls, counted, risk, gateHandles, evaluations>>

DecideCall(w) ==
    /\ ev[w].at = "decide"
    /\ \/ Answer(w, ev[w].effect, ev[w].code, TRUE)
       \/ Answer(w, "DENY", "WAL_WRITE_FAILURE", FALSE)

EvaluateCall(w) ==
    \/ \E c \in GateCalls : Enter(w, c)
    \/ CheckPrincipal(w) \/ CheckSession(w) \/ CheckPhaseTools(w) \/ LookUpPhase(w) \/ SetPhase(w) \/ IsToolAllowed(w)
    \/ CheckCall(w) \/ CheckRunLoop(w) \/ CheckContext(w) \/ CountCall(w) \/ CheckRiskWeight(w)
    \/ TryRules(w) \/ BrokerCredential(w) \/ DecideCall(w)

(* From outside *)

ReloadPolicy ==
    /\ gateReloads < MaxGateReloads /\ gateReloads' = gateReloads + 1
    /\ policy' \in GatePolicies0
    /\ UNCHANGED <<phaseManager, phase, killed, revoked, ev, callState>>

(* PhaseManager.Transition; every phase allows "*".                        *)
Transition ==
    /\ phaseManager.current # "none" /\ phaseManager.moves < 1
    /\ \E n \in DOMAIN phaseManager.phases : phaseManager' = [phaseManager EXCEPT !.current = n, !.moves = @ + 1]
    /\ UNCHANGED <<policy, phase, killed, revoked, gateReloads, ev, callState>>

KillAgent ==
    /\ ~killed /\ killed' = TRUE
    /\ UNCHANGED <<policy, phaseManager, phase, revoked, gateReloads, ev, callState>>
RevokePrincipal ==
    /\ ~revoked /\ revoked' = TRUE
    /\ UNCHANGED <<policy, phaseManager, phase, killed, gateReloads, ev, callState>>

GatesNext ==
    \/ \E w \in GateEvaluators : EvaluateCall(w)
    \/ ReloadPolicy \/ Transition \/ KillAgent \/ RevokePrincipal

GatesSpec == GatesInit /\ [][GatesNext]_gatesVars

-------------------------------------------------------------------------------
(* Properties *)

Answers == {answers[i] : i \in DOMAIN answers}
InFlight == {w \in GateEvaluators : ev[w] # NoEv}

GatesTypeOK ==
    /\ policy \in GatePolicies0
    /\ phaseManager.current \in DOMAIN phaseManager.phases \cup {"none"}
    /\ counted \in 0 .. MaxEvaluations /\ loopCalls \in 0 .. MaxEvaluations
    /\ \A a \in Answers : a.effect \in {"PERMIT", "DENY", "DEFER", "SHADOW"}

(* What is answered is what was recorded, once; only a failed write leaves *)
(* an answer without a record, and it is a refusal.                        *)
AnsweredAsRecorded ==
    /\ \A a \in Answers :
         \/ a.code = "WAL_WRITE_FAILURE" /\ a.effect = "DENY" /\ \A i \in DOMAIN wal : wal[i].n # a.n
         \/ \E i \in DOMAIN wal : wal[i] = [n |-> a.n, effect |-> a.effect, code |-> a.code]
    /\ \A i, j \in DOMAIN wal : wal[i].n = wal[j].n => i = j

(* An answer that defers has a handle to decide it by, unless a context    *)
(* guard deferred it, and a handle was answered so unless its record could *)
(* not be written or its call is still being evaluated.                    *)
HandlesAreAnswered ==
    /\ \A a \in Answers : a.effect = "DEFER" /\ a.code # "CONTEXT" => a.id \in gateHandles
    /\ \A h \in gateHandles :
         \/ \E a \in Answers : a.id = h /\ (a.effect = "DEFER" \/ a.code = "WAL_WRITE_FAILURE")
         \/ \E w \in InFlight : ev[w].call.id = h

(* The call count is that of the calls that came to be counted: those an   *)
(* earlier gate refuses use up nothing of the budget, and no two calls see *)
(* the same count.                                                         *)
BudgetCountsCheckedCalls ==
    LET done == {a \in Answers : a.counted > 0}
        doing == {w \in InFlight : ev[w].counted > 0}
    IN
    /\ counted = Cardinality(done) + Cardinality(doing)
    /\ \A a \in done : a.doc.maxCalls > 0 /\ a.counted > a.doc.maxCalls => a.effect = "DENY"
    /\ \A a, b \in done : a.counted = b.counted => a = b

(* A call that passed the phase manager used a tool the manager's phase   *)
(* lists, and a call chain is active while its call is evaluated only.     *)
PassedInPhase ==
    /\ \A a \in Answers : a.effect = "PERMIT" /\ a.gated # "none" /\ ListsTools(phaseManager, a.gated) =>
          a.tool \in phaseManager.phases[a.gated].tools
    /\ active = {ev[w].call.id : w \in {x \in InFlight : ev[x].owns}}

(* A permitted call kept the general bounds of timeouts, and ran isolated  *)
(* when every entry of the policy about its tool demands it.               *)
PermitsKeepContracts ==
    \A a \in Answers : a.effect = "PERMIT" =>
       /\ a.timeout > 0 => a.timeout \in MinTimeout .. MaxTimeout
       /\ LET about == {e \in a.doc.isolation : a.tool \in e.tools} IN
          about # {} /\ (\A e \in about : e.mode = "required") => a.env >= a.doc.backend

GatesHold ==
    /\ GatesTypeOK /\ AnsweredAsRecorded /\ HandlesAreAnswered /\ BudgetCountsCheckedCalls
    /\ PassedInPhase /\ PermitsKeepContracts
===============================================================================
