----------------------------- MODULE PolicyRouting -----------------------------
(***************************************************************************)
(* Hot reload of the policy and orchestrator routing: the three callers of *)
(* Pipeline.ApplyPolicyBundle (a reload of the daemon's own policy source, *)
(* an event of the fleet, PushPolicy), which replace the engine, the       *)
(* artifacts and the routing manifests one after the other, against the    *)
(* evaluations of invoke_agent that read them.                             *)
(*                                                                         *)
(* One orchestrator invokes one target in one session: manifests and       *)
(* counts of others are kept apart by their keys. A policy that cannot be  *)
(* loaded or compiled changes nothing and is left out. Calls that a policy *)
(* defers end here (DeferWorkflow continues them).                         *)
(***************************************************************************)
EXTENDS Naturals, FiniteSets

CONSTANTS
    Policies,   \* what a policy may be, see Policy
    Workers,    \* goroutines that evaluate calls of invoke_agent
    None,
    MaxCalls,   \* bound on the calls
    MaxReloads  \* bound on the policies applied

(* manifest: has the policy an orchestrator manifest? entry: what it says  *)
(* of the target; cap: its max_invocations_per_session, 0 for no limit;    *)
(* rule: the effect of the rule for invoke_agent.                          *)
Policy == [manifest : BOOLEAN, entry : {"declared", "approval", "deny", "defer"},
           cap : Nat, rule : {"permit", "deny", "defer"}]

ASSUME RoutingAssumption ==
    /\ Policies \subseteq Policy /\ None \notin Policy
    /\ \E p \in Policies : \A q \in Policies : q.cap <= p.cap
    /\ IsFiniteSet(Workers) /\ Workers # {}
    /\ MaxCalls \in Nat /\ MaxReloads \in Nat

VARIABLES
    url,            \* is the policy source a URL, or a file?
    engine, artifacts, manifest,    \* the parts of the bundle in force
    lastHash,       \* the policy that Daemon.lastPolicyHash names
    stage, bundle,  \* per reloader: how far it is, the policy it applies
    overlapped,     \* have two reloaders ever applied at the same time?
    pushed,         \* was a policy ever pushed?
    reloads, calls, \* policies applied and calls begun, for the bounds
    counts,         \* RoutingGovernor.counts of the target
    invoked,        \* invocations that were compared with a cap and recorded
    pc, art, used, effect, \* per worker: step, artifacts it took, policy of the manifest it met
    capped,         \* was its count compared with a cap?
    calm            \* has no part of the bundle been replaced since it began?

partVars == <<engine, artifacts, manifest, lastHash>>
reloadVars == <<stage, bundle, overlapped, pushed, reloads>>
callVars == <<pc, art, used, effect, capped>>
countVars == <<calls, counts, invoked>>
vars == <<url, partVars, reloadVars, callVars, countVars, calm>>

Reloaders == {"reload", "fleet", "push"}

Init ==
    /\ url \in BOOLEAN
    /\ \E p \in Policies : engine = p /\ artifacts = p /\ manifest = p /\ lastHash = p
    /\ stage = [l \in Reloaders |-> "idle"]
    /\ bundle = [l \in Reloaders |-> None]
    /\ overlapped = FALSE /\ pushed = FALSE
    /\ reloads = 0 /\ calls = 0
    /\ counts = 0 /\ invoked = 0
    /\ pc = [w \in Workers |-> "idle"]
    /\ art = [w \in Workers |-> None]
    /\ used = [w \in Workers |-> None]
    /\ effect = [w \in Workers |-> None]
    /\ capped = [w \in Workers |-> FALSE]
    /\ calm = [w \in Workers |-> FALSE]

-------------------------------------------------------------------------------
(* Reloads *)

Applying(l) == stage[l] \in {"loaded", "swapped", "stored"}

(* A reloader has the policy p to apply, and starts to apply it. *)
Load(l, p) ==
    /\ stage[l] = "idle" /\ reloads < MaxReloads
    /\ reloads' = reloads + 1
    /\ stage' = [stage EXCEPT ![l] = "loaded"]
    /\ bundle' = [bundle EXCEPT ![l] = p]
    /\ overlapped' = (overlapped \/ \E k \in Reloaders \ {l} : stage[k] # "idle")
    /\ UNCHANGED <<url, partVars, callVars, countVars, calm>>

(* reloadPolicyIfChangedInternal, one at a time under reloadMu: a URL is   *)
(* skipped when its hash is the last one, a file is always applied. The    *)
(* source may hold any policy by then.                                     *)
LoadSource(p) ==
    /\ url => p # lastHash
    /\ Load("reload", p) /\ UNCHANGED pushed

(* applyFleetPolicyReloadEvent, for an event that carries its policy. *)
LoadEvent(p) ==
    /\ p # lastHash
    /\ Load("fleet", p) /\ UNCHANGED pushed

(* PushPolicy *)
LoadPush(p) == Load("push", p) /\ pushed' = TRUE

Step(l, from, to) ==
    /\ stage[l] = from
    /\ stage' = [stage EXCEPT ![l] = to]
    /\ calm' = [w \in Workers |-> FALSE]
    /\ UNCHANGED <<url, bundle, overlapped, pushed, reloads, callVars, calls, invoked>>

(* ApplyPolicyBundle: the engine, *)
Swap(l) ==
    /\ Step(l, "loaded", "swapped")
    /\ engine' = bundle[l]
    /\ UNCHANGED <<artifacts, manifest, lastHash, counts>>

(* the artifacts, *)
Store(l) ==
    /\ Step(l, "swapped", "stored")
    /\ artifacts' = bundle[l]
    /\ UNCHANGED <<engine, manifest, lastHash, counts>>

(* Mutant of SyncRouting: a policy without a manifest leaves the old one.  *)
SyncRoutingKept(l) ==
    /\ Step(l, "stored", "synced")
    /\ manifest' = IF bundle[l].manifest THEN bundle[l] ELSE manifest
    /\ UNCHANGED <<engine, artifacts, lastHash, counts>>

(* and the routing manifests, whose counts are kept. *)
SyncRouting(l) ==
    /\ Step(l, "stored", "synced")
    /\ manifest' = bundle[l]
    /\ UNCHANGED <<engine, artifacts, lastHash, counts>>

(* Mutant of NoteHash: PushPolicy clears the hash. *)
NoteHashCleared(l) ==
    /\ stage[l] = "synced"
    /\ stage' = [stage EXCEPT ![l] = "idle"]
    /\ bundle' = [bundle EXCEPT ![l] = None]
    /\ lastHash' = IF l = "push" THEN None ELSE bundle[l]
    /\ UNCHANGED <<url, engine, artifacts, manifest, overlapped, pushed, reloads,
                   callVars, countVars, calm>>

(* Mutant of NoteHash: the hash of a fleet event is not noted. *)
NoteHashOwn(l) ==
    /\ stage[l] = "synced"
    /\ stage' = [stage EXCEPT ![l] = "idle"]
    /\ bundle' = [bundle EXCEPT ![l] = None]
    /\ lastHash' = IF l = "reload" THEN bundle[l] ELSE lastHash
    /\ UNCHANGED <<url, engine, artifacts, manifest, overlapped, pushed, reloads,
                   callVars, countVars, calm>>

(* The callers note the hash of what they applied, except PushPolicy. *)
NoteHash(l) ==
    /\ stage[l] = "synced"
    /\ stage' = [stage EXCEPT ![l] = "idle"]
    /\ bundle' = [bundle EXCEPT ![l] = None]
    /\ lastHash' = IF l = "push" THEN lastHash ELSE bundle[l]
    /\ UNCHANGED <<url, engine, artifacts, manifest, overlapped, pushed, reloads,
                   callVars, countVars, calm>>

-------------------------------------------------------------------------------
(* Evaluations of invoke_agent *)

Go(w, step) == pc' = [pc EXCEPT ![w] = step] /\ UNCHANGED effect
Decided(w, e) == pc' = [pc EXCEPT ![w] = "deciding"] /\ effect' = [effect EXCEPT ![w] = e]

(* Evaluate takes the artifacts that it works with to the end. *)
Begin(w) ==
    /\ pc[w] = "idle" /\ calls < MaxCalls
    /\ calls' = calls + 1
    /\ Go(w, "begun")
    /\ art' = [art EXCEPT ![w] = artifacts]
    /\ calm' = [calm EXCEPT ![w] = TRUE]
    /\ UNCHANGED <<url, partVars, reloadVars, used, capped, counts, invoked>>

(* [3.11] HasManifest *)
FindManifest(w) ==
    /\ pc[w] = "begun"
    /\ Go(w, IF manifest.manifest THEN "checking" ELSE "rules")
    /\ used' = [used EXCEPT ![w] = manifest]
    /\ UNCHANGED <<url, partVars, reloadVars, art, capped, countVars, calm>>

(* Has the manifest a cap for the target? *)
Caps == manifest.entry \in {"declared", "approval"} /\ manifest.cap > 0

(* Mutant of CapReached: one more than the cap.                            *)
CapPassed == Caps /\ counts > manifest.cap

(* Is it reached?                                                          *)
CapReached == Caps /\ counts >= manifest.cap

(* CheckInvocation, under the governor's lock. *)
Refused == ~manifest.manifest \/ manifest.entry = "deny" \/ CapReached
CheckInvocation(w) ==
    /\ pc[w] = "checking"
    /\ IF Refused THEN Decided(w, "deny")
       ELSE IF manifest.entry \in {"approval", "defer"} THEN Decided(w, "defer")
       ELSE Go(w, "rules")
    /\ used' = [used EXCEPT ![w] = manifest]
    /\ capped' = [capped EXCEPT ![w] = Caps]
    /\ UNCHANGED <<url, partVars, reloadVars, art, countVars, calm>>

(* [8] The rules of the artifacts that the evaluation took. *)
ApplyRules(w) ==
    /\ pc[w] = "rules"
    /\ Decided(w, art[w].rule)
    /\ UNCHANGED <<url, partVars, reloadVars, art, used, capped, countVars, calm>>

RecordInvocation(w) ==
    /\ counts' = counts + 1
    /\ invoked' = IF capped[w] THEN invoked + 1 ELSE invoked

(* decide: a permitted invocation is recorded, if there is a manifest now. *)
Decide(w) ==
    /\ pc[w] = "deciding"
    /\ pc' = [pc EXCEPT ![w] = "idle"]
    /\ effect' = [effect EXCEPT ![w] = None]
    /\ art' = [art EXCEPT ![w] = None]
    /\ used' = [used EXCEPT ![w] = None]
    /\ capped' = [capped EXCEPT ![w] = FALSE]
    /\ calm' = [calm EXCEPT ![w] = FALSE]
    /\ IF effect[w] = "permit" /\ manifest.manifest
         THEN RecordInvocation(w)
         ELSE UNCHANGED <<counts, invoked>>
    /\ UNCHANGED <<url, partVars, reloadVars, calls>>

-------------------------------------------------------------------------------

Next ==
    \/ \E p \in Policies : LoadSource(p) \/ LoadEvent(p) \/ LoadPush(p)
    \/ \E l \in Reloaders : Swap(l) \/ Store(l) \/ SyncRouting(l) \/ NoteHash(l)
    \/ \E w \in Workers :
         \/ Begin(w) \/ FindManifest(w) \/ CheckInvocation(w) \/ ApplyRules(w) \/ Decide(w)

Spec == Init /\ [][Next]_vars

-------------------------------------------------------------------------------
(* Properties *)

(* The types of the variables. *)
TypeOK ==
    /\ url \in BOOLEAN
    /\ {engine, artifacts, manifest, lastHash} \subseteq Policies
    /\ stage \in [Reloaders -> {"idle", "loaded", "swapped", "stored", "synced"}]
    /\ bundle \in [Reloaders -> Policies \cup {None}]
    /\ \A l \in Reloaders : bundle[l] = None <=> stage[l] = "idle"
    /\ overlapped \in BOOLEAN /\ pushed \in BOOLEAN
    /\ reloads \in Nat /\ calls \in Nat /\ counts \in Nat /\ invoked \in Nat
    /\ pc \in [Workers -> {"idle", "begun", "checking", "rules", "deciding"}]
    /\ art \in [Workers -> Policies \cup {None}]
    /\ used \in [Workers -> Policies \cup {None}]
    /\ effect \in [Workers -> {"permit", "deny", "defer", None}]
    /\ capped \in [Workers -> BOOLEAN] /\ calm \in [Workers -> BOOLEAN]

(* "Session invocation counters are preserved so per-session caps remain   *)
(* consistent" (routing.go:60): CheckInvocation and RecordInvocation are   *)
(* two steps, so calls in flight may exceed the cap, each by one, and      *)
(* nothing else can, whatever is reloaded when. Only invocations that were *)
(* compared with a cap and recorded count: decide does not record those    *)
(* whose manifest a reload has taken away in the meantime.                 *)
LargestCap == CHOOSE n \in {p.cap : p \in Policies} : \A p \in Policies : p.cap <= n
InvocationsAreBounded ==
    invoked <= LargestCap + Cardinality(Workers) - 1

(* ApplyPolicyBundle "atomically applies a new policy generation bundle"   *)
(* (pipeline.go:262): when nothing is being applied, engine, artifacts and *)
(* manifests are of one policy, unless two were ever applied at once.      *)
PartsAgree ==
    ~overlapped /\ (\A l \in Reloaders : ~Applying(l)) =>
        engine = artifacts /\ artifacts = manifest

(* A call that no reload crosses is decided by one policy, its rules and   *)
(* its manifest both.                                                      *)
DecidedByOnePolicy ==
    ~overlapped => \A w \in Workers :
        pc[w] \in {"rules", "deciding"} /\ calm[w]
            /\ (\A l \in Reloaders : ~Applying(l)) => used[w] = art[w]

(* A reload or an event is skipped, by its hash, only if its policy is the *)
(* one in force, unless a policy was pushed or two were applied at once.   *)
HashNamesPolicy ==
    ~overlapped /\ ~pushed /\ (\A l \in Reloaders : stage[l] = "idle") => lastHash = artifacts
===============================================================================
