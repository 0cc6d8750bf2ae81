------------------------------ MODULE DeferBatches ------------------------------
(***************************************************************************)
(* Deferred calls that are approved together (defer/batch.go), and the     *)
(* context a deferred call is resumed in (defer/context.go).               *)
(*                                                                         *)
(* A batch is marked as resolved under the manager's lock; its items are   *)
(* resolved one after the other without it. The handles are those of       *)
(* DeferWorkflow, reduced to what Resolve answers.                         *)
(***************************************************************************)
EXTENDS Integers, Sequences, FiniteSets, SequencesExt

CONSTANTS
    Deferred,       \* tokens of the deferred calls
    GroupOf,        \* each one's group: <<rule, tool>>
    DeadlineOf,     \* and deadline
    Operators,      \* goroutines that approve or deny batches
    Overridden,     \* the tokens whose items are overridden, as often as it may be
    MaxBatchTime, MaxAge, MaxAlone,
    StateKeys, ResumeHashes

ASSUME BatchAssumption ==
    /\ DeadlineOf \in [Deferred -> Int] /\ MaxBatchTime \in Nat /\ MaxAge \in Nat
    /\ IsFiniteSet(StateKeys)

VARIABLES
    batchNow,
    handles,        \* each token's handle: "none", "pending", "approved", "denied", "expired"
    batches,        \* BatchManager.batches, in the order they were made; a cleaned up one has no items
    tokenMap,       \* BatchManager.tokenMap: token -> the index of its batch, 0 without one
    override,       \* each item's: "", "approved", "denied", or half written
    overriding,     \* the override that is being written under BatchManager.mu: <<token, decision>>
    acknowledged,   \* the last override taken of each item while its handle was pending: [decision, early]
    decidedBy,      \* who decided each handle: "", "batch", "alone"
    operator,       \* each operator's resolveBatch
    context         \* the last deferred call's context, and what it was validated against

handleVars == <<handles, batches, tokenMap, override, overriding, acknowledged, decidedBy, operator>>
batchVars == <<batchNow, handleVars, context>>

-------------------------------------------------------------------------------
(* Batches *)

BatchTick == /\ batchNow < MaxBatchTime /\ batchNow' = batchNow + 1 /\ UNCHANGED <<handleVars, context>>

(* BatchManager.mu is free: nobody is writing an override under it.        *)
ManagerIsFree == overriding = <<>>

(* Mutant of Open: a batch of the rule is found whatever its tool.         *)
OpenOfRule(b, group) == ~batches[b].resolved /\ batches[b].items # <<>> /\ batches[b].group[1] = group[1]
(* An unresolved batch of the group. *)
Open(b, group) == ~batches[b].resolved /\ batches[b].items # <<>> /\ batches[b].group = group

(* The call was deferred, and Add puts its handle into an open batch of    *)
(* the group, or into a new one; the deadline of the batch is the latest.  *)
Add(t) ==
    /\ handles[t] = "none" /\ ManagerIsFree
    /\ handles' = [handles EXCEPT ![t] = "pending"]
    /\ LET open == {b \in DOMAIN batches : Open(b, GroupOf[t])}
           new == [group |-> GroupOf[t], items |-> <<t>>, made |-> batchNow, deadline |-> DeadlineOf[t],
                   resolved |-> FALSE, decision |-> ""]
       IN IF open = {}
            THEN /\ batches' = Append(batches, new)
                 /\ tokenMap' = [tokenMap EXCEPT ![t] = Len(batches) + 1]
            ELSE \E b \in open :
                 /\ batches' = [batches EXCEPT ![b].items = Append(@, t),
                       ![b].deadline = IF DeadlineOf[t] > @ THEN DeadlineOf[t] ELSE @]
                 /\ tokenMap' = [tokenMap EXCEPT ![t] = b]
    /\ UNCHANGED <<batchNow, override, overriding, acknowledged, decidedBy, operator, context>>

(* ApproveBatch, DenyBatch: under the lock. *)
BeginResolve(o, b, decision) ==
    /\ ManagerIsFree
    /\ operator[o].at = "idle" /\ b \in DOMAIN batches /\ batches[b].items # <<>> /\ ~batches[b].resolved
    /\ batches' = [batches EXCEPT ![b].resolved = TRUE, ![b].decision = decision]
    /\ operator' = [operator EXCEPT ![o] = [at |-> "items", batch |-> b, left |-> batches[b].items,
                                            decision |-> decision, item |-> <<>>]]
    /\ UNCHANGED <<batchNow, handles, tokenMap, override, overriding, acknowledged, decidedBy, context>>

(* The next item, without the lock: its override is read, which may race a  *)
(* write of it. Half written it is neither decision, and so it is for the   *)
(* two comparisons when a whole write falls between them (batch.go:136,138);*)
(* a half written first override may fault and end the process.            *)
ReadItem(o) ==
    /\ operator[o].at = "items" /\ operator[o].left # <<>>
    /\ LET t == Head(operator[o].left) IN
       operator' = [operator EXCEPT ![o].at = "resolves", ![o].left = Tail(@),
                       ![o].item = <<t, IF override[t] \in {"approved", "denied"} THEN override[t]
                                                                               ELSE operator[o].decision>>]
    /\ UNCHANGED <<batchNow, handles, batches, tokenMap, override, overriding, acknowledged, decidedBy, context>>
(* and the workflow asked to resolve its handle. One that is decided is     *)
(* passed over.                                                            *)
ResolveItem(o) ==
    /\ operator[o].at = "resolves"
    /\ LET t == operator[o].item[1] IN
       IF handles[t] = "pending"
         THEN /\ handles' = [handles EXCEPT ![t] = operator[o].item[2]]
              /\ decidedBy' = [decidedBy EXCEPT ![t] = "batch"]
         ELSE UNCHANGED <<handles, decidedBy>>
    /\ operator' = [operator EXCEPT ![o].at = "items"]
    /\ UNCHANGED <<batchNow, batches, tokenMap, override, overriding, acknowledged, context>>
EndResolve(o) ==
    /\ operator[o].at = "items" /\ operator[o].left = <<>>
    /\ operator' = [operator EXCEPT ![o] = [at |-> "idle"]]
    /\ UNCHANGED <<batchNow, handles, batches, tokenMap, override, overriding, acknowledged, decidedBy, context>>

(* OverrideItem: the token is still in a batch, resolved or not, and a      *)
(* later override replaces an earlier one. It is written under the lock,   *)
(* which no reader takes.                                                  *)
OverrideItem(t, decision) ==
    /\ tokenMap[t] # 0 /\ ManagerIsFree /\ t \in Overridden
    /\ overriding' = <<t, decision>> /\ override' = [override EXCEPT ![t] = "half"]
    /\ acknowledged' = IF handles[t] # "pending" THEN acknowledged
                       ELSE [acknowledged EXCEPT ![t] =
                                [decision |-> decision, early |-> ~batches[tokenMap[t]].resolved]]
    /\ UNCHANGED <<batchNow, handles, batches, tokenMap, decidedBy, operator, context>>
EndOverride ==
    /\ overriding # <<>> /\ overriding' = <<>>
    /\ override' = [override EXCEPT ![overriding[1]] = overriding[2]]
    /\ UNCHANGED <<batchNow, handles, batches, tokenMap, acknowledged, decidedBy, operator, context>>

(* An approver decides on the handle itself; or its deadline passes.       *)
ResolveAlone(t, decision) ==
    /\ handles[t] = "pending" /\ Cardinality({u \in Deferred : decidedBy[u] = "alone"}) < MaxAlone
    /\ handles' = [handles EXCEPT ![t] = decision]
    /\ decidedBy' = [decidedBy EXCEPT ![t] = "alone"]
    /\ UNCHANGED <<batchNow, batches, tokenMap, override, overriding, acknowledged, operator, context>>
ExpireAlone(t) == batchNow >= DeadlineOf[t] /\ ResolveAlone(t, "expired")

(* Cleanup: the batches that were resolved and made long ago.              *)
CleanupBatches ==
    LET old == {b \in DOMAIN batches : /\ batches[b].items # <<>> /\ batches[b].resolved
                                       /\ batches[b].made < batchNow - MaxAge}
    IN
    /\ old # {} /\ ManagerIsFree
    /\ batches' = [b \in DOMAIN batches |-> IF b \in old THEN [batches[b] EXCEPT !.items = <<>>] ELSE batches[b]]
    /\ tokenMap' = [t \in Deferred |-> IF tokenMap[t] \in old THEN 0 ELSE tokenMap[t]]
    /\ UNCHANGED <<batchNow, handles, override, overriding, acknowledged, decidedBy, operator, context>>

BatchNext ==
    \/ BatchTick \/ CleanupBatches \/ EndOverride
    \/ \E o \in Operators : \/ \E b \in DOMAIN batches, d \in {"approved", "denied"} : BeginResolve(o, b, d)
                            \/ ReadItem(o) \/ ResolveItem(o) \/ EndResolve(o)
    \/ \E t \in Deferred : \/ Add(t) \/ ExpireAlone(t)
                           \/ \E d \in {"approved", "denied"} : ResolveAlone(t, d) \/ OverrideItem(t, d)

-------------------------------------------------------------------------------
(* The context of a resumption *)

(* SetSessionStateHash writes the keys in the order the map yields them.   *)
StateHash(state) == {[n \in DOMAIN ks |-> <<ks[n], state[ks[n]]>>] : ks \in SetToSeqs(DOMAIN state)}

Captured == [policy : ResumeHashes, state : UNION {[ks -> {1, 2}] : ks \in SUBSET StateKeys}]

(* ValidateForResume: a change of the policy or of the state is a warning, *)
(* only an age is a refusal.                                               *)
Validated(then, age, policy, hash) ==
    [valid |-> age <= MaxAge, policyChanged |-> then.policy # "" /\ then.policy # policy,
     sessionChanged |-> then.hash # <<>> /\ then.hash # hash]

Resume ==
    /\ context = <<>>
    /\ \E then, now \in Captured : \E h \in StateHash(then.state), g \in StateHash(now.state) :
        \E age \in 0 .. MaxBatchTime :
            /\ context' = [then |-> then, now |-> now, age |-> age,
                           says |-> Validated([policy |-> then.policy, hash |-> h], age, now.policy, g)]
            /\ UNCHANGED <<batchNow, handleVars>>

BatchInit ==
    /\ batchNow = 0
    /\ handles = [t \in Deferred |-> "none"] /\ batches = <<>>
    /\ tokenMap = [t \in Deferred |-> 0] /\ override = [t \in Deferred |-> ""] /\ overriding = <<>>
    /\ acknowledged = [t \in Deferred |-> [decision |-> "", early |-> FALSE]] /\ decidedBy = [t \in Deferred |-> ""]
    /\ operator = [o \in Operators |-> [at |-> "idle"]]
    /\ context = <<>>

-------------------------------------------------------------------------------
(* Properties *)

(* batch.go:72: no two open batches ask for approval of one group, and a   *)
(* batch is of one group.                                                  *)
OneOpenBatch ==
    /\ \A a, b \in DOMAIN batches : Open(a, batches[b].group) /\ Open(b, batches[b].group) => a = b
    /\ \A b \in DOMAIN batches : \A t \in ToSet(batches[b].items) : GroupOf[t] = batches[b].group

(* batch.go:7-11: once a batch is resolved and its operator is done, each  *)
(* of its items is decided; none waits for ever in a batch nobody will     *)
(* look at again. A batch waits at least as long as its items do.          *)
BatchesAreDecided ==
    \A b \in DOMAIN batches : batches[b].items # <<>> =>
        /\ \A t \in ToSet(batches[b].items) : tokenMap[t] = b /\ DeadlineOf[t] <= batches[b].deadline
        /\ batches[b].resolved /\ (\A o \in Operators : operator[o].at # "idle" => operator[o].batch # b) =>
              \A t \in ToSet(batches[b].items) : handles[t] # "pending"

(* context.go:85: a state that has changed is warned of, and so is a       *)
(* changed policy; neither makes the approval invalid.                     *)
ChangesAreWarnedOf ==
    context # <<>> =>
        /\ context.says.policyChanged <=> context.then.policy \notin {"", context.now.policy}
        /\ context.then.state # context.now.state /\ context.then.state # <<>> => context.says.sessionChanged
        /\ context.says.valid <=> context.age <= MaxAge

(* batch.go:10: an override that was taken before the batch was decided     *)
(* holds, unless a later one was taken before the handle was decided.      *)
EarlyOverridesHold ==
    \A t \in Deferred : acknowledged[t].early /\ decidedBy[t] = "batch" => handles[t] = acknowledged[t].decision

BatchesHold == OneOpenBatch /\ BatchesAreDecided /\ EarlyOverridesHold /\ ChangesAreWarnedOf

(* batch.go:10: an override that was taken for a pending item holds when    *)
(* the batch decides on it.                                                *)
OverridesHold ==
    \A t \in Deferred : acknowledged[t].decision # "" /\ decidedBy[t] = "batch" =>
        handles[t] = acknowledged[t].decision
(* context.go:101: the session is said to have changed only if it has.      *)
UnchangedIsQuiet ==
    context # <<>> /\ context.then.state = context.now.state => ~context.says.sessionChanged
===============================================================================
