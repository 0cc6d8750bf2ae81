------------------------------ MODULE DeferTriage ------------------------------
(***************************************************************************)
(* Registering a deferred call when the policy has a defer_priority block: *)
(* Workflow.DeferWithToken calls Triage.Classify (core/defer/triage.go)    *)
(* between registering the handle and starting its expiry goroutine.       *)
(* Every request has a token of its own here; what the tokens' lives look  *)
(* like without triage is in DeferWorkflow.                                *)
(***************************************************************************)
CONSTANTS Requests, Nobody

VARIABLES
    pc,         \* step of each DeferWithToken
    readers,    \* holders of Triage.mu for reading
    writer,     \* its holder for writing
    pending,    \* Workflow.pending
    items,      \* Triage.pending
    timers,     \* expiry goroutines
    removing    \* resolvers that have still to take the item away

vars == <<pc, readers, writer, pending, items, timers, removing>>

Init ==
    /\ pc = [r \in Requests |-> "idle"]
    /\ readers = {} /\ writer = Nobody
    /\ pending = {} /\ items = {} /\ timers = {} /\ removing = {}

(* The handle enters the pending map, under the workflow's own lock.       *)
Register(r) ==
    /\ pc[r] = "idle"
    /\ pending' = pending \cup {r}
    /\ pc' = [pc EXCEPT ![r] = "registered"]
    /\ UNCHANGED <<readers, writer, items, timers, removing>>

(* Classify takes Triage.mu for reading, until it returns.                 *)
ReadLock(r) ==
    /\ pc[r] = "registered" /\ writer = Nobody
    /\ readers' = readers \cup {r}
    /\ pc' = [pc EXCEPT ![r] = "classifying"]
    /\ UNCHANGED <<writer, pending, items, timers, removing>>

(* Classify then takes it for writing. A Go RWMutex is not upgraded: Lock  *)
(* waits for every reader to leave, the caller included.                   *)
WriteLock(r) ==
    /\ pc[r] = "classifying" /\ writer = Nobody /\ readers = {}
    /\ writer' = r
    /\ pc' = [pc EXCEPT ![r] = "appending"]
    /\ UNCHANGED <<readers, pending, items, timers, removing>>

Append(r) ==
    /\ pc[r] = "appending"
    /\ items' = items \cup {r}
    /\ writer' = Nobody /\ readers' = readers \ {r}
    /\ pc' = [pc EXCEPT ![r] = "classified"]
    /\ UNCHANGED <<pending, timers, removing>>

StartTimer(r) ==
    /\ pc[r] = "classified"
    /\ timers' = timers \cup {r}
    /\ pc' = [pc EXCEPT ![r] = "done"]
    /\ UNCHANGED <<readers, writer, pending, items, removing>>

(* A human or the timer resolves the token, then takes its item away.      *)
Resolve(r) ==
    /\ r \in pending
    /\ pending' = pending \ {r}
    /\ removing' = removing \cup {r}
    /\ UNCHANGED <<pc, readers, writer, items, timers>>

Remove(r) ==
    /\ r \in removing /\ writer = Nobody /\ readers = {}
    /\ removing' = removing \ {r}
    /\ items' = items \ {r}
    /\ UNCHANGED <<pc, readers, writer, pending, timers>>

Registering(r) == ReadLock(r) \/ WriteLock(r) \/ Append(r) \/ StartTimer(r)

Next == \E r \in Requests : Register(r) \/ Registering(r) \/ Resolve(r) \/ Remove(r)

(* Every goroutine runs, and a timer resolves what nobody else does.       *)
FairSpec ==
    /\ Init /\ [][Next]_vars
    /\ \A r \in Requests :
         /\ SF_vars(Registering(r)) /\ SF_vars(Remove(r))
         /\ WF_vars(r \in timers /\ Resolve(r))

(* workflow.go:20 and triage.go:9: a deferred call does not wait for ever: *)
(* registering it returns, and then its timer denies it in the end.        *)
EveryDeferIsDecided == \A r \in Requests : r \in pending ~> r \notin pending
===============================================================================
