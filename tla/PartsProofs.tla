------------------------------ MODULE PartsProofs ------------------------------
(***************************************************************************)
(* Proofs about the parts that take part in a decision, each by itself and *)
(* for any value of its constants that fits its assumptions: the routing   *)
(* manifest and its caps, the windows of the governors, the gates of       *)
(* decide, batches and resumed calls, principals and what they are granted,*)
(* leases of credentials, the rules of several agents, and the HTTP doors. *)
(***************************************************************************)
EXTENDS PolicyRouting, Windows, CallGates, DeferBatches, Principals, CredentialLeases, AgentRules,
        HttpEdges, FiniteSetTheorems, SequenceTheorems, TLAPS

-------------------------------------------------------------------------------
(* The inductive invariant *)

(* A call has artifacts from its beginning to its end. *)
ArtInv == \A w \in Workers : pc[w] # "idle" => art[w] \in Policies

(* The workers that hold a place under the cap: they were compared with it *)
(* and may still be permitted and recorded.                                *)
Holders ==
    {w \in Workers : /\ capped[w]
                     /\ \/ pc[w] = "rules"
                        \/ pc[w] = "deciding" /\ effect[w] = "permit"}

(* What is recorded and what may be recorded yet exceeds the cap by all    *)
(* workers but one at most: each of them passed while the count was below. *)
CountInv ==
    /\ invoked <= counts
    /\ \A w \in Workers : pc[w] \in {"idle", "begun", "checking"} => ~capped[w]
    /\ invoked + Cardinality(Holders) <= LargestCap + Cardinality(Workers) - 1

(* How far the reloader that is applying a policy has brought it.          *)
Alone == \A k, l \in Reloaders : stage[k] # "idle" /\ stage[l] # "idle" => k = l
BundleInv ==
    /\ Alone
    /\ (\A l \in Reloaders : stage[l] \in {"idle", "loaded", "synced"}) =>
          engine = artifacts /\ artifacts = manifest
    /\ \A l \in Reloaders :
          /\ stage[l] = "swapped" => engine = bundle[l] /\ artifacts = manifest
          /\ stage[l] = "stored" => engine = bundle[l] /\ artifacts = bundle[l]
          /\ stage[l] = "synced" => artifacts = bundle[l]
    /\ ~pushed =>
          /\ stage["push"] = "idle"
          /\ (\A l \in Reloaders : stage[l] \in {"idle", "loaded", "swapped"}) =>
                lastHash = artifacts

(* While no part is replaced, a call holds the parts that are in force.    *)
CalmInv ==
    \A w \in Workers : calm[w] =>
        /\ pc[w] # "idle" => art[w] = artifacts
        /\ pc[w] \in {"checking", "rules", "deciding"} => used[w] = manifest

IInv == TypeOK /\ ArtInv /\ CountInv /\ (~overlapped => BundleInv) /\ CalmInv

-------------------------------------------------------------------------------
(* Types *)

LEMMA CapTypes ==
    /\ LargestCap \in Nat
    /\ \A p \in Policies : p \in Policy /\ p.cap \in Nat /\ p.cap <= LargestCap
<1> DEFINE S == {p.cap : p \in Policies}
<1>1. \A p \in Policies : p \in Policy /\ p.cap \in Nat
  BY RoutingAssumption DEF Policy
<1>2. \E n \in S : \A p \in Policies : p.cap <= n
  BY RoutingAssumption
<1>3. LargestCap \in S /\ \A p \in Policies : p.cap <= LargestCap
  BY <1>2 DEF LargestCap
<1> QED
  BY <1>1, <1>3

LEMMA TypeInit == Init => TypeOK /\ ArtInv
<1> SUFFICES ASSUME Init PROVE TypeOK /\ ArtInv
  OBVIOUS
<1>1. {engine, artifacts, manifest, lastHash} \subseteq Policies
  BY DEF Init
<1>2. ArtInv
  BY DEF Init, ArtInv
<1> QED
  BY <1>1, <1>2 DEF Init, TypeOK

LEMMA TypeStep ==
    ASSUME TypeOK, ArtInv, Next
    PROVE  TypeOK' /\ ArtInv'
<1> USE DEF TypeOK, ArtInv, partVars, callVars, countVars
<1>1. ASSUME NEW l \in Reloaders, NEW p \in Policies, Load(l, p), pushed' \in BOOLEAN
      PROVE  TypeOK' /\ ArtInv'
  BY <1>1, RoutingAssumption DEF Load
<1>2. ASSUME NEW l \in Reloaders, Swap(l)
      PROVE  TypeOK' /\ ArtInv'
  BY <1>2, RoutingAssumption DEF Swap, Step
<1>3. ASSUME NEW l \in Reloaders, Store(l)
      PROVE  TypeOK' /\ ArtInv'
  BY <1>3, RoutingAssumption DEF Store, Step
<1>4. ASSUME NEW l \in Reloaders, SyncRouting(l)
      PROVE  TypeOK' /\ ArtInv'
  BY <1>4, RoutingAssumption DEF SyncRouting, Step
<1>5. ASSUME NEW l \in Reloaders, NoteHash(l)
      PROVE  TypeOK' /\ ArtInv'
  BY <1>5, RoutingAssumption DEF NoteHash
<1> USE DEF reloadVars
<1>6. ASSUME NEW w \in Workers, Begin(w)
      PROVE  TypeOK' /\ ArtInv'
  BY <1>6 DEF Begin, Go
<1>7. ASSUME NEW w \in Workers, FindManifest(w)
      PROVE  TypeOK' /\ ArtInv'
  BY <1>7 DEF FindManifest, Go
<1>8. ASSUME NEW w \in Workers, CheckInvocation(w)
      PROVE  TypeOK' /\ ArtInv'
  BY <1>8, CapTypes DEF CheckInvocation, Go, Decided, Caps
<1>9. ASSUME NEW w \in Workers, ApplyRules(w)
      PROVE  TypeOK' /\ ArtInv'
  BY <1>9, CapTypes DEF ApplyRules, Decided, Policy
<1>10. ASSUME NEW w \in Workers, Decide(w)
       PROVE  TypeOK' /\ ArtInv'
  BY <1>10 DEF Decide, RecordInvocation
<1>11. \A p \in Policies :
          /\ LoadSource(p) => Load("reload", p) /\ pushed' \in BOOLEAN
          /\ LoadEvent(p) => Load("fleet", p) /\ pushed' \in BOOLEAN
          /\ LoadPush(p) => Load("push", p) /\ pushed' \in BOOLEAN
  BY DEF LoadSource, LoadEvent, LoadPush
<1> QED
  BY <1>1, <1>2, <1>3, <1>4, <1>5, <1>6, <1>7, <1>8, <1>9, <1>10, <1>11
  DEF Next, Reloaders

-------------------------------------------------------------------------------
(* Counts *)

(* A step that records nothing and gives no place leaves the count bounded. *)
LEMMA HoldersShrink ==
    ASSUME TypeOK, CountInv, counts' = counts, invoked' = invoked, Holders' \subseteq Holders
    PROVE  /\ invoked' <= counts'
           /\ invoked' + Cardinality(Holders') <= LargestCap + Cardinality(Workers) - 1
<1>1. IsFiniteSet(Holders) /\ IsFiniteSet(Workers)
  BY FS_Subset, RoutingAssumption DEF Holders
<1>2. Cardinality(Holders') <= Cardinality(Holders) /\ IsFiniteSet(Holders')
  BY <1>1, FS_Subset
<1>3. /\ Cardinality(Holders) \in Nat /\ Cardinality(Holders') \in Nat
      /\ Cardinality(Workers) \in Nat
  BY <1>1, <1>2, FS_CardinalityType
<1> QED
  BY <1>2, <1>3, CapTypes DEF TypeOK, CountInv

LEMMA CountInit == Init => CountInv
<1> SUFFICES ASSUME Init PROVE CountInv
  OBVIOUS
<1>1. Holders = {}
  BY DEF Init, Holders
<1>2. Cardinality(Holders) = 0
  BY <1>1, FS_EmptySet
<1>3. Cardinality(Workers) \in Nat \ {0}
  BY RoutingAssumption, FS_CardinalityType, FS_EmptySet
<1> QED
  BY <1>2, <1>3, CapTypes DEF Init, CountInv

LEMMA CountStep ==
    ASSUME TypeOK, CountInv, Next
    PROVE  CountInv'
<1> USE DEF partVars, callVars, countVars
<1>1. ASSUME UNCHANGED <<pc, capped, effect, counts, invoked>>
      PROVE  CountInv'
  <2>1. Holders' = Holders
    BY <1>1 DEF Holders
  <2> QED
    BY <1>1, <2>1, HoldersShrink DEF CountInv
<1>2. ASSUME NEW w \in Workers, Begin(w)
      PROVE  CountInv'
  <2>1. Holders' \subseteq Holders
    BY <1>2 DEF Begin, Go, Holders, TypeOK
  <2> QED
    BY <1>2, <2>1, HoldersShrink DEF Begin, Go, TypeOK, CountInv
<1>3. ASSUME NEW w \in Workers, FindManifest(w)
      PROVE  CountInv'
  <2>1. Holders' \subseteq Holders
    BY <1>3 DEF FindManifest, Go, Holders, TypeOK, CountInv
  <2> QED
    BY <1>3, <2>1, HoldersShrink DEF FindManifest, Go, TypeOK, CountInv
<1>4. ASSUME NEW w \in Workers, CheckInvocation(w)
      PROVE  CountInv'
  <2>1. /\ counts' = counts /\ invoked' = invoked
        /\ \A v \in Workers : pc'[v] \in {"idle", "begun", "checking"} => ~capped'[v]
    BY <1>4 DEF CheckInvocation, Go, Decided, TypeOK, CountInv
  <2>2. CASE w \notin Holders'
    <3>1. Holders' \subseteq Holders
      BY <1>4, <2>2 DEF CheckInvocation, Go, Decided, Holders, TypeOK
    <3> QED
      BY <2>1, <3>1, HoldersShrink DEF CountInv
  <2>3. CASE w \in Holders'
    <3>1. Caps /\ ~CapReached
      BY <1>4, <2>3 DEF CheckInvocation, Go, Decided, Refused, Holders, TypeOK
    <3>2. invoked <= LargestCap - 1
      BY <3>1, CapTypes DEF Caps, CapReached, TypeOK, CountInv
    <3>3. Holders' \in SUBSET Workers /\ IsFiniteSet(Workers)
      BY <1>4, RoutingAssumption DEF CheckInvocation, Holders
    <3>4. /\ Cardinality(Holders') <= Cardinality(Workers)
          /\ Cardinality(Holders') \in Nat /\ Cardinality(Workers) \in Nat
      BY <3>3, FS_Subset, FS_CardinalityType
    <3> QED
      BY <2>1, <3>2, <3>4, CapTypes DEF TypeOK, CountInv
  <2> QED
    BY <2>2, <2>3
<1>5. ASSUME NEW w \in Workers, ApplyRules(w)
      PROVE  CountInv'
  <2>1. /\ pc[w] = "rules" /\ capped' = capped
        /\ \A v \in Workers : v # w => pc'[v] = pc[v] /\ effect'[v] = effect[v]
    BY <1>5 DEF ApplyRules, Decided, TypeOK
  <2>2. Holders' \subseteq Holders
    <3>1. ASSUME NEW v \in Holders' PROVE v \in Holders
      <4>1. v \in Workers /\ capped[v]
        BY <2>1 DEF Holders
      <4>2. CASE v = w
        BY <2>1, <4>1, <4>2 DEF Holders
      <4>3. CASE v # w
        <5>1. \/ pc[v] = "rules"
              \/ pc[v] = "deciding" /\ effect[v] = "permit"
          BY <2>1, <4>1, <4>3 DEF Holders
        <5> QED
          BY <4>1, <5>1 DEF Holders
      <4> QED
        BY <4>2, <4>3
    <3> QED
      BY <3>1
  <2> QED
    BY <1>5, <2>2, HoldersShrink DEF ApplyRules, Decided, TypeOK, CountInv
<1>6. ASSUME NEW w \in Workers, Decide(w)
      PROVE  CountInv'
  <2>0. /\ pc[w] = "deciding" /\ pc'[w] = "idle" /\ capped'[w] = FALSE
        /\ \A v \in Workers \ {w} :
              pc'[v] = pc[v] /\ effect'[v] = effect[v] /\ capped'[v] = capped[v]
    BY <1>6 DEF Decide, RecordInvocation, TypeOK
  <2>1. /\ Holders' = Holders \ {w}
        /\ \A v \in Workers : pc'[v] \in {"idle", "begun", "checking"} => ~capped'[v]
    <3>1. w \notin Holders'
      BY <2>0 DEF Holders
    <3>2. \A v \in Workers \ {w} : v \in Holders' <=> v \in Holders
      BY <2>0, Zenon DEF Holders
    <3>3. Holders' \subseteq Workers /\ Holders \subseteq Workers
      BY DEF Holders
    <3>4. Holders' = Holders \ {w}
      BY <3>1, <3>2, <3>3
    <3> QED
      BY <2>0, <3>4 DEF CountInv
  <2>2. /\ invoked' <= counts'
        /\ \/ invoked' = invoked
           \/ w \in Holders /\ invoked' = invoked + 1
    <3>1. CASE effect[w] = "permit" /\ manifest.manifest /\ capped[w]
      <4>1. invoked' = invoked + 1 /\ counts' = counts + 1
        BY <1>6, <3>1 DEF Decide, RecordInvocation
      <4>2. w \in Holders
        BY <2>0, <3>1 DEF Holders
      <4> QED
        BY <4>1, <4>2 DEF TypeOK, CountInv
    <3>2. CASE ~(effect[w] = "permit" /\ manifest.manifest /\ capped[w])
      <4>1. \/ invoked' = invoked /\ counts' = counts + 1
            \/ invoked' = invoked /\ counts' = counts
        BY <1>6, <3>2 DEF Decide, RecordInvocation
      <4> QED
        BY <4>1 DEF TypeOK, CountInv
    <3> QED
      BY <3>1, <3>2
  <2>3. IsFiniteSet(Holders) /\ IsFiniteSet(Workers)
    BY FS_Subset, RoutingAssumption DEF Holders
  <2>4. /\ Cardinality(Holders') =
             IF w \in Holders THEN Cardinality(Holders) - 1 ELSE Cardinality(Holders)
        /\ Cardinality(Holders) \in Nat /\ Cardinality(Workers) \in Nat
    BY <2>1, <2>3, FS_RemoveElement, FS_CardinalityType
  <2>5. invoked' + Cardinality(Holders') <= LargestCap + Cardinality(Workers) - 1
    BY <2>2, <2>4, CapTypes DEF TypeOK, CountInv
  <2> QED
    BY <2>1, <2>2, <2>5 DEF CountInv
<1>7. ASSUME NEW p \in Policies, LoadSource(p) \/ LoadEvent(p) \/ LoadPush(p)
      PROVE  CountInv'
  BY <1>1, <1>7 DEF LoadSource, LoadEvent, LoadPush, Load
<1>8. ASSUME NEW l \in Reloaders, Swap(l) \/ Store(l) \/ SyncRouting(l) \/ NoteHash(l)
      PROVE  CountInv'
  BY <1>1, <1>8 DEF Swap, Store, SyncRouting, NoteHash, Step
<1> QED
  BY <1>2, <1>3, <1>4, <1>5, <1>6, <1>7, <1>8 DEF Next

-------------------------------------------------------------------------------
(* The parts of the policy *)

LEMMA BundleInit == Init => BundleInv
BY DEF Init, BundleInv, Alone, Reloaders

LEMMA BundleStep ==
    ASSUME TypeOK, ~overlapped => BundleInv, Next
    PROVE  (~overlapped => BundleInv)'
<1> SUFFICES ASSUME ~overlapped'
             PROVE  BundleInv'
  OBVIOUS
<1> USE DEF BundleInv, Alone, TypeOK, partVars, reloadVars
<1>1. ASSUME NEW l \in Reloaders, NEW p \in Policies, Load(l, p),
             pushed' = (pushed \/ l = "push")
      PROVE  BundleInv'
  <2>1. BundleInv /\ \A k \in Reloaders \ {l} : stage[k] = "idle"
    BY <1>1 DEF Load
  <2> QED
    BY <1>1, <2>1 DEF Load, Reloaders
<1>2. ASSUME NEW l \in Reloaders, Swap(l)
      PROVE  BundleInv'
  <2>1. BundleInv /\ stage[l] = "loaded" /\ \A k \in Reloaders \ {l} : stage[k] = "idle"
    BY <1>2 DEF Swap, Step
  <2> QED
    BY <1>2, <2>1 DEF Swap, Step
<1>3. ASSUME NEW l \in Reloaders, Store(l)
      PROVE  BundleInv'
  <2>1. BundleInv /\ stage[l] = "swapped" /\ \A k \in Reloaders \ {l} : stage[k] = "idle"
    BY <1>3 DEF Store, Step
  <2> QED
    BY <1>3, <2>1 DEF Store, Step
<1>4. ASSUME NEW l \in Reloaders, SyncRouting(l)
      PROVE  BundleInv'
  <2>1. BundleInv /\ stage[l] = "stored" /\ \A k \in Reloaders \ {l} : stage[k] = "idle"
    BY <1>4 DEF SyncRouting, Step
  <2> QED
    BY <1>4, <2>1 DEF SyncRouting, Step
<1>5. ASSUME NEW l \in Reloaders, NoteHash(l)
      PROVE  BundleInv'
  <2>1. BundleInv /\ stage[l] = "synced" /\ \A k \in Reloaders \ {l} : stage[k] = "idle"
    BY <1>5 DEF NoteHash
  <2> QED
    BY <1>5, <2>1 DEF NoteHash, Reloaders
<1>6. ASSUME NEW w \in Workers,
             \/ Begin(w) \/ FindManifest(w) \/ CheckInvocation(w)
             \/ ApplyRules(w) \/ Decide(w)
      PROVE  BundleInv'
  <2>1. UNCHANGED <<partVars, reloadVars>>
    BY <1>6 DEF Begin, FindManifest, CheckInvocation, ApplyRules, Decide
  <2> QED
    BY <2>1
<1>7. \A p \in Policies :
         /\ LoadSource(p) => Load("reload", p) /\ pushed' = pushed
         /\ LoadEvent(p) => Load("fleet", p) /\ pushed' = pushed
         /\ LoadPush(p) => Load("push", p) /\ pushed' = TRUE
  BY DEF LoadSource, LoadEvent, LoadPush
<1>8. ASSUME NEW p \in Policies, LoadSource(p) \/ LoadEvent(p) \/ LoadPush(p)
      PROVE  BundleInv'
  BY <1>1, <1>7, <1>8 DEF Reloaders
<1> QED
  BY <1>2, <1>3, <1>4, <1>5, <1>6, <1>8 DEF Next

LEMMA CalmInit == Init => CalmInv
BY DEF Init, CalmInv

LEMMA CalmStep ==
    ASSUME TypeOK, CalmInv, Next
    PROVE  CalmInv'
<1> USE DEF CalmInv, TypeOK, partVars, callVars
<1>1. ASSUME NEW p \in Policies, LoadSource(p) \/ LoadEvent(p) \/ LoadPush(p)
      PROVE  CalmInv'
  BY <1>1 DEF LoadSource, LoadEvent, LoadPush, Load
<1>2. ASSUME NEW l \in Reloaders, Swap(l) \/ Store(l) \/ SyncRouting(l)
      PROVE  CalmInv'
  BY <1>2 DEF Swap, Store, SyncRouting, Step
<1>3. ASSUME NEW l \in Reloaders, NoteHash(l)
      PROVE  CalmInv'
  BY <1>3 DEF NoteHash
<1>4. ASSUME NEW w \in Workers, Begin(w)
      PROVE  CalmInv'
  BY <1>4 DEF Begin, Go
<1>5. ASSUME NEW w \in Workers, FindManifest(w)
      PROVE  CalmInv'
  BY <1>5 DEF FindManifest, Go
<1>6. ASSUME NEW w \in Workers, CheckInvocation(w)
      PROVE  CalmInv'
  BY <1>6 DEF CheckInvocation, Go, Decided
<1>7. ASSUME NEW w \in Workers, ApplyRules(w)
      PROVE  CalmInv'
  BY <1>7 DEF ApplyRules, Decided
<1>8. ASSUME NEW w \in Workers, Decide(w)
      PROVE  CalmInv'
  BY <1>8 DEF Decide, RecordInvocation
<1> QED
  BY <1>1, <1>2, <1>3, <1>4, <1>5, <1>6, <1>7, <1>8 DEF Next

-------------------------------------------------------------------------------
(* Theorems *)

LEMMA Inductive == Spec => []IInv
<1>1. Init => IInv
  BY TypeInit, CountInit, BundleInit, CalmInit DEF IInv
<1>2. IInv /\ [Next]_vars => IInv'
  <2>1. IInv /\ Next => IInv'
    BY TypeStep, CountStep, BundleStep, CalmStep DEF IInv
  <2>2. IInv /\ UNCHANGED vars => IInv'
    <3> SUFFICES ASSUME IInv, UNCHANGED vars PROVE IInv'
      OBVIOUS
    <3>1. TypeOK' /\ ArtInv'
      BY DEF IInv, TypeOK, ArtInv, vars, partVars, reloadVars, callVars, countVars
    <3>2. CountInv' /\ (~overlapped => BundleInv)' /\ CalmInv'
      BY DEF IInv, CountInv, Holders, BundleInv, Alone, CalmInv,
             vars, partVars, reloadVars, callVars, countVars
    <3> QED
      BY <3>1, <3>2 DEF IInv
  <2> QED
    BY <2>1, <2>2
<1> QED
  BY <1>1, <1>2, PTL DEF Spec

(* Every variable keeps its type, whatever policies are applied when. *)
THEOREM TypeCorrect == Spec => []TypeOK
<1>1. IInv => TypeOK
  BY DEF IInv
<1> QED
  BY <1>1, Inductive, PTL

(* The cap on invocations is exceeded by calls in flight only, however     *)
(* many policies are applied, one after the other or at the same time.     *)
THEOREM CapsHold == Spec => []InvocationsAreBounded
<1>1. IInv => InvocationsAreBounded
  <2> SUFFICES ASSUME IInv PROVE InvocationsAreBounded
    OBVIOUS
  <2>1. IsFiniteSet(Workers) /\ IsFiniteSet(Holders)
    BY FS_Subset, RoutingAssumption DEF Holders
  <2>2. Cardinality(Workers) \in Nat /\ Cardinality(Holders) \in Nat
    BY <2>1, FS_CardinalityType
  <2> QED
    BY <2>2, CapTypes DEF IInv, TypeOK, CountInv, InvocationsAreBounded
<1> QED
  BY <1>1, Inductive, PTL

(* When no policy is being applied, its three parts are of one policy,     *)
(* unless two were applied at the same time before.                        *)
THEOREM PartsOfOnePolicy == Spec => []PartsAgree
<1>1. IInv => PartsAgree
  <2> SUFFICES ASSUME IInv, ~overlapped, \A l \in Reloaders : ~Applying(l)
               PROVE  engine = artifacts /\ artifacts = manifest
    BY DEF PartsAgree
  <2>1. \A l \in Reloaders : stage[l] \in {"idle", "loaded", "synced"}
    BY DEF IInv, TypeOK, Applying
  <2> QED
    BY <2>1 DEF IInv, BundleInv
<1> QED
  BY <1>1, Inductive, PTL

(* A call that no reload crosses is decided by one policy. *)
THEOREM OnePolicyDecides == Spec => []DecidedByOnePolicy
<1>1. IInv => DecidedByOnePolicy
  <2> SUFFICES ASSUME IInv, ~overlapped, \A l \in Reloaders : ~Applying(l),
                      NEW w \in Workers, pc[w] \in {"rules", "deciding"}, calm[w]
               PROVE  used[w] = art[w]
    BY DEF DecidedByOnePolicy
  <2>1. \A l \in Reloaders : stage[l] \in {"idle", "loaded", "synced"}
    BY DEF IInv, TypeOK, Applying
  <2>2. artifacts = manifest
    BY <2>1 DEF IInv, BundleInv
  <2> QED
    BY <2>2 DEF IInv, CalmInv
<1> QED
  BY <1>1, Inductive, PTL

(* The hash that decides which updates are skipped names the policy in     *)
(* force, unless a policy was pushed or two were applied at the same time. *)
THEOREM HashIsCurrent == Spec => []HashNamesPolicy
<1>1. IInv => HashNamesPolicy
  BY DEF IInv, BundleInv, HashNamesPolicy
<1> QED
  BY <1>1, Inductive, PTL

-------------------------------------------------------------------------------
(* The governors' windows *)

WindowEntries == [n : Nat, ts : Nat, sig : Signatures]

(* The goroutines at some place whose calls were received in the window.   *)
Waiting(lp, places, t) == {l \in Loopers : lp[l].at \in places /\ lp[l].ts \in t - WindowLength .. t}

(* What a governor's log says of the window that ends at t. As long as no  *)
(* call from behind it was tracked, all that passed is still in the log;   *)
(* afterwards, only those can pass that wait already, one for each         *)
(* goroutine but the one that was tracked.                                 *)
Bounded(log, let, lp, places, weight, limit, highest) ==
    /\ IsFiniteSet(WindowUnits(log, weight)) /\ IsFiniteSet(WindowUnits(let, weight))
    /\ \A t \in Int :
         IF \E e \in log : e.ts > t
         THEN Weigh(InWindow(let, t), weight) + Cardinality(Waiting(lp, places, t)) * highest
                <= limit + (Cardinality(Loopers) - 1) * highest
         ELSE /\ WindowUnits(InWindow(let, t), weight) \subseteq WindowUnits(log, weight)
              /\ Weigh(InWindow(let, t), weight) <= limit

LEMMA UnitsOf ==
  ASSUME NEW log, NEW weight, NEW u
  PROVE  u \in WindowUnits(log, weight) <=> \E e \in log : \E k \in 1 .. weight[e.sig] : u = <<e, k>>
  BY DEF WindowUnits

LEMMA UnitsGrow ==
  ASSUME NEW log, NEW more, NEW weight, log \subseteq more
  PROVE  WindowUnits(log, weight) \subseteq WindowUnits(more, weight)
  BY UnitsOf

LEMMA UnitsAdd ==
  ASSUME NEW log, NEW e, NEW weight
  PROVE  WindowUnits(log \cup {e}, weight) = WindowUnits(log, weight) \cup ({e} \X (1 .. weight[e.sig]))
<1>1. ASSUME NEW u \in WindowUnits(log \cup {e}, weight)
      PROVE  u \in WindowUnits(log, weight) \cup ({e} \X (1 .. weight[e.sig]))
  <2>1. PICK x \in log \cup {e} : \E k \in 1 .. weight[x.sig] : u = <<x, k>>
    BY UnitsOf
  <2>. QED BY <2>1, UnitsOf
<1>2. ASSUME NEW u \in WindowUnits(log, weight) PROVE u \in WindowUnits(log \cup {e}, weight)
  BY UnitsGrow
<1>3. ASSUME NEW u \in {e} \X (1 .. weight[e.sig]) PROVE u \in WindowUnits(log \cup {e}, weight)
  <2>1. PICK k \in 1 .. weight[e.sig] : u = <<e, k>>
    OBVIOUS
  <2>. QED BY <2>1, UnitsOf
<1>. QED BY <1>1, <1>2, <1>3

LEMMA UnitsOfOne ==
  ASSUME NEW e, NEW w \in Nat
  PROVE  IsFiniteSet({e} \X (1 .. w)) /\ Cardinality({e} \X (1 .. w)) = w
<1>1. IsFiniteSet({e}) /\ Cardinality({e}) = 1
  BY FS_Singleton
<1>2. IsFiniteSet(1 .. w) /\ Cardinality(1 .. w) = w
  <2>1. 1 \in Int /\ w \in Int
    OBVIOUS
  <2>2. IsFiniteSet(1 .. w) /\ Cardinality(1 .. w) = IF 1 > w THEN 0 ELSE w - 1 + 1
    BY <2>1, FS_Interval
  <2>. QED BY <2>2
<1>3. IsFiniteSet({e} \X (1 .. w)) /\ Cardinality({e} \X (1 .. w)) = Cardinality({e}) * Cardinality(1 .. w)
  BY <1>1, <1>2, FS_Product
<1>4. 1 * w = w
  OBVIOUS
<1>. QED BY <1>1, <1>2, <1>3, <1>4

(* One entry more weighs at most its weight more.                          *)
LEMMA OneHeavier ==
  ASSUME NEW log, NEW more, NEW e, NEW weight, weight[e.sig] \in Nat,
         IsFiniteSet(WindowUnits(log, weight)), more \subseteq log \cup {e}
  PROVE  /\ IsFiniteSet(WindowUnits(more, weight))
         /\ Weigh(log, weight) \in Nat /\ Weigh(more, weight) \in Nat
         /\ Weigh(more, weight) <= Weigh(log, weight) + weight[e.sig]
<1> DEFINE U == WindowUnits(log, weight)
           E == {e} \X (1 .. weight[e.sig])
           M == WindowUnits(more, weight)
<1>1. IsFiniteSet(E) /\ Cardinality(E) = weight[e.sig]
  BY UnitsOfOne
<1>2. M \subseteq U \cup E
  <2>1. WindowUnits(log \cup {e}, weight) = U \cup E
    BY UnitsAdd
  <2>2. M \subseteq WindowUnits(log \cup {e}, weight)
    BY UnitsGrow
  <2>. QED BY <2>1, <2>2
<1> HIDE DEF E, U, M
<1>3. IsFiniteSet(U)
  BY DEF U
<1>4. IsFiniteSet(U \cup E) /\ Cardinality(U \cup E) = Cardinality(U) + Cardinality(E) - Cardinality(U \cap E)
  BY <1>1, <1>3, FS_Union
<1>5. IsFiniteSet(M) /\ Cardinality(M) <= Cardinality(U \cup E)
  BY <1>2, <1>4, FS_Subset
<1>6. IsFiniteSet(U \cap E)
  BY <1>3, FS_Intersection
<1>7. /\ Cardinality(U) \in Nat /\ Cardinality(M) \in Nat /\ Cardinality(U \cap E) \in Nat
      /\ Cardinality(E) \in Nat /\ Cardinality(U \cup E) \in Nat
  BY <1>1, <1>3, <1>4, <1>5, <1>6, FS_CardinalityType
<1>8. Cardinality(M) <= Cardinality(U) + Cardinality(E)
  BY <1>4, <1>5, <1>7
<1>. QED BY <1>1, <1>5, <1>7, <1>8 DEF Weigh, U, M

LEMMA Lighter ==
  ASSUME NEW log, NEW weight, NEW less, WindowUnits(less, weight) \subseteq WindowUnits(log, weight),
         IsFiniteSet(WindowUnits(log, weight))
  PROVE  /\ IsFiniteSet(WindowUnits(less, weight))
         /\ Weigh(log, weight) \in Nat /\ Weigh(less, weight) \in Nat
         /\ Weigh(less, weight) <= Weigh(log, weight)
  BY FS_Subset, FS_CardinalityType DEF Weigh

LEMMA WaitingFinite ==
  ASSUME NEW lp, NEW places, NEW t
  PROVE  /\ IsFiniteSet(Waiting(lp, places, t)) /\ Cardinality(Waiting(lp, places, t)) \in Nat
         /\ IsFiniteSet(Loopers) /\ Cardinality(Loopers) \in Nat \ {0}
<1>1. IsFiniteSet(Loopers) /\ Loopers # {}
  BY WindowsAssumption DEF WindowsAssumption
<1>2. Waiting(lp, places, t) \subseteq Loopers
  BY DEF Waiting
<1>3. Cardinality(Loopers) # 0 /\ Cardinality(Loopers) \in Nat
  BY <1>1, FS_EmptySet, FS_CardinalityType
<1>4. IsFiniteSet(Waiting(lp, places, t))
  BY <1>1, <1>2, FS_Subset
<1>. QED BY <1>1, <1>3, <1>4, FS_CardinalityType

LEMMA Times ==
  ASSUME NEW h \in Nat, NEW a \in Int, NEW b \in Int
  PROVE  /\ a * h \in Int /\ (a - 1) * h = a * h - h /\ 1 * h = h
         /\ a <= b => a * h <= b * h
         /\ a >= 0 => a * h >= 0
<1>1. a * h \in Int /\ (a - 1) * h = a * h - h /\ 1 * h = h
  OBVIOUS
<1>2. \A c \in Int : c >= 0 => c * h >= 0
  OBVIOUS
<1>3. b * h = a * h + (b - a) * h
  OBVIOUS
<1>4. ASSUME a <= b PROVE a * h <= b * h
  <2>1. b - a \in Int /\ b - a >= 0
    BY <1>4
  <2>2. (b - a) * h >= 0
    BY <1>2, <2>1
  <2>3. (b - a) * h \in Int /\ b * h \in Int
    OBVIOUS
  <2> DEFINE x == a * h  y == b * h  z == (b - a) * h
  <2>4. x \in Int /\ y \in Int /\ z \in Int /\ y = x + z /\ z >= 0
    BY <1>1, <1>3, <2>2, <2>3
  <2> HIDE DEF x, y, z
  <2>5. x <= y
    BY <2>4
  <2>. QED BY <2>5 DEF x, y
<1>. QED BY <1>1, <1>2, <1>4

(* What changes a window's calls no more than it takes from those waiting. *)
LEMMA BoundedStays ==
  ASSUME NEW log, NEW let, NEW lp, NEW places, NEW weight, NEW limit \in Nat, NEW h \in Nat,
         Bounded(log, let, lp, places, weight, limit, h), NEW let1, NEW lp1,
         IsFiniteSet(WindowUnits(let1, weight)),
         \A t \in Int : WindowUnits(InWindow(let1, t), weight) \subseteq WindowUnits(InWindow(let, t), weight),
         \A t \in Int : (\E e \in log : e.ts > t) => Waiting(lp1, places, t) \subseteq Waiting(lp, places, t)
  PROVE  Bounded(log, let1, lp1, places, weight, limit, h)
<1>1. IsFiniteSet(WindowUnits(log, weight)) /\ IsFiniteSet(WindowUnits(let, weight))
  BY DEF Bounded
<1>2. ASSUME NEW t \in Int
      PROVE  IF \E e \in log : e.ts > t
             THEN Weigh(InWindow(let1, t), weight) + Cardinality(Waiting(lp1, places, t)) * h
                    <= limit + (Cardinality(Loopers) - 1) * h
             ELSE /\ WindowUnits(InWindow(let1, t), weight) \subseteq WindowUnits(log, weight)
                  /\ Weigh(InWindow(let1, t), weight) <= limit
  <2>1. IsFiniteSet(WindowUnits(InWindow(let, t), weight))
    <3>1. InWindow(let, t) \subseteq let
      BY DEF InWindow
    <3>. QED BY <1>1, <3>1, UnitsGrow, FS_Subset
  <2>2. /\ Weigh(InWindow(let, t), weight) \in Nat /\ Weigh(InWindow(let1, t), weight) \in Nat
        /\ Weigh(InWindow(let1, t), weight) <= Weigh(InWindow(let, t), weight)
    BY <2>1, Lighter
  <2>3. CASE \E e \in log : e.ts > t
    <3> DEFINE a == Cardinality(Waiting(lp1, places, t))
               b == Cardinality(Waiting(lp, places, t))
               m == (Cardinality(Loopers) - 1) * h
    <3>1. a \in Nat /\ b \in Nat /\ Cardinality(Loopers) - 1 \in Int
      BY WaitingFinite
    <3>2. a <= b
      BY <2>3, WaitingFinite, FS_Subset
    <3>3. Weigh(InWindow(let, t), weight) + b * h <= limit + m
      BY <2>3 DEF Bounded
    <3>4. m \in Int
      BY <3>1, Times
    <3> HIDE DEF a, b, m
    <3>5. a * h <= b * h /\ a * h \in Int /\ b * h \in Int
      BY <3>1, <3>2, Times
    <3> DEFINE x == a * h  y == b * h
    <3>6. x <= y /\ x \in Int /\ y \in Int /\ Weigh(InWindow(let, t), weight) + y <= limit + m
      BY <3>3, <3>5
    <3> HIDE DEF x, y
    <3>7. Weigh(InWindow(let1, t), weight) + x <= limit + m
      BY <2>2, <3>4, <3>6
    <3>. QED BY <2>3, <3>7 DEF x, a, m
  <2>4. CASE ~\E e \in log : e.ts > t
    BY <2>2, <2>4 DEF Bounded
  <2>. QED BY <2>3, <2>4
<1>. QED BY <1>1, <1>2 DEF Bounded

(* CheckAndTrack: the log is cut at the window of the call that is tracked; *)
(* a call that weighs something passes only if what is kept leaves room.   *)
LEMMA BoundedTracks ==
  ASSUME NEW log \in SUBSET WindowEntries, NEW let \in SUBSET WindowEntries, NEW lp, NEW places, NEW weight, NEW limit \in Nat,
         NEW h \in Nat, Bounded(log, let, lp, places, weight, limit, h),
         NEW e \in WindowEntries, weight[e.sig] \in 0 .. h,
         NEW let1, let1 \subseteq let \cup {e},
         \/ let1 \subseteq let \/ weight[e.sig] = 0
         \/ Weigh(Kept(log, e.ts), weight) + weight[e.sig] <= limit,
         NEW lp1, NEW l0 \in Loopers, lp[l0].at \in places, lp[l0].ts = e.ts, lp1[l0].at \notin places,
         \A l \in Loopers \ {l0} : lp1[l] = lp[l]
  PROVE  Bounded(Kept(log, e.ts) \cup {e}, let1, lp1, places, weight, limit, h)
<1> DEFINE kept == Kept(log, e.ts)
           w == weight[e.sig]
           n1 == Cardinality(Loopers) - 1
<1>1. w \in Nat /\ w <= h /\ e.ts \in Nat /\ e.sig \in Signatures
  BY DEF WindowEntries
<1>2. WindowLength \in Nat
  BY WindowsAssumption DEF WindowsAssumption
<1>3. kept \subseteq log /\ \A x \in log : x.ts \in Nat
  BY DEF Kept, WindowEntries
<1>4. IsFiniteSet(WindowUnits(log, weight)) /\ IsFiniteSet(WindowUnits(let, weight))
  BY DEF Bounded
<1>5. IsFiniteSet(WindowUnits(kept, weight))
  BY <1>3, <1>4, UnitsGrow, FS_Subset
<1>6. IsFiniteSet(WindowUnits(kept \cup {e}, weight)) /\ IsFiniteSet(WindowUnits(let1, weight))
  BY <1>1, <1>4, <1>5, OneHeavier
<1>7. IsFiniteSet(Loopers) /\ n1 \in Nat
  BY WaitingFinite
<1>8. ASSUME NEW t \in Int PROVE IsFiniteSet(WindowUnits(InWindow(let, t), weight))
  <2>1. InWindow(let, t) \subseteq let
    BY DEF InWindow
  <2>. QED BY <1>4, <2>1, UnitsGrow, FS_Subset
<1>9. ASSUME NEW t \in Int
      PROVE  /\ InWindow(let1, t) \subseteq InWindow(let, t) \cup {e}
             /\ e.ts \notin t - WindowLength .. t => InWindow(let1, t) \subseteq InWindow(let, t)
             /\ let1 \subseteq let => InWindow(let1, t) \subseteq InWindow(let, t)
  BY DEF InWindow
<1> HIDE DEF kept, w, n1
<1>10. ASSUME NEW t \in Int
       PROVE  /\ Weigh(InWindow(let, t), weight) \in Nat /\ Weigh(InWindow(let1, t), weight) \in Nat
              /\ Weigh(InWindow(let1, t), weight) <= Weigh(InWindow(let, t), weight) + w
              /\ InWindow(let1, t) \subseteq InWindow(let, t) =>
                    Weigh(InWindow(let1, t), weight) <= Weigh(InWindow(let, t), weight)
  <2>1. weight[e.sig] \in Nat
    BY <1>1 DEF w
  <2>2. /\ Weigh(InWindow(let, t), weight) \in Nat /\ Weigh(InWindow(let1, t), weight) \in Nat
        /\ Weigh(InWindow(let1, t), weight) <= Weigh(InWindow(let, t), weight) + weight[e.sig]
    BY <1>8, <1>9, <2>1, OneHeavier
  <2>3. ASSUME InWindow(let1, t) \subseteq InWindow(let, t)
        PROVE  Weigh(InWindow(let1, t), weight) <= Weigh(InWindow(let, t), weight)
    <3>1. WindowUnits(InWindow(let1, t), weight) \subseteq WindowUnits(InWindow(let, t), weight)
      BY <2>3, UnitsGrow
    <3>. QED BY <1>8, <3>1, Lighter
  <2>. QED BY <2>2, <2>3 DEF w
<1>11. ASSUME NEW t \in Int
       PROVE  /\ Waiting(lp1, places, t) = Waiting(lp, places, t) \ {l0}
              /\ e.ts \in t - WindowLength .. t => l0 \in Waiting(lp, places, t)
              /\ e.ts \notin t - WindowLength .. t => l0 \notin Waiting(lp, places, t)
  BY DEF Waiting
<1>12. ASSUME NEW t \in Int, \E x \in log : x.ts > t
       PROVE  /\ \E x \in kept \cup {e} : x.ts > t
              /\ Weigh(InWindow(let1, t), weight) + Cardinality(Waiting(lp1, places, t)) * h <= limit + n1 * h
  <2>1. PICK x \in log : x.ts > t
    BY <1>12
  <2>2. \E y \in kept \cup {e} : y.ts > t
    <3>1. x.ts \in Nat
      BY <1>3
    <3>2. x \in kept \/ e.ts > t
      BY <1>1, <1>2, <2>1, <3>1 DEF kept, Kept
    <3>. QED BY <2>1, <3>2
  <2> DEFINE a == Cardinality(Waiting(lp1, places, t))
             b == Cardinality(Waiting(lp, places, t))
             u == Weigh(InWindow(let1, t), weight)
             v == Weigh(InWindow(let, t), weight)
             m == n1 * h
  <2>3. a \in Nat /\ b \in Nat /\ IsFiniteSet(Waiting(lp, places, t))
    BY WaitingFinite
  <2>4. v + b * h <= limit + m
    BY <2>1 DEF Bounded, n1
  <2>5. m \in Int /\ b * h \in Int /\ a * h \in Int /\ (b - 1) * h = b * h - h
    BY <1>7, <2>3, Times
  <2>6. CASE e.ts \in t - WindowLength .. t
    <3>1. a = b - 1
      BY <1>11, <2>3, <2>6, FS_RemoveElement
    <3>2. u <= v + w /\ u \in Nat /\ v \in Nat
      BY <1>10
    <3> HIDE DEF a, b, u, v, m
    <3>3. a * h = b * h - h
      BY <2>5, <3>1
    <3> DEFINE bh == b * h
    <3>4. bh \in Int /\ a * h = bh - h /\ v + bh <= limit + m
      BY <2>4, <2>5, <3>3
    <3> HIDE DEF bh
    <3>5. u + (bh - h) <= limit + m
      BY <1>1, <2>5, <3>2, <3>4
    <3>. QED BY <2>2, <3>4, <3>5 DEF a, u, m
  <2>7. CASE e.ts \notin t - WindowLength .. t
    <3>1. a = b
      BY <1>11, <2>7
    <3>2. u <= v /\ u \in Nat /\ v \in Nat
      BY <1>9, <1>10, <2>7
    <3> HIDE DEF a, b, u, v, m
    <3> DEFINE bh == b * h
    <3>3. bh \in Int /\ a * h = bh /\ v + bh <= limit + m
      BY <2>4, <2>5, <3>1
    <3> HIDE DEF bh
    <3>4. u + bh <= limit + m
      BY <2>5, <3>2, <3>3
    <3>. QED BY <2>2, <3>3, <3>4 DEF a, u, m
  <2>. QED BY <2>6, <2>7
<1>13. ASSUME NEW t \in Int, ~\E x \in log : x.ts > t, e.ts > t
       PROVE  Weigh(InWindow(let1, t), weight) + Cardinality(Waiting(lp1, places, t)) * h <= limit + n1 * h
  <2>1. InWindow(let1, t) \subseteq InWindow(let, t)
    BY <1>1, <1>9, <1>13
  <2>2. Weigh(InWindow(let, t), weight) <= limit
    BY <1>13 DEF Bounded
  <2> DEFINE a == Cardinality(Waiting(lp1, places, t))
             u == Weigh(InWindow(let1, t), weight)
  <2>3. u <= limit /\ u \in Nat
    BY <1>10, <2>1, <2>2
  <2>4. a \in Nat /\ a <= n1
    <3>1. Waiting(lp1, places, t) \subseteq Loopers \ {l0}
      BY DEF Waiting
    <3>2. IsFiniteSet(Loopers \ {l0}) /\ Cardinality(Loopers \ {l0}) = n1
      BY <1>7, FS_RemoveElement DEF n1
    <3>. QED BY <3>1, <3>2, FS_Subset, FS_CardinalityType
  <2>5. a * h <= n1 * h /\ a * h \in Int /\ n1 * h \in Int
    BY <1>7, <2>4, Times
  <2> HIDE DEF a, u
  <2> DEFINE x == a * h  y == n1 * h
  <2>6. x <= y /\ x \in Int /\ y \in Int
    BY <2>5
  <2> HIDE DEF x, y
  <2>7. u + x <= limit + y
    BY <2>3, <2>6
  <2>. QED BY <2>7 DEF x, y, a, u
<1>14. ASSUME NEW t \in Int, ~\E x \in log : x.ts > t, e.ts <= t
       PROVE  /\ ~\E x \in kept \cup {e} : x.ts > t
              /\ WindowUnits(InWindow(let1, t), weight) \subseteq WindowUnits(kept \cup {e}, weight)
              /\ Weigh(InWindow(let1, t), weight) <= limit
  <2>1. ~\E x \in kept \cup {e} : x.ts > t
    BY <1>1, <1>3, <1>14
  <2>2. WindowUnits(InWindow(let, t), weight) \subseteq WindowUnits(log, weight) /\ Weigh(InWindow(let, t), weight) <= limit
    BY <1>14 DEF Bounded
  <2>3. WindowUnits(InWindow(let, t), weight) \subseteq WindowUnits(kept, weight)
    <3>1. SUFFICES ASSUME NEW z \in WindowUnits(InWindow(let, t), weight) PROVE z \in WindowUnits(kept, weight)
      OBVIOUS
    <3>2. PICK x \in InWindow(let, t) : \E k \in 1 .. weight[x.sig] : z = <<x, k>>
      BY UnitsOf
    <3>3. PICK k \in 1 .. weight[x.sig] : z = <<x, k>>
      BY <3>2
    <3>4. PICK y \in log : \E j \in 1 .. weight[y.sig] : z = <<y, j>>
      BY <2>2, UnitsOf
    <3>5. x = y
      BY <3>3, <3>4
    <3>6. x.ts \in Nat /\ x.ts >= t - WindowLength
      BY <1>2, <1>3, <3>4, <3>5 DEF InWindow
    <3>7. x \in kept
      BY <1>1, <1>2, <1>14, <3>4, <3>5, <3>6 DEF kept, Kept
    <3>. QED BY <3>3, <3>7, UnitsOf
  <2>4. WindowUnits(InWindow(let1, t), weight) \subseteq WindowUnits(kept \cup {e}, weight)
    <3>1. WindowUnits(InWindow(let1, t), weight) \subseteq WindowUnits(InWindow(let, t) \cup {e}, weight)
      BY <1>9, UnitsGrow
    <3>2. WindowUnits(InWindow(let, t) \cup {e}, weight) = WindowUnits(InWindow(let, t), weight) \cup ({e} \X (1 .. weight[e.sig]))
      BY UnitsAdd
    <3>3. WindowUnits(kept \cup {e}, weight) = WindowUnits(kept, weight) \cup ({e} \X (1 .. weight[e.sig]))
      BY UnitsAdd
    <3>. QED BY <2>3, <3>1, <3>2, <3>3
  <2>5. Weigh(InWindow(let1, t), weight) <= limit
    <3>1. CASE let1 \subseteq let
      BY <1>9, <1>10, <2>2, <3>1
    <3>2. CASE w = 0
      BY <1>10, <2>2, <3>2
    <3>3. CASE Weigh(kept, weight) + w <= limit
      <4>1. /\ Weigh(kept, weight) \in Nat
            /\ Weigh(InWindow(let, t), weight) <= Weigh(kept, weight)
        BY <1>5, <2>3, Lighter
      <4>. QED BY <1>1, <1>10, <3>3, <4>1
    <3>. QED BY <3>1, <3>2, <3>3 DEF w, kept
  <2>. QED BY <2>1, <2>4, <2>5
<1>15. ASSUME NEW t \in Int
       PROVE  IF \E x \in kept \cup {e} : x.ts > t
              THEN Weigh(InWindow(let1, t), weight) + Cardinality(Waiting(lp1, places, t)) * h
                     <= limit + (Cardinality(Loopers) - 1) * h
              ELSE /\ WindowUnits(InWindow(let1, t), weight) \subseteq WindowUnits(kept \cup {e}, weight)
                   /\ Weigh(InWindow(let1, t), weight) <= limit
  <2>1. CASE \E x \in log : x.ts > t
    BY <1>12, <2>1, Zenon DEF n1
  <2>2. CASE (~\E x \in log : x.ts > t) /\ e.ts > t
    BY <1>13, <2>2 DEF n1
  <2>3. CASE (~\E x \in log : x.ts > t) /\ e.ts <= t
    BY <1>14, <2>3
  <2>4. e.ts > t \/ e.ts <= t
    BY <1>1
  <2>5. CASE e.ts > t
    <3>1. \E x \in kept \cup {e} : x.ts > t
      BY <2>5
    <3>. QED BY <2>1, <2>2, <2>5, <3>1
  <2>. QED BY <2>1, <2>3, <2>4, <2>5
<1>. QED BY <1>6, <1>15 DEF Bounded, kept

-------------------------------------------------------------------------------
(* What the loop governor let through, and where a call waits for each.    *)
Through == passed \cup {Entry(l) : l \in {k \in Loopers : looper[k].at = "risk"}}

LooperTypes ==
    looper \in [Loopers -> [at : {"idle", "loop", "risk"}, n : Nat, ts : Nat, sig : Signatures \cup {"none"}]]
LogTypes ==
    /\ clock \in Nat /\ windowCalls \in Nat /\ clock <= MaxWindowTime /\ windowCalls <= MaxWindowCalls
    /\ runtime \subseteq WindowEntries /\ risky \subseteq WindowEntries /\ passed \subseteq WindowEntries
    /\ \A e \in runtime \cup risky \cup passed : e.n \in 1 .. windowCalls /\ e.ts \in 0 .. clock
CallInv(l) ==
    looper[l].at # "idle" =>
      looper[l].sig \in Signatures /\ looper[l].n \in 1 .. windowCalls /\ looper[l].ts \in 0 .. clock

CallsInv ==
    MaxCallsPerWindow > 0 => Bounded(runtime, Through, looper, {"loop"}, EachCall, MaxCallsPerWindow, 1)
RepeatsInv ==
    MaxRepeats > 0 =>
      \A s \in Signatures : Bounded(runtime, Through, looper, {"loop"}, Repeats(s), MaxRepeats, 1)
RiskInv ==
    MaxRisky > 0 => Bounded(risky, passed, looper, {"loop", "risk"}, RiskWeight, MaxRisky, HighestRisk)

LoopTypes ==
    loop \in [config : [iterations : Nat, cost : Nat, minImprovement : Nat], started : BOOLEAN,
              scores : Seq(Int), cost : Nat,
              stopped : {"no", "MAX_ITERATIONS_REACHED", "MAX_COST_REACHED", "CONVERGED", "ENDED"}]
(* Before a loop is started nothing is counted.                            *)
LoopInv == LoopTypes /\ LoopsAreBounded /\ (~loop.started => loop = NoLoop)

WindowsInv ==
    /\ LooperTypes /\ LogTypes /\ \A l \in Loopers : CallInv(l)
    /\ CallsInv /\ RepeatsInv /\ RiskInv

(* The three weights.                                                      *)
LEMMA Weights ==
  /\ \A s \in Signatures : EachCall[s] = 1
  /\ \A s, x \in Signatures : Repeats(s)[x] = IF x = s THEN 1 ELSE 0
  /\ \A s \in Signatures : RiskWeight[s] \in 0 .. HighestRisk
  /\ HighestRisk \in Nat /\ MaxCallsPerWindow \in Nat /\ MaxRepeats \in Nat /\ MaxRisky \in Nat
  BY WindowsAssumption DEF WindowsAssumption, EachCall, Repeats

LEMMA BoundedBegins ==
  ASSUME NEW lp, NEW places, NEW weight, NEW limit \in Nat, NEW h \in Nat
  PROVE  Bounded({}, {}, lp, places, weight, limit, h)
<1>1. WindowUnits({}, weight) = {} /\ IsFiniteSet(WindowUnits({}, weight)) /\ Weigh({}, weight) = 0
  <2>1. WindowUnits({}, weight) = {}
    BY DEF WindowUnits
  <2>. QED BY <2>1, FS_EmptySet DEF Weigh
<1>2. \A t \in Int : InWindow({}, t) = {}
  BY DEF InWindow
<1>3. ASSUME NEW t \in Int
      PROVE  /\ ~\E e \in {} : e.ts > t
             /\ WindowUnits(InWindow({}, t), weight) \subseteq WindowUnits({}, weight)
             /\ Weigh(InWindow({}, t), weight) <= limit
  <2>1. InWindow({}, t) = {}
    BY <1>2
  <2>2. Weigh(InWindow({}, t), weight) = 0
    BY <1>1, <2>1
  <2>3. 0 <= limit
    OBVIOUS
  <2>. QED BY <2>1, <2>2, <2>3
<1>. QED BY <1>1, <1>3, Zenon DEF Bounded

LEMMA WindowsBegin == WInit => WindowsInv /\ LoopInv
<1>. SUFFICES ASSUME WInit PROVE WindowsInv /\ LoopInv
  OBVIOUS
<1>1. /\ clock = 0 /\ windowCalls = 0 /\ looper = [l \in Loopers |-> NoCall]
      /\ runtime = {} /\ risky = {} /\ passed = {} /\ loop = NoLoop
  BY DEF WInit
<1>2. NoCall \in [at : {"idle", "loop", "risk"}, n : Nat, ts : Nat, sig : Signatures \cup {"none"}]
      /\ NoCall.at = "idle"
  BY DEF NoCall
<1>3. Through = {}
  BY <1>1, <1>2 DEF Through
<1>4. CallsInv /\ RepeatsInv /\ RiskInv
  BY <1>1, <1>3, Weights, BoundedBegins DEF CallsInv, RepeatsInv, RiskInv
<1>5. LooperTypes /\ LogTypes /\ \A l \in Loopers : CallInv(l)
  BY <1>1, <1>2, WindowsAssumption DEF LooperTypes, LogTypes, CallInv, WindowsAssumption
<1>6. LoopInv
  <2>1. <<>> \in Seq(Int) /\ Len(<<>>) = 0
    OBVIOUS
  <2>2. NoLoop.config.iterations = 0 /\ NoLoop.config.cost = 0
    BY DEF NoLoop
  <2>3. LoopTypes
    BY <1>1, <2>1 DEF LoopTypes, NoLoop
  <2>. QED BY <1>1, <2>2, <2>3 DEF LoopInv, LoopsAreBounded
<1>. QED BY <1>4, <1>5, <1>6 DEF WindowsInv

LEMMA EntryIsEntry ==
  ASSUME WindowsInv, NEW l \in Loopers, looper[l].at # "idle"
  PROVE  /\ Entry(l) \in WindowEntries /\ Entry(l).ts = looper[l].ts /\ Entry(l).sig = looper[l].sig
         /\ Entry(l).n \in 1 .. windowCalls /\ Entry(l).ts \in 0 .. clock /\ looper[l].sig \in Signatures
<1>1. looper[l].n \in Nat /\ looper[l].ts \in Nat /\ CallInv(l)
  BY DEF WindowsInv, LooperTypes
<1>. QED BY <1>1 DEF CallInv, Entry, WindowEntries

LEMMA ThroughIsEntries == ASSUME WindowsInv PROVE Through \subseteq WindowEntries
  BY EntryIsEntry DEF WindowsInv, LogTypes, Through

(* Who waited and waits no longer leaves nobody else waiting.              *)
LEMMA WaitingShrinks ==
  ASSUME NEW lp, NEW lp1, NEW places, NEW l0, lp1[l0].at \notin places, NEW t,
         \A l \in Loopers \ {l0} : lp1[l] = lp[l]
  PROVE  Waiting(lp1, places, t) \subseteq Waiting(lp, places, t)
  BY DEF Waiting

LEMMA FinitePart ==
  ASSUME NEW log, NEW weight, IsFiniteSet(WindowUnits(log, weight)), NEW less, less \subseteq log
  PROVE  /\ IsFiniteSet(WindowUnits(less, weight))
         /\ \A t \in Int : WindowUnits(InWindow(less, t), weight) \subseteq WindowUnits(InWindow(log, t), weight)
<1>1. IsFiniteSet(WindowUnits(less, weight))
  BY UnitsGrow, FS_Subset
<1>2. \A t \in Int : InWindow(less, t) \subseteq InWindow(log, t)
  BY DEF InWindow
<1>. QED BY <1>1, <1>2, UnitsGrow

-------------------------------------------------------------------------------
(* A new call is received now: not before anything that was tracked.       *)
LEMMA ReceiveKeeps ==
  ASSUME WindowsInv, NEW l0 \in Loopers, Receive(l0)
  PROVE  WindowsInv'
<1>1. PICK s \in Signatures :
        looper' = [looper EXCEPT ![l0] = [at |-> "loop", n |-> windowCalls + 1, ts |-> clock, sig |-> s]]
  BY DEF Receive
<1>2. /\ looper[l0].at = "idle" /\ windowCalls < MaxWindowCalls /\ windowCalls' = windowCalls + 1
      /\ clock' = clock /\ runtime' = runtime /\ risky' = risky /\ passed' = passed
  BY DEF Receive
<1>3. /\ LooperTypes /\ clock \in Nat /\ windowCalls \in Nat /\ MaxWindowCalls \in Nat
      /\ \A e \in runtime \cup risky : e.ts \in 0 .. clock
  BY WindowsAssumption DEF WindowsInv, LogTypes, WindowsAssumption
<1> DEFINE c == [at |-> "loop", n |-> windowCalls + 1, ts |-> clock, sig |-> s]
<1>4. /\ looper'[l0] = c /\ \A l \in Loopers \ {l0} : looper'[l] = looper[l]
      /\ c.at = "loop" /\ c.n = windowCalls + 1 /\ c.ts = clock /\ c.sig = s
      /\ LooperTypes'
  <2>1. c \in [at : {"idle", "loop", "risk"}, n : Nat, ts : Nat, sig : Signatures \cup {"none"}]
    BY <1>3
  <2>. QED BY <1>1, <1>3, <2>1 DEF LooperTypes
<1> HIDE DEF c
<1>5. Through' = Through
  <2>1. \A l \in Loopers : looper'[l].at = "risk" <=> looper[l].at = "risk"
    BY <1>2, <1>4
  <2>2. \A l \in Loopers : looper[l].at = "risk" => Entry(l)' = Entry(l)
    BY <1>2, <1>4 DEF Entry
  <2>. QED BY <1>2, <2>1, <2>2 DEF Through
<1>6. ASSUME NEW places, NEW t \in Int, \E e \in runtime \cup risky : e.ts > t
      PROVE  Waiting(looper', places, t) \subseteq Waiting(looper, places, t)
  <2>1. clock > t
    BY <1>3, <1>6
  <2>2. clock \notin t - WindowLength .. t
    BY <1>3, <2>1
  <2>. QED BY <1>4, <2>2 DEF Waiting
<1>7. CallsInv'
  <2>1. SUFFICES ASSUME MaxCallsPerWindow > 0
                 PROVE  Bounded(runtime, Through, looper', {"loop"}, EachCall, MaxCallsPerWindow, 1)
    BY <1>2, <1>5 DEF CallsInv
  <2>2. Bounded(runtime, Through, looper, {"loop"}, EachCall, MaxCallsPerWindow, 1)
    BY <2>1 DEF WindowsInv, CallsInv
  <2>3. IsFiniteSet(WindowUnits(Through, EachCall))
    BY <2>2 DEF Bounded
  <2>. QED BY <1>6, <2>2, <2>3, Weights, BoundedStays
<1>8. RepeatsInv'
  <2>1. SUFFICES ASSUME MaxRepeats > 0, NEW x \in Signatures
                 PROVE  Bounded(runtime, Through, looper', {"loop"}, Repeats(x), MaxRepeats, 1)
    BY <1>2, <1>5 DEF RepeatsInv
  <2>2. Bounded(runtime, Through, looper, {"loop"}, Repeats(x), MaxRepeats, 1)
    BY <2>1 DEF WindowsInv, RepeatsInv
  <2>3. IsFiniteSet(WindowUnits(Through, Repeats(x)))
    BY <2>2 DEF Bounded
  <2>. QED BY <1>6, <2>2, <2>3, Weights, BoundedStays
<1>9. RiskInv'
  <2>1. SUFFICES ASSUME MaxRisky > 0
                 PROVE  Bounded(risky, passed, looper', {"loop", "risk"}, RiskWeight, MaxRisky, HighestRisk)
    BY <1>2 DEF RiskInv
  <2>2. Bounded(risky, passed, looper, {"loop", "risk"}, RiskWeight, MaxRisky, HighestRisk)
    BY <2>1 DEF WindowsInv, RiskInv
  <2>3. IsFiniteSet(WindowUnits(passed, RiskWeight))
    BY <2>2 DEF Bounded
  <2>. QED BY <1>6, <2>2, <2>3, Weights, BoundedStays
<1>10. LogTypes' /\ \A l \in Loopers : CallInv(l)'
  <2>1. LogTypes'
    BY <1>2, <1>3 DEF WindowsInv, LogTypes
  <2>2. ASSUME NEW l \in Loopers PROVE CallInv(l)'
    <3>1. CASE l = l0
      BY <1>2, <1>3, <1>4, <3>1 DEF CallInv
    <3>2. CASE l # l0
      BY <1>2, <1>3, <1>4, <3>2 DEF CallInv, WindowsInv
    <3>. QED BY <3>1, <3>2
  <2>. QED BY <2>1, <2>2
<1>. QED BY <1>4, <1>7, <1>8, <1>9, <1>10 DEF WindowsInv

(* Time alone moves nothing.                                               *)
LEMMA TimeKeeps == ASSUME WindowsInv, TimePasses PROVE WindowsInv'
<1>1. /\ clock' = clock + 1 /\ clock < MaxWindowTime /\ looper' = looper /\ runtime' = runtime
      /\ risky' = risky /\ passed' = passed /\ windowCalls' = windowCalls
  BY DEF TimePasses
<1>2. /\ LooperTypes /\ LogTypes /\ clock \in Nat /\ MaxWindowTime \in Nat
  BY WindowsAssumption DEF WindowsInv, LogTypes, WindowsAssumption
<1>3. LooperTypes' /\ CallsInv' /\ RepeatsInv' /\ RiskInv'
  BY <1>1 DEF WindowsInv, LooperTypes, CallsInv, RepeatsInv, RiskInv, Through, Entry
<1>4. LogTypes'
  BY <1>1, <1>2 DEF LogTypes
<1>5. ASSUME NEW l \in Loopers PROVE CallInv(l)'
  <2>1. looper[l].ts \in Nat
    BY <1>2 DEF LooperTypes
  <2>. QED BY <1>1, <1>2, <2>1 DEF CallInv, WindowsInv
<1>. QED BY <1>3, <1>4, <1>5 DEF WindowsInv

(* An entry that weighs nothing may be added anywhere.                     *)
LEMMA Weightless ==
  ASSUME NEW log, NEW weight, IsFiniteSet(WindowUnits(log, weight)), NEW e, weight[e.sig] = 0,
         NEW more, more \subseteq log \cup {e}
  PROVE  /\ IsFiniteSet(WindowUnits(more, weight))
         /\ \A t \in Int : WindowUnits(InWindow(more, t), weight) \subseteq WindowUnits(InWindow(log, t), weight)
<1>1. ASSUME NEW some, NEW u \in WindowUnits(some \cup {e}, weight) PROVE u \in WindowUnits(some, weight)
  <2>1. PICK x \in some \cup {e} : \E k \in 1 .. weight[x.sig] : u = <<x, k>>
    BY <1>1, UnitsOf
  <2>2. x # e
    BY <2>1
  <2>. QED BY <2>1, <2>2, UnitsOf
<1>2. IsFiniteSet(WindowUnits(more, weight))
  <2>1. WindowUnits(more, weight) \subseteq WindowUnits(log \cup {e}, weight)
    BY UnitsGrow
  <2>2. WindowUnits(more, weight) \subseteq WindowUnits(log, weight)
    BY <1>1, <2>1
  <2>. QED BY <2>2, FS_Subset
<1>3. \A t \in Int : InWindow(more, t) \subseteq InWindow(log, t) \cup {e}
  BY DEF InWindow
<1>4. \A t \in Int : WindowUnits(InWindow(more, t), weight) \subseteq WindowUnits(InWindow(log, t) \cup {e}, weight)
  BY <1>3, UnitsGrow
<1>. QED BY <1>1, <1>2, <1>4

(* The loop governor's step, for each of its two counts.                   *)
LEMMA CheckLoopKeeps ==
  ASSUME WindowsInv, NEW l0 \in Loopers, CheckLoop(l0)
  PROVE  WindowsInv'
<1> DEFINE e == Entry(l0)
           kept == Kept(runtime, looper[l0].ts)
           allowed == /\ MaxCallsPerWindow > 0 => Weigh(kept, EachCall) + 1 <= MaxCallsPerWindow
                      /\ MaxRepeats > 0 => Weigh(kept, Repeats(looper[l0].sig)) + 1 <= MaxRepeats
<1>1. /\ looper[l0].at = "loop"
      /\ runtime' = IF MaxCallsPerWindow = 0 /\ MaxRepeats = 0 THEN runtime ELSE kept \cup {e}
      /\ looper' = [looper EXCEPT ![l0] = IF allowed THEN [looper[l0] EXCEPT !.at = "risk"] ELSE NoCall]
      /\ clock' = clock /\ risky' = risky /\ passed' = passed /\ windowCalls' = windowCalls
  BY DEF CheckLoop
<1>2. LooperTypes /\ LogTypes /\ \A l \in Loopers : CallInv(l)
  BY DEF WindowsInv
<1>3. /\ e \in WindowEntries /\ e.ts = looper[l0].ts /\ e.sig = looper[l0].sig
      /\ e.n \in 1 .. windowCalls /\ e.ts \in 0 .. clock /\ e.sig \in Signatures
  BY <1>1, EntryIsEntry
<1>4. looper[l0] \in [at : {"idle", "loop", "risk"}, n : Nat, ts : Nat, sig : Signatures \cup {"none"}]
  BY <1>2 DEF LooperTypes
<1> HIDE DEF allowed, kept, e
<1>5. /\ \A l \in Loopers \ {l0} : looper'[l] = looper[l]
      /\ LooperTypes'
      /\ allowed => looper'[l0] = [at |-> "risk", n |-> looper[l0].n, ts |-> looper[l0].ts, sig |-> looper[l0].sig]
      /\ ~allowed => looper'[l0].at = "idle"
  <2>1. NoCall \in [at : {"idle", "loop", "risk"}, n : Nat, ts : Nat, sig : Signatures \cup {"none"}]
        /\ NoCall.at = "idle"
    BY DEF NoCall
  <2>2. [looper[l0] EXCEPT !.at = "risk"] = [at |-> "risk", n |-> looper[l0].n, ts |-> looper[l0].ts, sig |-> looper[l0].sig]
    BY <1>4
  <2>. QED BY <1>1, <1>2, <1>4, <2>1, <2>2 DEF LooperTypes
<1>6. looper'[l0].at \in {"idle", "risk"}
  BY <1>5
<1>7. ASSUME NEW l \in Loopers, l # l0 PROVE Entry(l)' = Entry(l)
  BY <1>5, <1>7 DEF Entry
<1>8. Through' \subseteq Through \cup {e} /\ (Through' \subseteq Through \/ allowed)
  <2>1. SUFFICES ASSUME NEW x \in Through' PROVE x \in Through \/ (x = e /\ allowed)
    OBVIOUS
  <2>2. CASE x \in passed
    BY <2>2 DEF Through
  <2>3. CASE x \notin passed
    <3>1. PICK l \in Loopers : looper'[l].at = "risk" /\ x = Entry(l)'
      BY <1>1, <2>1, <2>3 DEF Through
    <3>2. CASE l = l0
      <4>1. allowed
        BY <1>5, <3>1, <3>2
      <4>2. Entry(l0)' = Entry(l0)
        BY <1>5, <4>1 DEF Entry
      <4>. QED BY <3>1, <3>2, <4>1, <4>2 DEF e
    <3>3. CASE l # l0
      BY <1>5, <1>7, <3>1, <3>3 DEF Through
    <3>. QED BY <3>2, <3>3
  <2>. QED BY <2>2, <2>3
<1>9. runtime \in SUBSET WindowEntries /\ Through \in SUBSET WindowEntries
  BY <1>2, ThroughIsEntries DEF LogTypes
<1>10. ASSUME MaxCallsPerWindow > 0 \/ MaxRepeats > 0, NEW weight, NEW limit \in Nat, weight[e.sig] \in 0 .. 1,
              Bounded(runtime, Through, looper, {"loop"}, weight, limit, 1),
              allowed => weight[e.sig] = 0 \/ Weigh(kept, weight) + weight[e.sig] <= limit
       PROVE  Bounded(runtime', Through', looper', {"loop"}, weight, limit, 1)
  <2> DEFINE let1 == Through'
             lp1 == looper'
  <2>1. /\ let1 \subseteq Through \cup {e}
        /\ let1 \subseteq Through \/ weight[e.sig] = 0 \/ Weigh(Kept(runtime, e.ts), weight) + weight[e.sig] <= limit
    BY <1>3, <1>8, <1>10 DEF kept
  <2>2. /\ looper[l0].at \in {"loop"} /\ looper[l0].ts = e.ts /\ lp1[l0].at \notin {"loop"}
        /\ \A l \in Loopers \ {l0} : lp1[l] = looper[l]
    BY <1>1, <1>3, <1>5, <1>6
  <2> HIDE DEF let1, lp1
  <2>3. Bounded(Kept(runtime, e.ts) \cup {e}, let1, lp1, {"loop"}, weight, limit, 1)
    BY <1>3, <1>9, <1>10, <2>1, <2>2, BoundedTracks
  <2>4. runtime' = Kept(runtime, e.ts) \cup {e}
    BY <1>1, <1>3, <1>10 DEF kept
  <2>. QED BY <2>3, <2>4 DEF let1, lp1
<1>11. CallsInv'
  <2>1. SUFFICES ASSUME MaxCallsPerWindow > 0
                 PROVE  Bounded(runtime', Through', looper', {"loop"}, EachCall, MaxCallsPerWindow, 1)
    BY DEF CallsInv
  <2>2. EachCall[e.sig] = 1 /\ MaxCallsPerWindow \in Nat
    BY <1>3, Weights
  <2>3. Bounded(runtime, Through, looper, {"loop"}, EachCall, MaxCallsPerWindow, 1)
    BY <2>1 DEF WindowsInv, CallsInv
  <2>4. allowed => Weigh(kept, EachCall) + EachCall[e.sig] <= MaxCallsPerWindow
    BY <2>1, <2>2 DEF allowed
  <2>. QED BY <1>10, <2>1, <2>2, <2>3, <2>4
<1>12. RepeatsInv'
  <2>1. SUFFICES ASSUME MaxRepeats > 0, NEW x \in Signatures
                 PROVE  Bounded(runtime', Through', looper', {"loop"}, Repeats(x), MaxRepeats, 1)
    BY DEF RepeatsInv
  <2>2. Repeats(x)[e.sig] = (IF e.sig = x THEN 1 ELSE 0) /\ MaxRepeats \in Nat
    BY <1>3, Weights
  <2>3. Bounded(runtime, Through, looper, {"loop"}, Repeats(x), MaxRepeats, 1)
    BY <2>1 DEF WindowsInv, RepeatsInv
  <2>4. allowed => Repeats(x)[e.sig] = 0 \/ Weigh(kept, Repeats(x)) + Repeats(x)[e.sig] <= MaxRepeats
    <3>1. CASE e.sig = x
      BY <1>3, <2>1, <2>2, <3>1 DEF allowed
    <3>. QED BY <2>2, <3>1
  <2>5. Repeats(x)[e.sig] \in 0 .. 1
    BY <2>2
  <2>. QED BY <1>10, <2>1, <2>2, <2>3, <2>4, <2>5
<1>13. RiskInv'
  <2>1. SUFFICES ASSUME MaxRisky > 0
                 PROVE  Bounded(risky, passed, looper', {"loop", "risk"}, RiskWeight, MaxRisky, HighestRisk)
    BY <1>1 DEF RiskInv
  <2>2. Bounded(risky, passed, looper, {"loop", "risk"}, RiskWeight, MaxRisky, HighestRisk)
    BY <2>1 DEF WindowsInv, RiskInv
  <2>3. \A t \in Int : Waiting(looper', {"loop", "risk"}, t) \subseteq Waiting(looper, {"loop", "risk"}, t)
    BY <1>1, <1>5 DEF Waiting
  <2>4. IsFiniteSet(WindowUnits(passed, RiskWeight))
    BY <2>2 DEF Bounded
  <2>. QED BY <2>2, <2>3, <2>4, Weights, BoundedStays
<1>14. LogTypes'
  <2>1. kept \subseteq runtime
    BY DEF kept, Kept
  <2>. QED BY <1>1, <1>2, <1>3, <2>1 DEF LogTypes
<1>15. ASSUME NEW l \in Loopers PROVE CallInv(l)'
  <2>1. CASE l = l0
    BY <1>1, <1>2, <1>5, <2>1 DEF CallInv
  <2>2. CASE l # l0
    BY <1>1, <1>2, <1>5, <2>2 DEF CallInv
  <2>. QED BY <2>1, <2>2
<1>. QED BY <1>5, <1>11, <1>12, <1>13, <1>14, <1>15 DEF WindowsInv

(* The aggregation governor's step: the loop governor's books lose one who *)
(* waits for the other.                                                    *)
LEMMA CheckRiskKeeps ==
  ASSUME WindowsInv, NEW l0 \in Loopers, CheckRisk(l0)
  PROVE  WindowsInv'
<1> DEFINE e == Entry(l0)
           kept == Kept(risky, looper[l0].ts)
           w == RiskWeight[looper[l0].sig]
           allowed == w = 0 \/ MaxRisky = 0 \/ Weigh(kept, RiskWeight) + w <= MaxRisky
<1>1. /\ looper[l0].at = "risk" /\ risky' = (IF w = 0 \/ MaxRisky = 0 THEN risky ELSE kept \cup {e})
      /\ passed' = (IF allowed THEN passed \cup {e} ELSE passed)
      /\ looper' = [looper EXCEPT ![l0] = NoCall]
      /\ clock' = clock /\ runtime' = runtime /\ windowCalls' = windowCalls
  BY DEF CheckRisk
<1>2. LooperTypes /\ LogTypes /\ \A l \in Loopers : CallInv(l)
  BY DEF WindowsInv
<1>3. /\ e \in WindowEntries /\ e.ts = looper[l0].ts /\ e.sig = looper[l0].sig
      /\ e.n \in 1 .. windowCalls /\ e.ts \in 0 .. clock /\ e.sig \in Signatures
  BY <1>1, EntryIsEntry
<1>4. e \in Through
  BY <1>1 DEF Through, e
<1> HIDE DEF allowed, kept, e
<1>5. /\ \A l \in Loopers \ {l0} : looper'[l] = looper[l]
      /\ LooperTypes' /\ looper'[l0].at = "idle"
  <2>1. NoCall \in [at : {"idle", "loop", "risk"}, n : Nat, ts : Nat, sig : Signatures \cup {"none"}]
        /\ NoCall.at = "idle"
    BY DEF NoCall
  <2>. QED BY <1>1, <1>2, <2>1 DEF LooperTypes
<1>6. Through' \subseteq Through
  <2>1. SUFFICES ASSUME NEW x \in Through' PROVE x \in Through
    OBVIOUS
  <2>2. CASE x \in passed'
    BY <1>1, <1>4, <2>2 DEF Through
  <2>3. CASE x \notin passed'
    <3>1. PICK l \in Loopers : looper'[l].at = "risk" /\ x = Entry(l)'
      BY <2>1, <2>3 DEF Through
    <3>2. l # l0
      BY <1>5, <3>1
    <3>3. looper'[l] = looper[l]
      BY <1>5, <3>2
    <3>. QED BY <3>1, <3>3 DEF Through, Entry
  <2>. QED BY <2>2, <2>3
<1>7. ASSUME NEW weight, NEW limit \in Nat, Bounded(runtime, Through, looper, {"loop"}, weight, limit, 1)
      PROVE  Bounded(runtime', Through', looper', {"loop"}, weight, limit, 1)
  <2> DEFINE let1 == Through'
             lp1 == looper'
  <2>1. IsFiniteSet(WindowUnits(Through, weight))
    BY <1>7 DEF Bounded
  <2>2. let1 \subseteq Through
    BY <1>6
  <2>3. lp1[l0].at \notin {"loop"} /\ \A l \in Loopers \ {l0} : lp1[l] = looper[l]
    BY <1>5
  <2> HIDE DEF let1, lp1
  <2>4. /\ IsFiniteSet(WindowUnits(let1, weight))
        /\ \A t \in Int : WindowUnits(InWindow(let1, t), weight) \subseteq WindowUnits(InWindow(Through, t), weight)
    BY <2>1, <2>2, FinitePart
  <2>5. \A t \in Int : Waiting(lp1, {"loop"}, t) \subseteq Waiting(looper, {"loop"}, t)
    BY <2>3, WaitingShrinks
  <2>6. Bounded(runtime, let1, lp1, {"loop"}, weight, limit, 1)
    BY <1>7, <2>4, <2>5, BoundedStays
  <2>. QED BY <1>1, <2>6 DEF let1, lp1
<1>8. CallsInv'
  BY <1>7, Weights DEF WindowsInv, CallsInv
<1>9. RepeatsInv'
  BY <1>7, Weights DEF WindowsInv, RepeatsInv
<1>10. RiskInv'
  <2>1. SUFFICES ASSUME MaxRisky > 0
                 PROVE  Bounded(risky', passed', looper', {"loop", "risk"}, RiskWeight, MaxRisky, HighestRisk)
    BY DEF RiskInv
  <2>2. Bounded(risky, passed, looper, {"loop", "risk"}, RiskWeight, MaxRisky, HighestRisk)
    BY <2>1 DEF WindowsInv, RiskInv
  <2>3. passed' \subseteq passed \cup {e} /\ (passed' \subseteq passed \/ allowed)
    BY <1>1
  <2>4. w = RiskWeight[e.sig] /\ RiskWeight[e.sig] \in 0 .. HighestRisk /\ HighestRisk \in Nat /\ MaxRisky \in Nat
    BY <1>3, Weights
  <2> DEFINE let1 == passed'
             lp1 == looper'
  <2>5. /\ let1 \subseteq passed \cup {e}
        /\ let1 \subseteq passed \/ RiskWeight[e.sig] = 0 \/ Weigh(Kept(risky, e.ts), RiskWeight) + RiskWeight[e.sig] <= MaxRisky
    BY <1>3, <2>1, <2>3, <2>4 DEF allowed, kept
  <2>6. /\ looper[l0].at \in {"loop", "risk"} /\ lp1[l0].at \notin {"loop", "risk"}
        /\ \A l \in Loopers \ {l0} : lp1[l] = looper[l]
    BY <1>1, <1>5
  <2>7. IsFiniteSet(WindowUnits(passed, RiskWeight))
    BY <2>2 DEF Bounded
  <2> HIDE DEF let1, lp1, w
  <2>8. CASE w = 0
    <3>1. RiskWeight[e.sig] = 0
      BY <2>4, <2>8
    <3>2. /\ IsFiniteSet(WindowUnits(let1, RiskWeight))
          /\ \A t \in Int : WindowUnits(InWindow(let1, t), RiskWeight) \subseteq WindowUnits(InWindow(passed, t), RiskWeight)
      BY <2>5, <2>7, <3>1, Weightless
    <3>3. \A t \in Int : Waiting(lp1, {"loop", "risk"}, t) \subseteq Waiting(looper, {"loop", "risk"}, t)
      BY <2>6, WaitingShrinks
    <3>4. Bounded(risky, let1, lp1, {"loop", "risk"}, RiskWeight, MaxRisky, HighestRisk)
      BY <2>2, <2>4, <3>2, <3>3, BoundedStays
    <3>5. risky' = risky
      BY <1>1, <2>8 DEF w
    <3>. QED BY <3>4, <3>5 DEF let1, lp1
  <2>9. CASE w # 0
    <3>1. risky \in SUBSET WindowEntries /\ passed \in SUBSET WindowEntries
      BY <1>2 DEF LogTypes
    <3>2. Bounded(Kept(risky, e.ts) \cup {e}, let1, lp1, {"loop", "risk"}, RiskWeight, MaxRisky, HighestRisk)
      BY <1>3, <2>2, <2>4, <2>5, <2>6, <3>1, BoundedTracks
    <3>3. risky' = Kept(risky, e.ts) \cup {e}
      BY <1>1, <1>3, <2>1, <2>4, <2>9 DEF kept, w
    <3>. QED BY <3>2, <3>3 DEF let1, lp1
  <2>. QED BY <2>8, <2>9
<1>11. LogTypes'
  <2>1. kept \subseteq risky
    BY DEF kept, Kept
  <2>2. /\ risky' \subseteq risky \cup {e} /\ passed' \subseteq passed \cup {e}
    BY <1>1, <2>1
  <2>. QED BY <1>1, <1>2, <1>3, <2>2 DEF LogTypes
<1>12. ASSUME NEW l \in Loopers PROVE CallInv(l)'
  <2>1. CASE l = l0
    BY <1>5, <2>1 DEF CallInv
  <2>2. CASE l # l0
    BY <1>1, <1>2, <1>5, <2>2 DEF CallInv
  <2>. QED BY <2>1, <2>2
<1>. QED BY <1>5, <1>8, <1>9, <1>10, <1>11, <1>12 DEF WindowsInv

-------------------------------------------------------------------------------
(* Critique loops *)

LEMMA WindowsLeaveLoops == ASSUME LoopInv, WindowNext PROVE LoopInv'
<1>1. loop' = loop
  BY DEF WindowNext, TimePasses, Receive, CheckLoop, CheckRisk
<1>. QED BY <1>1 DEF LoopInv, LoopTypes, LoopsAreBounded

LEMMA LoopsLeaveWindows == ASSUME WindowsInv, UNCHANGED windowVars PROVE WindowsInv'
<1>1. /\ clock' = clock /\ looper' = looper /\ runtime' = runtime
      /\ risky' = risky /\ passed' = passed /\ windowCalls' = windowCalls
  BY DEF windowVars
<1>2. LooperTypes' /\ LogTypes' /\ \A l \in Loopers : CallInv(l)'
  BY <1>1 DEF WindowsInv, LooperTypes, LogTypes, CallInv
<1>3. CallsInv' /\ RepeatsInv' /\ RiskInv'
  BY <1>1 DEF WindowsInv, CallsInv, RepeatsInv, RiskInv, Through, Entry
<1>. QED BY <1>2, <1>3 DEF WindowsInv

LEMMA StartLoopKeeps == ASSUME LoopInv, NEW c \in LoopConfigs, StartLoop(c) PROVE LoopInv'
<1>1. /\ ~loop.started /\ loop' = [NoLoop EXCEPT !.config = c, !.started = TRUE]
      /\ c \in [iterations : Nat, cost : Nat, minImprovement : Nat]
  BY WindowsAssumption DEF StartLoop, WindowsAssumption
<1>2. loop' = [config |-> c, started |-> TRUE, scores |-> <<>>, cost |-> 0, stopped |-> "no"]
  BY <1>1 DEF NoLoop
<1>3. <<>> \in Seq(Int) /\ Len(<<>>) = 0
  OBVIOUS
<1>4. LoopTypes'
  <2>1. c \in [iterations : Nat, cost : Nat, minImprovement : Nat] /\ <<>> \in Seq(Int)
    BY <1>1, <1>3
  <2>. QED BY <1>2, <2>1 DEF LoopTypes
<1>5. loop'.config = c /\ loop'.started /\ loop'.scores = <<>> /\ loop'.cost = 0 /\ loop'.stopped = "no"
  BY <1>2
<1>6. c.iterations \in Nat /\ c.cost \in Nat
  BY <1>1
<1>7. LoopsAreBounded'
  <2>1. loop.config' = c /\ Len(loop.scores)' = 0 /\ loop.cost' = 0 /\ loop.stopped' = "no"
    BY <1>3, <1>5
  <2>. QED BY <1>6, <2>1 DEF LoopsAreBounded
<1>. QED BY <1>4, <1>5, <1>7 DEF LoopInv

(* A recorded iteration that reaches a limit stops the loop.               *)
LEMMA RecordIterationKeeps ==
  ASSUME LoopInv, NEW s \in Scores, NEW c \in LoopCosts, RecordIteration(s, c)
  PROVE  LoopInv'
<1> DEFINE n == Len(loop.scores) + 1
           cost == loop.cost + c
           cfg == loop.config
           full == cfg.iterations > 0 /\ n >= cfg.iterations
           dear == cfg.cost > 0 /\ cost >= cfg.cost
           flat == cfg.minImprovement > 0 /\ n >= 2 /\ Improvement(loop.scores, s) < cfg.minImprovement
           why == IF full THEN "MAX_ITERATIONS_REACHED" ELSE IF dear THEN "MAX_COST_REACHED"
                  ELSE IF flat THEN "CONVERGED" ELSE "no"
<1>1. loop.started /\ loop.stopped = "no" /\ LoopTypes /\ LoopsAreBounded
  BY DEF RecordIteration, LoopInv
<1>2. /\ loop.scores \in Seq(Int) /\ s \in Int /\ c \in Nat /\ loop.cost \in Nat
      /\ cfg \in [iterations : Nat, cost : Nat, minImprovement : Nat]
  BY <1>1, WindowsAssumption DEF LoopTypes, WindowsAssumption
<1>3. loop' = [loop EXCEPT !.scores = Append(loop.scores, s), !.cost = cost, !.stopped = why]
  BY DEF RecordIteration
<1>4. /\ Append(loop.scores, s) \in Seq(Int) /\ Len(Append(loop.scores, s)) = n
      /\ n \in Nat /\ cost \in Nat
  BY <1>2
<1>5. loop' = [config |-> cfg, started |-> TRUE, scores |-> Append(loop.scores, s), cost |-> cost, stopped |-> why]
  BY <1>1, <1>3 DEF LoopTypes
<1>6. why \in {"no", "MAX_ITERATIONS_REACHED", "MAX_COST_REACHED", "CONVERGED", "ENDED"}
      /\ (full => why # "no") /\ (dear => why # "no")
  OBVIOUS
<1>7. cfg.iterations > 0 => n <= cfg.iterations
  BY <1>1, <1>2 DEF LoopsAreBounded
<1> HIDE DEF why
<1>8. LoopTypes'
  BY <1>2, <1>4, <1>5, <1>6 DEF LoopTypes
<1>9. LoopsAreBounded'
  BY <1>2, <1>4, <1>5, <1>6, <1>7 DEF LoopsAreBounded
<1>. QED BY <1>5, <1>8, <1>9 DEF LoopInv

LEMMA StopLoopKeeps == ASSUME LoopInv, StopLoop PROVE LoopInv'
<1>1. loop.started /\ LoopTypes /\ LoopsAreBounded /\ loop' = [loop EXCEPT !.stopped = "ENDED"]
  BY DEF StopLoop, LoopInv
<1>2. loop' = [config |-> loop.config, started |-> loop.started, scores |-> loop.scores,
               cost |-> loop.cost, stopped |-> "ENDED"]
  BY <1>1 DEF LoopTypes
<1>3. LoopTypes'
  BY <1>1, <1>2 DEF LoopTypes
<1>. QED BY <1>1, <1>2, <1>3 DEF LoopInv, LoopsAreBounded

-------------------------------------------------------------------------------
(* Overtaken or not, a window has let through no more than its limit and   *)
(* one call of each other goroutine.                                       *)
LEMMA BoundedHolds ==
  ASSUME NEW log, NEW let, NEW lp, NEW places, NEW weight, NEW limit \in Nat, NEW h \in Nat,
         Bounded(log, let, lp, places, weight, limit, h), NEW less, less \subseteq let, NEW t \in Int
  PROVE  Weigh(InWindow(less, t), weight) <= limit + (Cardinality(Loopers) - 1) * h
<1> DEFINE a == Cardinality(Waiting(lp, places, t))
           n1 == Cardinality(Loopers) - 1
           u == Weigh(InWindow(less, t), weight)
           v == Weigh(InWindow(let, t), weight)
<1>1. a \in Nat /\ n1 \in Nat
  BY WaitingFinite
<1>2. u \in Nat /\ v \in Nat /\ u <= v
  <2>1. IsFiniteSet(WindowUnits(let, weight))
    BY DEF Bounded
  <2>2. InWindow(let, t) \subseteq let /\ InWindow(less, t) \subseteq InWindow(let, t)
    BY DEF InWindow
  <2>3. IsFiniteSet(WindowUnits(InWindow(let, t), weight))
    BY <2>1, <2>2, UnitsGrow, FS_Subset
  <2>. QED BY <2>2, <2>3, UnitsGrow, Lighter
<1>3. v + a * h <= limit + n1 * h \/ v <= limit
  <2>1. CASE \E e \in log : e.ts > t
    BY <2>1 DEF Bounded
  <2>2. CASE ~\E e \in log : e.ts > t
    BY <2>2 DEF Bounded
  <2>. QED BY <2>1, <2>2
<1> HIDE DEF a, n1, u, v
<1>4. a * h >= 0 /\ a * h \in Int /\ n1 * h >= 0 /\ n1 * h \in Int
  BY <1>1, Times
<1> DEFINE x == a * h  y == n1 * h
<1>5. x >= 0 /\ x \in Int /\ y >= 0 /\ y \in Int /\ (v + x <= limit + y \/ v <= limit)
  BY <1>3, <1>4
<1> HIDE DEF x, y
<1>6. u <= limit + y
  BY <1>2, <1>5
<1>. QED BY <1>6 DEF y, u, n1

LEMMA WindowsAreSafe == WindowsInv /\ LoopInv => GovernorsHold
<1>. SUFFICES ASSUME WindowsInv, LoopInv PROVE GovernorsHold
  OBVIOUS
<1>1. LogTypes /\ LooperTypes /\ LoopTypes /\ LoopsAreBounded
  BY DEF WindowsInv, LoopInv
<1>2. WTypeOK
  <2>1. clock \in 0 .. MaxWindowTime /\ windowCalls \in 0 .. MaxWindowCalls
    BY <1>1, WindowsAssumption DEF LogTypes, WindowsAssumption
  <2>. QED BY <1>1, <2>1 DEF WTypeOK, LogTypes, LooperTypes, LoopTypes
<1>3. ASSUME NEW t \in 0 .. MaxWindowTime
      PROVE  LET overtaken == Cardinality(Loopers) - 1
                 let == InWindow(passed, t)
             IN
             /\ MaxCallsPerWindow > 0 => Weigh(let, EachCall) <= MaxCallsPerWindow + overtaken
             /\ \A s \in Signatures : MaxRepeats > 0 => Weigh(let, Repeats(s)) <= MaxRepeats + overtaken
             /\ MaxRisky > 0 => Weigh(let, RiskWeight) <= MaxRisky + overtaken * HighestRisk
  <2>1. t \in Int /\ passed \subseteq Through /\ passed \subseteq passed
    BY WindowsAssumption DEF WindowsAssumption, Through
  <2>2. Cardinality(Loopers) - 1 \in Int /\ (Cardinality(Loopers) - 1) * 1 = Cardinality(Loopers) - 1
    BY WaitingFinite
  <2>3. ASSUME MaxCallsPerWindow > 0
        PROVE  Weigh(InWindow(passed, t), EachCall) <= MaxCallsPerWindow + (Cardinality(Loopers) - 1)
    <3>1. Bounded(runtime, Through, looper, {"loop"}, EachCall, MaxCallsPerWindow, 1)
      BY <2>3 DEF WindowsInv, CallsInv
    <3>2. Weigh(InWindow(passed, t), EachCall) <= MaxCallsPerWindow + (Cardinality(Loopers) - 1) * 1
      BY <2>1, <3>1, Weights, BoundedHolds
    <3>. QED BY <2>2, <3>2
  <2>4. ASSUME NEW s \in Signatures, MaxRepeats > 0
        PROVE  Weigh(InWindow(passed, t), Repeats(s)) <= MaxRepeats + (Cardinality(Loopers) - 1)
    <3>1. Bounded(runtime, Through, looper, {"loop"}, Repeats(s), MaxRepeats, 1)
      BY <2>4 DEF WindowsInv, RepeatsInv
    <3>2. Weigh(InWindow(passed, t), Repeats(s)) <= MaxRepeats + (Cardinality(Loopers) - 1) * 1
      BY <2>1, <3>1, Weights, BoundedHolds
    <3>. QED BY <2>2, <3>2
  <2>5. ASSUME MaxRisky > 0
        PROVE  Weigh(InWindow(passed, t), RiskWeight) <= MaxRisky + (Cardinality(Loopers) - 1) * HighestRisk
    <3>1. Bounded(risky, passed, looper, {"loop", "risk"}, RiskWeight, MaxRisky, HighestRisk)
      BY <2>5 DEF WindowsInv, RiskInv
    <3>. QED BY <2>1, <3>1, Weights, BoundedHolds
  <2>. QED BY <2>3, <2>4, <2>5
<1>4. WindowsHold
  BY <1>3 DEF WindowsHold
<1>. QED BY <1>1, <1>2, <1>4 DEF GovernorsHold

LEMMA GovernorsStep ==
  ASSUME WindowsInv, LoopInv, [WNext]_wVars PROVE WindowsInv' /\ LoopInv'
<1>1. CASE TimePasses
  <2>1. WindowNext
    BY <1>1 DEF WindowNext
  <2>. QED BY <1>1, <2>1, TimeKeeps, WindowsLeaveLoops
<1>2. ASSUME NEW l \in Loopers, Receive(l) \/ CheckLoop(l) \/ CheckRisk(l) PROVE WindowsInv' /\ LoopInv'
  <2>1. WindowNext
    BY <1>2 DEF WindowNext
  <2>2. WindowsInv'
    BY <1>2, ReceiveKeeps, CheckLoopKeeps, CheckRiskKeeps
  <2>. QED BY <2>1, <2>2, WindowsLeaveLoops
<1>3. ASSUME NEW c \in LoopConfigs, StartLoop(c) PROVE WindowsInv' /\ LoopInv'
  <2>1. UNCHANGED windowVars
    BY <1>3 DEF StartLoop
  <2>. QED BY <1>3, <2>1, LoopsLeaveWindows, StartLoopKeeps
<1>4. ASSUME NEW s \in Scores, NEW c \in LoopCosts, RecordIteration(s, c) PROVE WindowsInv' /\ LoopInv'
  <2>1. UNCHANGED windowVars
    BY <1>4 DEF RecordIteration
  <2>. QED BY <1>4, <2>1, LoopsLeaveWindows, RecordIterationKeeps
<1>5. CASE StopLoop
  <2>1. UNCHANGED windowVars
    BY <1>5 DEF StopLoop
  <2>. QED BY <1>5, <2>1, LoopsLeaveWindows, StopLoopKeeps
<1>6. CASE UNCHANGED wVars
  <2>1. UNCHANGED windowVars /\ loop' = loop
    BY <1>6 DEF wVars
  <2>2. LoopInv'
    BY <2>1 DEF LoopInv, LoopTypes, LoopsAreBounded
  <2>. QED BY <2>1, <2>2, LoopsLeaveWindows
<1>. QED BY <1>1, <1>2, <1>3, <1>4, <1>5, <1>6 DEF WNext, WindowNext, LoopNext

(* In no window of time do the two governors let more pass than their      *)
(* limits, but for one call of each other goroutine that was received      *)
(* before the window's end and overtaken; and the critique loops stop at   *)
(* their limits.                                                           *)
THEOREM GovernorsAreKept == WSpec => []GovernorsHold
<1>1. WInit => WindowsInv /\ LoopInv
  BY WindowsBegin
<1>2. WindowsInv /\ LoopInv /\ [WNext]_wVars => WindowsInv' /\ LoopInv'
  BY GovernorsStep
<1>. QED BY <1>1, <1>2, WindowsAreSafe, PTL DEF WSpec

-------------------------------------------------------------------------------
(* The gates of a call: the inductive invariant *)

Effects == {"PERMIT", "DENY", "DEFER", "SHADOW"}
Unlooped == {"principal", "session", "fallback", "manager", "set_phase", "in_phase", "checks", "loop"}
Uncounted == Unlooped \cup {"guard", "count"}
PastChecks == {"loop", "guard", "count", "risk", "rules", "credential"}
GateSteps == Uncounted \cup PastChecks \cup {"decide"}

Flight(at, call, doc, owns, n, count, verdict, gated, code) ==
    [at |-> at, call |-> call, doc |-> doc, owns |-> owns, n |-> n, counted |-> count,
     effect |-> verdict, gated |-> gated, code |-> code]

IsFlight(r) ==
    /\ r = Flight(r.at, r.call, r.doc, r.owns, r.n, r.counted, r.effect, r.gated, r.code)
    /\ r.at \in GateSteps /\ r.doc \in GatePolicies0 /\ r.owns \in BOOLEAN /\ r.n \in Nat /\ r.counted \in Nat
    /\ {"id", "tool", "env", "phase"} \subseteq DOMAIN r.call /\ r.call.env \in Nat

(* What a permitted call has kept, and what the phase manager let through. *)
Contract(timeout, env, doc, tool) ==
    /\ timeout > 0 => timeout \in MinTimeout .. MaxTimeout
    /\ LET about == {e \in doc.isolation : tool \in e.tools} IN
       about # {} /\ (\A e \in about : e.mode = "required") => env >= doc.backend
Lists(phases, n) == n \in DOMAIN phases /\ (phases[n].tools # {} \/ DOMAIN phases[n].steps # {})
InPhase(phases, tool, n) == n # "none" /\ Lists(phases, n) => tool \in phases[n].tools

(* A call on its way, with count calls counted of number evaluations.      *)
FlightOk(r, count, number, registered, phases) ==
    /\ IsFlight(r) /\ r.n \in 1 .. number /\ r.counted \in 0 .. count
    /\ r.at \in Uncounted => r.counted = 0
    /\ r.doc.maxCalls > 0 /\ r.counted > r.doc.maxCalls => r.at = "decide" /\ r.effect = "DENY"
    /\ r.at = "credential" => r.effect = "PERMIT"
    /\ r.at = "decide" => r.effect \in Effects
    /\ r.at = "decide" /\ r.effect = "DEFER" /\ r.code # "CONTEXT" => r.call.id \in registered
    /\ r.at \in PastChecks \/ (r.at = "decide" /\ r.effect = "PERMIT") =>
          Contract(Timeout(r.call), r.call.env, r.doc, r.call.tool)
    /\ InPhase(phases, r.call.tool, r.gated)

AnswerOk(a, count, number, registered, phases) ==
    /\ a.n \in 1 .. number /\ a.counted \in 0 .. count /\ a.effect \in Effects
    /\ a.doc.maxCalls > 0 /\ a.counted > a.doc.maxCalls => a.effect = "DENY"
    /\ a.effect = "DEFER" /\ a.code # "CONTEXT" => a.id \in registered
    /\ a.effect = "PERMIT" => Contract(a.timeout, a.env, a.doc, a.tool)
    /\ InPhase(phases, a.tool, a.gated)

(* No two calls are one: not by number, nor by their place in the count.   *)
Flying(e) == {w \in GateEvaluators : e[w] # NoEv}
Apart(e, told) ==
    /\ \A v, w \in Flying(e) : v # w =>
          /\ e[v].n # e[w].n
          /\ e[v].counted > 0 => e[v].counted # e[w].counted
          /\ e[v].owns /\ e[w].owns => e[v].call.id # e[w].call.id
    /\ \A w \in Flying(e), a \in told : e[w].n # a.n /\ (a.counted > 0 => e[w].counted # a.counted)
    /\ \A a, b \in told : a.counted > 0 /\ a.counted = b.counted => a = b

RecordOf(a) == [n |-> a.n, effect |-> a.effect, code |-> a.code]
Written(written, told) ==
    /\ \A a \in told :
         \/ a.code = "WAL_WRITE_FAILURE" /\ a.effect = "DENY" /\ \A i \in DOMAIN written : written[i].n # a.n
         \/ \E i \in DOMAIN written : written[i] = RecordOf(a)
    /\ \A i, j \in DOMAIN written : written[i].n = written[j].n => i = j
    /\ \A i \in DOMAIN written : \E a \in told : a.n = written[i].n

(* A handle is answered, or its call is about to be answered with it.      *)
Handled(registered, told, e) ==
    \A h \in registered :
       \/ \E a \in told : a.id = h /\ (a.effect = "DEFER" \/ a.code = "WAL_WRITE_FAILURE")
       \/ \E w \in Flying(e) : e[w].call.id = h /\ e[w].at = "decide" /\ e[w].effect = "DEFER"

Owned(chains, e) == chains = {e[w].call.id : w \in {x \in Flying(e) : e[x].owns}}

(* The counters: what is counted was answered or is on its way, and those  *)
(* that are still to be counted are evaluations as well.                   *)
StandingAt(e, places) == {w \in GateEvaluators : e[w].at \in places}
Done(told) == {a \in told : a.counted > 0}
Doing(e) == {w \in Flying(e) : e[w].counted > 0}
GateCounts(e, told, count, loops, number) ==
    /\ IsFiniteSet(told)
    /\ count = Cardinality(Done(told)) + Cardinality(Doing(e))
    /\ count + Cardinality(StandingAt(e, Uncounted)) <= number
    /\ loops + Cardinality(StandingAt(e, Unlooped)) <= number

GateTypes ==
    /\ policy \in GatePolicies0
    /\ phaseManager = [phases |-> phaseManager.phases, current |-> phaseManager.current, moves |-> phaseManager.moves]
    /\ phaseManager.current \in DOMAIN phaseManager.phases \cup {"none"}
    /\ counted \in Nat /\ loopCalls \in Nat /\ evaluations \in 0 .. MaxEvaluations
    /\ wal \in Seq(Range(wal)) /\ answers \in Seq(Answers)
    /\ ev = [w \in GateEvaluators |-> ev[w]]

GatesInv ==
    /\ GateTypes
    /\ \A w \in GateEvaluators :
          ev[w] = NoEv \/ FlightOk(ev[w], counted, evaluations, gateHandles, phaseManager.phases)
    /\ \A a \in Answers : AnswerOk(a, counted, evaluations, gateHandles, phaseManager.phases)
    /\ Apart(ev, Answers) /\ Written(wal, Answers) /\ Handled(gateHandles, Answers, ev)
    /\ Owned(active, ev) /\ GateCounts(ev, Answers, counted, loopCalls, evaluations)

-------------------------------------------------------------------------------
(* Records of calls, lists of refusals, and counts *)

LEMMA FlightFields ==
  ASSUME NEW at, NEW call, NEW doc, NEW owns, NEW n, NEW count, NEW verdict, NEW gated, NEW code,
         NEW r, r = Flight(at, call, doc, owns, n, count, verdict, gated, code)
  PROVE  /\ r.at = at /\ r.call = call /\ r.doc = doc /\ r.owns = owns /\ r.n = n /\ r.counted = count
         /\ r.effect = verdict /\ r.gated = gated /\ r.code = code
         /\ r = Flight(r.at, r.call, r.doc, r.owns, r.n, r.counted, r.effect, r.gated, r.code)
<1>1. /\ r.at = at /\ r.call = call /\ r.doc = doc /\ r.owns = owns /\ r.n = n /\ r.counted = count
      /\ r.effect = verdict /\ r.gated = gated /\ r.code = code
  BY DEF Flight
<1>. QED BY <1>1, Zenon

LEMMA NoEvIsIdle == NoEv.at = "idle" /\ NoEv.at \notin GateSteps /\ \A r : IsFlight(r) => r # NoEv
  BY DEF NoEv, GateSteps, Uncounted, Unlooped, PastChecks, IsFlight

LEMMA SmallMin ==
  ASSUME NEW I, I \subseteq 1 .. 8, I # {}
  PROVE  \E x \in I : \A y \in I : x <= y
<1>1. CASE 1 \in I
  BY <1>1
<1>2. CASE 1 \notin I /\ 2 \in I
  BY <1>2
<1>3. CASE 1 \notin I /\ 2 \notin I /\ 3 \in I
  BY <1>3
<1>4. CASE I \cap (1 .. 3) = {} /\ 4 \in I
  BY <1>4
<1>5. CASE I \cap (1 .. 4) = {} /\ 5 \in I
  BY <1>5
<1>6. CASE I \cap (1 .. 5) = {} /\ 6 \in I
  BY <1>6
<1>7. CASE I \cap (1 .. 6) = {}
  <2>1. \A x \in I : x = 7 \/ x = 8
    BY <1>7
  <2>2. CASE 7 \in I
    BY <2>1, <2>2
  <2>3. CASE 7 \notin I
    <3>1. PICK z \in I : TRUE
      OBVIOUS
    <3>2. \A y \in I : y = 8
      BY <2>1, <2>3
    <3>. QED BY <3>1, <3>2
  <2>. QED BY <2>2, <2>3
<1>. QED BY <1>1, <1>2, <1>3, <1>4, <1>5, <1>6, <1>7

(* When nothing refuses, no pair of the list does.                         *)
LEMMA NoneRefuses ==
  ASSUME NEW pairs, Len(pairs) \in 0 .. 8, FirstRefusal(pairs) = "none",
         \A i \in 1 .. Len(pairs) : pairs[i][2] => pairs[i][1] # "none"
  PROVE  \A i \in 1 .. Len(pairs) : ~pairs[i][2]
<1> DEFINE I == {i \in 1 .. Len(pairs) : pairs[i][2]}
<1>1. SUFFICES ASSUME I # {} PROVE FALSE
  OBVIOUS
<1>2. \E x \in I : \A y \in I : x <= y
  <2>1. I \subseteq 1 .. 8
    OBVIOUS
  <2> HIDE DEF I
  <2>. QED BY <1>1, <2>1, SmallMin
<1>3. Min(I) \in I
  <2> HIDE DEF I
  <2>. QED BY <1>2 DEF Min
<1>4. SelectInSeq(pairs, LAMBDA p : p[2]) = Min(I)
  BY <1>1 DEF SelectInSeq
<1>5. Min(I) # 0
  BY <1>3
<1>6. FirstRefusal(pairs) = pairs[Min(I)][1]
  BY <1>4, <1>5 DEF FirstRefusal
<1>. QED BY <1>3, <1>6

(* One element may have come or gone.                                      *)
LEMMA SetMoves ==
  ASSUME NEW S, IsFiniteSet(S), NEW T, NEW w, T \ {w} = S \ {w}
  PROVE  /\ IsFiniteSet(T) /\ Cardinality(S) \in Nat /\ Cardinality(T) \in Nat
         /\ w \in T /\ w \notin S => Cardinality(T) = Cardinality(S) + 1
         /\ w \in S /\ w \notin T => Cardinality(T) = Cardinality(S) - 1
         /\ (w \in T => w \in S) => Cardinality(T) <= Cardinality(S)
         /\ (w \in T <=> w \in S) => T = S
<1>1. Cardinality(S) \in Nat
  BY FS_CardinalityType
<1>2. CASE w \in T /\ w \notin S
  <2>1. T = S \cup {w}
    BY <1>2
  <2>. QED BY <1>1, <1>2, <2>1, FS_AddElement, FS_CardinalityType
<1>3. CASE w \in S /\ w \notin T
  <2>1. T = S \ {w}
    BY <1>3
  <2>2. IsFiniteSet(T) /\ Cardinality(T) = Cardinality(S) - 1
    BY <1>3, <2>1, FS_RemoveElement
  <2>. QED BY <1>1, <1>3, <2>2, FS_CardinalityType
<1>4. CASE w \in S <=> w \in T
  <2>1. T = S
    BY <1>4
  <2>. QED BY <1>1, <1>4, <2>1
<1>. QED BY <1>2, <1>3, <1>4

LEMMA AtMoves ==
  ASSUME NEW e, NEW e1, NEW w \in GateEvaluators, \A v \in GateEvaluators \ {w} : e1[v] = e[v], NEW places
  PROVE  /\ Cardinality(StandingAt(e, places)) \in Nat /\ Cardinality(StandingAt(e1, places)) \in Nat
         /\ e[w].at \notin places /\ e1[w].at \in places =>
               Cardinality(StandingAt(e1, places)) = Cardinality(StandingAt(e, places)) + 1
         /\ e[w].at \in places /\ e1[w].at \notin places =>
               Cardinality(StandingAt(e1, places)) = Cardinality(StandingAt(e, places)) - 1
         /\ (e1[w].at \in places => e[w].at \in places) =>
               Cardinality(StandingAt(e1, places)) <= Cardinality(StandingAt(e, places))
<1>1. IsFiniteSet(GateEvaluators)
  BY GatesAssumption DEF GatesAssumption
<1>2. StandingAt(e, places) \subseteq GateEvaluators /\ StandingAt(e1, places) \ {w} = StandingAt(e, places) \ {w}
      /\ (w \in StandingAt(e, places) <=> e[w].at \in places) /\ (w \in StandingAt(e1, places) <=> e1[w].at \in places)
  BY DEF StandingAt
<1>3. IsFiniteSet(StandingAt(e, places))
  BY <1>1, <1>2, FS_Subset
<1>. QED BY <1>2, <1>3, SetMoves

LEMMA OneLeaves ==
  ASSUME NEW w \in GateEvaluators, NEW places, NEW e, e[w].at \in places,
         NEW e1, e1[w].at \notin places, \A v \in GateEvaluators \ {w} : e1[v] = e[v]
  PROVE  Cardinality(StandingAt(e1, places)) = Cardinality(StandingAt(e, places)) - 1
<1>1. IsFiniteSet(GateEvaluators)
  BY GatesAssumption DEF GatesAssumption
<1>2. StandingAt(e, places) \subseteq GateEvaluators /\ StandingAt(e1, places) = StandingAt(e, places) \ {w}
      /\ w \in StandingAt(e, places)
  BY DEF StandingAt
<1>3. IsFiniteSet(StandingAt(e, places))
  BY <1>1, <1>2, FS_Subset
<1>. QED BY <1>2, <1>3, FS_RemoveElement

LEMMA DoingMoves ==
  ASSUME NEW e, NEW e1, NEW w \in GateEvaluators, \A v \in GateEvaluators \ {w} : e1[v] = e[v]
  PROVE  /\ IsFiniteSet(Doing(e)) /\ Cardinality(Doing(e)) \in Nat /\ Cardinality(Doing(e1)) \in Nat
         /\ w \in Doing(e1) /\ w \notin Doing(e) => Cardinality(Doing(e1)) = Cardinality(Doing(e)) + 1
         /\ w \in Doing(e) /\ w \notin Doing(e1) => Cardinality(Doing(e1)) = Cardinality(Doing(e)) - 1
         /\ (w \in Doing(e1) <=> w \in Doing(e)) => Cardinality(Doing(e1)) = Cardinality(Doing(e))
<1>1. IsFiniteSet(GateEvaluators)
  BY GatesAssumption DEF GatesAssumption
<1>2. Doing(e) \subseteq GateEvaluators /\ Doing(e1) \ {w} = Doing(e) \ {w}
  BY DEF Doing, Flying
<1>3. IsFiniteSet(Doing(e))
  BY <1>1, <1>2, FS_Subset
<1>. QED BY <1>2, <1>3, SetMoves

LEMMA Moved ==
  ASSUME NEW e, e = [v \in GateEvaluators |-> e[v]], NEW w \in GateEvaluators, NEW r, NEW e1,
         e1 = [e EXCEPT ![w] = r]
  PROVE  /\ e1[w] = r /\ \A v \in GateEvaluators \ {w} : e1[v] = e[v]
         /\ e1 = [v \in GateEvaluators |-> e1[v]]
  OBVIOUS

(* Counters that grow and handles that are added to disturb nobody.        *)
LEMMA FlightStaysOk ==
  ASSUME NEW r, NEW c \in Nat, NEW n \in Nat, NEW h, NEW phases, FlightOk(r, c, n, h, phases),
         NEW c1 \in Nat, c <= c1, NEW n1 \in Nat, n <= n1, NEW h1, h \subseteq h1
  PROVE  FlightOk(r, c1, n1, h1, phases)
<1>1. r.n \in 1 .. n1 /\ r.counted \in 0 .. c1
  BY DEF FlightOk
<1>2. r.call.id \in h => r.call.id \in h1
  OBVIOUS
<1>. QED BY <1>1, <1>2, Zenon DEF FlightOk

LEMMA AnswerStaysOk ==
  ASSUME NEW a, NEW c \in Nat, NEW n \in Nat, NEW h, NEW phases, AnswerOk(a, c, n, h, phases),
         NEW c1 \in Nat, c <= c1, NEW n1 \in Nat, n <= n1, NEW h1, h \subseteq h1
  PROVE  AnswerOk(a, c1, n1, h1, phases)
<1>1. a.n \in 1 .. n1 /\ a.counted \in 0 .. c1
  BY DEF AnswerOk
<1>2. a.id \in h => a.id \in h1
  OBVIOUS
<1>. QED BY <1>1, <1>2, Zenon DEF AnswerOk

-------------------------------------------------------------------------------
(* A call that goes on, or is refused: what any gate but the last may do   *)

LEMMA CallGoes ==
  ASSUME GatesInv, NEW w \in GateEvaluators, ev[w].at \in GateSteps
  PROVE  /\ ev[w] # NoEv /\ FlightOk(ev[w], counted, evaluations, gateHandles, phaseManager.phases)
         /\ IsFlight(ev[w]) /\ w \in Flying(ev)
<1>1. ev[w] # NoEv
  BY NoEvIsIdle
<1>2. FlightOk(ev[w], counted, evaluations, gateHandles, phaseManager.phases)
  BY <1>1 DEF GatesInv
<1>. QED BY <1>1, <1>2 DEF FlightOk, Flying

LEMMA AdvanceKeeps ==
  ASSUME GatesInv, NEW w \in GateEvaluators, ev[w].at \in GateSteps, ev[w].at # "decide", NEW r1,
         FlightOk(r1, counted, evaluations, gateHandles, phaseManager.phases),
         r1.n = ev[w].n, r1.owns = ev[w].owns, r1.counted = ev[w].counted, r1.call.id = ev[w].call.id,
         r1.at \in Uncounted => ev[w].at \in Uncounted, r1.at \in Unlooped => ev[w].at \in Unlooped,
         ev' = [ev EXCEPT ![w] = r1],
         UNCHANGED <<policy, active, counted, gateHandles, wal, answers, evaluations>>,
         phaseManager' = [phases |-> phaseManager.phases, current |-> phaseManager'.current, moves |-> phaseManager'.moves],
         phaseManager'.current \in DOMAIN phaseManager.phases \cup {"none"},
         \/ loopCalls' = loopCalls
         \/ loopCalls' = loopCalls + 1 /\ ev[w].at \in Unlooped /\ r1.at \notin Unlooped
  PROVE  GatesInv'
<1> DEFINE e1 == ev'
           phases == phaseManager.phases
<1>1. /\ policy' = policy /\ active' = active /\ counted' = counted /\ gateHandles' = gateHandles
      /\ wal' = wal /\ answers' = answers /\ evaluations' = evaluations /\ Answers' = Answers
  BY DEF Answers
<1>2. phaseManager'.phases = phases
  OBVIOUS
<1>3. /\ ev = [v \in GateEvaluators |-> ev[v]] /\ counted \in Nat /\ loopCalls \in Nat /\ evaluations \in Nat
      /\ MaxEvaluations \in Nat
  BY GatesAssumption DEF GatesInv, GateTypes, GatesAssumption
<1>4. /\ e1[w] = r1 /\ \A v \in GateEvaluators \ {w} : e1[v] = ev[v]
      /\ e1 = [v \in GateEvaluators |-> e1[v]]
  BY <1>3, Moved
<1>5. ev[w] # NoEv /\ r1 # NoEv /\ w \in Flying(ev)
  <2>1. IsFlight(r1)
    BY DEF FlightOk
  <2>. QED BY <2>1, CallGoes, NoEvIsIdle
<1> HIDE DEF e1
<1>6. Flying(e1) = Flying(ev)
  BY <1>4, <1>5 DEF Flying
<1>7. \A v \in Flying(ev) : /\ e1[v].n = ev[v].n /\ e1[v].owns = ev[v].owns
                            /\ e1[v].counted = ev[v].counted /\ e1[v].call.id = ev[v].call.id
  BY <1>4 DEF Flying
<1>8. \A v \in GateEvaluators : e1[v] = NoEv \/ FlightOk(e1[v], counted, evaluations, gateHandles, phases)
  BY <1>4 DEF GatesInv
<1>9. Apart(e1, Answers)
  BY <1>6, <1>7 DEF GatesInv, Apart
<1>10. Handled(gateHandles, Answers, e1)
  <2>1. \A v \in Flying(ev) : ev[v].at = "decide" => v # w
    OBVIOUS
  <2>2. \A v \in Flying(ev) : ev[v].at = "decide" => e1[v] = ev[v]
    BY <1>4, <2>1 DEF Flying
  <2>3. Handled(gateHandles, Answers, ev)
    BY DEF GatesInv
  <2>. QED BY <1>6, <2>2, <2>3 DEF Handled
<1>11. Owned(active, e1)
  BY <1>6, <1>7 DEF GatesInv, Owned
<1>12. Doing(e1) = Doing(ev)
  BY <1>6, <1>7 DEF Doing
<1>13. GateCounts(e1, Answers, counted, loopCalls', evaluations)
  <2>1. GateCounts(ev, Answers, counted, loopCalls, evaluations)
    BY DEF GatesInv
  <2> DEFINE a == Cardinality(StandingAt(ev, Uncounted))  a1 == Cardinality(StandingAt(e1, Uncounted))
             b == Cardinality(StandingAt(ev, Unlooped))  b1 == Cardinality(StandingAt(e1, Unlooped))
  <2>2. /\ a \in Nat /\ a1 \in Nat /\ a1 <= a /\ b \in Nat /\ b1 \in Nat /\ b1 <= b
        /\ ev[w].at \in Unlooped /\ r1.at \notin Unlooped => b1 = b - 1
    <3>1. e1[w].at = r1.at
      BY <1>4
    <3>2. a \in Nat /\ a1 \in Nat /\ a1 <= a
      BY <1>4, <3>1, AtMoves
    <3>3. b \in Nat /\ b1 \in Nat /\ b1 <= b
      BY <1>4, <3>1, AtMoves
    <3>4. ASSUME ev[w].at \in Unlooped, r1.at \notin Unlooped PROVE b1 = b - 1
      <4>1. e1[w].at \notin Unlooped
        BY <3>1, <3>4
      <4>2. \A v \in GateEvaluators \ {w} : e1[v] = ev[v]
        BY <1>4
      <4>3. Cardinality(StandingAt(e1, Unlooped)) = Cardinality(StandingAt(ev, Unlooped)) - 1
        BY <3>4, <4>1, <4>2, OneLeaves
      <4>. QED BY <4>3
    <3>. QED BY <3>2, <3>3, <3>4
  <2>3. counted + a <= evaluations /\ loopCalls + b <= evaluations
    BY <2>1 DEF GateCounts
  <2> HIDE DEF a, a1, b, b1
  <2>4. counted + a1 <= evaluations /\ loopCalls' + b1 <= evaluations
    BY <1>3, <2>2, <2>3
  <2>. QED BY <1>12, <2>1, <2>4 DEF GateCounts, a1, b1
<1>14. GateTypes'
  <2>1. loopCalls' \in Nat
    BY <1>3
  <2>2. ev' = [v \in GateEvaluators |-> ev'[v]]
    BY <1>4 DEF e1
  <2>. QED BY <1>1, <1>2, <2>1, <2>2 DEF GatesInv, GateTypes
<1>15. /\ Written(wal, Answers) /\ \A a \in Answers : AnswerOk(a, counted, evaluations, gateHandles, phases)
  BY DEF GatesInv
<1>. QED BY <1>1, <1>2, <1>8, <1>9, <1>10, <1>11, <1>13, <1>14, <1>15 DEF GatesInv, e1

LEMMA OwnPlace ==
  ASSUME NEW r, r = Flight(r.at, r.call, r.doc, r.owns, r.n, r.counted, r.effect, r.gated, r.code), NEW x
  PROVE  [r EXCEPT !.at = x] = Flight(x, r.call, r.doc, r.owns, r.n, r.counted, r.effect, r.gated, r.code)
<1> DEFINE at == r.at  call == r.call  doc == r.doc  owns == r.owns  n == r.n
           count == r.counted  verdict == r.effect  gated == r.gated  code == r.code
<1>1. r = Flight(at, call, doc, owns, n, count, verdict, gated, code)
  OBVIOUS
<1> HIDE DEF at, call, doc, owns, n, count, verdict, gated, code
<1>2. [r EXCEPT !.at = x] = Flight(x, call, doc, owns, n, count, verdict, gated, code)
  BY <1>1 DEF Flight
<1>. QED BY <1>2 DEF at, call, doc, owns, n, count, verdict, gated, code

LEMMA FlightPlace ==
  ASSUME NEW at, NEW call, NEW doc, NEW owns, NEW n, NEW count, NEW verdict, NEW gated, NEW code, NEW x
  PROVE  [Flight(at, call, doc, owns, n, count, verdict, gated, code) EXCEPT !.at = x] =
              Flight(x, call, doc, owns, n, count, verdict, gated, code)
  BY DEF Flight

LEMMA OwnCall ==
  ASSUME NEW r, r = Flight(r.at, r.call, r.doc, r.owns, r.n, r.counted, r.effect, r.gated, r.code), NEW x
  PROVE  [r EXCEPT !.call = x] = Flight(r.at, x, r.doc, r.owns, r.n, r.counted, r.effect, r.gated, r.code)
<1> DEFINE at == r.at  call == r.call  doc == r.doc  owns == r.owns  n == r.n
           count == r.counted  verdict == r.effect  gated == r.gated  code == r.code
<1>1. r = Flight(at, call, doc, owns, n, count, verdict, gated, code)
  OBVIOUS
<1> HIDE DEF at, call, doc, owns, n, count, verdict, gated, code
<1>2. [r EXCEPT !.call = x] = Flight(at, x, doc, owns, n, count, verdict, gated, code)
  BY <1>1 DEF Flight
<1>. QED BY <1>2 DEF at, call, doc, owns, n, count, verdict, gated, code

LEMMA OwnCounted ==
  ASSUME NEW r, r = Flight(r.at, r.call, r.doc, r.owns, r.n, r.counted, r.effect, r.gated, r.code), NEW x
  PROVE  [r EXCEPT !.counted = x] = Flight(r.at, r.call, r.doc, r.owns, r.n, x, r.effect, r.gated, r.code)
<1> DEFINE at == r.at  call == r.call  doc == r.doc  owns == r.owns  n == r.n
           count == r.counted  verdict == r.effect  gated == r.gated  code == r.code
<1>1. r = Flight(at, call, doc, owns, n, count, verdict, gated, code)
  OBVIOUS
<1> HIDE DEF at, call, doc, owns, n, count, verdict, gated, code
<1>2. [r EXCEPT !.counted = x] = Flight(at, call, doc, owns, n, x, verdict, gated, code)
  BY <1>1 DEF Flight
<1>. QED BY <1>2 DEF at, call, doc, owns, n, count, verdict, gated, code

LEMMA OwnDecision ==
  ASSUME NEW r, r = Flight(r.at, r.call, r.doc, r.owns, r.n, r.counted, r.effect, r.gated, r.code), NEW x, NEW v
  PROVE  [r EXCEPT !.at = "decide", !.effect = v, !.code = x] =
              Flight("decide", r.call, r.doc, r.owns, r.n, r.counted, v, r.gated, x)
<1> DEFINE at == r.at  call == r.call  doc == r.doc  owns == r.owns  n == r.n
           count == r.counted  verdict == r.effect  gated == r.gated  code == r.code
<1>1. r = Flight(at, call, doc, owns, n, count, verdict, gated, code)
  OBVIOUS
<1> HIDE DEF at, call, doc, owns, n, count, verdict, gated, code
<1> DEFINE r1 == Flight("decide", call, doc, owns, n, count, verdict, gated, code)
           r2 == Flight("decide", call, doc, owns, n, count, v, gated, code)
<1>2. [r EXCEPT !.at = "decide"] = r1
  BY <1>1 DEF Flight
<1>3. [r1 EXCEPT !.effect = v] = r2
  BY DEF Flight
<1>4. [r2 EXCEPT !.code = x] = Flight("decide", call, doc, owns, n, count, v, gated, x)
  BY DEF Flight
<1> HIDE DEF r1, r2
<1>5. [r EXCEPT !.at = "decide", !.effect = v, !.code = x] = Flight("decide", call, doc, owns, n, count, v, gated, x)
  BY <1>2, <1>3, <1>4, Zenon
<1>. QED BY <1>5 DEF at, call, doc, owns, n, count, verdict, gated, code

LEMMA OwnGate ==
  ASSUME NEW r, r = Flight(r.at, r.call, r.doc, r.owns, r.n, r.counted, r.effect, r.gated, r.code), NEW x
  PROVE  [r EXCEPT !.at = "checks", !.gated = x] =
              Flight("checks", r.call, r.doc, r.owns, r.n, r.counted, r.effect, x, r.code)
<1> DEFINE at == r.at  call == r.call  doc == r.doc  owns == r.owns  n == r.n
           count == r.counted  verdict == r.effect  gated == r.gated  code == r.code
<1>1. r = Flight(at, call, doc, owns, n, count, verdict, gated, code)
  OBVIOUS
<1> HIDE DEF at, call, doc, owns, n, count, verdict, gated, code
<1> DEFINE r1 == Flight("checks", call, doc, owns, n, count, verdict, gated, code)
<1>2. [r EXCEPT !.at = "checks"] = r1
  BY <1>1 DEF Flight
<1>3. [r1 EXCEPT !.gated = x] = Flight("checks", call, doc, owns, n, count, verdict, x, code)
  BY DEF Flight
<1> HIDE DEF r1
<1>4. [r EXCEPT !.at = "checks", !.gated = x] = Flight("checks", call, doc, owns, n, count, verdict, x, code)
  BY <1>2, <1>3, Zenon
<1>. QED BY <1>4 DEF at, call, doc, owns, n, count, verdict, gated, code

(* Move and Refuse change one field, or the three of a decision.           *)
LEMMA Steps ==
  ASSUME NEW w \in GateEvaluators, IsFlight(ev[w])
  PROVE  LET r == ev[w] IN
         /\ \A x : Move(w, x) =>
              ev' = [ev EXCEPT ![w] = Flight(x, r.call, r.doc, r.owns, r.n, r.counted, r.effect, r.gated, r.code)]
         /\ \A v, x : Refuse(w, v, x) =>
              ev' = [ev EXCEPT ![w] = Flight("decide", r.call, r.doc, r.owns, r.n, r.counted, v, r.gated, x)]
<1> DEFINE r == ev[w]
<1>1. r = Flight(r.at, r.call, r.doc, r.owns, r.n, r.counted, r.effect, r.gated, r.code)
  BY DEF IsFlight
<1>2. ASSUME NEW x, Move(w, x)
      PROVE  ev' = [ev EXCEPT ![w] = Flight(x, r.call, r.doc, r.owns, r.n, r.counted, r.effect, r.gated, r.code)]
  <2>1. ev' = [ev EXCEPT ![w] = [r EXCEPT !.at = x]]
    BY <1>2 DEF Move
  <2> HIDE DEF r
  <2>2. [r EXCEPT !.at = x] = Flight(x, r.call, r.doc, r.owns, r.n, r.counted, r.effect, r.gated, r.code)
    BY <1>1, OwnPlace, Zenon
  <2>. QED BY <2>1, <2>2
<1>3. ASSUME NEW v, NEW x, Refuse(w, v, x)
      PROVE  ev' = [ev EXCEPT ![w] = Flight("decide", r.call, r.doc, r.owns, r.n, r.counted, v, r.gated, x)]
  <2>1. ev' = [ev EXCEPT ![w] = [r EXCEPT !.at = "decide", !.effect = v, !.code = x]]
    BY <1>3 DEF Refuse
  <2> HIDE DEF r
  <2>2. [r EXCEPT !.at = "decide", !.effect = v, !.code = x] =
            Flight("decide", r.call, r.doc, r.owns, r.n, r.counted, v, r.gated, x)
    BY <1>1, OwnDecision, Zenon
  <2>. QED BY <2>1, <2>2
<1>. QED BY <1>2, <1>3

(* A refusal, and a deferral that a guard wants, need no handle.           *)
LEMMA RefusalOk ==
  ASSUME NEW r, NEW c, NEW n, NEW h, NEW phases, FlightOk(r, c, n, h, phases),
         NEW v, NEW x, v = "DENY" \/ (v = "DEFER" /\ x = "CONTEXT" /\ r.at \in Uncounted),
         NEW r1, r1 = Flight("decide", r.call, r.doc, r.owns, r.n, r.counted, v, r.gated, x)
  PROVE  FlightOk(r1, c, n, h, phases)
<1>1. /\ r1.at = "decide" /\ r1.call = r.call /\ r1.doc = r.doc /\ r1.owns = r.owns /\ r1.n = r.n
      /\ r1.counted = r.counted /\ r1.effect = v /\ r1.gated = r.gated /\ r1.code = x
      /\ r1 = Flight(r1.at, r1.call, r1.doc, r1.owns, r1.n, r1.counted, r1.effect, r1.gated, r1.code)
  BY FlightFields
<1>2. IsFlight(r1)
  BY <1>1 DEF FlightOk, IsFlight, GateSteps
<1>3. "decide" \notin Uncounted /\ "decide" \notin PastChecks /\ v \in Effects /\ v # "PERMIT"
  BY DEF Uncounted, Unlooped, PastChecks, Effects
<1>4. r.doc.maxCalls > 0 /\ r.counted > r.doc.maxCalls => v = "DENY"
  <2>1. SUFFICES ASSUME r.doc.maxCalls > 0, r.counted > r.doc.maxCalls, r.at \in Uncounted PROVE FALSE
    OBVIOUS
  <2>2. r.counted = 0 /\ r.doc.maxCalls \in Nat
    BY <2>1, GatesAssumption DEF FlightOk, IsFlight, GatesAssumption
  <2>. QED BY <2>1, <2>2
<1>. QED BY <1>1, <1>2, <1>3, <1>4 DEF FlightOk

(* Another place: that of a later gate.                                    *)
LEMMA MoveOk ==
  ASSUME NEW r, NEW c, NEW n, NEW h, NEW phases, FlightOk(r, c, n, h, phases), r.at # "decide",
         NEW x \in GateSteps, x \notin {"decide", "credential"},
         x \in Uncounted => r.at \in Uncounted, x \in PastChecks => r.at \in PastChecks,
         NEW call, {"id", "tool", "env", "phase"} \subseteq DOMAIN call, call.env = r.call.env,
         call.id = r.call.id, call.tool = r.call.tool, call = r.call \/ x \notin PastChecks,
         NEW r1, r1 = Flight(x, call, r.doc, r.owns, r.n, r.counted, r.effect, r.gated, r.code)
  PROVE  FlightOk(r1, c, n, h, phases)
<1>1. /\ r1.at = x /\ r1.call = call /\ r1.doc = r.doc /\ r1.owns = r.owns /\ r1.n = r.n
      /\ r1.counted = r.counted /\ r1.effect = r.effect /\ r1.gated = r.gated /\ r1.code = r.code
      /\ r1 = Flight(r1.at, r1.call, r1.doc, r1.owns, r1.n, r1.counted, r1.effect, r1.gated, r1.code)
  BY FlightFields
<1>2. IsFlight(r1)
  BY <1>1 DEF FlightOk, IsFlight
<1>. QED BY <1>1, <1>2 DEF FlightOk

LEMMA GatePhasesStay ==
  ASSUME GatesInv, UNCHANGED gateState
  PROVE  /\ policy' = policy
         /\ phaseManager' = [phases |-> phaseManager.phases, current |-> phaseManager'.current, moves |-> phaseManager'.moves]
         /\ phaseManager'.current \in DOMAIN phaseManager.phases \cup {"none"}
  BY DEF GatesInv, GateTypes, gateState

(* Whoever refuses a call changes nothing else of it.                      *)
LEMMA RefuseKeeps ==
  ASSUME GatesInv, NEW w \in GateEvaluators, ev[w].at \in GateSteps, ev[w].at # "decide", NEW v, NEW x,
         Refuse(w, v, x), v = "DENY" \/ (v = "DEFER" /\ x = "CONTEXT" /\ ev[w].at \in Uncounted),
         UNCHANGED gateState, UNCHANGED <<active, counted, gateHandles, wal, answers, evaluations>>,
         loopCalls' = loopCalls \/ (loopCalls' = loopCalls + 1 /\ ev[w].at \in Unlooped)
  PROVE  GatesInv'
<1> DEFINE r == ev[w]
           r1 == Flight("decide", r.call, r.doc, r.owns, r.n, r.counted, v, r.gated, x)
<1>1. FlightOk(r, counted, evaluations, gateHandles, phaseManager.phases) /\ IsFlight(r)
  BY CallGoes
<1>2. ev' = [ev EXCEPT ![w] = r1]
  BY <1>1, Steps
<1>3. /\ r1.at = "decide" /\ r1.call = r.call /\ r1.owns = r.owns /\ r1.n = r.n /\ r1.counted = r.counted
  BY FlightFields
<1> HIDE DEF r1
<1>4. FlightOk(r1, counted, evaluations, gateHandles, phaseManager.phases)
  BY <1>1, RefusalOk DEF r1
<1>5. "decide" \notin Uncounted /\ "decide" \notin Unlooped
  BY DEF Uncounted, Unlooped
<1>. QED BY <1>2, <1>3, <1>4, <1>5, GatePhasesStay, AdvanceKeeps

(* Whoever lets it on moves it to a later gate.                            *)
LEMMA MoveKeeps ==
  ASSUME GatesInv, NEW w \in GateEvaluators, ev[w].at \in GateSteps, ev[w].at # "decide", NEW x \in GateSteps, Move(w, x),
         x \notin {"decide", "credential"}, x \in Uncounted => ev[w].at \in Uncounted,
         x \in PastChecks => ev[w].at \in PastChecks, x \in Unlooped => ev[w].at \in Unlooped,
         UNCHANGED <<policy, active, counted, gateHandles, wal, answers, evaluations>>,
         phaseManager' = [phases |-> phaseManager.phases, current |-> phaseManager'.current, moves |-> phaseManager'.moves],
         phaseManager'.current \in DOMAIN phaseManager.phases \cup {"none"},
         loopCalls' = loopCalls \/ (loopCalls' = loopCalls + 1 /\ ev[w].at \in Unlooped /\ x \notin Unlooped)
  PROVE  GatesInv'
<1> DEFINE r == ev[w]
           r1 == Flight(x, r.call, r.doc, r.owns, r.n, r.counted, r.effect, r.gated, r.code)
<1>1. FlightOk(r, counted, evaluations, gateHandles, phaseManager.phases) /\ IsFlight(r)
  BY CallGoes
<1>2. ev' = [ev EXCEPT ![w] = r1]
  BY <1>1, Steps
<1>3. /\ r1.at = x /\ r1.call = r.call /\ r1.owns = r.owns /\ r1.n = r.n /\ r1.counted = r.counted
  BY FlightFields
<1> HIDE DEF r1
<1>4. FlightOk(r1, counted, evaluations, gateHandles, phaseManager.phases)
  <2>1. {"id", "tool", "env", "phase"} \subseteq DOMAIN r.call
    BY <1>1 DEF IsFlight
  <2>. QED BY <1>1, <2>1, MoveOk DEF r1
<1>. QED BY <1>2, <1>3, <1>4, AdvanceKeeps

-------------------------------------------------------------------------------
(* The gates, one by one                                                   *)

LEMMA CheckPrincipalKeeps ==
  ASSUME GatesInv, NEW w \in GateEvaluators, CheckPrincipal(w) PROVE GatesInv'
<1>1. /\ ev[w].at = "principal" /\ UNCHANGED gateState
      /\ UNCHANGED <<active, counted, gateHandles, wal, answers, evaluations>> /\ loopCalls' = loopCalls
      /\ (\E x : Refuse(w, "DENY", x)) \/ Move(w, "session")
  BY DEF CheckPrincipal, callState
<1>2. {"principal", "session"} \subseteq Unlooped /\ {"principal", "session"} \subseteq Uncounted
      /\ {"principal", "session"} \subseteq GateSteps /\ "session" \notin PastChecks
  BY DEF GateSteps, Uncounted, Unlooped, PastChecks
<1>3. CASE \E x : Refuse(w, "DENY", x)
  BY <1>1, <1>2, <1>3, RefuseKeeps
<1>4. CASE Move(w, "session")
  BY <1>1, <1>2, <1>4, GatePhasesStay, MoveKeeps
<1>. QED BY <1>1, <1>3, <1>4

(* The session's phase is noted in the call, which is else the same.       *)
LEMMA CheckSessionKeeps ==
  ASSUME GatesInv, NEW w \in GateEvaluators, CheckSession(w) PROVE GatesInv'
<1>1. /\ ev[w].at = "session" /\ policy' = policy /\ phaseManager' = phaseManager
      /\ UNCHANGED <<active, counted, gateHandles, wal, answers, evaluations>> /\ loopCalls' = loopCalls
      /\ \/ Refuse(w, "DENY", "KILL_SWITCH_ACTIVE") /\ UNCHANGED gateState
         \/ \E n, x : /\ x \in {"checks", "fallback", "manager"}
                      /\ ev' = [ev EXCEPT ![w] = [ev[w] EXCEPT !.call.phase = n, !.at = x]]
  BY DEF CheckSession, callState, gateState
<1>2. {"session", "checks", "fallback", "manager"} \subseteq Unlooped
      /\ {"session", "checks", "fallback", "manager"} \subseteq Uncounted
      /\ {"session", "checks", "fallback", "manager"} \subseteq GateSteps
      /\ {"checks", "fallback", "manager"} \cap PastChecks = {}
  BY DEF GateSteps, Uncounted, Unlooped, PastChecks
<1>3. CASE Refuse(w, "DENY", "KILL_SWITCH_ACTIVE") /\ UNCHANGED gateState
  BY <1>1, <1>2, <1>3, RefuseKeeps
<1>4. ASSUME NEW n, NEW x \in {"checks", "fallback", "manager"},
             ev' = [ev EXCEPT ![w] = [ev[w] EXCEPT !.call.phase = n, !.at = x]]
      PROVE  GatesInv'
  <2> DEFINE r == ev[w]
             call == [r.call EXCEPT !.phase = n]
             r1 == Flight(x, call, r.doc, r.owns, r.n, r.counted, r.effect, r.gated, r.code)
  <2>1. FlightOk(r, counted, evaluations, gateHandles, phaseManager.phases) /\ IsFlight(r)
    BY <1>1, <1>2, CallGoes
  <2>2. {"id", "tool", "env", "phase"} \subseteq DOMAIN r.call
    BY <2>1 DEF IsFlight
  <2>3. /\ {"id", "tool", "env", "phase"} \subseteq DOMAIN call
        /\ call.id = r.call.id /\ call.tool = r.call.tool /\ call.env = r.call.env
    BY <2>2
  <2>4. [r EXCEPT !.call.phase = n, !.at = x] = r1
    <3>1. r = Flight(r.at, r.call, r.doc, r.owns, r.n, r.counted, r.effect, r.gated, r.code)
      BY <2>1 DEF IsFlight
    <3> HIDE DEF r, call
    <3>2. [r EXCEPT !.call = call] = Flight(r.at, call, r.doc, r.owns, r.n, r.counted, r.effect, r.gated, r.code)
      BY <3>1, OwnCall
    <3> DEFINE r2 == Flight(r.at, call, r.doc, r.owns, r.n, r.counted, r.effect, r.gated, r.code)
    <3>3. [r2 EXCEPT !.at = x] = r1
      BY FlightPlace
    <3> HIDE DEF r2
    <3>4. [[r EXCEPT !.call = call] EXCEPT !.at = x] = r1
      BY <3>2, <3>3, Zenon DEF r2
    <3>. QED BY <3>4, Zenon DEF call
  <2>5. ev' = [ev EXCEPT ![w] = r1]
    BY <1>4, <2>4
  <2>6. /\ r1.at = x /\ r1.call = call /\ r1.owns = r.owns /\ r1.n = r.n /\ r1.counted = r.counted
    BY FlightFields
  <2> HIDE DEF r1, call
  <2>7. FlightOk(r1, counted, evaluations, gateHandles, phaseManager.phases)
    <3>1. /\ x \in GateSteps /\ x \notin {"decide", "credential"} /\ x \notin PastChecks /\ r.at \in Uncounted /\ r.at # "decide"
      BY <1>1, <1>2
    <3>. QED BY <2>1, <2>3, <3>1, MoveOk DEF r1
  <2>8. /\ phaseManager' = [phases |-> phaseManager.phases, current |-> phaseManager'.current, moves |-> phaseManager'.moves]
        /\ phaseManager'.current \in DOMAIN phaseManager.phases \cup {"none"}
    BY <1>1 DEF GatesInv, GateTypes
  <2>9. r.at \in GateSteps /\ r.at # "decide" /\ r.at \in Uncounted /\ r.at \in Unlooped
    BY <1>1, <1>2
  <2>10. UNCHANGED <<policy, active, counted, gateHandles, wal, answers, evaluations>> /\ loopCalls' = loopCalls
    BY <1>1
  <2>. QED BY <2>3, <2>5, <2>6, <2>7, <2>8, <2>9, <2>10, AdvanceKeeps
<1>. QED BY <1>1, <1>3, <1>4

LEMMA CheckPhaseToolsKeeps ==
  ASSUME GatesInv, NEW w \in GateEvaluators, CheckPhaseTools(w) PROVE GatesInv'
<1>1. /\ ev[w].at = "fallback" /\ UNCHANGED gateState
      /\ UNCHANGED <<active, counted, gateHandles, wal, answers, evaluations>> /\ loopCalls' = loopCalls
      /\ Refuse(w, "DENY", "OUT_OF_PHASE_TOOL_CALL") \/ Move(w, "checks")
  BY DEF CheckPhaseTools, callState
<1>2. {"fallback", "checks"} \subseteq Unlooped /\ {"fallback", "checks"} \subseteq Uncounted
      /\ {"fallback", "checks"} \subseteq GateSteps /\ "checks" \notin PastChecks
  BY DEF GateSteps, Uncounted, Unlooped, PastChecks
<1>3. CASE Refuse(w, "DENY", "OUT_OF_PHASE_TOOL_CALL")
  BY <1>1, <1>2, <1>3, RefuseKeeps
<1>4. CASE Move(w, "checks")
  BY <1>1, <1>2, <1>4, GatePhasesStay, MoveKeeps
<1>. QED BY <1>1, <1>3, <1>4

LEMMA LookUpPhaseKeeps ==
  ASSUME GatesInv, NEW w \in GateEvaluators, LookUpPhase(w) PROVE GatesInv'
<1>1. /\ ev[w].at = "manager" /\ UNCHANGED gateState
      /\ UNCHANGED <<active, counted, gateHandles, wal, answers, evaluations>> /\ loopCalls' = loopCalls
      /\ Move(w, "set_phase") \/ Move(w, "in_phase")
  BY DEF LookUpPhase, callState
<1>2. {"manager", "set_phase", "in_phase"} \subseteq Unlooped /\ {"manager", "set_phase", "in_phase"} \subseteq Uncounted
      /\ {"manager", "set_phase", "in_phase"} \subseteq GateSteps /\ {"set_phase", "in_phase"} \cap PastChecks = {}
  BY DEF GateSteps, Uncounted, Unlooped, PastChecks
<1>. QED BY <1>1, <1>2, GatePhasesStay, MoveKeeps

(* The manager's phases are those of the first policy for good.            *)
LEMMA SetPhaseKeeps ==
  ASSUME GatesInv, NEW w \in GateEvaluators, SetPhase(w) PROVE GatesInv'
<1>1. /\ ev[w].at = "set_phase" /\ Move(w, "in_phase")
      /\ UNCHANGED <<policy, active, counted, gateHandles, wal, answers, evaluations>> /\ loopCalls' = loopCalls
      /\ phaseManager' = IF ev[w].call.phase \in DOMAIN phaseManager.phases
                         THEN [phaseManager EXCEPT !.current = ev[w].call.phase] ELSE phaseManager
  BY DEF SetPhase, callState
<1>2. {"set_phase", "in_phase"} \subseteq Unlooped /\ {"set_phase", "in_phase"} \subseteq Uncounted
      /\ {"set_phase", "in_phase"} \subseteq GateSteps /\ "in_phase" \notin PastChecks
  BY DEF GateSteps, Uncounted, Unlooped, PastChecks
<1> DEFINE phases == phaseManager.phases  current == phaseManager.current  moves == phaseManager.moves
           p == ev[w].call.phase
<1>3. phaseManager = [phases |-> phases, current |-> current, moves |-> moves] /\ current \in DOMAIN phases \cup {"none"}
  BY DEF GatesInv, GateTypes
<1> HIDE DEF phases, current, moves, p
<1>4. CASE p \in DOMAIN phases
  <2>1. phaseManager' = [phases |-> phases, current |-> p, moves |-> moves]
    BY <1>1, <1>3, <1>4 DEF p, phases
  <2>2. phaseManager'.phases = phases /\ phaseManager'.current = p /\ phaseManager'.moves = moves
    BY <2>1
  <2>3. phaseManager' = [phases |-> phases, current |-> phaseManager'.current, moves |-> phaseManager'.moves]
        /\ phaseManager'.current \in DOMAIN phases \cup {"none"}
    BY <1>4, <2>1, <2>2
  <2>. QED BY <1>1, <1>2, <2>3, MoveKeeps DEF phases
<1>5. CASE p \notin DOMAIN phases
  <2>1. phaseManager' = phaseManager
    BY <1>1, <1>5 DEF p, phases
  <2>2. phaseManager' = [phases |-> phases, current |-> phaseManager'.current, moves |-> phaseManager'.moves]
        /\ phaseManager'.current \in DOMAIN phases \cup {"none"}
    BY <1>3, <2>1 DEF phases, current, moves
  <2>. QED BY <1>1, <1>2, <2>2, MoveKeeps DEF phases
<1>. QED BY <1>4, <1>5

(* What the manager lets through is listed in the phase it is in.          *)
LEMMA IsToolAllowedKeeps ==
  ASSUME GatesInv, NEW w \in GateEvaluators, IsToolAllowed(w) PROVE GatesInv'
<1>1. /\ ev[w].at = "in_phase" /\ UNCHANGED gateState
      /\ UNCHANGED <<active, counted, gateHandles, wal, answers, evaluations>> /\ loopCalls' = loopCalls
      /\ \/ Refuse(w, "DENY", "OUT_OF_PHASE_TOOL_CALL")
         \/ /\ ManagerAllows(ev[w].call.tool)
            /\ ev' = [ev EXCEPT ![w] = [ev[w] EXCEPT !.at = "checks", !.gated = phaseManager.current]]
  BY DEF IsToolAllowed, callState
<1>2. {"in_phase", "checks"} \subseteq Unlooped /\ {"in_phase", "checks"} \subseteq Uncounted
      /\ {"in_phase", "checks"} \subseteq GateSteps /\ "checks" \notin PastChecks
  BY DEF GateSteps, Uncounted, Unlooped, PastChecks
<1>3. CASE Refuse(w, "DENY", "OUT_OF_PHASE_TOOL_CALL")
  BY <1>1, <1>2, <1>3, RefuseKeeps
<1>4. ASSUME ManagerAllows(ev[w].call.tool),
             ev' = [ev EXCEPT ![w] = [ev[w] EXCEPT !.at = "checks", !.gated = phaseManager.current]]
      PROVE  GatesInv'
  <2> DEFINE r == ev[w]
             r1 == Flight("checks", r.call, r.doc, r.owns, r.n, r.counted, r.effect, phaseManager.current, r.code)
  <2>1. FlightOk(r, counted, evaluations, gateHandles, phaseManager.phases) /\ IsFlight(r)
    BY <1>1, <1>2, CallGoes
  <2>2. ev' = [ev EXCEPT ![w] = r1]
    <3>1. r = Flight(r.at, r.call, r.doc, r.owns, r.n, r.counted, r.effect, r.gated, r.code)
      BY <2>1 DEF IsFlight
    <3> HIDE DEF r
    <3>2. [r EXCEPT !.at = "checks", !.gated = phaseManager.current] = r1
      BY <3>1, OwnGate, Zenon
    <3>. QED BY <1>4, <3>2 DEF r
  <2>3. InPhase(phaseManager.phases, r.call.tool, phaseManager.current)
    BY <1>4 DEF ManagerAllows, InPhase, Lists, ListsTools, PhaseTools, StepTools
  <2>4. /\ r1.at = "checks" /\ r1.call = r.call /\ r1.doc = r.doc /\ r1.owns = r.owns /\ r1.n = r.n
        /\ r1.counted = r.counted /\ r1.gated = phaseManager.current
        /\ r1 = Flight(r1.at, r1.call, r1.doc, r1.owns, r1.n, r1.counted, r1.effect, r1.gated, r1.code)
    BY FlightFields
  <2> HIDE DEF r1
  <2>5. IsFlight(r1)
    BY <1>2, <2>1, <2>4 DEF IsFlight
  <2>6. r.at \in Uncounted /\ r.at \in Unlooped /\ r.at \in GateSteps /\ r.at # "decide"
    BY <1>1, <1>2
  <2>7. r.counted = 0 /\ r.n \in 1 .. evaluations /\ r.counted \in 0 .. counted
        /\ ~(r.doc.maxCalls > 0 /\ r.counted > r.doc.maxCalls)
    BY <2>1, <2>6, <1>1 DEF FlightOk
  <2>8. FlightOk(r1, counted, evaluations, gateHandles, phaseManager.phases)
    BY <1>2, <2>3, <2>4, <2>5, <2>7 DEF FlightOk
  <2>. QED BY <1>1, <1>2, <2>2, <2>4, <2>6, <2>8, GatePhasesStay, AdvanceKeeps
<1>. QED BY <1>1, <1>3, <1>4

(* What nothing refused keeps the general bounds and the isolation.        *)
LEMMA CheckedContract ==
  ASSUME NEW c, NEW p \in GatePolicies0, c.env \in Nat, NEW isolation \in RequiredIsolation(c, p),
         CallRefusal(c, p, isolation) = "none"
  PROVE  Contract(Timeout(c), c.env, p, c.tool)
<1> DEFINE step == StepRefusal(c, p, c.phase)
           timeout == TimeoutRefusal(c, p)
           write == WriteRefusal(c)
           pairs == << <<step, ListsTools(p, c.phase) /\ step # "none">>,
                       <<"ISOLATION_REQUIRED", c.env < isolation>>,
                       <<timeout, timeout # "none">>,
                       <<"SCHEMA_VALIDATION_FAIL", ~c.schema>>,
                       <<"SCANNER", ~c.scan>>,
                       <<"DELEGATION_EXCEEDS_AUTHORITY", ~InScope(c)>>,
                       <<"ROUTING_INVOCATION_SUB_POLICY_DENIED", ~SubPolicyAllows(c)>>,
                       <<write, write # "none">> >>
<1>1. FirstRefusal(pairs) = "none"
  BY DEF CallRefusal
<1> HIDE DEF step, timeout, write
<1>2. Len(pairs) = 8 /\ pairs[2][2] = (c.env < isolation) /\ pairs[3][2] = (timeout # "none")
  OBVIOUS
<1>3. \A i \in 1 .. 8 : pairs[i][2] => pairs[i][1] # "none"
  <2>1. /\ pairs[1][2] => pairs[1][1] # "none"
        /\ pairs[2][1] # "none" /\ (pairs[3][2] => pairs[3][1] # "none")
        /\ pairs[4][1] # "none" /\ pairs[5][1] # "none" /\ pairs[6][1] # "none" /\ pairs[7][1] # "none"
        /\ pairs[8][2] => pairs[8][1] # "none"
    OBVIOUS
  <2> HIDE DEF pairs
  <2>. QED BY <2>1
<1> HIDE DEF pairs
<1>4. ~(c.env < isolation) /\ timeout = "none"
  <2>1. Len(pairs) \in 0 .. 8 /\ \A i \in 1 .. Len(pairs) : pairs[i][2] => pairs[i][1] # "none"
    BY <1>2, <1>3
  <2>2. \A i \in 1 .. Len(pairs) : ~pairs[i][2]
    BY <1>1, <2>1, NoneRefuses
  <2>3. ~pairs[2][2] /\ ~pairs[3][2]
    BY <1>2, <2>2
  <2>. QED BY <1>2, <2>3
<1>5. Timeout(c) > 0 => Timeout(c) \in MinTimeout .. MaxTimeout
  <2> DEFINE t == Timeout(c)
             tags == p.tags[c.tool]
             times == << <<"EXECUTION_TIMEOUT_INVALID", t > 0 /\ t \notin MinTimeout .. MaxTimeout>>,
                         <<"EXECUTION_TIMEOUT_REQUIRED", tags.required /\ t = 0>>,
                         <<"EXECUTION_TIMEOUT_POLICY_VIOLATION", t > 0 /\ t \notin TimeoutBounds(tags)>> >>
  <2>1. FirstRefusal(times) = "none"
    BY <1>4 DEF timeout, TimeoutRefusal
  <2> HIDE DEF t, tags
  <2>2. Len(times) = 3 /\ times[1][2] = (t > 0 /\ t \notin MinTimeout .. MaxTimeout)
        /\ times[1][1] # "none" /\ times[2][1] # "none" /\ times[3][1] # "none"
    OBVIOUS
  <2> HIDE DEF times
  <2>3. \A i \in 1 .. 3 : times[i][2] => times[i][1] # "none"
    BY <2>2
  <2>4. ~times[1][2]
    BY <2>1, <2>2, <2>3, NoneRefuses
  <2>. QED BY <2>2, <2>4 DEF t
<1>6. ASSUME {e \in p.isolation : c.tool \in e.tools} # {},
             \A e \in {x \in p.isolation : c.tool \in x.tools} : e.mode = "required"
      PROVE  c.env >= p.backend
  <2>1. {e.mode : e \in {x \in p.isolation : c.tool \in x.tools /\ x.mode \in {"required", "optional"}}} = {"required"}
    BY <1>6
  <2>2. isolation = p.backend
    BY <2>1 DEF RequiredIsolation
  <2>3. p.backend \in Nat
    BY GatesAssumption DEF GatesAssumption
  <2>. QED BY <1>4, <2>2, <2>3
<1>. QED BY <1>5, <1>6 DEF Contract

LEMMA CheckCallKeeps ==
  ASSUME GatesInv, NEW w \in GateEvaluators, CheckCall(w) PROVE GatesInv'
<1> DEFINE r == ev[w]
           r1 == Flight("loop", r.call, r.doc, r.owns, r.n, r.counted, r.effect, r.gated, r.code)
<1>1. /\ r.at = "checks" /\ UNCHANGED gateState
      /\ UNCHANGED <<active, counted, gateHandles, wal, answers, evaluations>> /\ loopCalls' = loopCalls
  BY DEF CheckCall, callState
<1>2. /\ "checks" \in Unlooped /\ "checks" \in Uncounted /\ "checks" \in GateSteps
      /\ "loop" \in Unlooped /\ "loop" \in Uncounted /\ "loop" \in GateSteps
  BY DEF GateSteps, Uncounted, Unlooped
<1>3. FlightOk(r, counted, evaluations, gateHandles, phaseManager.phases) /\ IsFlight(r)
  BY <1>1, <1>2, CallGoes
<1>4. PICK isolation \in RequiredIsolation(r.call, r.doc) :
        LET code == CallRefusal(r.call, r.doc, isolation) IN
        IF code # "none" THEN Refuse(w, "DENY", code) ELSE Move(w, "loop")
  BY DEF CheckCall
<1>5. CASE CallRefusal(r.call, r.doc, isolation) # "none"
  <2>1. Refuse(w, "DENY", CallRefusal(r.call, r.doc, isolation))
    BY <1>4, <1>5
  <2>. QED BY <1>1, <1>2, <2>1, RefuseKeeps
<1>6. CASE CallRefusal(r.call, r.doc, isolation) = "none"
  <2>1. Move(w, "loop")
    BY <1>4, <1>6
  <2>2. Contract(Timeout(r.call), r.call.env, r.doc, r.call.tool)
    <3>1. r.doc \in GatePolicies0 /\ r.call.env \in Nat
      BY <1>3 DEF IsFlight
    <3>. QED BY <1>6, <3>1, CheckedContract
  <2>3. ev' = [ev EXCEPT ![w] = r1]
    BY <1>3, <2>1, Steps
  <2>4. /\ r1.at = "loop" /\ r1.call = r.call /\ r1.doc = r.doc /\ r1.owns = r.owns /\ r1.n = r.n
        /\ r1.counted = r.counted /\ r1.effect = r.effect /\ r1.gated = r.gated
        /\ r1 = Flight(r1.at, r1.call, r1.doc, r1.owns, r1.n, r1.counted, r1.effect, r1.gated, r1.code)
    BY FlightFields
  <2> HIDE DEF r1
  <2>5. IsFlight(r1)
    BY <1>2, <1>3, <2>4 DEF IsFlight
  <2>6. FlightOk(r1, counted, evaluations, gateHandles, phaseManager.phases)
    BY <1>1, <1>2, <1>3, <2>2, <2>4, <2>5 DEF FlightOk
  <2>. QED BY <1>1, <1>2, <2>3, <2>4, <2>6, GatePhasesStay, AdvanceKeeps
<1>. QED BY <1>5, <1>6

LEMMA CheckRunLoopKeeps ==
  ASSUME GatesInv, NEW w \in GateEvaluators, CheckRunLoop(w) PROVE GatesInv'
<1>1. /\ ev[w].at = "loop" /\ UNCHANGED gateState
      /\ UNCHANGED <<active, counted, gateHandles, wal, answers, evaluations>>
      /\ loopCalls' = loopCalls \/ loopCalls' = loopCalls + 1
      /\ Refuse(w, "DENY", "LOOP") \/ Move(w, "guard")
  BY DEF CheckRunLoop
<1>2. /\ "loop" \in Unlooped /\ "loop" \in Uncounted /\ "loop" \in GateSteps /\ "loop" \in PastChecks
      /\ "guard" \notin Unlooped /\ "guard" \in Uncounted /\ "guard" \in GateSteps
  BY DEF GateSteps, Uncounted, Unlooped, PastChecks
<1>3. CASE Refuse(w, "DENY", "LOOP")
  BY <1>1, <1>2, <1>3, RefuseKeeps
<1>4. CASE Move(w, "guard")
  BY <1>1, <1>2, <1>4, GatePhasesStay, MoveKeeps
<1>. QED BY <1>1, <1>3, <1>4

LEMMA CheckContextKeeps ==
  ASSUME GatesInv, NEW w \in GateEvaluators, CheckContext(w) PROVE GatesInv'
<1>1. /\ ev[w].at = "guard" /\ UNCHANGED gateState
      /\ UNCHANGED <<active, counted, gateHandles, wal, answers, evaluations>> /\ loopCalls' = loopCalls
      /\ \/ Move(w, "count")
         \/ ev[w].doc.guard # "none" /\ \E v \in {"DENY", ev[w].doc.guard} : Refuse(w, v, "CONTEXT")
  BY DEF CheckContext, callState
<1>2. /\ "guard" \notin Unlooped /\ "guard" \in Uncounted /\ "guard" \in GateSteps /\ "guard" \in PastChecks
      /\ "count" \notin Unlooped /\ "count" \in Uncounted /\ "count" \in GateSteps
  BY DEF GateSteps, Uncounted, Unlooped, PastChecks
<1>3. ASSUME ev[w].doc.guard # "none", NEW v \in {"DENY", ev[w].doc.guard}, Refuse(w, v, "CONTEXT") PROVE GatesInv'
  <2>1. ev[w].doc.guard \in {"none", "DEFER", "DENY"}
    BY <1>1, <1>2, CallGoes, GatesAssumption DEF IsFlight, GatesAssumption
  <2>2. v = "DENY" \/ v = "DEFER"
    BY <1>3, <2>1
  <2>. QED BY <1>1, <1>2, <1>3, <2>2, RefuseKeeps
<1>4. CASE Move(w, "count")
  BY <1>1, <1>2, <1>4, GatePhasesStay, MoveKeeps
<1>. QED BY <1>1, <1>3, <1>4

LEMMA CheckRiskWeightKeeps ==
  ASSUME GatesInv, NEW w \in GateEvaluators, CheckRiskWeight(w) PROVE GatesInv'
<1>1. /\ ev[w].at = "risk" /\ UNCHANGED gateState
      /\ UNCHANGED <<active, counted, gateHandles, wal, answers, evaluations>> /\ loopCalls' = loopCalls
      /\ Refuse(w, "DENY", "AGGREGATE") \/ Move(w, "rules")
  BY DEF CheckRiskWeight
<1>2. /\ "risk" \in GateSteps /\ "risk" \in PastChecks
      /\ "rules" \notin Unlooped /\ "rules" \notin Uncounted /\ "rules" \in GateSteps
  BY DEF GateSteps, Uncounted, Unlooped, PastChecks
<1>3. CASE Refuse(w, "DENY", "AGGREGATE")
  BY <1>1, <1>2, <1>3, RefuseKeeps
<1>4. CASE Move(w, "rules")
  BY <1>1, <1>2, <1>4, GatePhasesStay, MoveKeeps
<1>. QED BY <1>1, <1>3, <1>4

(* A permitted call is about to be answered with what it has kept.         *)
LEMMA BrokerCredentialKeeps ==
  ASSUME GatesInv, NEW w \in GateEvaluators, BrokerCredential(w) PROVE GatesInv'
<1> DEFINE r == ev[w]
           r1 == Flight("decide", r.call, r.doc, r.owns, r.n, r.counted, r.effect, r.gated, r.code)
<1>1. /\ r.at = "credential" /\ UNCHANGED gateState
      /\ UNCHANGED <<active, counted, gateHandles, wal, answers, evaluations>> /\ loopCalls' = loopCalls
      /\ Refuse(w, "DENY", "CREDENTIAL") \/ Move(w, "decide")
  BY DEF BrokerCredential, callState
<1>2. /\ "credential" \in GateSteps /\ "credential" \in PastChecks
      /\ "decide" \notin Unlooped /\ "decide" \notin Uncounted /\ "decide" \in GateSteps
  BY DEF GateSteps, Uncounted, Unlooped, PastChecks
<1>3. CASE Refuse(w, "DENY", "CREDENTIAL")
  BY <1>1, <1>2, <1>3, RefuseKeeps
<1>4. CASE Move(w, "decide")
  <2>1. FlightOk(r, counted, evaluations, gateHandles, phaseManager.phases) /\ IsFlight(r)
    BY <1>1, <1>2, CallGoes
  <2>2. ev' = [ev EXCEPT ![w] = r1]
    BY <1>4, <2>1, Steps
  <2>3. /\ r1.at = "decide" /\ r1.call = r.call /\ r1.doc = r.doc /\ r1.owns = r.owns /\ r1.n = r.n
        /\ r1.counted = r.counted /\ r1.effect = r.effect /\ r1.gated = r.gated
        /\ r1 = Flight(r1.at, r1.call, r1.doc, r1.owns, r1.n, r1.counted, r1.effect, r1.gated, r1.code)
    BY FlightFields
  <2> HIDE DEF r1
  <2>4. IsFlight(r1)
    BY <1>2, <2>1, <2>3 DEF IsFlight
  <2>5. r.effect = "PERMIT" /\ "PERMIT" \in Effects /\ Contract(Timeout(r.call), r.call.env, r.doc, r.call.tool)
        /\ ~(r.doc.maxCalls > 0 /\ r.counted > r.doc.maxCalls)
    BY <1>1, <1>2, <2>1 DEF FlightOk, Effects
  <2>6. FlightOk(r1, counted, evaluations, gateHandles, phaseManager.phases)
    BY <1>2, <2>1, <2>3, <2>4, <2>5 DEF FlightOk
  <2>. QED BY <1>1, <1>2, <2>2, <2>3, <2>6, GatePhasesStay, AdvanceKeeps
<1>. QED BY <1>1, <1>3, <1>4

(* IncrCallCount: no other call has that count.                            *)
LEMMA CountCallKeeps ==
  ASSUME GatesInv, NEW w \in GateEvaluators, CountCall(w) PROVE GatesInv'
<1> DEFINE r == ev[w]
           limit == r.doc.maxCalls
           over == limit > 0 /\ counted + 1 > limit
           r1 == IF over THEN Flight("decide", r.call, r.doc, r.owns, r.n, counted + 1, "DENY", r.gated, "SESSION_TOOL_LIMIT")
                 ELSE Flight("risk", r.call, r.doc, r.owns, r.n, counted + 1, r.effect, r.gated, r.code)
           e1 == ev'
           phases == phaseManager.phases
<1>1. /\ r.at = "count" /\ counted' = counted + 1 /\ UNCHANGED gateState
      /\ UNCHANGED <<active, loopCalls, gateHandles, wal, answers, evaluations>> /\ Answers' = Answers
      /\ ev' = IF over THEN [ev EXCEPT ![w] = [r EXCEPT !.counted = counted + 1, !.at = "decide",
                                                        !.effect = "DENY", !.code = "SESSION_TOOL_LIMIT"]]
               ELSE [ev EXCEPT ![w] = [r EXCEPT !.counted = counted + 1, !.at = "risk"]]
  BY DEF CountCall, Answers
<1>2. /\ "count" \notin Unlooped /\ "count" \in Uncounted /\ "count" \in GateSteps /\ "count" \in PastChecks
      /\ "risk" \notin Unlooped /\ "risk" \notin Uncounted /\ "risk" \in GateSteps
      /\ "decide" \notin Unlooped /\ "decide" \notin Uncounted /\ "decide" \in GateSteps /\ "decide" \notin PastChecks
  BY DEF GateSteps, Uncounted, Unlooped, PastChecks
<1>3. FlightOk(r, counted, evaluations, gateHandles, phases) /\ IsFlight(r) /\ r # NoEv /\ w \in Flying(ev)
  BY <1>1, <1>2, CallGoes
<1>4. counted \in Nat /\ evaluations \in Nat /\ ev = [v \in GateEvaluators |-> ev[v]]
  BY DEF GatesInv, GateTypes
<1>5. ev' = [ev EXCEPT ![w] = r1]
  <2>1. r = Flight(r.at, r.call, r.doc, r.owns, r.n, r.counted, r.effect, r.gated, r.code)
    BY <1>3 DEF IsFlight
  <2> HIDE DEF r, over
  <2> DEFINE r2 == Flight(r.at, r.call, r.doc, r.owns, r.n, counted + 1, r.effect, r.gated, r.code)
             r3 == Flight("decide", r.call, r.doc, r.owns, r.n, counted + 1, "DENY", r.gated, "SESSION_TOOL_LIMIT")
             r4 == Flight("risk", r.call, r.doc, r.owns, r.n, counted + 1, r.effect, r.gated, r.code)
  <2>2. [r EXCEPT !.counted = counted + 1] = r2
    BY <2>1, OwnCounted
  <2>30. r2 = Flight(r2.at, r2.call, r2.doc, r2.owns, r2.n, r2.counted, r2.effect, r2.gated, r2.code)
    BY FlightFields
  <2>3. r2 = Flight(r2.at, r2.call, r2.doc, r2.owns, r2.n, r2.counted, r2.effect, r2.gated, r2.code)
        /\ r2.call = r.call /\ r2.doc = r.doc /\ r2.owns = r.owns /\ r2.n = r.n /\ r2.counted = counted + 1
        /\ r2.effect = r.effect /\ r2.gated = r.gated /\ r2.code = r.code
    BY FlightFields
  <2> HIDE DEF r2
  <2>4. [r2 EXCEPT !.at = "decide", !.effect = "DENY", !.code = "SESSION_TOOL_LIMIT"] = r3
    <3>1. \A v, x : [r2 EXCEPT !.at = "decide", !.effect = v, !.code = x] =
            Flight("decide", r2.call, r2.doc, r2.owns, r2.n, r2.counted, v, r2.gated, x)
      <4> SUFFICES ASSUME NEW v, NEW x
                   PROVE  [r2 EXCEPT !.at = "decide", !.effect = v, !.code = x] =
                          Flight("decide", r2.call, r2.doc, r2.owns, r2.n, r2.counted, v, r2.gated, x)
        OBVIOUS
      <4> HIDE DEF r3, r4, r1
      <4>. QED BY <2>30, OwnDecision, Zenon
    <3>2. [r2 EXCEPT !.at = "decide", !.effect = "DENY", !.code = "SESSION_TOOL_LIMIT"] =
            Flight("decide", r2.call, r2.doc, r2.owns, r2.n, r2.counted, "DENY", r2.gated, "SESSION_TOOL_LIMIT")
      BY <3>1, Zenon
    <3>. QED BY <2>3, <3>2
  <2>5. [r2 EXCEPT !.at = "risk"] = r4
    <3>1. [r2 EXCEPT !.at = "risk"] =
            Flight("risk", r2.call, r2.doc, r2.owns, r2.n, r2.counted, r2.effect, r2.gated, r2.code)
      BY <2>3, OwnPlace, Zenon
    <3>. QED BY <2>3, <3>1
  <2> HIDE DEF r3, r4
  <2>6. [r EXCEPT !.counted = counted + 1, !.at = "decide", !.effect = "DENY", !.code = "SESSION_TOOL_LIMIT"] = r3
    BY <2>2, <2>4, Zenon
  <2>7. [r EXCEPT !.counted = counted + 1, !.at = "risk"] = r4
    BY <2>2, <2>5, Zenon
  <2>8. CASE over
    <3>1. ev' = [ev EXCEPT ![w] = [r EXCEPT !.counted = counted + 1, !.at = "decide",
                                            !.effect = "DENY", !.code = "SESSION_TOOL_LIMIT"]]
      BY <1>1, <2>8, Zenon DEF r, over
    <3>2. ev' = [ev EXCEPT ![w] = r3]
      BY <2>6, <3>1, Zenon
    <3>. QED BY <2>8, <3>2 DEF r3
  <2>9. CASE ~over
    <3>1. ev' = [ev EXCEPT ![w] = [r EXCEPT !.counted = counted + 1, !.at = "risk"]]
      BY <1>1, <2>9, Zenon DEF r, over
    <3>2. ev' = [ev EXCEPT ![w] = r4]
      BY <2>7, <3>1, Zenon
    <3>. QED BY <2>9, <3>2 DEF r4
  <2>. QED BY <2>8, <2>9
<1>6. /\ r1.at \in {"decide", "risk"} /\ r1.call = r.call /\ r1.doc = r.doc /\ r1.owns = r.owns /\ r1.n = r.n
      /\ r1.counted = counted + 1 /\ r1.gated = r.gated
      /\ over => r1.at = "decide" /\ r1.effect = "DENY"
      /\ ~over => r1.at = "risk"
      /\ r1 = Flight(r1.at, r1.call, r1.doc, r1.owns, r1.n, r1.counted, r1.effect, r1.gated, r1.code)
  <2>1. CASE over
    <3> HIDE DEF over
    <3>1. r1 = Flight("decide", r.call, r.doc, r.owns, r.n, counted + 1, "DENY", r.gated, "SESSION_TOOL_LIMIT")
      BY <2>1
    <3> HIDE DEF r1
    <3>. QED BY <2>1, <3>1, FlightFields
  <2>2. CASE ~over
    <3> HIDE DEF over
    <3>1. r1 = Flight("risk", r.call, r.doc, r.owns, r.n, counted + 1, r.effect, r.gated, r.code)
      BY <2>2
    <3> HIDE DEF r1
    <3>. QED BY <2>2, <3>1, FlightFields
  <2>. QED BY <2>1, <2>2
<1> HIDE DEF r1
<1>7. FlightOk(r1, counted + 1, evaluations, gateHandles, phases)
  <2>1. IsFlight(r1)
    BY <1>2, <1>3, <1>4, <1>6 DEF IsFlight
  <2>2. /\ r1.n \in 1 .. evaluations /\ r1.counted \in 0 .. (counted + 1)
        /\ InPhase(phases, r1.call.tool, r1.gated)
        /\ Contract(Timeout(r1.call), r1.call.env, r1.doc, r1.call.tool)
    BY <1>1, <1>2, <1>3, <1>4, <1>6 DEF FlightOk
  <2>3. r1.at \notin Uncounted /\ r1.at # "credential"
    BY <1>2, <1>6
  <2>4. r1.doc.maxCalls > 0 /\ r1.counted > r1.doc.maxCalls => r1.at = "decide" /\ r1.effect = "DENY"
    BY <1>6
  <2>5. r1.at = "decide" => r1.effect = "DENY" /\ "DENY" \in Effects
    BY <1>6 DEF Effects
  <2>. QED BY <2>1, <2>2, <2>3, <2>4, <2>5 DEF FlightOk
<1>8. /\ e1[w] = r1 /\ \A v \in GateEvaluators \ {w} : e1[v] = ev[v]
      /\ e1 = [v \in GateEvaluators |-> e1[v]]
  BY <1>4, <1>5, Moved
<1>9. r1 # NoEv
  BY <1>7, NoEvIsIdle DEF FlightOk
<1> HIDE DEF e1, r, over
<1>10. Flying(e1) = Flying(ev)
  BY <1>3, <1>8, <1>9 DEF Flying, r
<1>11. \A v \in Flying(ev) : e1[v].n = ev[v].n /\ e1[v].owns = ev[v].owns /\ e1[v].call.id = ev[v].call.id
  BY <1>6, <1>8 DEF Flying, r
<1>12. /\ \A v \in Flying(ev) : v # w => e1[v] = ev[v] /\ ev[v].counted \in 0 .. counted
       /\ e1[w].counted = counted + 1 /\ r.counted = 0
  <2>1. \A v \in Flying(ev) : ev[v].counted \in 0 .. counted
    BY DEF Flying, GatesInv, FlightOk
  <2>2. r.counted = 0
    BY <1>1, <1>2, <1>3 DEF FlightOk
  <2>. QED BY <1>6, <1>8, <2>1, <2>2 DEF Flying
<1>13. \A a \in Answers : a.counted \in 0 .. counted
  BY DEF GatesInv, AnswerOk
<1>14. Apart(e1, Answers)
  <2>1. Apart(ev, Answers)
    BY DEF GatesInv
  <2>2. \A x, y \in Flying(ev) : x # y /\ e1[x].counted > 0 => e1[x].counted # e1[y].counted
    <3>1. SUFFICES ASSUME NEW x \in Flying(ev), NEW y \in Flying(ev), x # y, e1[x].counted > 0
                   PROVE  e1[x].counted # e1[y].counted
      OBVIOUS
    <3>2. CASE x # w /\ y # w
      BY <1>12, <2>1, <3>1, <3>2 DEF Apart
    <3>3. CASE x = w
      BY <1>4, <1>12, <3>1, <3>3
    <3>4. CASE y = w
      BY <1>4, <1>12, <3>1, <3>4
    <3>. QED BY <3>2, <3>3, <3>4
  <2>3. \A x \in Flying(ev), a \in Answers : a.counted > 0 => e1[x].counted # a.counted
    <3>1. SUFFICES ASSUME NEW x \in Flying(ev), NEW a \in Answers, a.counted > 0
                   PROVE  e1[x].counted # a.counted
      OBVIOUS
    <3>2. CASE x # w
      BY <1>12, <2>1, <3>1, <3>2 DEF Apart
    <3>3. CASE x = w
      BY <1>4, <1>12, <1>13, <3>3
    <3>. QED BY <3>2, <3>3
  <2>4. \A x, y \in Flying(ev) : x # y => e1[x].n # e1[y].n /\ (e1[x].owns /\ e1[y].owns => e1[x].call.id # e1[y].call.id)
    BY <1>11, <2>1 DEF Apart
  <2>5. \A x \in Flying(ev), a \in Answers : e1[x].n # a.n
    BY <1>11, <2>1 DEF Apart
  <2>6. \A a, b \in Answers : a.counted > 0 /\ a.counted = b.counted => a = b
    BY <2>1 DEF Apart
  <2>. QED BY <1>10, <2>2, <2>3, <2>4, <2>5, <2>6 DEF Apart
<1>15. Handled(gateHandles, Answers, e1)
  <2>1. \A v \in Flying(ev) : ev[v].at = "decide" => v # w
    BY <1>1 DEF r
  <2>2. \A v \in Flying(ev) : ev[v].at = "decide" => e1[v] = ev[v]
    BY <1>8, <2>1 DEF Flying
  <2>3. Handled(gateHandles, Answers, ev)
    BY DEF GatesInv
  <2>. QED BY <1>10, <2>2, <2>3 DEF Handled
<1>16. Owned(active, e1)
  BY <1>10, <1>11 DEF GatesInv, Owned
<1>17. GateCounts(e1, Answers, counted + 1, loopCalls, evaluations)
  <2>1. GateCounts(ev, Answers, counted, loopCalls, evaluations)
    BY DEF GatesInv
  <2> DEFINE a == Cardinality(StandingAt(ev, Uncounted))  a1 == Cardinality(StandingAt(e1, Uncounted))
             b == Cardinality(StandingAt(ev, Unlooped))  b1 == Cardinality(StandingAt(e1, Unlooped))
             d == Cardinality(Doing(ev))  d1 == Cardinality(Doing(e1))
  <2>2. r1.at \notin Uncounted /\ r1.at \notin Unlooped /\ ev[w].at \in Uncounted
    BY <1>1, <1>2, <1>6 DEF r
  <2>3. a \in Nat /\ a1 \in Nat /\ a1 = a - 1 /\ b \in Nat /\ b1 \in Nat /\ b1 <= b
    <3>1. e1[w].at = r1.at
      BY <1>8
    <3>2. a \in Nat /\ a1 \in Nat /\ a1 = a - 1
      BY <1>8, <2>2, <3>1, AtMoves
    <3>3. b \in Nat /\ b1 \in Nat /\ b1 <= b
      BY <1>8, <2>2, <3>1, AtMoves
    <3>. QED BY <3>2, <3>3
  <2>4. d \in Nat /\ d1 = d + 1
    <3>1. w \in Doing(e1) /\ w \notin Doing(ev)
      BY <1>3, <1>4, <1>10, <1>12 DEF Doing, r
    <3>. QED BY <1>8, <3>1, DoingMoves
  <2>5. /\ counted + a <= evaluations /\ loopCalls + b <= evaluations
        /\ IsFiniteSet(Answers) /\ counted = Cardinality(Done(Answers)) + d
    BY <2>1 DEF GateCounts
  <2>6. loopCalls \in Nat /\ Cardinality(Done(Answers)) \in Nat
    <3>1. Done(Answers) \subseteq Answers
      BY DEF Done
    <3>. QED BY <2>5, <3>1, FS_Subset, FS_CardinalityType DEF GatesInv, GateTypes
  <2> HIDE DEF a, a1, b, b1, d, d1
  <2>7. counted + 1 + a1 <= evaluations /\ loopCalls + b1 <= evaluations /\ counted + 1 = Cardinality(Done(Answers)) + d1
    BY <1>4, <2>3, <2>4, <2>5, <2>6
  <2>. QED BY <2>5, <2>7 DEF GateCounts, a1, b1, d1
<1>18. GateTypes'
  <2>1. counted' \in Nat
    BY <1>1, <1>4
  <2>2. ev' = [v \in GateEvaluators |-> ev'[v]]
    BY <1>8 DEF e1
  <2>3. /\ policy' = policy /\ loopCalls' = loopCalls /\ wal' = wal /\ answers' = answers
        /\ evaluations' = evaluations /\ phaseManager' = phaseManager /\ Answers' = Answers
    BY <1>1 DEF gateState
  <2>. QED BY <2>1, <2>2, <2>3 DEF GatesInv, GateTypes
<1>19. \A v \in GateEvaluators : e1[v] = NoEv \/ FlightOk(e1[v], counted + 1, evaluations, gateHandles, phases)
  <2>1. SUFFICES ASSUME NEW v \in GateEvaluators, e1[v] # NoEv
                 PROVE  FlightOk(e1[v], counted + 1, evaluations, gateHandles, phases)
    OBVIOUS
  <2>2. CASE v = w
    BY <1>7, <1>8, <2>2
  <2>3. CASE v # w
    <3>1. FlightOk(ev[v], counted, evaluations, gateHandles, phases) /\ e1[v] = ev[v]
      BY <1>8, <2>1, <2>3 DEF GatesInv
    <3>2. counted <= counted + 1 /\ counted + 1 \in Nat /\ evaluations <= evaluations
      BY <1>4
    <3>. QED BY <1>4, <3>1, <3>2, FlightStaysOk
  <2>. QED BY <2>2, <2>3
<1>20. \A a \in Answers : AnswerOk(a, counted + 1, evaluations, gateHandles, phases)
  <2>1. \A a \in Answers : AnswerOk(a, counted, evaluations, gateHandles, phases)
    BY DEF GatesInv
  <2>2. counted <= counted + 1 /\ counted + 1 \in Nat /\ evaluations <= evaluations
    BY <1>4
  <2>. QED BY <1>4, <2>1, <2>2, AnswerStaysOk
<1>21. Written(wal, Answers)
  BY DEF GatesInv
<1>22. /\ active' = active /\ loopCalls' = loopCalls /\ gateHandles' = gateHandles /\ wal' = wal
       /\ evaluations' = evaluations /\ phaseManager' = phaseManager /\ counted' = counted + 1 /\ Answers' = Answers
  BY <1>1 DEF gateState
<1>. QED BY <1>14, <1>15, <1>16, <1>17, <1>18, <1>19, <1>20, <1>21, <1>22 DEF GatesInv, e1

LEMMA EffectsOfRules == \A raw : EffectOf(raw) \in Effects
  BY DEF EffectOf, Effects

(* A deferral's handle is registered before its record is written.         *)
LEMMA TryRulesKeeps ==
  ASSUME GatesInv, NEW w \in GateEvaluators, TryRules(w) PROVE GatesInv'
<1> DEFINE r == ev[w]
           verdict == EffectOf(r.doc.rules[r.call.tool])
           place == IF verdict = "PERMIT" THEN "credential" ELSE "decide"
           r1 == Flight(place, r.call, r.doc, r.owns, r.n, r.counted, verdict, r.gated, "RULE")
           h1 == IF verdict = "DEFER" THEN gateHandles \cup {r.call.id} ELSE gateHandles
           e1 == ev'
           phases == phaseManager.phases
<1>1. /\ r.at = "rules" /\ UNCHANGED gateState
      /\ UNCHANGED <<active, loopCalls, counted, wal, answers, evaluations>> /\ Answers' = Answers
      /\ gateHandles' = h1
      /\ ev' = [ev EXCEPT ![w] = [r EXCEPT !.effect = verdict, !.code = "RULE", !.at = place]]
  BY DEF TryRules, Answers
<1>2. /\ "rules" \notin Unlooped /\ "rules" \notin Uncounted /\ "rules" \in GateSteps /\ "rules" \in PastChecks
      /\ "decide" \notin Unlooped /\ "decide" \notin Uncounted /\ "decide" \in GateSteps /\ "decide" \notin PastChecks
      /\ "credential" \notin Unlooped /\ "credential" \notin Uncounted /\ "credential" \in GateSteps
  BY DEF GateSteps, Uncounted, Unlooped, PastChecks
<1>3. FlightOk(r, counted, evaluations, gateHandles, phases) /\ IsFlight(r) /\ r # NoEv /\ w \in Flying(ev)
  BY <1>1, <1>2, CallGoes
<1>4. counted \in Nat /\ evaluations \in Nat /\ ev = [v \in GateEvaluators |-> ev[v]]
  BY DEF GatesInv, GateTypes
<1> HIDE DEF place, verdict
<1>5. /\ verdict \in Effects /\ place \in {"credential", "decide"} /\ (place = "credential" <=> verdict = "PERMIT")
  BY EffectsOfRules DEF place, verdict
<1>6. ev' = [ev EXCEPT ![w] = r1]
  <2>1. r = Flight(r.at, r.call, r.doc, r.owns, r.n, r.counted, r.effect, r.gated, r.code)
    BY <1>3 DEF IsFlight
  <2> HIDE DEF r
  <2>2. [r EXCEPT !.effect = verdict, !.code = "RULE", !.at = place] = r1
    <3> DEFINE at0 == r.at  call == r.call  doc == r.doc  owns == r.owns  n == r.n
               count == r.counted  effect0 == r.effect  gated == r.gated  code0 == r.code
    <3>1. r = Flight(at0, call, doc, owns, n, count, effect0, gated, code0)
      BY <2>1
    <3> HIDE DEF at0, call, doc, owns, n, count, effect0, gated, code0
    <3> DEFINE r2 == Flight(at0, call, doc, owns, n, count, verdict, gated, code0)
               r3 == Flight(at0, call, doc, owns, n, count, verdict, gated, "RULE")
               r4 == Flight(place, call, doc, owns, n, count, verdict, gated, "RULE")
    <3>2. [r EXCEPT !.effect = verdict] = r2
      BY <3>1 DEF Flight
    <3>3. [r2 EXCEPT !.code = "RULE"] = r3
      BY DEF Flight
    <3>4. [r3 EXCEPT !.at = place] = r4
      BY DEF Flight
    <3> HIDE DEF r1, r2, r3, r4
    <3>5. [r EXCEPT !.effect = verdict, !.code = "RULE", !.at = place] = r4
      BY <3>2, <3>3, <3>4, Zenon
    <3>6. r4 = r1
      BY DEF r4, r1, call, doc, owns, n, count, gated
    <3>. QED BY <3>5, <3>6
  <2>. QED BY <1>1, <2>2
<1>7. /\ r1.at = place /\ r1.call = r.call /\ r1.doc = r.doc /\ r1.owns = r.owns /\ r1.n = r.n
      /\ r1.counted = r.counted /\ r1.gated = r.gated /\ r1.effect = verdict /\ r1.code = "RULE"
      /\ r1 = Flight(r1.at, r1.call, r1.doc, r1.owns, r1.n, r1.counted, r1.effect, r1.gated, r1.code)
  BY FlightFields
<1> HIDE DEF r1
<1>8. gateHandles \subseteq h1 /\ (verdict = "DEFER" => r.call.id \in h1)
  OBVIOUS
<1>9. FlightOk(r1, counted, evaluations, h1, phases)
  <2>1. IsFlight(r1)
    BY <1>2, <1>3, <1>5, <1>7 DEF IsFlight
  <2>2. /\ r1.n \in 1 .. evaluations /\ r1.counted \in 0 .. counted
        /\ InPhase(phases, r1.call.tool, r1.gated)
        /\ Contract(Timeout(r1.call), r1.call.env, r1.doc, r1.call.tool)
        /\ ~(r1.doc.maxCalls > 0 /\ r1.counted > r1.doc.maxCalls)
    BY <1>1, <1>2, <1>3, <1>7 DEF FlightOk
  <2>3. /\ r1.at \notin Uncounted /\ (r1.at = "credential" => r1.effect = "PERMIT")
        /\ (r1.at = "decide" => r1.effect \in Effects)
        /\ (r1.effect = "DEFER" => r1.call.id \in h1)
    BY <1>2, <1>5, <1>7, <1>8
  <2>. QED BY <2>1, <2>2, <2>3 DEF FlightOk
<1>10. /\ e1[w] = r1 /\ \A v \in GateEvaluators \ {w} : e1[v] = ev[v]
       /\ e1 = [v \in GateEvaluators |-> e1[v]]
  BY <1>4, <1>6, Moved
<1>11. r1 # NoEv
  BY <1>9, NoEvIsIdle DEF FlightOk
<1> HIDE DEF e1, h1
<1>12. Flying(e1) = Flying(ev)
  BY <1>3, <1>10, <1>11 DEF Flying
<1>13. \A v \in Flying(ev) : /\ e1[v].n = ev[v].n /\ e1[v].owns = ev[v].owns
                             /\ e1[v].counted = ev[v].counted /\ e1[v].call.id = ev[v].call.id
  BY <1>7, <1>10 DEF Flying
<1>14. Apart(e1, Answers)
  BY <1>12, <1>13 DEF GatesInv, Apart
<1>15. Handled(h1, Answers, e1)
  <2>1. SUFFICES ASSUME NEW h \in h1
                 PROVE  \/ \E a \in Answers : a.id = h /\ (a.effect = "DEFER" \/ a.code = "WAL_WRITE_FAILURE")
                        \/ \E v \in Flying(e1) : e1[v].call.id = h /\ e1[v].at = "decide" /\ e1[v].effect = "DEFER"
    BY DEF Handled
  <2>2. CASE h \in gateHandles
    <3>1. \A v \in Flying(ev) : ev[v].at = "decide" => e1[v] = ev[v]
      BY <1>1, <1>10 DEF Flying
    <3>2. Handled(gateHandles, Answers, ev)
      BY DEF GatesInv
    <3>. QED BY <1>12, <2>2, <3>1, <3>2 DEF Handled
  <2>3. CASE h \notin gateHandles
    <3>1. verdict = "DEFER" /\ h = r.call.id
      BY <2>1, <2>3 DEF h1
    <3>2. w \in Flying(e1) /\ e1[w].call.id = h /\ e1[w].at = "decide" /\ e1[w].effect = "DEFER"
      BY <1>3, <1>5, <1>7, <1>10, <1>12, <3>1
    <3>. QED BY <3>2
  <2>. QED BY <2>2, <2>3
<1>16. Owned(active, e1)
  BY <1>12, <1>13 DEF GatesInv, Owned
<1>17. GateCounts(e1, Answers, counted, loopCalls, evaluations)
  <2>1. GateCounts(ev, Answers, counted, loopCalls, evaluations)
    BY DEF GatesInv
  <2>2. Doing(e1) = Doing(ev)
    BY <1>12, <1>13 DEF Doing
  <2>3. \A v \in GateEvaluators : (e1[v].at \in Uncounted <=> ev[v].at \in Uncounted)
                                  /\ (e1[v].at \in Unlooped <=> ev[v].at \in Unlooped)
    BY <1>1, <1>2, <1>5, <1>7, <1>10
  <2>4. StandingAt(e1, Uncounted) = StandingAt(ev, Uncounted) /\ StandingAt(e1, Unlooped) = StandingAt(ev, Unlooped)
    BY <2>3 DEF StandingAt
  <2>. QED BY <2>1, <2>2, <2>4 DEF GateCounts
<1>18. GateTypes'
  <2>1. ev' = [v \in GateEvaluators |-> ev'[v]]
    BY <1>10 DEF e1
  <2>2. /\ policy' = policy /\ loopCalls' = loopCalls /\ wal' = wal /\ answers' = answers /\ counted' = counted
        /\ evaluations' = evaluations /\ phaseManager' = phaseManager /\ Answers' = Answers
    BY <1>1 DEF gateState
  <2>. QED BY <2>1, <2>2 DEF GatesInv, GateTypes
<1>19. \A v \in GateEvaluators : e1[v] = NoEv \/ FlightOk(e1[v], counted, evaluations, h1, phases)
  <2>1. SUFFICES ASSUME NEW v \in GateEvaluators, e1[v] # NoEv
                 PROVE  FlightOk(e1[v], counted, evaluations, h1, phases)
    OBVIOUS
  <2>2. CASE v = w
    BY <1>9, <1>10, <2>2
  <2>3. CASE v # w
    <3>1. FlightOk(ev[v], counted, evaluations, gateHandles, phases) /\ e1[v] = ev[v]
      BY <1>10, <2>1, <2>3 DEF GatesInv
    <3>2. counted <= counted /\ evaluations <= evaluations
      BY <1>4
    <3>. QED BY <1>4, <1>8, <3>1, <3>2, FlightStaysOk
  <2>. QED BY <2>2, <2>3
<1>20. \A a \in Answers : AnswerOk(a, counted, evaluations, h1, phases)
  <2>1. \A a \in Answers : AnswerOk(a, counted, evaluations, gateHandles, phases)
    BY DEF GatesInv
  <2>2. counted <= counted /\ evaluations <= evaluations
    BY <1>4
  <2>. QED BY <1>4, <1>8, <2>1, <2>2, AnswerStaysOk
<1>21. Written(wal, Answers)
  BY DEF GatesInv
<1>22. /\ active' = active /\ loopCalls' = loopCalls /\ gateHandles' = h1 /\ wal' = wal
       /\ evaluations' = evaluations /\ phaseManager' = phaseManager /\ counted' = counted /\ Answers' = Answers
  BY <1>1 DEF gateState
<1>. QED BY <1>14, <1>15, <1>16, <1>17, <1>18, <1>19, <1>20, <1>21, <1>22 DEF GatesInv, e1

(* A call enters with a number of its own, and owns the chain or is refused. *)
LEMMA EnterKeeps ==
  ASSUME GatesInv, NEW w \in GateEvaluators, NEW c \in GateCalls, Enter(w, c) PROVE GatesInv'
<1> DEFINE wraps == c.id \in active
           call == [f \in CallFields \cup {"phase"} |-> IF f = "phase" THEN "none" ELSE c[f]]
           r1 == Flight(IF wraps THEN "decide" ELSE "principal", call, policy, ~wraps, evaluations + 1, 0,
                        IF wraps THEN "DENY" ELSE "none", "none", IF wraps THEN "GOVERNANCE_DOUBLE_WRAP_DENIED" ELSE "none")
           e1 == ev'
           phases == phaseManager.phases
           n1 == evaluations + 1
<1>1. /\ ev[w] = NoEv /\ evaluations < MaxEvaluations /\ evaluations' = n1 /\ active' = active \cup {c.id}
      /\ UNCHANGED gateState
      /\ UNCHANGED <<loopCalls, counted, gateHandles, wal, answers>> /\ Answers' = Answers
      /\ ev' = [ev EXCEPT ![w] = r1]
  BY DEF Enter, Answers, Flight
<1>2. /\ "principal" \in Unlooped /\ "principal" \in Uncounted /\ "principal" \in GateSteps /\ "principal" \notin PastChecks
      /\ "decide" \notin Unlooped /\ "decide" \notin Uncounted /\ "decide" \in GateSteps /\ "decide" \notin PastChecks
      /\ "idle" \notin Unlooped /\ "idle" \notin Uncounted
  BY DEF GateSteps, Uncounted, Unlooped, PastChecks
<1>3. /\ {"id", "tool", "env", "phase"} \subseteq DOMAIN call
      /\ call.id = c.id /\ call.env = c.env /\ c.env \in Nat
  <2>1. DOMAIN c = CallFields /\ c.env \in Nat
    BY GatesAssumption DEF GatesAssumption
  <2>. QED BY <2>1 DEF CallFields
<1>4. counted \in Nat /\ evaluations \in Nat /\ ev = [v \in GateEvaluators |-> ev[v]] /\ policy \in GatePolicies0
      /\ loopCalls \in Nat /\ MaxEvaluations \in Nat
  BY GatesAssumption DEF GatesInv, GateTypes, GatesAssumption
<1> HIDE DEF call, wraps
<1>5. /\ r1.at = (IF wraps THEN "decide" ELSE "principal") /\ r1.call = call /\ r1.doc = policy /\ r1.owns = ~wraps
      /\ r1.n = n1 /\ r1.counted = 0 /\ r1.effect = (IF wraps THEN "DENY" ELSE "none") /\ r1.gated = "none"
      /\ r1 = Flight(r1.at, r1.call, r1.doc, r1.owns, r1.n, r1.counted, r1.effect, r1.gated, r1.code)
  BY FlightFields
<1> HIDE DEF r1
<1>6. /\ r1.at \in {"decide", "principal"} /\ (r1.at = "decide" => r1.effect = "DENY") /\ r1.owns \in BOOLEAN
      /\ r1.at \in GateSteps /\ r1.at \notin PastChecks
  BY <1>2, <1>5
<1>7. FlightOk(r1, counted, n1, gateHandles, phases)
  <2>1. IsFlight(r1)
    BY <1>3, <1>4, <1>5, <1>6 DEF IsFlight
  <2>2. /\ r1.n \in 1 .. n1 /\ r1.counted \in 0 .. counted /\ InPhase(phases, r1.call.tool, r1.gated)
    BY <1>4, <1>5 DEF InPhase
  <2>3. ~(r1.doc.maxCalls > 0 /\ r1.counted > r1.doc.maxCalls)
    BY <1>4, <1>5, GatesAssumption DEF GatesAssumption
  <2>4. r1.effect \in {"DENY", "none"} /\ "DENY" \in Effects
    BY <1>5 DEF Effects
  <2>. QED BY <1>5, <1>6, <2>1, <2>2, <2>3, <2>4 DEF FlightOk
<1>8. /\ e1[w] = r1 /\ \A v \in GateEvaluators \ {w} : e1[v] = ev[v]
      /\ e1 = [v \in GateEvaluators |-> e1[v]]
  BY <1>1, <1>4, Moved
<1>9. r1 # NoEv
  BY <1>7, NoEvIsIdle DEF FlightOk
<1> HIDE DEF e1
<1>10. Flying(e1) = Flying(ev) \cup {w} /\ w \notin Flying(ev) /\ \A v \in Flying(ev) : v # w /\ e1[v] = ev[v]
  BY <1>1, <1>8, <1>9 DEF Flying
<1>11. \A v \in Flying(ev) : ev[v].n \in 1 .. evaluations
  BY DEF Flying, GatesInv, FlightOk
<1>12. \A a \in Answers : a.n \in 1 .. evaluations
  BY DEF GatesInv, AnswerOk
<1>13. active = {ev[v].call.id : v \in {x \in Flying(ev) : ev[x].owns}}
  BY DEF GatesInv, Owned
<1>14. Apart(e1, Answers)
  <2>1. Apart(ev, Answers)
    BY DEF GatesInv
  <2>2. \A v \in Flying(ev) : /\ ev[v].n # r1.n
                              /\ ev[v].counted > 0 => ev[v].counted # r1.counted
                              /\ ev[v].owns /\ r1.owns => ev[v].call.id # r1.call.id
    <3>1. \A v \in Flying(ev) : ev[v].n # r1.n
      BY <1>4, <1>5, <1>11
    <3>2. \A v \in Flying(ev) : ev[v].counted > 0 => ev[v].counted # r1.counted
      BY <1>5
    <3>3. \A v \in Flying(ev) : ev[v].owns /\ r1.owns => ev[v].call.id # r1.call.id
      BY <1>3, <1>5, <1>13 DEF wraps
    <3>. QED BY <3>1, <3>2, <3>3
  <2>3. \A a \in Answers : a.n # r1.n /\ (a.counted > 0 => a.counted # r1.counted)
    BY <1>4, <1>5, <1>12
  <2>4. \A x, y \in Flying(e1) : x # y =>
          /\ e1[x].n # e1[y].n
          /\ e1[x].counted > 0 => e1[x].counted # e1[y].counted
          /\ e1[x].owns /\ e1[y].owns => e1[x].call.id # e1[y].call.id
    <3>1. SUFFICES ASSUME NEW x \in Flying(e1), NEW y \in Flying(e1), x # y
                   PROVE  /\ e1[x].n # e1[y].n
                          /\ e1[x].counted > 0 => e1[x].counted # e1[y].counted
                          /\ e1[x].owns /\ e1[y].owns => e1[x].call.id # e1[y].call.id
      OBVIOUS
    <3>2. CASE x # w /\ y # w
      BY <1>10, <2>1, <3>1, <3>2 DEF Apart
    <3>3. CASE x = w
      <4>1. y \in Flying(ev) /\ e1[y] = ev[y] /\ e1[x] = r1
        BY <1>8, <1>10, <3>1, <3>3
      <4>2. ~(r1.counted > 0)
        BY <1>5
      <4>. QED BY <2>2, <4>1, <4>2
    <3>4. CASE y = w
      <4>1. x \in Flying(ev) /\ e1[x] = ev[x] /\ e1[y] = r1
        BY <1>8, <1>10, <3>1, <3>4
      <4>. QED BY <2>2, <4>1
    <3>. QED BY <3>2, <3>3, <3>4
  <2>5. \A x \in Flying(e1), a \in Answers : e1[x].n # a.n /\ (a.counted > 0 => e1[x].counted # a.counted)
    <3>1. SUFFICES ASSUME NEW x \in Flying(e1), NEW a \in Answers
                   PROVE  e1[x].n # a.n /\ (a.counted > 0 => e1[x].counted # a.counted)
      OBVIOUS
    <3>2. CASE x # w
      BY <1>10, <2>1, <3>1, <3>2 DEF Apart
    <3>3. CASE x = w
      BY <1>8, <2>3, <3>3
    <3>. QED BY <3>2, <3>3
  <2>. QED BY <2>1, <2>4, <2>5 DEF Apart
<1>15. Handled(gateHandles, Answers, e1)
  <2>1. Handled(gateHandles, Answers, ev)
    BY DEF GatesInv
  <2>. QED BY <1>10, <2>1 DEF Handled
<1>16. Owned(active \cup {c.id}, e1)
  <2>1. SUFFICES ASSUME NEW i
                 PROVE  i \in active \cup {c.id} <=> \E v \in {x \in Flying(e1) : e1[x].owns} : i = e1[v].call.id
    BY DEF Owned
  <2>2. i \in active <=> \E v \in {x \in Flying(ev) : ev[x].owns} : i = ev[v].call.id
    BY <1>13
  <2>3. e1[w].owns = ~wraps /\ e1[w].call.id = c.id /\ (wraps <=> c.id \in active)
    BY <1>3, <1>5, <1>8 DEF wraps
  <2>. QED BY <1>10, <2>2, <2>3
<1>17. GateCounts(e1, Answers, counted, loopCalls, n1)
  <2>1. GateCounts(ev, Answers, counted, loopCalls, evaluations)
    BY DEF GatesInv
  <2> DEFINE a == Cardinality(StandingAt(ev, Uncounted))  a1 == Cardinality(StandingAt(e1, Uncounted))
             b == Cardinality(StandingAt(ev, Unlooped))  b1 == Cardinality(StandingAt(e1, Unlooped))
  <2>2. ev[w].at \notin Uncounted /\ ev[w].at \notin Unlooped
    BY <1>1, <1>2, NoEvIsIdle
  <2>3. a \in Nat /\ a1 \in Nat /\ a1 <= a + 1 /\ b \in Nat /\ b1 \in Nat /\ b1 <= b + 1
    <3>1. a \in Nat /\ a1 \in Nat /\ (a1 = a + 1 \/ a1 <= a)
      BY <1>8, <2>2, AtMoves
    <3>2. b \in Nat /\ b1 \in Nat /\ (b1 = b + 1 \/ b1 <= b)
      BY <1>8, <2>2, AtMoves
    <3> HIDE DEF a, a1, b, b1
    <3>. QED BY <3>1, <3>2
  <2>4. Doing(e1) = Doing(ev)
    <3>1. ~(e1[w].counted > 0)
      BY <1>5, <1>8
    <3>. QED BY <1>10, <3>1 DEF Doing
  <2>5. /\ counted + a <= evaluations /\ loopCalls + b <= evaluations
    BY <2>1 DEF GateCounts
  <2> HIDE DEF a, a1, b, b1
  <2>6. counted + a1 <= n1 /\ loopCalls + b1 <= n1
    BY <1>4, <2>3, <2>5
  <2>. QED BY <2>1, <2>4, <2>6 DEF GateCounts, a1, b1
<1>18. GateTypes'
  <2>1. ev' = [v \in GateEvaluators |-> ev'[v]]
    BY <1>8 DEF e1
  <2>2. evaluations' \in 0 .. MaxEvaluations
    BY <1>1, <1>4
  <2>3. /\ policy' = policy /\ loopCalls' = loopCalls /\ wal' = wal /\ answers' = answers /\ counted' = counted
        /\ phaseManager' = phaseManager /\ Answers' = Answers
    BY <1>1 DEF gateState
  <2>. QED BY <2>1, <2>2, <2>3 DEF GatesInv, GateTypes
<1>19. \A v \in GateEvaluators : e1[v] = NoEv \/ FlightOk(e1[v], counted, n1, gateHandles, phases)
  <2>1. SUFFICES ASSUME NEW v \in GateEvaluators, e1[v] # NoEv
                 PROVE  FlightOk(e1[v], counted, n1, gateHandles, phases)
    OBVIOUS
  <2>2. CASE v = w
    BY <1>7, <1>8, <2>2
  <2>3. CASE v # w
    <3>1. FlightOk(ev[v], counted, evaluations, gateHandles, phases) /\ e1[v] = ev[v]
      BY <1>8, <2>1, <2>3 DEF GatesInv
    <3>2. counted <= counted /\ evaluations <= n1 /\ n1 \in Nat
      BY <1>4
    <3> HIDE DEF n1
    <3>. QED BY <1>4, <3>1, <3>2, FlightStaysOk
  <2>. QED BY <2>2, <2>3
<1>20. \A a \in Answers : AnswerOk(a, counted, n1, gateHandles, phases)
  <2>1. \A a \in Answers : AnswerOk(a, counted, evaluations, gateHandles, phases)
    BY DEF GatesInv
  <2>2. counted <= counted /\ evaluations <= n1 /\ n1 \in Nat
    BY <1>4
  <2> HIDE DEF n1
  <2>. QED BY <1>4, <2>1, <2>2, AnswerStaysOk
<1>21. Written(wal, Answers)
  BY DEF GatesInv
<1>22. /\ active' = active \cup {c.id} /\ loopCalls' = loopCalls /\ gateHandles' = gateHandles /\ wal' = wal
       /\ evaluations' = n1 /\ phaseManager' = phaseManager /\ counted' = counted /\ Answers' = Answers
  BY <1>1 DEF gateState
<1> HIDE DEF n1
<1>. QED BY <1>14, <1>15, <1>16, <1>17, <1>18, <1>19, <1>20, <1>21, <1>22 DEF GatesInv, e1

LEMMA Appended ==
  ASSUME NEW s, s \in Seq(Range(s)), NEW e, NEW t, t = Append(s, e)
  PROVE  /\ Range(t) = Range(s) \cup {e} /\ t \in Seq(Range(t))
         /\ \A i \in DOMAIN s : i \in DOMAIN t /\ t[i] = s[i]
         /\ Len(s) + 1 \in DOMAIN t /\ t[Len(s) + 1] = e /\ \A i \in DOMAIN t : i = Len(s) + 1 \/ i \in DOMAIN s
<1> DEFINE S == Range(s)
<1> HIDE DEF S
<1>1. s \in Seq(S)
  BY DEF S
<1>2. /\ Len(s) \in Nat /\ DOMAIN s = 1 .. Len(s) /\ DOMAIN t = 1 .. Len(s) + 1
      /\ \A i \in 1 .. Len(s) : t[i] = s[i]
      /\ t[Len(s) + 1] = e
      /\ t \in Seq(S \cup {e})
  <2>1. s \in Seq(S \cup {e}) /\ e \in S \cup {e}
    BY <1>1
  <2>2. t \in Seq(S \cup {e}) /\ Len(t) = Len(s) + 1 /\ t[Len(s) + 1] = e /\ \A i \in 1 .. Len(s) : t[i] = s[i]
    BY <2>1, AppendProperties
  <2>3. Len(s) \in Nat /\ DOMAIN s = 1 .. Len(s) /\ DOMAIN t = 1 .. Len(t)
    BY <1>1, <2>2, LenProperties
  <2>. QED BY <2>2, <2>3
<1>3. \A i \in DOMAIN s : i \in DOMAIN t /\ t[i] = s[i]
  BY <1>2
<1>4. /\ Len(s) + 1 \in DOMAIN t /\ t[Len(s) + 1] = e
      /\ \A i \in DOMAIN t : i = Len(s) + 1 \/ i \in DOMAIN s
  BY <1>2
<1>5. Range(t) = S \cup {e}
  <2>1. ASSUME NEW x PROVE x \in Range(t) <=> x \in S \cup {e}
    <3>1. x \in Range(t) => x \in S \cup {e}
      <4>1. SUFFICES ASSUME NEW i \in DOMAIN t, x = t[i] PROVE x \in S \cup {e}
        BY DEF Range
      <4>2. CASE i = Len(s) + 1
        BY <1>4, <4>1, <4>2
      <4>3. CASE i \in DOMAIN s
        BY <1>3, <4>1, <4>3 DEF S, Range
      <4>. QED BY <1>4, <4>2, <4>3
    <3>2. x \in S => x \in Range(t)
      BY <1>3 DEF S, Range
    <3>3. e \in Range(t)
      BY <1>4 DEF Range
    <3>. QED BY <3>1, <3>2, <3>3
  <2>. QED BY <2>1
<1>. QED BY <1>2, <1>3, <1>4, <1>5 DEF S

LEMMA AnswersGrow ==
  ASSUME NEW a, answers \in Seq(Range(answers)), answers' = Append(answers, a)
  PROVE  Range(answers') = Range(answers) \cup {a} /\ answers' \in Seq(Range(answers'))
  BY Appended

LEMMA LogGrows ==
  ASSUME NEW e, wal \in Seq(Range(wal)), wal' = Append(wal, e)
  PROVE  /\ \A i \in DOMAIN wal : i \in DOMAIN wal' /\ wal'[i] = wal[i]
         /\ \E n \in DOMAIN wal' : wal'[n] = e /\ \A i \in DOMAIN wal' : i = n \/ i \in DOMAIN wal
         /\ wal' \in Seq(Range(wal'))
<1>1. \A i \in DOMAIN wal : i \in DOMAIN wal' /\ wal'[i] = wal[i]
  BY Appended
<1>2. Len(wal) + 1 \in DOMAIN wal' /\ wal'[Len(wal) + 1] = e
      /\ \A i \in DOMAIN wal' : i = Len(wal) + 1 \/ i \in DOMAIN wal
  BY Appended
<1>3. wal' \in Seq(Range(wal'))
  BY Appended
<1>. QED BY <1>1, <1>2, <1>3

(* An answer takes its call's place: its number and its count with it.     *)
LEMMA AnswerKeeps ==
  ASSUME GatesInv, NEW w \in GateEvaluators, ev[w].at = "decide", NEW verdict, NEW code, NEW recorded,
         Answer(w, verdict, code, recorded),
         \/ verdict = ev[w].effect /\ code = ev[w].code /\ recorded
         \/ verdict = "DENY" /\ code = "WAL_WRITE_FAILURE" /\ ~recorded
  PROVE  GatesInv'
<1> DEFINE r == ev[w]
           a0 == [n |-> r.n, id |-> r.call.id, tool |-> r.call.tool, gated |-> r.gated,
                  effect |-> verdict, code |-> code, counted |-> r.counted, doc |-> r.doc,
                  timeout |-> Timeout(r.call), env |-> r.call.env]
           e1 == ev'
           phases == phaseManager.phases
           told == Answers \cup {a0}
<1>1. /\ wal' = IF recorded THEN Append(wal, [n |-> r.n, effect |-> verdict, code |-> code]) ELSE wal
      /\ answers' = Append(answers, a0)
      /\ active' = IF r.owns THEN active \ {r.call.id} ELSE active
      /\ ev' = [ev EXCEPT ![w] = NoEv]
      /\ UNCHANGED gateState /\ UNCHANGED <<loopCalls, counted, gateHandles, evaluations>>
  BY DEF Answer
<1>2. "decide" \in GateSteps
  BY DEF GateSteps
<1>3. FlightOk(r, counted, evaluations, gateHandles, phases) /\ IsFlight(r) /\ r # NoEv /\ w \in Flying(ev)
  BY <1>2, CallGoes
<1>4. /\ counted \in Nat /\ evaluations \in Nat /\ ev = [v \in GateEvaluators |-> ev[v]] /\ loopCalls \in Nat
      /\ wal \in Seq(Range(wal)) /\ answers \in Seq(Range(answers))
  BY DEF GatesInv, GateTypes, Answers, Range
<1>5. /\ a0.n = r.n /\ a0.id = r.call.id /\ a0.tool = r.call.tool /\ a0.gated = r.gated /\ a0.effect = verdict
      /\ a0.code = code /\ a0.counted = r.counted /\ a0.doc = r.doc /\ a0.timeout = Timeout(r.call)
      /\ a0.env = r.call.env
  OBVIOUS
<1> HIDE DEF a0
<1>6. Answers' = told /\ answers' \in Seq(told)
  <2>1. answers \in Seq(Range(answers))
    BY <1>4
  <2>2. answers' = Append(answers, a0)
    BY <1>1
  <2> HIDE DEF r, e1, phases, told
  <2>3. Range(answers') = Range(answers) \cup {a0} /\ answers' \in Seq(Range(answers'))
    BY <2>1, <2>2, AnswersGrow, Zenon
  <2>4. Answers' = Range(answers') /\ Answers = Range(answers)
    BY DEF Answers, Range
  <2>. QED BY <2>3, <2>4, Zenon DEF told
<1>7. verdict = r.effect \/ verdict = "DENY"
  OBVIOUS
<1>8. AnswerOk(a0, counted, evaluations, gateHandles, phases)
  <2>1. /\ r.n \in 1 .. evaluations /\ r.counted \in 0 .. counted /\ r.effect \in Effects
        /\ r.doc.maxCalls > 0 /\ r.counted > r.doc.maxCalls => r.effect = "DENY"
        /\ r.effect = "DEFER" /\ r.code # "CONTEXT" => r.call.id \in gateHandles
        /\ r.effect = "PERMIT" => Contract(Timeout(r.call), r.call.env, r.doc, r.call.tool)
        /\ InPhase(phases, r.call.tool, r.gated)
    BY <1>3 DEF FlightOk
  <2>2. a0.effect \in Effects
    BY <1>5, <1>7, <2>1 DEF Effects
  <2>3. a0.doc.maxCalls > 0 /\ a0.counted > a0.doc.maxCalls => a0.effect = "DENY"
    BY <1>5, <1>7, <2>1
  <2>4. a0.effect = "DEFER" /\ a0.code # "CONTEXT" => a0.id \in gateHandles
    BY <1>5, <2>1
  <2>5. a0.effect = "PERMIT" => Contract(a0.timeout, a0.env, a0.doc, a0.tool)
    BY <1>5, <1>7, <2>1
  <2>. QED BY <1>5, <2>1, <2>2, <2>3, <2>4, <2>5 DEF AnswerOk
<1>9. /\ e1[w] = NoEv /\ \A v \in GateEvaluators \ {w} : e1[v] = ev[v]
      /\ e1 = [v \in GateEvaluators |-> e1[v]]
  BY <1>1, <1>4, Moved
<1> HIDE DEF e1
<1>10. Flying(e1) = Flying(ev) \ {w} /\ \A v \in Flying(e1) : v # w /\ v \in Flying(ev) /\ e1[v] = ev[v]
  BY <1>9 DEF Flying
<1>11. Apart(ev, Answers) /\ Written(wal, Answers) /\ Handled(gateHandles, Answers, ev) /\ Owned(active, ev)
       /\ GateCounts(ev, Answers, counted, loopCalls, evaluations)
  BY DEF GatesInv
<1>12. \A a \in Answers : r.n # a.n /\ (a.counted > 0 => r.counted # a.counted)
  BY <1>3, <1>11 DEF Apart
<1>13. \A v \in Flying(e1) : /\ e1[v].n # r.n
                             /\ r.counted > 0 => e1[v].counted # r.counted
                             /\ e1[v].owns /\ r.owns => e1[v].call.id # r.call.id
  BY <1>3, <1>10, <1>11 DEF Apart
<1>14. Apart(e1, told)
  <2>1. \A x, y \in Flying(e1) : x # y =>
          /\ e1[x].n # e1[y].n
          /\ e1[x].counted > 0 => e1[x].counted # e1[y].counted
          /\ e1[x].owns /\ e1[y].owns => e1[x].call.id # e1[y].call.id
    BY <1>10, <1>11 DEF Apart
  <2>2. \A x \in Flying(e1), a \in told : e1[x].n # a.n /\ (a.counted > 0 => e1[x].counted # a.counted)
    <3>1. SUFFICES ASSUME NEW x \in Flying(e1), NEW a \in told
                   PROVE  e1[x].n # a.n /\ (a.counted > 0 => e1[x].counted # a.counted)
      OBVIOUS
    <3>2. CASE a \in Answers
      BY <1>10, <1>11, <3>1, <3>2 DEF Apart
    <3>3. CASE a = a0
      BY <1>5, <1>13, <3>3
    <3>. QED BY <3>2, <3>3
  <2>3. \A a, b \in told : a.counted > 0 /\ a.counted = b.counted => a = b
    <3>1. SUFFICES ASSUME NEW a \in told, NEW b \in told, a.counted > 0, a.counted = b.counted
                   PROVE  a = b
      OBVIOUS
    <3>2. CASE a \in Answers /\ b \in Answers
      BY <1>11, <3>1, <3>2 DEF Apart
    <3>3. CASE a = a0 /\ b \in Answers
      BY <1>5, <1>12, <3>1, <3>3
    <3>4. CASE a \in Answers /\ b = a0
      BY <1>5, <1>12, <3>1, <3>4
    <3>. QED BY <3>2, <3>3, <3>4
  <2>. QED BY <2>1, <2>2, <2>3 DEF Apart
<1>15. Written(wal', told) /\ wal' \in Seq(Range(wal'))
  <2>1. \A i \in DOMAIN wal : wal[i].n # r.n
    BY <1>11, <1>12 DEF Written
  <2>2. CASE ~recorded
    <3>1. wal' = wal /\ code = "WAL_WRITE_FAILURE" /\ verdict = "DENY"
      BY <1>1, <2>2
    <3>2. a0.code = "WAL_WRITE_FAILURE" /\ a0.effect = "DENY" /\ \A i \in DOMAIN wal : wal[i].n # a0.n
      BY <1>5, <2>1, <3>1
    <3>3. Written(wal, told)
      BY <1>11, <3>2 DEF Written
    <3>. QED BY <1>4, <3>1, <3>3
  <2>3. CASE recorded
    <3> DEFINE new == [n |-> r.n, effect |-> verdict, code |-> code]
               t == wal'
    <3>1. t = Append(wal, new)
      BY <1>1, <2>3
    <3>2. new.n = r.n /\ new = RecordOf(a0)
      BY <1>5 DEF RecordOf
    <3> HIDE DEF new, t
    <3>3. /\ \A i \in DOMAIN wal : i \in DOMAIN t /\ t[i] = wal[i]
          /\ \E n \in DOMAIN t : t[n] = new /\ \A i \in DOMAIN t : i = n \/ i \in DOMAIN wal
          /\ t \in Seq(Range(t))
      <4>1. wal \in Seq(Range(wal))
        BY <1>4
      <4> HIDE DEF r, phases, told
      <4>2. wal' = Append(wal, new)
        BY <3>1 DEF t
      <4>. QED BY <4>1, <4>2, LogGrows, Zenon DEF t
    <3>4. PICK n0 \in DOMAIN t : t[n0] = new /\ \A i \in DOMAIN t : i = n0 \/ i \in DOMAIN wal
      BY <3>3
    <3>5. \A i \in DOMAIN t : i # n0 => i \in DOMAIN wal /\ t[i] = wal[i] /\ t[i].n # r.n
      BY <2>1, <3>3, <3>4
    <3>6. \A a \in Answers :
             \/ a.code = "WAL_WRITE_FAILURE" /\ a.effect = "DENY" /\ \A i \in DOMAIN t : t[i].n # a.n
             \/ \E i \in DOMAIN t : t[i] = RecordOf(a)
      <4>1. SUFFICES ASSUME NEW a \in Answers
                     PROVE  \/ a.code = "WAL_WRITE_FAILURE" /\ a.effect = "DENY" /\ \A i \in DOMAIN t : t[i].n # a.n
                            \/ \E i \in DOMAIN t : t[i] = RecordOf(a)
        OBVIOUS
      <4>2. CASE a.code = "WAL_WRITE_FAILURE" /\ a.effect = "DENY" /\ \A i \in DOMAIN wal : wal[i].n # a.n
        <5>1. \A i \in DOMAIN t : t[i].n # a.n
          BY <1>12, <3>2, <3>4, <3>5, <4>1, <4>2
        <5>. QED BY <4>2, <5>1
      <4>3. CASE \E i \in DOMAIN wal : wal[i] = RecordOf(a)
        BY <3>3, <4>3
      <4>. QED BY <1>11, <4>1, <4>2, <4>3 DEF Written
    <3>7. \E i \in DOMAIN t : t[i] = RecordOf(a0)
      BY <3>2, <3>4
    <3>8. \A i, j \in DOMAIN t : t[i].n = t[j].n => i = j
      <4>1. SUFFICES ASSUME NEW i \in DOMAIN t, NEW j \in DOMAIN t, t[i].n = t[j].n PROVE i = j
        OBVIOUS
      <4>2. CASE i # n0 /\ j # n0
        BY <1>11, <3>5, <4>1, <4>2 DEF Written
      <4>3. CASE i = n0 \/ j = n0
        BY <3>2, <3>4, <3>5, <4>1, <4>3
      <4>. QED BY <4>2, <4>3
    <3>9. \A i \in DOMAIN t : \E a \in told : a.n = t[i].n
      <4>1. SUFFICES ASSUME NEW i \in DOMAIN t PROVE \E a \in told : a.n = t[i].n
        OBVIOUS
      <4>2. CASE i = n0
        BY <1>5, <3>2, <3>4, <4>2
      <4>3. CASE i # n0
        BY <1>11, <3>5, <4>3 DEF Written
      <4>. QED BY <4>2, <4>3
    <3>10. Written(t, told)
      BY <3>6, <3>7, <3>8, <3>9 DEF Written
    <3>. QED BY <3>3, <3>10 DEF t
  <2>. QED BY <2>2, <2>3
<1>16. Handled(gateHandles, told, e1)
  <2>1. SUFFICES ASSUME NEW h \in gateHandles
                 PROVE  \/ \E a \in told : a.id = h /\ (a.effect = "DEFER" \/ a.code = "WAL_WRITE_FAILURE")
                        \/ \E v \in Flying(e1) : e1[v].call.id = h /\ e1[v].at = "decide" /\ e1[v].effect = "DEFER"
    BY DEF Handled
  <2>2. CASE \E a \in Answers : a.id = h /\ (a.effect = "DEFER" \/ a.code = "WAL_WRITE_FAILURE")
    BY <2>2
  <2>3. ASSUME NEW v \in Flying(ev), ev[v].call.id = h, ev[v].at = "decide", ev[v].effect = "DEFER"
        PROVE  \/ \E a \in told : a.id = h /\ (a.effect = "DEFER" \/ a.code = "WAL_WRITE_FAILURE")
               \/ \E x \in Flying(e1) : e1[x].call.id = h /\ e1[x].at = "decide" /\ e1[x].effect = "DEFER"
    <3>1. CASE v # w
      <4>1. v \in Flying(e1) /\ e1[v] = ev[v]
        BY <1>10, <2>3, <3>1
      <4>. QED BY <2>3, <4>1
    <3>2. CASE v = w
      <4>1. a0 \in told /\ a0.id = h /\ (a0.effect = "DEFER" \/ a0.code = "WAL_WRITE_FAILURE")
        BY <1>5, <2>3, <3>2
      <4>. QED BY <4>1
    <3>. QED BY <3>1, <3>2
  <2>. QED BY <1>11, <2>1, <2>2, <2>3 DEF Handled
<1>17. Owned(active', e1)
  <2>1. SUFFICES ASSUME NEW i
                 PROVE  i \in active' <=> \E v \in {x \in Flying(e1) : e1[x].owns} : i = e1[v].call.id
    BY DEF Owned
  <2>2. i \in active <=> \E v \in {x \in Flying(ev) : ev[x].owns} : i = ev[v].call.id
    BY <1>11 DEF Owned
  <2>3. CASE r.owns
    <3>1. active' = active \ {r.call.id}
      BY <1>1, <2>3
    <3>2. i \in active' => \E v \in {x \in Flying(e1) : e1[x].owns} : i = e1[v].call.id
      <4>1. SUFFICES ASSUME i \in active, i # r.call.id
                     PROVE  \E v \in {x \in Flying(e1) : e1[x].owns} : i = e1[v].call.id
        BY <3>1
      <4>2. PICK v \in Flying(ev) : ev[v].owns /\ i = ev[v].call.id
        BY <2>2, <4>1
      <4>3. v # w
        BY <4>1, <4>2
      <4>4. v \in Flying(e1) /\ e1[v] = ev[v]
        BY <1>10, <4>2, <4>3
      <4>. QED BY <4>2, <4>4
    <3>3. ASSUME NEW v \in Flying(e1), e1[v].owns, i = e1[v].call.id PROVE i \in active'
      BY <1>10, <1>13, <2>2, <2>3, <3>1, <3>3
    <3>. QED BY <3>2, <3>3
  <2>4. CASE ~r.owns
    <3>1. active' = active
      BY <1>1, <2>4
    <3>2. {x \in Flying(e1) : e1[x].owns} = {x \in Flying(ev) : ev[x].owns}
      BY <1>10, <2>4
    <3>3. \A v \in {x \in Flying(e1) : e1[x].owns} : e1[v] = ev[v]
      BY <1>10
    <3>. QED BY <2>2, <3>1, <3>2, <3>3
  <2>. QED BY <2>3, <2>4
<1>18. GateCounts(e1, told, counted, loopCalls, evaluations)
  <2> DEFINE a == Cardinality(StandingAt(ev, Uncounted))  a1 == Cardinality(StandingAt(e1, Uncounted))
             b == Cardinality(StandingAt(ev, Unlooped))  b1 == Cardinality(StandingAt(e1, Unlooped))
             d == Cardinality(Doing(ev))  d1 == Cardinality(Doing(e1))
             f == Cardinality(Done(Answers))  f1 == Cardinality(Done(told))
  <2>1. e1[w].at \notin Uncounted /\ e1[w].at \notin Unlooped
    BY <1>9, NoEvIsIdle DEF GateSteps, Uncounted
  <2>2. a \in Nat /\ a1 \in Nat /\ a1 <= a
    BY <1>9, <2>1, AtMoves
  <2>3. b \in Nat /\ b1 \in Nat /\ b1 <= b
    BY <1>9, <2>1, AtMoves
  <2>4. /\ IsFiniteSet(Answers) /\ counted = f + d
        /\ counted + a <= evaluations /\ loopCalls + b <= evaluations
    BY <1>11 DEF GateCounts
  <2>5. IsFiniteSet(told)
    BY <2>4, FS_AddElement
  <2>6. IsFiniteSet(Done(Answers)) /\ f \in Nat
    <3>1. Done(Answers) \subseteq Answers
      BY DEF Done
    <3>. QED BY <2>4, <3>1, FS_Subset, FS_CardinalityType
  <2>7. a0 \notin Answers
    BY <1>5, <1>12
  <2>8. Done(told) \ {a0} = Done(Answers) \ {a0} /\ a0 \notin Done(Answers) /\ w \notin Doing(e1)
        /\ (a0 \in Done(told) <=> r.counted > 0) /\ (w \in Doing(ev) <=> r.counted > 0)
    <3>1. a0 \notin Done(Answers) /\ Done(told) \ {a0} = Done(Answers) \ {a0}
      BY <2>7 DEF Done
    <3>2. a0 \in Done(told) <=> r.counted > 0
      BY <1>5 DEF Done
    <3>3. w \notin Doing(e1) /\ (w \in Doing(ev) <=> r.counted > 0)
      BY <1>3, <1>10 DEF Doing
    <3>. QED BY <3>1, <3>2, <3>3
  <2>9. d \in Nat /\ d1 \in Nat /\ (r.counted > 0 => d1 = d - 1) /\ (~(r.counted > 0) => d1 = d)
    BY <1>9, <2>8, DoingMoves
  <2>10. f1 \in Nat /\ (r.counted > 0 => f1 = f + 1)
    <3> DEFINE S == Done(Answers)  T == Done(told)
    <3> HIDE DEF S, T
    <3>1. IsFiniteSet(S) /\ T \ {a0} = S \ {a0} /\ a0 \notin S /\ (a0 \in T <=> r.counted > 0)
      BY <2>6, <2>8 DEF S, T
    <3>2. Cardinality(T) \in Nat /\ (a0 \in T => Cardinality(T) = Cardinality(S) + 1)
      BY <3>1, SetMoves
    <3>. QED BY <3>1, <3>2 DEF S, T
  <2>11. ~(r.counted > 0) => f1 = f
    <3>1. ~(r.counted > 0) => Done(told) = Done(Answers)
      BY <2>8
    <3>. QED BY <3>1
  <2> HIDE DEF a, a1, b, b1, d, d1, f, f1
  <2>12. counted = f1 + d1 /\ counted + a1 <= evaluations /\ loopCalls + b1 <= evaluations
    <3>1. counted + a1 <= evaluations /\ loopCalls + b1 <= evaluations
      BY <1>4, <2>2, <2>3, <2>4
    <3>2. CASE r.counted > 0
      <4>1. d1 = d - 1 /\ f1 = f + 1 /\ d \in Nat /\ f \in Nat /\ counted = f + d
        BY <2>4, <2>6, <2>9, <2>10, <3>2
      <4>. QED BY <3>1, <4>1
    <3>3. CASE ~(r.counted > 0)
      <4>1. d1 = d /\ f1 = f /\ counted = f + d
        BY <2>4, <2>9, <2>11, <3>3
      <4>. QED BY <3>1, <4>1
    <3>. QED BY <3>2, <3>3
  <2>. QED BY <2>5, <2>12 DEF GateCounts, a1, b1, d1, f1
<1>19. GateTypes'
  <2>1. ev' = [v \in GateEvaluators |-> ev'[v]]
    BY <1>9 DEF e1
  <2>2. /\ policy' = policy /\ loopCalls' = loopCalls /\ counted' = counted
        /\ evaluations' = evaluations /\ phaseManager' = phaseManager
    BY <1>1 DEF gateState
  <2>. QED BY <1>6, <1>15, <2>1, <2>2 DEF GatesInv, GateTypes
<1>20. \A v \in GateEvaluators : e1[v] = NoEv \/ FlightOk(e1[v], counted, evaluations, gateHandles, phases)
  BY <1>9 DEF GatesInv
<1>21. \A a \in told : AnswerOk(a, counted, evaluations, gateHandles, phases)
  BY <1>8 DEF GatesInv
<1>22. /\ loopCalls' = loopCalls /\ gateHandles' = gateHandles
       /\ evaluations' = evaluations /\ phaseManager' = phaseManager /\ counted' = counted
  BY <1>1 DEF gateState
<1> HIDE DEF told
<1>. QED BY <1>6, <1>14, <1>15, <1>16, <1>17, <1>18, <1>19, <1>20, <1>21, <1>22 DEF GatesInv, e1

LEMMA DecideCallKeeps ==
  ASSUME GatesInv, NEW w \in GateEvaluators, DecideCall(w) PROVE GatesInv'
<1>1. CASE Answer(w, ev[w].effect, ev[w].code, TRUE)
  BY <1>1, AnswerKeeps DEF DecideCall
<1>2. CASE Answer(w, "DENY", "WAL_WRITE_FAILURE", FALSE)
  BY <1>2, AnswerKeeps DEF DecideCall
<1>. QED BY <1>1, <1>2 DEF DecideCall

-------------------------------------------------------------------------------
(* From outside, the beginning, and the whole                              *)

LEMMA OutsideKeeps ==
  ASSUME GatesInv, UNCHANGED <<ev, callState>>, policy' \in GatePolicies0,
         phaseManager' = [phases |-> phaseManager.phases, current |-> phaseManager'.current, moves |-> phaseManager'.moves],
         phaseManager'.current \in DOMAIN phaseManager.phases \cup {"none"}
  PROVE  GatesInv'
<1>1. /\ ev' = ev /\ active' = active /\ counted' = counted /\ gateHandles' = gateHandles /\ loopCalls' = loopCalls
      /\ wal' = wal /\ answers' = answers /\ evaluations' = evaluations /\ Answers' = Answers
  BY DEF callState, Answers
<1>2. phaseManager'.phases = phaseManager.phases
  OBVIOUS
<1>3. GateTypes'
  BY <1>1, <1>2 DEF GatesInv, GateTypes
<1>. QED BY <1>1, <1>2, <1>3 DEF GatesInv

LEMMA TransitionKeeps ==
  ASSUME GatesInv, Transition PROVE GatesInv'
<1> DEFINE phases == phaseManager.phases  current == phaseManager.current  moves == phaseManager.moves
<1>1. phaseManager = [phases |-> phases, current |-> current, moves |-> moves]
  BY DEF GatesInv, GateTypes
<1>2. PICK n \in DOMAIN phases : phaseManager' = [phaseManager EXCEPT !.current = n, !.moves = @ + 1]
  BY DEF Transition
<1>3. UNCHANGED <<ev, callState>> /\ policy' = policy /\ policy \in GatePolicies0
  BY DEF Transition, GatesInv, GateTypes
<1> HIDE DEF phases, current, moves
<1>4. phaseManager' = [phases |-> phases, current |-> n, moves |-> moves + 1]
  BY <1>1, <1>2
<1>5. phaseManager'.phases = phases /\ phaseManager'.current = n /\ phaseManager'.moves = moves + 1
  BY <1>4
<1>. QED BY <1>3, <1>4, <1>5, OutsideKeeps DEF phases

LEMMA GatesBegin == GatesInit => GatesInv
<1> SUFFICES ASSUME GatesInit PROVE GatesInv
  OBVIOUS
<1>1. /\ policy \in GatePolicies0 /\ phaseManager = [phases |-> policy.phases, current |-> "none", moves |-> 0]
      /\ ev = [w \in GateEvaluators |-> NoEv] /\ active = {} /\ loopCalls = 0 /\ counted = 0
      /\ gateHandles = {} /\ wal = <<>> /\ answers = <<>> /\ evaluations = 0
  BY DEF GatesInit
<1>2. Answers = {} /\ Flying(ev) = {} /\ Doing(ev) = {} /\ Done(Answers) = {}
  BY <1>1 DEF Answers, Flying, Doing, Done
<1>3. StandingAt(ev, Uncounted) = {} /\ StandingAt(ev, Unlooped) = {}
  BY <1>1, NoEvIsIdle DEF StandingAt, GateSteps, Uncounted
<1>4. GateCounts(ev, Answers, counted, loopCalls, evaluations)
  <2>1. IsFiniteSet({}) /\ Cardinality({}) = 0
    BY FS_EmptySet
  <2>2. IsFiniteSet(Answers) /\ Cardinality(Done(Answers)) = 0 /\ Cardinality(Doing(ev)) = 0
        /\ Cardinality(StandingAt(ev, Uncounted)) = 0 /\ Cardinality(StandingAt(ev, Unlooped)) = 0
    BY <1>2, <1>3, <2>1
  <2>. QED BY <1>1, <2>2 DEF GateCounts
<1>5. GateTypes
  <2>1. wal \in Seq(Range(wal)) /\ answers \in Seq(Answers)
    BY <1>1
  <2>2. evaluations \in 0 .. MaxEvaluations
    BY <1>1, GatesAssumption DEF GatesAssumption
  <2>3. phaseManager = [phases |-> phaseManager.phases, current |-> phaseManager.current, moves |-> phaseManager.moves]
        /\ phaseManager.current = "none"
    BY <1>1
  <2>. QED BY <1>1, <2>1, <2>2, <2>3 DEF GateTypes
<1>6. Apart(ev, Answers) /\ Written(wal, Answers) /\ Handled(gateHandles, Answers, ev) /\ Owned(active, ev)
  BY <1>1, <1>2 DEF Apart, Written, Handled, Owned
<1>7. \A w \in GateEvaluators : ev[w] = NoEv
  BY <1>1
<1>. QED BY <1>2, <1>4, <1>5, <1>6, <1>7 DEF GatesInv

LEMMA GatesKeep ==
  ASSUME GatesInv, GatesNext PROVE GatesInv'
<1>0. phaseManager = [phases |-> phaseManager.phases, current |-> phaseManager.current, moves |-> phaseManager.moves]
      /\ phaseManager.current \in DOMAIN phaseManager.phases \cup {"none"} /\ policy \in GatePolicies0
  BY DEF GatesInv, GateTypes
<1>1. ASSUME NEW w \in GateEvaluators, EvaluateCall(w) PROVE GatesInv'
  <2>1. CASE \E c \in GateCalls : Enter(w, c)
    BY <2>1, EnterKeeps
  <2>2. CASE CheckPrincipal(w) \/ CheckSession(w) \/ CheckPhaseTools(w)
    BY <2>2, CheckPrincipalKeeps, CheckSessionKeeps, CheckPhaseToolsKeeps
  <2>3. CASE LookUpPhase(w) \/ SetPhase(w) \/ IsToolAllowed(w)
    BY <2>3, LookUpPhaseKeeps, SetPhaseKeeps, IsToolAllowedKeeps
  <2>4. CASE CheckCall(w) \/ CheckRunLoop(w) \/ CheckContext(w)
    BY <2>4, CheckCallKeeps, CheckRunLoopKeeps, CheckContextKeeps
  <2>5. CASE CountCall(w) \/ CheckRiskWeight(w) \/ TryRules(w)
    BY <2>5, CountCallKeeps, CheckRiskWeightKeeps, TryRulesKeeps
  <2>6. CASE BrokerCredential(w) \/ DecideCall(w)
    BY <2>6, BrokerCredentialKeeps, DecideCallKeeps
  <2>. QED BY <1>1, <2>1, <2>2, <2>3, <2>4, <2>5, <2>6 DEF EvaluateCall
<1>2. CASE ReloadPolicy
  BY <1>0, <1>2, OutsideKeeps DEF ReloadPolicy
<1>3. CASE Transition
  BY <1>3, TransitionKeeps
<1>4. CASE KillAgent
  BY <1>0, <1>4, OutsideKeeps DEF KillAgent
<1>5. CASE RevokePrincipal
  BY <1>0, <1>5, OutsideKeeps DEF RevokePrincipal
<1>. QED BY <1>1, <1>2, <1>3, <1>4, <1>5 DEF GatesNext

LEMMA GatesStay ==
  ASSUME GatesInv, UNCHANGED gatesVars PROVE GatesInv'
<1>1. UNCHANGED <<ev, callState>> /\ policy' = policy /\ phaseManager' = phaseManager
  BY DEF gatesVars, gateState, callState
<1>2. phaseManager = [phases |-> phaseManager.phases, current |-> phaseManager.current, moves |-> phaseManager.moves]
      /\ phaseManager.current \in DOMAIN phaseManager.phases \cup {"none"} /\ policy \in GatePolicies0
  BY DEF GatesInv, GateTypes
<1>. QED BY <1>1, <1>2, OutsideKeeps

LEMMA GatesAreSafe == GatesInv => GatesHold
<1> SUFFICES ASSUME GatesInv PROVE GatesHold
  OBVIOUS
<1>1. InFlight = Flying(ev)
  BY DEF InFlight, Flying
<1>2. GatesTypeOK
  <2>1. counted \in Nat /\ loopCalls \in Nat /\ evaluations \in 0 .. MaxEvaluations /\ MaxEvaluations \in Nat
    BY GatesAssumption DEF GatesInv, GateTypes, GatesAssumption
  <2> DEFINE a == Cardinality(StandingAt(ev, Uncounted))  b == Cardinality(StandingAt(ev, Unlooped))
  <2>2. a \in Nat /\ b \in Nat
    <3>1. IsFiniteSet(GateEvaluators)
      BY GatesAssumption DEF GatesAssumption
    <3>2. StandingAt(ev, Uncounted) \subseteq GateEvaluators /\ StandingAt(ev, Unlooped) \subseteq GateEvaluators
      BY DEF StandingAt
    <3>3. IsFiniteSet(StandingAt(ev, Uncounted)) /\ IsFiniteSet(StandingAt(ev, Unlooped))
      BY <3>1, <3>2, FS_Subset
    <3>. QED BY <3>3, FS_CardinalityType
  <2>3. counted + a <= evaluations /\ loopCalls + b <= evaluations
    BY DEF GatesInv, GateCounts
  <2> HIDE DEF a, b
  <2>4. counted \in 0 .. MaxEvaluations /\ loopCalls \in 0 .. MaxEvaluations
    BY <2>1, <2>2, <2>3
  <2>. QED BY <2>4 DEF GatesTypeOK, GatesInv, GateTypes, AnswerOk, Effects
<1>3. AnsweredAsRecorded
  BY DEF AnsweredAsRecorded, GatesInv, Written, RecordOf
<1>4. HandlesAreAnswered
  BY <1>1 DEF HandlesAreAnswered, GatesInv, Handled, AnswerOk
<1>5. BudgetCountsCheckedCalls
  <2>1. counted = Cardinality(Done(Answers)) + Cardinality(Doing(ev))
    BY DEF GatesInv, GateCounts
  <2>2. \A a \in Done(Answers) : a.doc.maxCalls > 0 /\ a.counted > a.doc.maxCalls => a.effect = "DENY"
    BY DEF Done, GatesInv, AnswerOk
  <2>3. \A a, b \in Done(Answers) : a.counted = b.counted => a = b
    BY DEF Done, GatesInv, Apart
  <2>. QED BY <1>1, <2>1, <2>2, <2>3 DEF BudgetCountsCheckedCalls, Done, Doing
<1>6. PassedInPhase
  <2>1. \A a \in Answers : InPhase(phaseManager.phases, a.tool, a.gated)
    BY DEF GatesInv, AnswerOk
  <2>2. \A a \in Answers : a.effect = "PERMIT" /\ a.gated # "none" /\ ListsTools(phaseManager, a.gated) =>
           a.tool \in phaseManager.phases[a.gated].tools
    BY <2>1 DEF InPhase, Lists, ListsTools, PhaseTools, StepTools
  <2>. QED BY <1>1, <2>2 DEF PassedInPhase, GatesInv, Owned
<1>7. PermitsKeepContracts
  BY DEF PermitsKeepContracts, GatesInv, AnswerOk, Contract
<1>. QED BY <1>2, <1>3, <1>4, <1>5, <1>6, <1>7 DEF GatesHold

(* GatesHold, for any calls, policies and number of goroutines: what is    *)
(* answered was recorded, once (pipeline.go, decide); a deferral has its   *)
(* handle, and a handle its answer; the call count is that of the calls    *)
(* that passed the gates before it, and no call over the limit is          *)
(* permitted (state.go, IncrCallCount); a call that passed the phase       *)
(* manager used a listed tool (phases/manager.go, IsToolAllowed); a chain  *)
(* is active while its call is evaluated; a permitted call kept the bounds *)
(* of timeouts and the isolation the policy demands.                       *)
THEOREM GatesAreKept == GatesSpec => []GatesHold
<1>1. GatesInv /\ [GatesNext]_gatesVars => GatesInv'
  BY GatesKeep, GatesStay
<1>. QED BY <1>1, GatesBegin, GatesAreSafe, PTL DEF GatesSpec

-------------------------------------------------------------------------------
(* Sequences and what they hold *)

LEMMA EmptyToSet == ToSet(<<>>) = {}
  BY DEF ToSet

LEMMA AppendToSet ==
  ASSUME NEW S, NEW s \in Seq(S), NEW e \in S
  PROVE  ToSet(Append(s, e)) = ToSet(s) \cup {e}
<1>1. /\ Append(s, e) \in Seq(S) /\ Len(Append(s, e)) = Len(s) + 1
      /\ \A i \in 1 .. Len(s) : Append(s, e)[i] = s[i]
      /\ Append(s, e)[Len(s) + 1] = e
  BY AppendProperties
<1>2. DOMAIN s = 1 .. Len(s) /\ DOMAIN Append(s, e) = 1 .. (Len(s) + 1) /\ Len(s) \in Nat
  BY <1>1
<1>3. DOMAIN Append(s, e) = (1 .. Len(s)) \cup {Len(s) + 1}
  BY <1>2
<1>. QED BY <1>1, <1>2, <1>3 DEF ToSet

LEMMA TailToSet ==
  ASSUME NEW S, NEW s \in Seq(S), s # <<>>
  PROVE  Head(s) \in S /\ Tail(s) \in Seq(S) /\ ToSet(s) = {Head(s)} \cup ToSet(Tail(s))
<1>1. /\ Head(s) \in S /\ Tail(s) \in Seq(S) /\ Len(Tail(s)) = Len(s) - 1
      /\ \A i \in 1 .. Len(Tail(s)) : Tail(s)[i] = s[i + 1]
      /\ Head(s) = s[1] /\ Len(s) \in Nat /\ Len(s) > 0
  BY HeadTailProperties, EmptySeq
<1>2. DOMAIN s = 1 .. Len(s) /\ DOMAIN Tail(s) = 1 .. (Len(s) - 1)
  BY <1>1
<1>3. ASSUME NEW e \in ToSet(s) PROVE e \in {Head(s)} \cup ToSet(Tail(s))
  <2>1. PICK i \in 1 .. Len(s) : e = s[i]
    BY <1>2 DEF ToSet
  <2>2. CASE i = 1
    BY <2>1, <2>2, <1>1
  <2>3. CASE i # 1
    <3>1. i - 1 \in 1 .. Len(Tail(s)) /\ i = (i - 1) + 1
      BY <2>3, <1>1
    <3>2. Tail(s)[i - 1] = e
      BY <2>1, <3>1, <1>1
    <3>. QED BY <3>1, <3>2, <1>2, <1>1 DEF ToSet
  <2>. QED BY <2>2, <2>3
<1>4. ASSUME NEW e \in {Head(s)} \cup ToSet(Tail(s)) PROVE e \in ToSet(s)
  <2>1. CASE e = Head(s)
    <3>1. 1 \in DOMAIN s
      BY <1>1, <1>2
    <3>. QED BY <2>1, <1>1, <3>1 DEF ToSet
  <2>2. CASE e \in ToSet(Tail(s))
    <3>1. PICK i \in 1 .. (Len(s) - 1) : e = Tail(s)[i]
      BY <2>2, <1>2 DEF ToSet
    <3>2. e = s[i + 1] /\ i + 1 \in 1 .. Len(s)
      BY <3>1, <1>1
    <3>. QED BY <3>2, <1>2 DEF ToSet
  <2>. QED BY <2>1, <2>2
<1>. QED BY <1>1, <1>3, <1>4

LEMMA ToSetMembers ==
  ASSUME NEW S, NEW s \in Seq(S)
  PROVE  ToSet(s) \subseteq S
  BY ElementOfSeq DEF ToSet
-------------------------------------------------------------------------------
(* Batches of deferred calls *)

Decisions == {"approved", "denied"}
HandleStates == {"none", "pending", "approved", "denied", "expired"}
BatchRecords == [group : {GroupOf[t] : t \in Deferred}, items : Seq(Deferred), made : Int, deadline : Int,
                 resolved : BOOLEAN, decision : {""} \cup Decisions]
Resolving == [at : {"items", "resolves"}, batch : Nat, left : Seq(Deferred), decision : Decisions,
              item : {<<>>} \cup (Deferred \X Decisions)]
BatchTypes ==
    /\ batchNow \in Int
    /\ handles \in [Deferred -> HandleStates]
    /\ batches \in Seq(BatchRecords)
    /\ tokenMap \in [Deferred -> Nat]
    /\ override \in [Deferred -> {"", "half"} \cup Decisions]
    /\ overriding \in {<<>>} \cup (Deferred \X Decisions)
    /\ acknowledged \in [Deferred -> [decision : {""} \cup Decisions, early : BOOLEAN]]
    /\ decidedBy \in [Deferred -> {"", "batch", "alone"}]
    /\ operator \in [Operators -> {[at |-> "idle"]} \cup Resolving]

(* A handle that is not decided was decided by nobody; an early override    *)
(* of a pending one is the one that is kept, or is being written while its *)
(* batch is undecided; and an early one decided.                           *)
Standing(t) == acknowledged[t].early /\ handles[t] = "pending"
Writing(t) == overriding # <<>> /\ overriding[1] = t
HandleInv(t) ==
    /\ tokenMap[t] # 0 => tokenMap[t] \in DOMAIN batches /\ handles[t] # "none"
    /\ handles[t] \in {"none", "pending"} => decidedBy[t] = ""
    /\ acknowledged[t].early => acknowledged[t].decision # "" /\ handles[t] # "none"
    /\ Standing(t) /\ ~Writing(t) => override[t] = acknowledged[t].decision
    /\ Standing(t) /\ Writing(t) => /\ overriding[2] = acknowledged[t].decision
                                    /\ tokenMap[t] # 0 /\ ~batches[tokenMap[t]].resolved
    /\ acknowledged[t].early /\ decidedBy[t] = "batch" => handles[t] = acknowledged[t].decision

(* The items of a batch are filed under it.                                *)
ItemsInv(b) ==
    \A t \in ToSet(batches[b].items) :
       GroupOf[t] = batches[b].group /\ tokenMap[t] = b /\ DeadlineOf[t] <= batches[b].deadline

(* What an operator has left is of the batch it resolves, or of none since *)
(* a cleanup; and what it read of an item is an early override's decision. *)
Works(o, t) ==
    \/ operator[o].at # "idle" /\ t \in ToSet(operator[o].left)
    \/ operator[o].at = "resolves" /\ operator[o].item[1] = t
OperatorInv(o) ==
    operator[o].at # "idle" =>
      /\ operator[o].batch \in DOMAIN batches /\ batches[operator[o].batch].resolved
      /\ operator[o].at = "resolves" => operator[o].item # <<>>
      /\ \A t \in Deferred : Works(o, t) => tokenMap[t] \in {0, operator[o].batch} /\ handles[t] # "none"
      /\ operator[o].at = "resolves" /\ Standing(operator[o].item[1]) =>
            operator[o].item[2] = acknowledged[operator[o].item[1]].decision

(* Of a resolved batch, the operator has every item left that is pending.  *)
WaitingInv(b) ==
    batches[b].resolved => \A t \in ToSet(batches[b].items) : handles[t] = "pending" =>
       \E o \in Operators : operator[o].at # "idle" /\ operator[o].batch = b /\ Works(o, t)

OneOpen == \A a, b \in DOMAIN batches : Open(a, batches[b].group) /\ Open(b, batches[b].group) => a = b

BatchesInv ==
    /\ BatchTypes
    /\ \A t \in Deferred : HandleInv(t)
    /\ \A o \in Operators : OperatorInv(o)
    /\ \A b \in DOMAIN batches : ItemsInv(b) /\ WaitingInv(b)
    /\ OneOpen

-------------------------------------------------------------------------------
LEMMA BatchesBegin == BatchInit => BatchesInv
<1>. SUFFICES ASSUME BatchInit PROVE BatchesInv
  OBVIOUS
<1>1. BatchTypes
  <2>0. /\ batchNow = 0 /\ handles = [t \in Deferred |-> "none"] /\ batches = <<>>
        /\ tokenMap = [t \in Deferred |-> 0] /\ override = [t \in Deferred |-> ""]
        /\ overriding = <<>> /\ acknowledged = [t \in Deferred |-> [decision |-> "", early |-> FALSE]]
        /\ decidedBy = [t \in Deferred |-> ""] /\ operator = [o \in Operators |-> [at |-> "idle"]]
    BY DEF BatchInit
  <2>1. batches \in Seq(BatchRecords)
    <3>1. batches = <<>>
      BY <2>0
    <3>. QED BY <3>1
  <2>2. acknowledged \in [Deferred -> [decision : {""} \cup Decisions, early : BOOLEAN]]
    BY <2>0
  <2>3. operator \in [Operators -> {[at |-> "idle"]} \cup Resolving]
    BY <2>0
  <2>4. batchNow \in Int /\ handles \in [Deferred -> HandleStates] /\ tokenMap \in [Deferred -> Nat]
    <3>1. batchNow = 0 /\ handles = [t \in Deferred |-> "none"] /\ tokenMap = [t \in Deferred |-> 0]
      BY <2>0
    <3>. QED BY <3>1 DEF HandleStates
  <2>5. override \in [Deferred -> {"", "half"} \cup Decisions] /\ overriding \in {<<>>} \cup (Deferred \X Decisions)
        /\ decidedBy \in [Deferred -> {"", "batch", "alone"}]
    BY <2>0
  <2>. QED BY <2>1, <2>2, <2>3, <2>4, <2>5 DEF BatchTypes
<1>2. ASSUME NEW t \in Deferred PROVE HandleInv(t)
  BY <1>2 DEF BatchInit, HandleInv, Standing, Writing
<1>3. ASSUME NEW o \in Operators PROVE OperatorInv(o)
  BY <1>3 DEF BatchInit, OperatorInv
<1>4. DOMAIN batches = {}
  <2>1. batches = <<>>
    BY DEF BatchInit
  <2>. QED BY <2>1
<1>. QED BY <1>1, <1>2, <1>3, <1>4 DEF BatchesInv, OneOpen

(* The keys of a state are each a position of the sequence they are        *)
(* written in: a hash tells the state it was made of.                      *)
LEMMA KeysAreWritten ==
  ASSUME NEW S, IsFiniteSet(S), NEW ks \in SetToSeqs(S), NEW k \in S
  PROVE  \E n \in DOMAIN ks : ks[n] = k
<1>. DEFINE D == 1 .. Cardinality(S)
<1>1. Cardinality(S) \in Nat
  BY FS_CardinalityType
<1>2. ks \in [D -> S] /\ \A i, j \in D : i # j => ks[i] # ks[j]
  BY DEF SetToSeqs
<1>3. ks \in Injection(D, S)
  BY <1>2 DEF Injection, IsInjective
<1>4. IsFiniteSet(D) /\ Cardinality(D) = Cardinality(S)
  BY <1>1, FS_Interval
<1>5. ks \in Surjection(D, S)
  BY <1>3, <1>4, FS_Injection
<1>. QED BY <1>2, <1>5 DEF Surjection

SessionStateOf(s) == \E K \in SUBSET StateKeys : s \in [K -> {1, 2}]

LEMMA HashNamesState ==
  ASSUME NEW s, NEW u, SessionStateOf(s), SessionStateOf(u),
         NEW h \in StateHash(s), NEW g \in StateHash(u)
  PROVE  /\ h = g => s = u
         /\ s # <<>> => h # <<>>
<1>. PICK K \in SUBSET StateKeys : s \in [K -> {1, 2}]
  BY DEF SessionStateOf
<1>. PICK L \in SUBSET StateKeys : u \in [L -> {1, 2}]
  BY DEF SessionStateOf
<1>1. IsFiniteSet(K) /\ IsFiniteSet(L)
  BY FS_Subset, BatchAssumption DEF BatchAssumption
<1>2. PICK ks \in SetToSeqs(K) : h = [n \in DOMAIN ks |-> <<ks[n], s[ks[n]]>>]
  BY DEF StateHash
<1>3. PICK ls \in SetToSeqs(L) : g = [n \in DOMAIN ls |-> <<ls[n], u[ls[n]]>>]
  BY DEF StateHash
<1>4. (\A k \in K : \E n \in DOMAIN ks : ks[n] = k) /\ (\A k \in L : \E n \in DOMAIN ls : ls[n] = k)
  BY <1>1, KeysAreWritten
<1>5. ASSUME h = g PROVE s = u
  <2>1. DOMAIN ks = DOMAIN ls /\ \A n \in DOMAIN ks : <<ks[n], s[ks[n]]>> = <<ls[n], u[ls[n]]>>
    BY <1>2, <1>3, <1>5
  <2>2. \A n \in DOMAIN ks : ks[n] = ls[n] /\ s[ks[n]] = u[ks[n]]
    BY <2>1
  <2>3. (\A n \in DOMAIN ks : ks[n] \in K) /\ (\A n \in DOMAIN ls : ls[n] \in L)
    BY DEF SetToSeqs
  <2>4. K = L
    BY <1>4, <2>1, <2>2, <2>3
  <2>5. \A k \in K : s[k] = u[k]
    BY <1>4, <2>2
  <2>. QED BY <2>4, <2>5
<1>6. ASSUME s # <<>> PROVE h # <<>>
  <2>1. K # {}
    <3>1. SUFFICES ASSUME K = {} PROVE FALSE
      OBVIOUS
    <3>2. s = [x \in {} |-> s[x]]
      BY <3>1
    <3>3. <<>> = [x \in {} |-> s[x]]
      OBVIOUS
    <3>. QED BY <3>2, <3>3, <1>6
  <2>2. PICK n \in DOMAIN ks : TRUE
    BY <2>1, <1>4
  <2>. QED BY <2>2, <1>2
<1>. QED BY <1>5, <1>6

LEMMA ResumeIsWarnedOf == Resume => ChangesAreWarnedOf'
<1>. SUFFICES ASSUME Resume PROVE ChangesAreWarnedOf'
  OBVIOUS
<1>1. PICK then \in Captured, since \in Captured : \E h \in StateHash(then.state), g \in StateHash(since.state) :
        \E age \in 0 .. MaxBatchTime :
            context' = [then |-> then, now |-> since, age |-> age,
                        says |-> Validated([policy |-> then.policy, hash |-> h], age, since.policy, g)]
  BY DEF Resume
<1>2. PICK h \in StateHash(then.state), g \in StateHash(since.state) : \E age \in 0 .. MaxBatchTime :
            context' = [then |-> then, now |-> since, age |-> age,
                        says |-> Validated([policy |-> then.policy, hash |-> h], age, since.policy, g)]
  BY <1>1
<1>3. PICK age \in 0 .. MaxBatchTime :
            context' = [then |-> then, now |-> since, age |-> age,
                        says |-> Validated([policy |-> then.policy, hash |-> h], age, since.policy, g)]
  BY <1>2
<1>4. SessionStateOf(then.state) /\ SessionStateOf(since.state)
  BY DEF Captured, SessionStateOf
<1>5. (h = g => then.state = since.state) /\ (then.state # <<>> => h # <<>>)
  BY <1>4, HashNamesState
<1>6. /\ context'.then = then /\ context'.now = since /\ context'.age = age
      /\ context'.says.valid = (age <= MaxAge)
      /\ context'.says.policyChanged = (then.policy # "" /\ then.policy # since.policy)
      /\ context'.says.sessionChanged = (h # <<>> /\ h # g)
  BY <1>3 DEF Validated
<1>. QED BY <1>5, <1>6 DEF ChangesAreWarnedOf

-------------------------------------------------------------------------------
(* What the types say of one batch, and of one operator that is at work.   *)
LEMMA BatchFields ==
  ASSUME BatchTypes, NEW b \in DOMAIN batches
  PROVE  /\ DOMAIN batches = 1 .. Len(batches) /\ Len(batches) \in Nat /\ b \in Nat /\ b # 0
         /\ batches[b] \in BatchRecords /\ batches[b].items \in Seq(Deferred)
         /\ batches[b].deadline \in Int /\ batches[b].resolved \in BOOLEAN
         /\ ToSet(batches[b].items) \subseteq Deferred
<1>1. batches \in Seq(BatchRecords)
  BY DEF BatchTypes
<1>2. DOMAIN batches = 1 .. Len(batches) /\ Len(batches) \in Nat /\ b \in Nat /\ b # 0 /\ batches[b] \in BatchRecords
  BY <1>1, ElementOfSeq
<1>3. /\ batches[b].items \in Seq(Deferred) /\ batches[b].deadline \in Int /\ batches[b].resolved \in BOOLEAN
  BY <1>2 DEF BatchRecords
<1>. QED BY <1>2, <1>3, ToSetMembers

LEMMA AtWork ==
  ASSUME BatchTypes, NEW o \in Operators, operator[o].at # "idle"
  PROVE  /\ operator[o] \in Resolving /\ operator[o].at \in {"items", "resolves"}
         /\ operator[o].left \in Seq(Deferred) /\ ToSet(operator[o].left) \subseteq Deferred
         /\ operator[o].decision \in Decisions
         /\ operator[o].item # <<>> => operator[o].item[1] \in Deferred /\ operator[o].item[2] \in Decisions
<1>1. operator[o] \in {[at |-> "idle"]} \cup Resolving
  BY DEF BatchTypes
<1>2. operator[o] \in Resolving
  BY <1>1
<1>3. /\ operator[o].at \in {"items", "resolves"} /\ operator[o].left \in Seq(Deferred)
      /\ operator[o].decision \in Decisions /\ operator[o].item \in {<<>>} \cup (Deferred \X Decisions)
  BY <1>2 DEF Resolving
<1>4. operator[o].item # <<>> => operator[o].item[1] \in Deferred /\ operator[o].item[2] \in Decisions
  BY <1>3
<1>. QED BY <1>2, <1>3, <1>4, ToSetMembers

(* An operator works only on items that were deferred, in a batch that is  *)
(* resolved.                                                               *)
LEMMA WorksOnFiled ==
  ASSUME BatchesInv, NEW o \in Operators, NEW t, Works(o, t)
  PROVE  /\ operator[o].at # "idle" /\ t \in Deferred
         /\ tokenMap[t] \in {0, operator[o].batch} /\ handles[t] # "none"
         /\ batches[operator[o].batch].resolved /\ operator[o].batch \in DOMAIN batches
<1>1. operator[o].at # "idle"
  BY DEF Works
<1>2. OperatorInv(o) /\ BatchTypes
  BY DEF BatchesInv
<1>3. t \in Deferred
  BY <1>1, <1>2, AtWork DEF Works, OperatorInv
<1>. QED BY <1>1, <1>2, <1>3 DEF OperatorInv

(* A call that was not deferred yet is nowhere.                            *)
LEMMA NowhereBefore ==
  ASSUME BatchesInv, NEW t \in Deferred, handles[t] = "none"
  PROVE  /\ tokenMap[t] = 0 /\ \A b \in DOMAIN batches : t \notin ToSet(batches[b].items)
         /\ \A o \in Operators : ~Works(o, t)
<1>1. tokenMap[t] = 0
  BY DEF BatchesInv, HandleInv
<1>2. ASSUME NEW b \in DOMAIN batches, t \in ToSet(batches[b].items) PROVE FALSE
  BY <1>1, <1>2, BatchFields DEF BatchesInv, ItemsInv
<1>. QED BY <1>1, <1>2, WorksOnFiled

-------------------------------------------------------------------------------
(* Add puts the call into one batch of its group, that is open; the others *)
(* stay as they are.                                                       *)
LEMMA AddFiles ==
  ASSUME BatchesInv, NEW t \in Deferred, Add(t)
  PROVE  \E n \in DOMAIN batches' :
           /\ batches' \in Seq(BatchRecords)
           /\ tokenMap' = [tokenMap EXCEPT ![t] = n]
           /\ ~batches'[n].resolved /\ batches'[n].group = GroupOf[t] /\ DeadlineOf[t] <= batches'[n].deadline
           /\ DOMAIN batches \subseteq DOMAIN batches'
           /\ \A b \in DOMAIN batches' : b # n => b \in DOMAIN batches /\ batches'[b] = batches[b]
           /\ \/ /\ n \notin DOMAIN batches /\ ToSet(batches'[n].items) = {t}
                 /\ \A b \in DOMAIN batches : ~Open(b, GroupOf[t])
              \/ /\ n \in DOMAIN batches /\ Open(n, GroupOf[t])
                 /\ batches[n].deadline <= batches'[n].deadline
                 /\ ToSet(batches'[n].items) = ToSet(batches[n].items) \cup {t}
<1>. DEFINE open == {b \in DOMAIN batches : Open(b, GroupOf[t])}
            new == [group |-> GroupOf[t], items |-> <<t>>, made |-> batchNow, deadline |-> DeadlineOf[t],
                    resolved |-> FALSE, decision |-> ""]
<1>1. batches \in Seq(BatchRecords) /\ batchNow \in Int /\ DeadlineOf[t] \in Int
  BY BatchAssumption DEF BatchesInv, BatchTypes, BatchAssumption
<1>2. CASE open = {}
  <2>1. batches' = Append(batches, new) /\ tokenMap' = [tokenMap EXCEPT ![t] = Len(batches) + 1]
    BY <1>2 DEF Add
  <2>2. <<t>> \in Seq(Deferred) /\ ToSet(<<t>>) = {t}
    BY DEF ToSet
  <2>3. new \in BatchRecords
    BY <1>1, <2>2 DEF BatchRecords
  <2>4. new.resolved = FALSE /\ new.group = GroupOf[t] /\ new.deadline = DeadlineOf[t] /\ new.items = <<t>>
    OBVIOUS
  <2>. HIDE DEF new
  <2>5. /\ batches' \in Seq(BatchRecords) /\ Len(batches') = Len(batches) + 1
        /\ \A i \in 1 .. Len(batches) : batches'[i] = batches[i]
        /\ batches'[Len(batches) + 1] = new
    BY <1>1, <2>1, <2>3, AppendProperties
  <2>6. DOMAIN batches = 1 .. Len(batches) /\ DOMAIN batches' = 1 .. (Len(batches) + 1) /\ Len(batches) \in Nat
    BY <1>1, <2>5
  <2>7. /\ Len(batches) + 1 \in DOMAIN batches' /\ Len(batches) + 1 \notin DOMAIN batches
        /\ DOMAIN batches \subseteq DOMAIN batches'
        /\ \A b \in DOMAIN batches' : b # Len(batches) + 1 => b \in DOMAIN batches /\ batches'[b] = batches[b]
    BY <2>5, <2>6
  <2>8. DeadlineOf[t] <= new.deadline
    BY <1>1, <2>4
  <2>9. \A b \in DOMAIN batches : ~Open(b, GroupOf[t])
    BY <1>2
  <2>. QED BY <2>1, <2>2, <2>4, <2>5, <2>7, <2>8, <2>9
<1>3. CASE open # {}
  <2>1. PICK n \in open :
          /\ batches' = [batches EXCEPT ![n].items = Append(@, t),
                ![n].deadline = IF DeadlineOf[t] > @ THEN DeadlineOf[t] ELSE @]
          /\ tokenMap' = [tokenMap EXCEPT ![t] = n]
    BY <1>3 DEF Add
  <2>2. n \in DOMAIN batches /\ Open(n, GroupOf[t])
    OBVIOUS
  <2>3. BatchTypes
    BY DEF BatchesInv
  <2>4. /\ batches[n] \in BatchRecords /\ batches[n].items \in Seq(Deferred) /\ batches[n].deadline \in Int
        /\ batches[n].resolved \in BOOLEAN
    BY <2>2, <2>3, BatchFields
  <2>. DEFINE r == batches[n]
              q == [[r EXCEPT !.items = Append(r.items, t)] EXCEPT
                      !.deadline = IF DeadlineOf[t] > r.deadline THEN DeadlineOf[t] ELSE r.deadline]
  <2>5. batches' = [batches EXCEPT ![n] = q]
    BY <2>1, <2>2, <2>4 DEF BatchRecords
  <2>6. Append(r.items, t) \in Seq(Deferred) /\ ToSet(Append(r.items, t)) = ToSet(r.items) \cup {t}
    BY <2>4, AppendProperties, AppendToSet
  <2>7. /\ q \in BatchRecords /\ q.resolved = r.resolved /\ q.group = r.group /\ q.items = Append(r.items, t)
        /\ q.deadline = IF DeadlineOf[t] > r.deadline THEN DeadlineOf[t] ELSE r.deadline
    <3>. DEFINE d == IF DeadlineOf[t] > r.deadline THEN DeadlineOf[t] ELSE r.deadline
                s == Append(r.items, t)
    <3>1. d \in Int /\ s \in Seq(Deferred) /\ r \in BatchRecords
      BY <1>1, <2>4, <2>6
    <3>. HIDE DEF d, s, r
    <3>2. [[r EXCEPT !.items = s] EXCEPT !.deadline = d] \in BatchRecords
      BY <3>1 DEF BatchRecords
    <3>3. /\ [[r EXCEPT !.items = s] EXCEPT !.deadline = d].items = s
          /\ [[r EXCEPT !.items = s] EXCEPT !.deadline = d].deadline = d
          /\ [[r EXCEPT !.items = s] EXCEPT !.deadline = d].group = r.group
          /\ [[r EXCEPT !.items = s] EXCEPT !.deadline = d].resolved = r.resolved
      BY <3>1 DEF BatchRecords
    <3>. QED BY <3>2, <3>3 DEF d, s
  <2>8. DeadlineOf[t] <= q.deadline /\ r.deadline <= q.deadline
    BY <1>1, <2>4, <2>7
  <2>. HIDE DEF q
  <2>9. batches' \in Seq(BatchRecords) /\ DOMAIN batches' = DOMAIN batches
    BY <1>1, <2>2, <2>5, <2>7, ExceptSeq
  <2>10. batches'[n] = q /\ \A b \in DOMAIN batches : b # n => batches'[b] = batches[b]
    BY <2>2, <2>5
  <2>11. ~batches[n].resolved /\ batches[n].group = GroupOf[t]
    BY <2>2 DEF Open
  <2>12. ToSet(batches'[n].items) = ToSet(batches[n].items) \cup {t}
    BY <2>6, <2>7, <2>10
  <2>13. ~batches'[n].resolved /\ batches'[n].group = GroupOf[t] /\ DeadlineOf[t] <= batches'[n].deadline
    BY <2>7, <2>8, <2>10, <2>11
  <2>14. batches[n].deadline <= batches'[n].deadline
    BY <2>8, <2>10
  <2>. QED BY <2>1, <2>2, <2>9, <2>10, <2>12, <2>13, <2>14
<1>. QED BY <1>2, <1>3

LEMMA AddKeeps ==
  ASSUME BatchesInv, NEW t \in Deferred, Add(t)
  PROVE  BatchesInv'
<1>1. PICK n \in DOMAIN batches' :
        /\ batches' \in Seq(BatchRecords)
        /\ tokenMap' = [tokenMap EXCEPT ![t] = n]
        /\ ~batches'[n].resolved /\ batches'[n].group = GroupOf[t] /\ DeadlineOf[t] <= batches'[n].deadline
        /\ DOMAIN batches \subseteq DOMAIN batches'
        /\ \A b \in DOMAIN batches' : b # n => b \in DOMAIN batches /\ batches'[b] = batches[b]
        /\ \/ /\ n \notin DOMAIN batches /\ ToSet(batches'[n].items) = {t}
              /\ \A b \in DOMAIN batches : ~Open(b, GroupOf[t])
           \/ /\ n \in DOMAIN batches /\ Open(n, GroupOf[t])
              /\ batches[n].deadline <= batches'[n].deadline
              /\ ToSet(batches'[n].items) = ToSet(batches[n].items) \cup {t}
  BY AddFiles
<1>2. /\ handles[t] = "none" /\ handles' = [handles EXCEPT ![t] = "pending"]
      /\ overriding = <<>>
      /\ UNCHANGED <<batchNow, override, overriding, acknowledged, decidedBy, operator>>
  BY DEF Add, ManagerIsFree
<1>3. BatchTypes /\ OneOpen
  BY DEF BatchesInv
<1>4. /\ tokenMap[t] = 0 /\ \A b \in DOMAIN batches : t \notin ToSet(batches[b].items)
      /\ \A o \in Operators : ~Works(o, t)
  BY <1>2, NowhereBefore
<1>5. n \in Nat /\ n # 0
  BY <1>1, ElementOfSeq
<1>6. BatchTypes'
  BY <1>1, <1>2, <1>3, <1>5 DEF BatchTypes, HandleStates
<1>7. ASSUME NEW u \in Deferred PROVE HandleInv(u)'
  <2>1. HandleInv(u)
    BY DEF BatchesInv
  <2>2. CASE u = t
    <3>1. tokenMap'[t] = n /\ handles'[t] = "pending"
      BY <1>2, <1>1, <1>3 DEF BatchTypes
    <3>2. decidedBy[t] = ""
      BY <2>1, <2>2, <1>2 DEF HandleInv
    <3>. QED BY <2>1, <2>2, <3>1, <3>2, <1>1, <1>2 DEF HandleInv, Standing, Writing
  <2>3. CASE u # t
    <3>1. tokenMap'[u] = tokenMap[u] /\ handles'[u] = handles[u]
      BY <2>3, <1>2, <1>1, <1>3 DEF BatchTypes
    <3>. QED BY <2>1, <3>1, <1>1, <1>2 DEF HandleInv, Standing, Writing
  <2>. QED BY <2>2, <2>3
<1>8. ASSUME NEW o \in Operators, NEW u PROVE Works(o, u)' <=> Works(o, u)
  BY <1>2 DEF Works
<1>9. ASSUME NEW b \in DOMAIN batches PROVE (batches'[b].resolved <=> batches[b].resolved) /\ batches'[b].group = batches[b].group
  <2>1. CASE b = n
    BY <2>1, <1>1, <1>9, <1>3, BatchFields DEF Open
  <2>2. CASE b # n
    BY <2>2, <1>1, <1>9
  <2>. QED BY <2>1, <2>2
<1>10. ASSUME NEW o \in Operators PROVE OperatorInv(o)'
  <2>1. OperatorInv(o)
    BY DEF BatchesInv
  <2>2. SUFFICES ASSUME operator[o].at # "idle" PROVE OperatorInv(o)'
    BY <1>2 DEF OperatorInv
  <2>3. operator[o].batch \in DOMAIN batches' /\ batches'[operator[o].batch].resolved
    BY <2>1, <2>2, <1>1, <1>9 DEF OperatorInv
  <2>4. ASSUME NEW u \in Deferred, Works(o, u) PROVE tokenMap'[u] = tokenMap[u] /\ handles'[u] = handles[u]
    BY <1>1, <1>2, <1>3, <1>4, <2>4 DEF BatchTypes
  <2>5. operator[o].at = "resolves" => Works(o, operator[o].item[1])
    BY DEF Works
  <2>6. operator[o].at = "resolves" /\ Standing(operator[o].item[1])' => Standing(operator[o].item[1])
    <3>. SUFFICES ASSUME operator[o].at = "resolves", Standing(operator[o].item[1])' PROVE Standing(operator[o].item[1])
      BY <1>2
    <3>1. operator[o].item[1] \in Deferred
      BY <2>5, WorksOnFiled
    <3>. QED BY <3>1, <2>4, <2>5, <1>2 DEF Standing
  <2>. QED BY <2>1, <2>2, <2>3, <2>4, <2>6, <1>2, <1>8 DEF OperatorInv
<1>11. ASSUME NEW b \in DOMAIN batches' PROVE ItemsInv(b)' /\ WaitingInv(b)'
  <2>1. CASE b # n
    <3>1. b \in DOMAIN batches /\ batches'[b] = batches[b]
      BY <2>1, <1>1, <1>11
    <3>2. ItemsInv(b) /\ WaitingInv(b) /\ ToSet(batches[b].items) \subseteq Deferred /\ t \notin ToSet(batches[b].items)
      BY <3>1, <1>3, <1>4, BatchFields DEF BatchesInv
    <3>3. \A u \in ToSet(batches[b].items) : tokenMap'[u] = tokenMap[u] /\ handles'[u] = handles[u]
      BY <3>2, <1>1, <1>2, <1>3 DEF BatchTypes
    <3>4. ItemsInv(b)'
      BY <3>1, <3>2, <3>3 DEF ItemsInv
    <3>5. WaitingInv(b)'
      BY <3>1, <3>2, <3>3, <1>2, <1>8 DEF WaitingInv
    <3>. QED BY <3>4, <3>5
  <2>2. CASE b = n
    <3>1. WaitingInv(b)'
      BY <2>2, <1>1 DEF WaitingInv
    <3>2. tokenMap'[t] = n
      BY <1>1, <1>3 DEF BatchTypes
    <3>3. CASE n \notin DOMAIN batches
      <4>1. ToSet(batches'[n].items) = {t}
        BY <3>3, <1>1
      <4>. QED BY <4>1, <3>1, <3>2, <2>2, <1>1 DEF ItemsInv
    <3>4. CASE n \in DOMAIN batches
      <4>1. /\ Open(n, GroupOf[t]) /\ batches[n].deadline <= batches'[n].deadline
            /\ ToSet(batches'[n].items) = ToSet(batches[n].items) \cup {t}
        BY <3>4, <1>1
      <4>2. ItemsInv(n) /\ ToSet(batches[n].items) \subseteq Deferred /\ t \notin ToSet(batches[n].items) /\ batches[n].deadline \in Int
        BY <3>4, <1>3, <1>4, BatchFields DEF BatchesInv
      <4>3. batches'[n].deadline \in Int
        <5>1. n \in 1 .. Len(batches')
          BY <1>1
        <5>2. batches'[n] \in BatchRecords
          BY <1>1, <5>1, ElementOfSeq
        <5>. QED BY <5>2 DEF BatchRecords
      <4>4. ASSUME NEW u \in ToSet(batches[n].items)
            PROVE  GroupOf[u] = batches'[n].group /\ tokenMap'[u] = n /\ DeadlineOf[u] <= batches'[n].deadline
        <5>1. GroupOf[u] = batches[n].group /\ tokenMap[u] = n /\ DeadlineOf[u] <= batches[n].deadline /\ u \in Deferred /\ u # t
          BY <4>2, <4>4 DEF ItemsInv
        <5>2. tokenMap'[u] = n
          BY <5>1, <1>1, <1>3 DEF BatchTypes
        <5>3. DeadlineOf[u] <= batches'[n].deadline
          BY <5>1, <4>1, <4>2, <4>3, BatchAssumption DEF BatchAssumption
        <5>. QED BY <5>1, <5>2, <5>3, <1>9, <3>4
      <4>. QED BY <4>1, <4>4, <3>1, <3>2, <2>2, <1>1 DEF ItemsInv
    <3>. QED BY <3>3, <3>4
  <2>. QED BY <2>1, <2>2
<1>12. OneOpen'
  <2>1. SUFFICES ASSUME NEW a \in DOMAIN batches', NEW b \in DOMAIN batches',
                        Open(a, batches[b].group)', Open(b, batches[b].group)'
                 PROVE  a = b
    BY DEF OneOpen
  <2>2. CASE a # n /\ b # n
    <3>1. a \in DOMAIN batches /\ b \in DOMAIN batches /\ batches'[a] = batches[a] /\ batches'[b] = batches[b]
      BY <2>2, <1>1
    <3>2. Open(a, batches[b].group) /\ Open(b, batches[b].group)
      BY <2>1, <3>1 DEF Open
    <3>. QED BY <3>1, <3>2, <1>3 DEF OneOpen
  <2>3. ASSUME NEW c \in DOMAIN batches', c # n, Open(c, GroupOf[t])' PROVE FALSE
    <3>1. c \in DOMAIN batches /\ batches'[c] = batches[c]
      BY <2>3, <1>1
    <3>2. Open(c, GroupOf[t])
      BY <2>3, <3>1 DEF Open
    <3>3. n \in DOMAIN batches /\ Open(n, GroupOf[t])
      BY <3>1, <3>2, <1>1
    <3>4. batches[n].group = GroupOf[t] /\ batches[c].group = GroupOf[t]
      BY <3>2, <3>3 DEF Open
    <3>. QED BY <3>1, <3>2, <3>3, <3>4, <2>3, <1>3 DEF OneOpen
  <2>4. CASE a = n /\ b # n
    BY <2>1, <2>3, <2>4, <1>1 DEF Open
  <2>5. CASE a # n /\ b = n
    BY <2>1, <2>3, <2>5, <1>1 DEF Open
  <2>. QED BY <2>2, <2>4, <2>5
<1>. QED BY <1>6, <1>7, <1>10, <1>11, <1>12 DEF BatchesInv

-------------------------------------------------------------------------------
(* ApproveBatch and DenyBatch mark one batch, and the operator has all its *)
(* items left.                                                             *)
LEMMA BeginKeeps ==
  ASSUME BatchesInv, NEW o \in Operators, NEW c \in DOMAIN batches, NEW d \in Decisions, BeginResolve(o, c, d)
  PROVE  BatchesInv'
<1>1. BatchTypes /\ OneOpen
  BY DEF BatchesInv
<1>2. /\ operator[o].at = "idle" /\ batches[c].items # <<>> /\ ~batches[c].resolved
      /\ batches' = [batches EXCEPT ![c].resolved = TRUE, ![c].decision = d]
      /\ operator' = [operator EXCEPT ![o] = [at |-> "items", batch |-> c, left |-> batches[c].items,
                                              decision |-> d, item |-> <<>>]]
      /\ overriding = <<>>
      /\ UNCHANGED <<batchNow, handles, tokenMap, override, overriding, acknowledged, decidedBy>>
  BY DEF BeginResolve, ManagerIsFree
<1>3. /\ batches[c] \in BatchRecords /\ batches[c].items \in Seq(Deferred) /\ c \in Nat /\ c # 0
      /\ batches \in Seq(BatchRecords)
  BY <1>1, BatchFields DEF BatchTypes
<1>. DEFINE r == batches[c]
            q == [[r EXCEPT !.resolved = TRUE] EXCEPT !.decision = d]
            w == [at |-> "items", batch |-> c, left |-> batches[c].items, decision |-> d, item |-> <<>>]
<1>4. /\ q \in BatchRecords /\ q.resolved = TRUE /\ q.items = r.items /\ q.group = r.group /\ q.deadline = r.deadline
  <2>1. r \in BatchRecords
    BY <1>3
  <2>. HIDE DEF r
  <2>. QED BY <2>1 DEF BatchRecords
<1>5. batches' = [batches EXCEPT ![c] = q]
  BY <1>2, <1>3 DEF BatchRecords
<1>6. w \in Resolving
  BY <1>3 DEF Resolving
<1>7. w.at = "items" /\ w.batch = c /\ w.left = batches[c].items /\ w.item = <<>>
  OBVIOUS
<1>8. operator' = [operator EXCEPT ![o] = w]
  BY <1>2
<1>. HIDE DEF q, w
<1>9. batches' \in Seq(BatchRecords) /\ DOMAIN batches' = DOMAIN batches
  BY <1>3, <1>4, <1>5, ExceptSeq
<1>10. /\ batches'[c].resolved
       /\ \A b \in DOMAIN batches : /\ batches'[b].items = batches[b].items /\ batches'[b].group = batches[b].group
                                    /\ batches'[b].deadline = batches[b].deadline
                                    /\ b # c => batches'[b] = batches[b]
  BY <1>4, <1>5
<1>11. operator'[o] = w /\ \A p \in Operators : p # o => operator'[p] = operator[p]
  BY <1>8, <1>1 DEF BatchTypes
<1>12. operator' \in [Operators -> {[at |-> "idle"]} \cup Resolving]
  BY <1>6, <1>8, <1>1 DEF BatchTypes
<1>13. BatchTypes'
  BY <1>1, <1>2, <1>9, <1>12 DEF BatchTypes
<1>14. ASSUME NEW t \in Deferred PROVE HandleInv(t)'
  BY <1>2, <1>9 DEF BatchesInv, HandleInv, Standing, Writing
<1>15. ASSUME NEW p \in Operators, p # o, NEW t PROVE Works(p, t)' <=> Works(p, t)
  BY <1>11, <1>15 DEF Works
<1>16. ASSUME NEW t PROVE Works(o, t)' <=> t \in ToSet(batches[c].items)
  BY <1>7, <1>11 DEF Works
<1>17. ASSUME NEW p \in Operators PROVE OperatorInv(p)'
  <2>1. CASE p = o
    <3>1. \A t \in ToSet(batches[c].items) : tokenMap[t] = c
      BY DEF BatchesInv, ItemsInv
    <3>2. \A t \in Deferred : tokenMap[t] = c => handles[t] # "none"
      BY <1>3 DEF BatchesInv, HandleInv
    <3>3. /\ operator'[p].batch = c /\ operator'[p].at = "items"
      BY <2>1, <1>7, <1>11
    <3>4. \A t \in Deferred : Works(p, t)' => tokenMap'[t] = c /\ handles'[t] # "none"
      BY <2>1, <1>16, <3>1, <3>2, <1>2
    <3>. QED BY <3>3, <3>4, <1>9, <1>10 DEF OperatorInv
  <2>2. CASE p # o
    <3>1. OperatorInv(p)
      BY DEF BatchesInv
    <3>2. operator'[p] = operator[p] /\ \A t \in Deferred : Works(p, t)' <=> Works(p, t)
      BY <2>2, <1>11, <1>15
    <3>3. \A b \in DOMAIN batches : batches[b].resolved => batches'[b].resolved
      BY <1>10
    <3>. QED BY <3>1, <3>2, <3>3, <1>2, <1>9 DEF OperatorInv, Standing
  <2>. QED BY <2>1, <2>2
<1>18. ASSUME NEW b \in DOMAIN batches' PROVE ItemsInv(b)' /\ WaitingInv(b)'
  <2>1. b \in DOMAIN batches
    BY <1>9
  <2>2. ItemsInv(b) /\ WaitingInv(b)
    BY <2>1 DEF BatchesInv
  <2>3. ItemsInv(b)'
    BY <2>1, <2>2, <1>2, <1>10 DEF ItemsInv
  <2>4. CASE b = c
    <3>1. operator'[o].at # "idle" /\ operator'[o].batch = b
      BY <2>4, <1>7, <1>11
    <3>2. \A t \in ToSet(batches'[b].items) : Works(o, t)'
      BY <2>4, <2>1, <1>16, <1>10
    <3>. QED BY <3>1, <3>2, <2>3 DEF WaitingInv
  <2>5. CASE b # c
    <3>1. batches'[b] = batches[b]
      BY <2>1, <2>5, <1>10
    <3>2. ASSUME NEW t, \E p \in Operators : operator[p].at # "idle" /\ operator[p].batch = b /\ Works(p, t)
          PROVE  \E p \in Operators : operator'[p].at # "idle" /\ operator'[p].batch = b /\ Works(p, t)'
      <4>1. PICK p \in Operators : operator[p].at # "idle" /\ operator[p].batch = b /\ Works(p, t)
        BY <3>2
      <4>2. p # o
        BY <4>1, <1>2
      <4>. QED BY <4>1, <4>2, <1>11, <1>15
    <3>. QED BY <3>1, <3>2, <2>2, <2>3, <1>2 DEF WaitingInv
  <2>. QED BY <2>4, <2>5
<1>19. OneOpen'
  <2>1. ASSUME NEW a \in DOMAIN batches, NEW g, Open(a, g)' PROVE Open(a, g)
    <3>1. a # c
      BY <2>1, <1>10 DEF Open
    <3>. QED BY <2>1, <3>1, <1>10 DEF Open
  <2>. QED BY <2>1, <1>1, <1>9, <1>10 DEF OneOpen
<1>. QED BY <1>13, <1>14, <1>17, <1>18, <1>19 DEF BatchesInv

(* What one operator does on its own moves no batch: what has to be seen    *)
(* is what it works on afterwards.                                         *)
LEMMA OperatorMoves ==
  ASSUME BatchesInv, NEW o \in Operators, BatchTypes', OperatorInv(o)', \A t \in Deferred : HandleInv(t)',
         \A p \in Operators : p # o => operator'[p] = operator[p],
         \A t \in Deferred : handles'[t] = "none" => handles[t] = "none",
         \A t \in Deferred : handles'[t] = "pending" => handles[t] = "pending",
         \A t \in Deferred : Works(o, t) /\ handles'[t] = "pending" => Works(o, t)',
         operator'[o].at = "idle" \/ operator'[o].batch = operator[o].batch,
         UNCHANGED <<batches, tokenMap, acknowledged>>
  PROVE  BatchesInv'
<1>1. ASSUME NEW p \in Operators, p # o, NEW t PROVE Works(p, t)' <=> Works(p, t)
  BY <1>1 DEF Works
<1>2. ASSUME NEW p \in Operators, p # o PROVE OperatorInv(p)'
  <2>1. OperatorInv(p) /\ operator'[p] = operator[p]
    BY <1>2 DEF BatchesInv
  <2>2. operator[p].at = "resolves" /\ Standing(operator[p].item[1])' => Standing(operator[p].item[1])
    <3>. SUFFICES ASSUME operator[p].at = "resolves", Standing(operator[p].item[1])' PROVE Standing(operator[p].item[1])
      BY <2>1
    <3>1. Works(p, operator[p].item[1])
      BY DEF Works
    <3>2. operator[p].item[1] \in Deferred
      BY <3>1, WorksOnFiled
    <3>. QED BY <3>2, <2>1 DEF Standing
  <2>. QED BY <1>1, <1>2, <2>1, <2>2 DEF OperatorInv
<1>3. ASSUME NEW b \in DOMAIN batches PROVE ItemsInv(b)' /\ WaitingInv(b)'
  <2>1. ItemsInv(b) /\ WaitingInv(b) /\ ToSet(batches[b].items) \subseteq Deferred
    BY BatchFields DEF BatchesInv
  <2>2. ItemsInv(b)'
    BY <2>1 DEF ItemsInv
  <2>3. SUFFICES ASSUME batches[b].resolved, NEW t \in ToSet(batches[b].items), handles'[t] = "pending"
                 PROVE  \E p \in Operators : operator'[p].at # "idle" /\ operator'[p].batch = b /\ Works(p, t)'
    BY <2>2 DEF WaitingInv
  <2>4. t \in Deferred
    BY <2>1
  <2>5. PICK p \in Operators : operator[p].at # "idle" /\ operator[p].batch = b /\ Works(p, t)
    BY <2>1, <2>3, <2>4 DEF WaitingInv
  <2>6. CASE p # o
    BY <2>5, <2>6, <1>1
  <2>7. CASE p = o
    <3>1. Works(o, t)'
      BY <2>3, <2>4, <2>5, <2>7
    <3>2. operator'[o].at # "idle"
      BY <3>1 DEF Works
    <3>. QED BY <3>1, <3>2, <2>5, <2>7
  <2>. QED BY <2>6, <2>7
<1>4. OneOpen'
  BY DEF BatchesInv, OneOpen, Open
<1>. QED BY <1>2, <1>3, <1>4 DEF BatchesInv

LEMMA ReadKeeps ==
  ASSUME BatchesInv, NEW o \in Operators, ReadItem(o)
  PROVE  BatchesInv'
<1>. DEFINE t == Head(operator[o].left)
            d == IF override[t] \in {"approved", "denied"} THEN override[t] ELSE operator[o].decision
            w == operator[o]
            v == [[[w EXCEPT !.at = "resolves"] EXCEPT !.left = Tail(w.left)] EXCEPT !.item = <<t, d>>]
<1>1. /\ operator[o].at = "items" /\ operator[o].left # <<>>
      /\ operator' = [operator EXCEPT ![o].at = "resolves", ![o].left = Tail(@), ![o].item = <<t, d>>]
      /\ UNCHANGED <<batchNow, handles, batches, tokenMap, override, overriding, acknowledged, decidedBy>>
  BY DEF ReadItem
<1>2. BatchTypes /\ OperatorInv(o)
  BY DEF BatchesInv
<1>3. w \in Resolving /\ w.left \in Seq(Deferred) /\ w.decision \in Decisions
  BY <1>1, <1>2, AtWork
<1>4. t \in Deferred /\ Tail(w.left) \in Seq(Deferred) /\ ToSet(w.left) = {t} \cup ToSet(Tail(w.left))
  BY <1>1, <1>3, TailToSet
<1>6. d \in Decisions
  BY <1>3 DEF Decisions
<1>7. operator' = [operator EXCEPT ![o] = v]
  BY <1>1, <1>3 DEF Resolving
<1>8. /\ v \in Resolving /\ v.at = "resolves" /\ v.left = Tail(w.left) /\ v.item = <<t, d>> /\ v.batch = w.batch
  <2>. DEFINE l == Tail(w.left)  i == <<t, d>>
  <2>1. l \in Seq(Deferred) /\ i \in {<<>>} \cup (Deferred \X Decisions) /\ w \in Resolving
    BY <1>3, <1>4, <1>6
  <2>. HIDE DEF l, i, w, t, d
  <2>2. [[[w EXCEPT !.at = "resolves"] EXCEPT !.left = l] EXCEPT !.item = i] \in Resolving
    BY <2>1 DEF Resolving
  <2>3. /\ [[[w EXCEPT !.at = "resolves"] EXCEPT !.left = l] EXCEPT !.item = i].at = "resolves"
        /\ [[[w EXCEPT !.at = "resolves"] EXCEPT !.left = l] EXCEPT !.item = i].left = l
        /\ [[[w EXCEPT !.at = "resolves"] EXCEPT !.left = l] EXCEPT !.item = i].item = i
        /\ [[[w EXCEPT !.at = "resolves"] EXCEPT !.left = l] EXCEPT !.item = i].batch = w.batch
    BY <2>1 DEF Resolving
  <2>. QED BY <2>2, <2>3 DEF l, i
<1>. HIDE DEF v, t, d
<1>9. /\ operator'[o] = v /\ \A p \in Operators : p # o => operator'[p] = operator[p]
      /\ operator'[o].item # <<>> /\ operator'[o].item[1] = t /\ operator'[o].item[2] = d
  <2>1. operator'[o] = v /\ \A p \in Operators : p # o => operator'[p] = operator[p]
    BY <1>7, <1>2 DEF BatchTypes
  <2>2. <<t, d>> # <<>> /\ <<t, d>>[1] = t /\ <<t, d>>[2] = d
    OBVIOUS
  <2>. QED BY <2>1, <2>2, <1>8
<1>10. operator' \in [Operators -> {[at |-> "idle"]} \cup Resolving]
  BY <1>7, <1>8, <1>2 DEF BatchTypes
<1>11. BatchTypes'
  BY <1>1, <1>2, <1>10 DEF BatchTypes
<1>12. ASSUME NEW u \in Deferred PROVE Works(o, u)' <=> Works(o, u)
  <2>1. Works(o, u) <=> u \in ToSet(w.left)
    BY <1>1 DEF Works
  <2>2. Works(o, u)' <=> u \in ToSet(Tail(w.left)) \/ t = u
    BY <1>8, <1>9 DEF Works
  <2>. QED BY <2>1, <2>2, <1>4
<1>13. Standing(t) => d = acknowledged[t].decision
  <2>. SUFFICES ASSUME Standing(t) PROVE d = acknowledged[t].decision
    OBVIOUS
  <2>1. HandleInv(t)
    BY <1>4 DEF BatchesInv
  <2>2. Works(o, t)
    BY <1>1, <1>4 DEF Works
  <2>3. tokenMap[t] \in {0, operator[o].batch} /\ batches[operator[o].batch].resolved
    BY <2>2, WorksOnFiled
  <2>4. ~Writing(t)
    BY <2>1, <2>3 DEF HandleInv
  <2>5. override[t] = acknowledged[t].decision
    BY <2>1, <2>4 DEF HandleInv
  <2>6. acknowledged[t].decision \in {"approved", "denied"}
    <3>1. acknowledged[t].decision # "" /\ acknowledged[t] \in [decision : {""} \cup Decisions, early : BOOLEAN]
      BY <2>1, <1>2, <1>4 DEF HandleInv, Standing, Writing, BatchTypes
    <3>. QED BY <3>1 DEF Decisions
  <2>. QED BY <2>5, <2>6 DEF d
<1>14. \A u \in Deferred : Works(o, u) => tokenMap[u] \in {0, operator[o].batch} /\ handles[u] # "none"
  BY <1>2, <1>1 DEF OperatorInv
<1>15. operator[o].batch \in DOMAIN batches /\ batches[operator[o].batch].resolved
  BY <1>2, <1>1 DEF OperatorInv
<1>16. OperatorInv(o)'
  <2>1. operator'[o].at = "resolves" /\ operator'[o].batch = operator[o].batch
    BY <1>8, <1>9
  <2>2. \A u \in Deferred : Works(o, u)' => tokenMap'[u] \in {0, operator'[o].batch} /\ handles'[u] # "none"
    BY <2>1, <1>1, <1>12, <1>14
  <2>3. operator'[o].batch \in DOMAIN batches' /\ batches'[operator'[o].batch].resolved
    BY <2>1, <1>1, <1>15
  <2>4. Standing(operator[o].item[1])' => operator'[o].item[2] = acknowledged'[operator'[o].item[1]].decision
    BY <1>1, <1>9, <1>13 DEF Standing
  <2>. QED BY <1>9, <2>1, <2>2, <2>3, <2>4 DEF OperatorInv
<1>17. \A u \in Deferred : HandleInv(u)'
  BY <1>1 DEF BatchesInv, HandleInv, Standing, Writing
<1>18. operator'[o].batch = operator[o].batch
  BY <1>8, <1>9
<1>. QED BY <1>1, <1>9, <1>11, <1>12, <1>16, <1>17, <1>18, OperatorMoves

LEMMA ResolveKeeps ==
  ASSUME BatchesInv, NEW o \in Operators, ResolveItem(o)
  PROVE  BatchesInv'
<1>. DEFINE t == operator[o].item[1]  d == operator[o].item[2]
            w == operator[o]  v == [w EXCEPT !.at = "items"]
<1>1. /\ operator[o].at = "resolves" /\ operator' = [operator EXCEPT ![o].at = "items"]
      /\ UNCHANGED <<batchNow, batches, tokenMap, override, overriding, acknowledged>>
  BY DEF ResolveItem
<1>2. BatchTypes /\ OperatorInv(o)
  BY DEF BatchesInv
<1>3. w \in Resolving /\ (w.item # <<>> => t \in Deferred /\ d \in Decisions)
  BY <1>1, <1>2, AtWork
<1>4. w.item # <<>> /\ (Standing(t) => d = acknowledged[t].decision)
  BY <1>1, <1>2 DEF OperatorInv
<1>5. t \in Deferred /\ d \in Decisions
  BY <1>3, <1>4
<1>6. \/ /\ handles[t] = "pending" /\ handles' = [handles EXCEPT ![t] = d]
         /\ decidedBy' = [decidedBy EXCEPT ![t] = "batch"]
      \/ handles[t] # "pending" /\ UNCHANGED <<handles, decidedBy>>
  BY DEF ResolveItem
<1>7. operator' = [operator EXCEPT ![o] = v]
  BY <1>1, <1>3 DEF Resolving
<1>8. v \in Resolving /\ v.at = "items" /\ v.left = w.left /\ v.batch = w.batch
  <2>1. w \in Resolving
    BY <1>3
  <2>. HIDE DEF w
  <2>. QED BY <2>1 DEF Resolving
<1>. HIDE DEF v
<1>9. operator'[o] = v /\ \A p \in Operators : p # o => operator'[p] = operator[p]
  BY <1>7, <1>2 DEF BatchTypes
<1>10. operator' \in [Operators -> {[at |-> "idle"]} \cup Resolving]
  BY <1>7, <1>8, <1>2 DEF BatchTypes
<1>. HIDE DEF w, t, d
<1>11. handles' \in [Deferred -> HandleStates] /\ decidedBy' \in [Deferred -> {"", "batch", "alone"}]
  <2>1. handles \in [Deferred -> HandleStates] /\ decidedBy \in [Deferred -> {"", "batch", "alone"}]
    BY <1>2 DEF BatchTypes
  <2>. QED BY <2>1, <1>5, <1>6 DEF HandleStates, Decisions
<1>12. BatchTypes'
  BY <1>1, <1>2, <1>10, <1>11 DEF BatchTypes
<1>13. /\ handles'[t] # "pending" /\ (handles[t] = "pending" => handles'[t] = d /\ decidedBy'[t] = "batch")
       /\ (handles[t] # "pending" => handles'[t] = handles[t] /\ decidedBy'[t] = decidedBy[t])
       /\ \A u \in Deferred : u # t => handles'[u] = handles[u] /\ decidedBy'[u] = decidedBy[u]
  BY <1>2, <1>5, <1>6 DEF BatchTypes, Decisions
<1>14. d # "none" /\ d # "pending"
  BY <1>5 DEF Decisions
<1>15. ASSUME NEW u \in Deferred PROVE HandleInv(u)'
  <2>1. HandleInv(u)
    BY DEF BatchesInv
  <2>2. CASE u # t
    BY <2>1, <2>2, <1>1, <1>13 DEF HandleInv, Standing, Writing
  <2>3. CASE u = t /\ handles[t] # "pending"
    BY <2>1, <2>3, <1>1, <1>13 DEF HandleInv, Standing, Writing
  <2>4. CASE u = t /\ handles[t] = "pending"
    BY <2>1, <2>4, <1>1, <1>4, <1>13, <1>14 DEF HandleInv, Standing, Writing, w, t, d
  <2>. QED BY <2>2, <2>3, <2>4
<1>16. ASSUME NEW u \in Deferred
       PROVE  (Works(o, u)' => Works(o, u)) /\ (Works(o, u) /\ u # t => Works(o, u)')
  <2>1. Works(o, u) <=> u \in ToSet(w.left) \/ t = u
    BY <1>1 DEF Works, w, t
  <2>2. Works(o, u)' <=> u \in ToSet(w.left)
    BY <1>8, <1>9 DEF Works
  <2>. QED BY <2>1, <2>2
<1>17. \A u \in Deferred : (handles'[u] = "none" => handles[u] = "none") /\ (handles'[u] = "pending" => handles[u] = "pending")
  BY <1>13, <1>14
<1>18. OperatorInv(o)'
  <2>1. /\ operator[o].batch \in DOMAIN batches /\ batches[operator[o].batch].resolved
        /\ \A u \in Deferred : Works(o, u) => tokenMap[u] \in {0, operator[o].batch} /\ handles[u] # "none"
    BY <1>1, <1>2 DEF OperatorInv
  <2>2. operator'[o].batch = operator[o].batch /\ operator'[o].at = "items"
    BY <1>8, <1>9 DEF w
  <2>3. \A u \in Deferred : Works(o, u)' => tokenMap'[u] \in {0, operator'[o].batch} /\ handles'[u] # "none"
    <3>1. SUFFICES ASSUME NEW u \in Deferred, Works(o, u)'
                   PROVE  tokenMap'[u] \in {0, operator'[o].batch} /\ handles'[u] # "none"
      OBVIOUS
    <3>2. Works(o, u)
      BY <3>1, <1>16
    <3>3. tokenMap[u] \in {0, operator[o].batch} /\ handles[u] # "none"
      BY <3>2, <2>1
    <3>4. handles'[u] # "none"
      BY <3>3, <1>17
    <3>. QED BY <3>3, <3>4, <2>2, <1>1
  <2>4. operator'[o].batch \in DOMAIN batches' /\ batches'[operator'[o].batch].resolved
    BY <2>1, <2>2, <1>1
  <2>. QED BY <2>2, <2>3, <2>4 DEF OperatorInv
<1>19. \A u \in Deferred : Works(o, u) /\ handles'[u] = "pending" => Works(o, u)'
  BY <1>13, <1>16
<1>20. operator'[o].batch = operator[o].batch
  BY <1>8, <1>9 DEF w
<1>. QED BY <1>1, <1>9, <1>12, <1>15, <1>17, <1>18, <1>19, <1>20, OperatorMoves

LEMMA EndKeeps ==
  ASSUME BatchesInv, NEW o \in Operators, EndResolve(o)
  PROVE  BatchesInv'
<1>. DEFINE idle == [at |-> "idle"]
<1>1. /\ operator[o].at = "items" /\ operator[o].left = <<>> /\ operator' = [operator EXCEPT ![o] = idle]
      /\ UNCHANGED <<batchNow, handles, batches, tokenMap, override, overriding, acknowledged, decidedBy>>
  BY DEF EndResolve
<1>2. BatchTypes
  BY DEF BatchesInv
<1>3. operator' \in [Operators -> {idle} \cup Resolving]
  BY <1>1, <1>2 DEF BatchTypes
<1>4. BatchTypes'
  BY <1>1, <1>2, <1>3 DEF BatchTypes
<1>5. operator'[o].at = "idle" /\ \A p \in Operators : p # o => operator'[p] = operator[p]
  BY <1>1, <1>2 DEF BatchTypes
<1>6. \A u \in Deferred : ~Works(o, u)
  BY <1>1, EmptyToSet DEF Works
<1>7. OperatorInv(o)'
  BY <1>5 DEF OperatorInv
<1>8. \A u \in Deferred : HandleInv(u)'
  BY <1>1 DEF BatchesInv, HandleInv, Standing, Writing
<1>. QED BY <1>1, <1>4, <1>5, <1>6, <1>7, <1>8, OperatorMoves

-------------------------------------------------------------------------------
(* An override that finds its batch undecided finds no operator at work on *)
(* the item.                                                               *)
LEMMA OverrideKeeps ==
  ASSUME BatchesInv, NEW t \in Deferred, NEW d \in Decisions, OverrideItem(t, d)
  PROVE  BatchesInv'
<1>. DEFINE a == [decision |-> d, early |-> ~batches[tokenMap[t]].resolved]
<1>1. /\ tokenMap[t] # 0 /\ overriding = <<>> /\ override' = [override EXCEPT ![t] = "half"]
      /\ overriding' = <<t, d>>
      /\ \/ handles[t] # "pending" /\ acknowledged' = acknowledged
         \/ handles[t] = "pending" /\ acknowledged' = [acknowledged EXCEPT ![t] = a]
      /\ UNCHANGED <<batchNow, handles, batches, tokenMap, decidedBy, operator>>
  BY DEF OverrideItem, ManagerIsFree
<1>2. BatchTypes /\ HandleInv(t)
  BY DEF BatchesInv
<1>3. a \in [decision : {""} \cup Decisions, early : BOOLEAN] /\ a.decision = d
      /\ (a.early <=> ~batches[tokenMap[t]].resolved)
  OBVIOUS
<1>. HIDE DEF a
<1>4. acknowledged' \in [Deferred -> [decision : {""} \cup Decisions, early : BOOLEAN]]
  BY <1>1, <1>2, <1>3 DEF BatchTypes
<1>5. override' \in [Deferred -> {"", "half"} \cup Decisions] /\ overriding' \in {<<>>} \cup (Deferred \X Decisions)
  BY <1>1, <1>2 DEF BatchTypes
<1>6. BatchTypes'
  BY <1>1, <1>2, <1>4, <1>5 DEF BatchTypes
<1>7. /\ overriding'[1] = t /\ d # ""
      /\ \A u \in Deferred : u # t => override'[u] = override[u] /\ acknowledged'[u] = acknowledged[u]
      /\ handles[t] = "pending" => acknowledged'[t] = a
      /\ handles[t] # "pending" => acknowledged'[t] = acknowledged[t]
  BY <1>1, <1>2 DEF BatchTypes, Decisions
<1>9. ASSUME NEW u \in Deferred PROVE HandleInv(u)'
  <2>1. HandleInv(u)
    BY DEF BatchesInv
  <2>2. CASE u # t
    BY <2>1, <2>2, <1>1, <1>7 DEF HandleInv, Standing, Writing
  <2>3. CASE u = t /\ handles[t] # "pending"
    BY <2>1, <2>3, <1>1, <1>7 DEF HandleInv, Standing, Writing
  <2>4. CASE u = t /\ handles[t] = "pending"
    <3>1. decidedBy[t] = ""
      BY <1>2, <2>4 DEF HandleInv
    <3>. QED BY <2>1, <2>4, <1>1, <1>3, <1>7, <3>1 DEF HandleInv, Standing, Writing
  <2>. QED BY <2>2, <2>3, <2>4
<1>10. ASSUME NEW o \in Operators, NEW u PROVE Works(o, u)' <=> Works(o, u)
  BY <1>1 DEF Works
<1>11. ASSUME NEW o \in Operators, Works(o, t), Standing(t)' PROVE FALSE
  <2>1. handles[t] = "pending" /\ ~batches[tokenMap[t]].resolved
    BY <1>1, <1>3, <1>7, <1>11 DEF Standing
  <2>2. tokenMap[t] = operator[o].batch /\ batches[operator[o].batch].resolved
    BY <1>1, <1>11, WorksOnFiled
  <2>. QED BY <2>1, <2>2
<1>12. ASSUME NEW o \in Operators PROVE OperatorInv(o)'
  <2>1. SUFFICES ASSUME operator[o].at # "idle" PROVE OperatorInv(o)'
    BY <1>1 DEF OperatorInv
  <2>2. OperatorInv(o)
    BY DEF BatchesInv
  <2>3. /\ operator[o].batch \in DOMAIN batches /\ batches[operator[o].batch].resolved
        /\ operator[o].at = "resolves" => operator[o].item # <<>>
        /\ \A u \in Deferred : Works(o, u) => tokenMap[u] \in {0, operator[o].batch} /\ handles[u] # "none"
    BY <2>1, <2>2 DEF OperatorInv
  <2>4. ASSUME operator[o].at = "resolves", Standing(operator[o].item[1])'
        PROVE  operator[o].item[2] = acknowledged'[operator[o].item[1]].decision
    <3>1. operator[o].item[1] \in Deferred
      BY <2>1, <2>3, <2>4, <1>2, AtWork
    <3>2. CASE operator[o].item[1] = t
      <4>1. Works(o, t)
        BY <2>4, <3>2 DEF Works
      <4>. QED BY <4>1, <2>4, <3>2, <1>1, <1>11 DEF Standing
    <3>3. CASE operator[o].item[1] # t
      BY <3>1, <3>3, <2>1, <2>2, <2>4, <1>1, <1>7 DEF OperatorInv, Standing
    <3>. QED BY <3>2, <3>3
  <2>5. operator' = operator /\ UNCHANGED <<batches, tokenMap, handles>>
    BY <1>1
  <2>. QED BY <2>3, <2>4, <2>5, <1>10 DEF OperatorInv
<1>13. ASSUME NEW b \in DOMAIN batches PROVE ItemsInv(b)' /\ WaitingInv(b)'
  BY <1>1, <1>10 DEF BatchesInv, ItemsInv, WaitingInv
<1>14. OneOpen'
  BY <1>1 DEF BatchesInv, OneOpen, Open
<1>. QED BY <1>1, <1>6, <1>9, <1>12, <1>13, <1>14 DEF BatchesInv

(* A written override is the one that was taken.                           *)
LEMMA EndOverrideKeeps ==
  ASSUME BatchesInv, EndOverride
  PROVE  BatchesInv'
<1>1. /\ overriding # <<>> /\ overriding' = <<>>
      /\ override' = [override EXCEPT ![overriding[1]] = overriding[2]]
      /\ UNCHANGED <<batchNow, handles, batches, tokenMap, acknowledged, decidedBy, operator>>
  BY DEF EndOverride
<1>2. BatchTypes
  BY DEF BatchesInv
<1>3. PICK t \in Deferred, d \in Decisions : overriding = <<t, d>>
  <2>1. overriding \in {<<>>} \cup (Deferred \X Decisions)
    BY <1>2 DEF BatchTypes
  <2>2. overriding \in Deferred \X Decisions
    BY <2>1, <1>1
  <2>. QED BY <2>2
<1>4. override' = [override EXCEPT ![t] = d]
  BY <1>1, <1>3
<1>5. override' \in [Deferred -> {"", "half"} \cup Decisions] /\ overriding' \in {<<>>} \cup (Deferred \X Decisions)
  BY <1>1, <1>2, <1>4 DEF BatchTypes
<1>6. BatchTypes'
  BY <1>1, <1>2, <1>5 DEF BatchTypes
<1>7. override'[t] = d /\ \A u \in Deferred : u # t => override'[u] = override[u]
  BY <1>2, <1>4 DEF BatchTypes
<1>8. ASSUME NEW u \in Deferred PROVE HandleInv(u)'
  <2>1. HandleInv(u)
    BY DEF BatchesInv
  <2>2. Standing(u)' => Standing(u)
    BY <1>1 DEF Standing
  <2>3. Standing(u) => override'[u] = acknowledged[u].decision
    <3>0. overriding[1] = t /\ overriding[2] = d
      BY <1>3
    <3>1. CASE u # t
      BY <3>0, <3>1, <2>1, <1>7 DEF HandleInv, Writing
    <3>2. CASE u = t
      BY <3>0, <3>2, <2>1, <1>1, <1>7 DEF HandleInv, Writing
    <3>. QED BY <3>1, <3>2
  <2>. QED BY <2>1, <2>2, <2>3, <1>1 DEF HandleInv, Writing
<1>9. ASSUME NEW o \in Operators, NEW u PROVE Works(o, u)' <=> Works(o, u)
  BY <1>1 DEF Works
<1>10. \A o \in Operators : OperatorInv(o)'
  BY <1>1, <1>9 DEF BatchesInv, OperatorInv, Standing
<1>11. \A b \in DOMAIN batches : ItemsInv(b)' /\ WaitingInv(b)'
  BY <1>1, <1>9 DEF BatchesInv, ItemsInv, WaitingInv
<1>12. OneOpen'
  BY <1>1 DEF BatchesInv, OneOpen, Open
<1>. QED BY <1>1, <1>6, <1>8, <1>10, <1>11, <1>12 DEF BatchesInv

(* Who decides alone leaves less waiting.                                  *)
LEMMA AloneKeeps ==
  ASSUME BatchesInv, NEW t \in Deferred, NEW d \in Decisions \cup {"expired"}, ResolveAlone(t, d)
  PROVE  BatchesInv'
<1>1. /\ handles[t] = "pending" /\ handles' = [handles EXCEPT ![t] = d]
      /\ decidedBy' = [decidedBy EXCEPT ![t] = "alone"]
      /\ UNCHANGED <<batchNow, batches, tokenMap, override, overriding, acknowledged, operator>>
  BY DEF ResolveAlone
<1>2. BatchTypes
  BY DEF BatchesInv
<1>3. handles' \in [Deferred -> HandleStates] /\ decidedBy' \in [Deferred -> {"", "batch", "alone"}]
  BY <1>1, <1>2 DEF BatchTypes, HandleStates, Decisions
<1>4. BatchTypes'
  BY <1>1, <1>2, <1>3 DEF BatchTypes
<1>5. /\ handles'[t] = d /\ d \notin {"none", "pending"} /\ decidedBy'[t] = "alone"
      /\ \A u \in Deferred : u # t => handles'[u] = handles[u] /\ decidedBy'[u] = decidedBy[u]
  BY <1>1, <1>2 DEF BatchTypes, Decisions
<1>6. ASSUME NEW u \in Deferred PROVE HandleInv(u)'
  <2>1. HandleInv(u)
    BY DEF BatchesInv
  <2>2. CASE u = t
    BY <2>1, <2>2, <1>1, <1>5 DEF HandleInv, Standing, Writing
  <2>3. CASE u # t
    BY <2>1, <2>3, <1>1, <1>5 DEF HandleInv, Standing, Writing
  <2>. QED BY <2>2, <2>3
<1>7. ASSUME NEW o \in Operators, NEW u PROVE Works(o, u)' <=> Works(o, u)
  BY <1>1 DEF Works
<1>8. \A u \in Deferred : /\ handles[u] # "none" => handles'[u] # "none"
                          /\ handles'[u] = "pending" => handles[u] = "pending"
  BY <1>5
<1>9. ASSUME NEW o \in Operators PROVE OperatorInv(o)'
  <2>1. OperatorInv(o)
    BY DEF BatchesInv
  <2>2. operator[o].at = "resolves" /\ Standing(operator[o].item[1])' => Standing(operator[o].item[1])
    <3>. SUFFICES ASSUME operator[o].at = "resolves", Standing(operator[o].item[1])' PROVE Standing(operator[o].item[1])
      OBVIOUS
    <3>1. Works(o, operator[o].item[1])
      BY DEF Works
    <3>2. operator[o].item[1] \in Deferred
      BY <3>1, WorksOnFiled
    <3>. QED BY <3>2, <1>1, <1>8 DEF Standing
  <2>. QED BY <2>1, <2>2, <1>1, <1>7, <1>8 DEF OperatorInv
<1>10. ASSUME NEW b \in DOMAIN batches PROVE ItemsInv(b)' /\ WaitingInv(b)'
  <2>1. ItemsInv(b) /\ WaitingInv(b) /\ ToSet(batches[b].items) \subseteq Deferred
    BY <1>2, BatchFields DEF BatchesInv
  <2>2. ItemsInv(b)'
    BY <2>1, <1>1 DEF ItemsInv
  <2>3. WaitingInv(b)'
    BY <2>1, <1>1, <1>7, <1>8 DEF WaitingInv
  <2>. QED BY <2>2, <2>3
<1>11. OneOpen'
  BY <1>1 DEF BatchesInv, OneOpen, Open
<1>. QED BY <1>1, <1>4, <1>6, <1>9, <1>10, <1>11 DEF BatchesInv

(* Cleanup empties resolved batches: their items are of no batch.          *)
LEMMA CleanupKeeps ==
  ASSUME BatchesInv, CleanupBatches
  PROVE  BatchesInv'
<1>. DEFINE old == {b \in DOMAIN batches : /\ batches[b].items # <<>> /\ batches[b].resolved
                                           /\ batches[b].made < batchNow - MaxAge}
<1>1. /\ batches' = [b \in DOMAIN batches |-> IF b \in old THEN [batches[b] EXCEPT !.items = <<>>] ELSE batches[b]]
      /\ tokenMap' = [t \in Deferred |-> IF tokenMap[t] \in old THEN 0 ELSE tokenMap[t]]
      /\ overriding = <<>>
      /\ UNCHANGED <<batchNow, handles, override, overriding, acknowledged, decidedBy, operator>>
  BY DEF CleanupBatches, ManagerIsFree
<1>2. BatchTypes
  BY DEF BatchesInv
<1>. HIDE DEF old
<1>3. ASSUME NEW b \in DOMAIN batches
      PROVE  /\ batches'[b] \in BatchRecords /\ batches'[b].group = batches[b].group
             /\ (batches'[b].resolved <=> batches[b].resolved)
             /\ b \in old => batches'[b].items = <<>>
             /\ b \notin old => batches'[b] = batches[b]
  <2>. DEFINE r == batches[b]
  <2>1. r \in BatchRecords /\ batches'[b] = IF b \in old THEN [r EXCEPT !.items = <<>>] ELSE r
    BY <1>1, <1>2, <1>3, BatchFields
  <2>. DEFINE e == <<>>
  <2>. e \in Seq(Deferred)
    OBVIOUS
  <2>. HIDE DEF r, e
  <2>2. [r EXCEPT !.items = e] \in BatchRecords
    BY <2>1 DEF BatchRecords
  <2>3. /\ [r EXCEPT !.items = e].items = e /\ [r EXCEPT !.items = e].group = r.group
        /\ ([r EXCEPT !.items = e].resolved <=> r.resolved)
    BY <2>1 DEF BatchRecords
  <2>4. b \notin old => batches'[b] = batches[b]
    BY <2>1 DEF r
  <2>. QED BY <2>1, <2>2, <2>3, <2>4 DEF r, e
<1>4. DOMAIN batches' = DOMAIN batches /\ DOMAIN batches = 1 .. Len(batches) /\ Len(batches) \in Nat
  <2>1. batches \in Seq(BatchRecords)
    BY <1>2 DEF BatchTypes
  <2>2. DOMAIN batches = 1 .. Len(batches) /\ Len(batches) \in Nat
    BY <2>1
  <2>. QED BY <2>2, <1>1
<1>5. batches' \in Seq(BatchRecords)
  <2>1. batches' = [b \in 1 .. Len(batches) |-> batches'[b]]
    BY <1>1, <1>4
  <2>2. \A b \in 1 .. Len(batches) : batches'[b] \in BatchRecords
    BY <1>3, <1>4
  <2>. DEFINE f == batches'  n == Len(batches)
  <2>3. n \in Nat /\ f = [b \in 1 .. n |-> f[b]] /\ \A b \in 1 .. n : f[b] \in BatchRecords
    BY <2>1, <2>2, <1>4
  <2>. HIDE DEF f, n
  <2>4. f \in Seq(BatchRecords)
    BY <2>3, IsASeq
  <2>. QED BY <2>4 DEF f
<1>6. \A t \in Deferred : tokenMap'[t] = IF tokenMap[t] \in old THEN 0 ELSE tokenMap[t]
  BY <1>1
<1>7. tokenMap' \in [Deferred -> Nat]
  BY <1>1, <1>2 DEF BatchTypes
<1>8. BatchTypes'
  BY <1>1, <1>2, <1>5, <1>7 DEF BatchTypes
<1>9. ASSUME NEW t \in Deferred PROVE HandleInv(t)'
  <2>1. HandleInv(t)
    BY DEF BatchesInv
  <2>. QED BY <2>1, <1>1, <1>4, <1>6 DEF HandleInv, Standing, Writing
<1>10. ASSUME NEW o \in Operators, NEW u PROVE Works(o, u)' <=> Works(o, u)
  BY <1>1 DEF Works
<1>11. ASSUME NEW o \in Operators PROVE OperatorInv(o)'
  <2>1. OperatorInv(o)
    BY DEF BatchesInv
  <2>2. SUFFICES ASSUME operator[o].at # "idle" PROVE OperatorInv(o)'
    BY <1>1 DEF OperatorInv
  <2>3. \A t \in Deferred : Works(o, t) => tokenMap'[t] \in {0, operator[o].batch} /\ handles[t] # "none"
    BY <2>1, <2>2, <1>6 DEF OperatorInv
  <2>4. operator[o].batch \in DOMAIN batches' /\ batches'[operator[o].batch].resolved
    BY <2>1, <2>2, <1>3, <1>4 DEF OperatorInv
  <2>. QED BY <2>1, <2>2, <2>3, <2>4, <1>1, <1>10 DEF OperatorInv, Standing
<1>12. ASSUME NEW b \in DOMAIN batches' PROVE ItemsInv(b)' /\ WaitingInv(b)'
  <2>1. CASE b \in old
    <3>1. ToSet(batches'[b].items) = {}
      BY <2>1, <1>3, <1>4, EmptyToSet
    <3>. QED BY <3>1 DEF ItemsInv, WaitingInv
  <2>2. CASE b \notin old
    <3>1. batches'[b] = batches[b] /\ b \in DOMAIN batches
      BY <2>2, <1>3, <1>4
    <3>2. ItemsInv(b) /\ WaitingInv(b) /\ ToSet(batches[b].items) \subseteq Deferred
      BY <3>1, <1>2, BatchFields DEF BatchesInv
    <3>3. ItemsInv(b)'
      BY <2>2, <3>1, <3>2, <1>6 DEF ItemsInv
    <3>4. WaitingInv(b)'
      BY <3>1, <3>2, <1>1, <1>10 DEF WaitingInv
    <3>. QED BY <3>3, <3>4
  <2>. QED BY <2>1, <2>2
<1>13. OneOpen'
  <2>1. ASSUME NEW a \in DOMAIN batches, NEW g, Open(a, g)' PROVE Open(a, g)
    BY <2>1, <1>3 DEF Open
  <2>. QED BY <2>1, <1>3, <1>4 DEF BatchesInv, OneOpen
<1>. QED BY <1>8, <1>9, <1>11, <1>12, <1>13 DEF BatchesInv

(* Neither the clock nor a resumption matters to a batch.                  *)
LEMMA BatchesStay ==
  ASSUME BatchesInv, batchNow' \in Int, UNCHANGED handleVars
  PROVE  BatchesInv'
<1>1. UNCHANGED <<handles, batches, tokenMap, override, overriding, acknowledged, decidedBy, operator>>
  BY DEF handleVars
<1>2. BatchTypes'
  BY <1>1 DEF BatchesInv, BatchTypes
<1>3. \A t \in Deferred : HandleInv(t)'
  BY <1>1 DEF BatchesInv, HandleInv, Standing, Writing
<1>4. ASSUME NEW o \in Operators, NEW t PROVE Works(o, t)' <=> Works(o, t)
  BY <1>1 DEF Works
<1>5. \A o \in Operators : OperatorInv(o)'
  BY <1>1, <1>4 DEF BatchesInv, OperatorInv, Standing
<1>6. \A b \in DOMAIN batches : ItemsInv(b)' /\ WaitingInv(b)'
  BY <1>1, <1>4 DEF BatchesInv, ItemsInv, WaitingInv
<1>7. OneOpen'
  BY <1>1 DEF BatchesInv, OneOpen, Open
<1>. QED BY <1>1, <1>2, <1>3, <1>5, <1>6, <1>7 DEF BatchesInv

LEMMA BatchStep == BatchesInv /\ BatchNext => BatchesInv'
<1>. SUFFICES ASSUME BatchesInv, BatchNext PROVE BatchesInv'
  OBVIOUS
<1>1. CASE BatchTick
  <2>1. batchNow \in Int
    BY DEF BatchesInv, BatchTypes
  <2>2. batchNow' \in Int
    BY <2>1, <1>1 DEF BatchTick
  <2>3. UNCHANGED handleVars
    BY <1>1 DEF BatchTick
  <2>. QED BY <2>2, <2>3, BatchesStay
<1>2. CASE CleanupBatches
  BY <1>2, CleanupKeeps
<1>7. CASE EndOverride
  BY <1>7, EndOverrideKeeps
<1>3. ASSUME NEW o \in Operators, NEW b \in DOMAIN batches, NEW d \in {"approved", "denied"}, BeginResolve(o, b, d)
      PROVE  BatchesInv'
  BY <1>3, BeginKeeps DEF Decisions
<1>4. ASSUME NEW o \in Operators, ReadItem(o) \/ ResolveItem(o) \/ EndResolve(o) PROVE BatchesInv'
  BY <1>4, ReadKeeps, ResolveKeeps, EndKeeps
<1>5. ASSUME NEW t \in Deferred, Add(t) \/ ExpireAlone(t) PROVE BatchesInv'
  BY <1>5, AddKeeps, AloneKeeps DEF ExpireAlone
<1>6. ASSUME NEW t \in Deferred, NEW d \in {"approved", "denied"}, ResolveAlone(t, d) \/ OverrideItem(t, d)
      PROVE  BatchesInv'
  BY <1>6, AloneKeeps, OverrideKeeps DEF Decisions
<1>. QED BY <1>1, <1>2, <1>3, <1>4, <1>5, <1>6, <1>7 DEF BatchNext

LEMMA BatchesAreSound == BatchesInv => OneOpenBatch /\ BatchesAreDecided /\ EarlyOverridesHold
<1>. SUFFICES ASSUME BatchesInv PROVE OneOpenBatch /\ BatchesAreDecided /\ EarlyOverridesHold
  OBVIOUS
<1>1. OneOpenBatch
  BY DEF BatchesInv, OneOpen, ItemsInv, OneOpenBatch
<1>2. BatchesAreDecided
  BY DEF BatchesInv, ItemsInv, WaitingInv, BatchesAreDecided
<1>3. EarlyOverridesHold
  BY DEF BatchesInv, HandleInv, EarlyOverridesHold
<1>. QED BY <1>1, <1>2, <1>3

LEMMA BatchesLeaveContext == BatchNext => UNCHANGED context
  BY DEF BatchNext, BatchTick, CleanupBatches, BeginResolve, ReadItem, ResolveItem, EndResolve, Add, ExpireAlone,
         ResolveAlone, OverrideItem, EndOverride

-------------------------------------------------------------------------------
(* Elevation and revocation *)

Known == Ids \cup {"", "workload"}
Whose == [id : Known, verified : BOOLEAN, trusted : BOOLEAN]
Working == [at : {"gates", "grant"}, who : Whose, began : Int, out : SUBSET Ids, grant : Int, looked : Int]
Ending == [at : {"done"}, id : Known, tier : {"own", "elevated", "denied"}, began : Int, out : SUBSET Ids]

(* A grant in force was given; a caller knows of revocations that were     *)
(* made, passed the gates of those, and read a grant that was given, after *)
(* it began.                                                               *)
AtGates(c) ==
    caller[c].at = "gates" => caller[c].out \subseteq revokedIds /\ caller[c].began <= now
AtGrant(c) ==
    caller[c].at = "grant" =>
        /\ caller[c].who.id \in Ids \ caller[c].out /\ caller[c].began <= caller[c].looked
        /\ caller[c].grant # -1 => <<caller[c].who.id, caller[c].grant>> \in given
AtEnd(c) ==
    caller[c].at = "done" =>
        /\ caller[c].tier = "elevated" => \E g \in given : g[1] = caller[c].id /\ caller[c].began <= g[2]
        /\ caller[c].id \in caller[c].out => caller[c].tier = "denied"
ElevationTypes ==
    /\ grants \in [Ids -> Int] /\ revokedIds \subseteq Ids
    /\ caller \in [Callers -> {[at |-> "idle"]} \cup Working \cup Ending]
ElevationInv ==
    /\ ElevationTypes
    /\ \A i \in Ids : grants[i] # -1 => <<i, grants[i]>> \in given
    /\ \A c \in Callers : AtGates(c) /\ AtGrant(c) /\ AtEnd(c)

LEMMA IdentityNames == ASSUME NEW w PROVE Identity(w) \subseteq {"workload", "", "error"}
  BY DEF Identity

LEMMA PrincipalIsKnown == ASSUME NEW claim \in Claims \cup {Nobody}, NEW p \in Principal(claim) PROVE p \in Whose
<1>1. claim \in Whose
  <2>1. CASE claim \in Claims
    <3>1. claim \in [id : Ids, verified : BOOLEAN, trusted : BOOLEAN]
      BY <2>1 DEF Claims
    <3>. QED BY <3>1 DEF Whose, Known
  <2>2. CASE claim = Nobody
    BY <2>2 DEF Nobody, Whose, Known
  <2>. QED BY <2>1, <2>2
<1>2. PICK id \in Identity(workload) :
        p = IF claim.verified \/ id \in {"", "error"} THEN claim ELSE [id |-> id, verified |-> TRUE, trusted |-> TRUE]
  BY DEF Principal
<1>3. id \in {"workload", "", "error"}
  BY IdentityNames
<1>4. CASE claim.verified \/ id \in {"", "error"}
  BY <1>1, <1>2, <1>4
<1>5. CASE ~(claim.verified \/ id \in {"", "error"})
  BY <1>2, <1>3, <1>5 DEF Whose, Known
<1>. QED BY <1>4, <1>5

(* What a caller's own step has to show: the others see no less than they  *)
(* did.                                                                    *)
LEMMA CallerMoves ==
  ASSUME ElevationInv, NEW c \in Callers, NEW r \in Working \cup Ending, caller' = [caller EXCEPT ![c] = r],
         AtGates(c)', AtGrant(c)', AtEnd(c)', grants' \in [Ids -> Int],
         \A i \in Ids : grants'[i] # -1 => grants'[i] = grants[i],
         UNCHANGED <<now, given, revokedIds>>
  PROVE  ElevationInv'
<1>1. ElevationTypes
  BY DEF ElevationInv
<1>2. caller' \in [Callers -> {[at |-> "idle"]} \cup Working \cup Ending]
  BY <1>1 DEF ElevationTypes
<1>3. ElevationTypes'
  BY <1>1, <1>2 DEF ElevationTypes
<1>4. \A i \in Ids : grants'[i] # -1 => <<i, grants'[i]>> \in given
  BY DEF ElevationInv
<1>5. ASSUME NEW d \in Callers, d # c PROVE AtGates(d)' /\ AtGrant(d)' /\ AtEnd(d)'
  <2>1. caller'[d] = caller[d]
    BY <1>1, <1>5 DEF ElevationTypes
  <2>2. AtGates(d) /\ AtGrant(d) /\ AtEnd(d)
    BY DEF ElevationInv
  <2>. QED BY <2>1, <2>2 DEF AtGates, AtGrant, AtEnd
<1>. QED BY <1>3, <1>4, <1>5 DEF ElevationInv

LEMMA BeginCallKeeps ==
  ASSUME ElevationInv, now \in Nat, NEW c \in Callers, NEW claim \in Claims \cup {Nobody}, BeginCall(c, claim)
  PROVE  ElevationInv'
<1>1. PICK p \in Principal(claim) :
        caller' = [caller EXCEPT ![c] = [at |-> "gates", who |-> p, began |-> now,
                                         out |-> revokedIds, grant |-> -1, looked |-> now]]
  BY DEF BeginCall
<1>2. UNCHANGED <<now, grants, given, revokedIds>>
  BY DEF BeginCall
<1>. DEFINE r == [at |-> "gates", who |-> p, began |-> now, out |-> revokedIds, grant |-> -1, looked |-> now]
<1>3. ElevationTypes
  BY DEF ElevationInv
<1>4. p \in Whose /\ revokedIds \in SUBSET Ids /\ now \in Int
  BY <1>3, PrincipalIsKnown DEF ElevationTypes
<1>5. r \in Working
  BY <1>4 DEF Working
<1>6. r.at = "gates" /\ r.out = revokedIds /\ r.began = now
  OBVIOUS
<1>7. caller' = [caller EXCEPT ![c] = r]
  BY <1>1
<1>. HIDE DEF r
<1>8. caller'[c] = r
  BY <1>3, <1>7 DEF ElevationTypes
<1>9. AtGates(c)' /\ AtGrant(c)' /\ AtEnd(c)'
  BY <1>2, <1>6, <1>8 DEF AtGates, AtGrant, AtEnd
<1>10. grants' \in [Ids -> Int] /\ \A i \in Ids : grants'[i] # -1 => grants'[i] = grants[i]
  BY <1>2, <1>3 DEF ElevationTypes
<1>. QED BY <1>2, <1>5, <1>7, <1>9, <1>10, CallerMoves

(* The fields of a caller at work, and of the one it ends as.              *)
LEMMA AtWorkFields ==
  ASSUME ElevationTypes, NEW c \in Callers, caller[c].at \in {"gates", "grant"}
  PROVE  /\ caller[c] \in Working /\ caller[c].who \in Whose /\ caller[c].who.id \in Known
         /\ caller[c].began \in Int /\ caller[c].out \in SUBSET Ids /\ caller[c].looked \in Int /\ caller[c].grant \in Int
<1>1. caller[c] \in {[at |-> "idle"]} \cup Working \cup Ending
  BY DEF ElevationTypes
<1>2. caller[c] \in Working
  BY <1>1 DEF Ending
<1>. QED BY <1>2 DEF Working, Whose

LEMMA EndingKeeps ==
  ASSUME ElevationInv, NEW c \in Callers, caller[c].at \in {"gates", "grant"},
         NEW tier \in {"own", "elevated", "denied"}, Ended(c, caller[c].who, tier),
         tier = "elevated" => \E g \in given : g[1] = caller[c].who.id /\ caller[c].began <= g[2],
         caller[c].who.id \in caller[c].out => tier = "denied",
         grants' \in [Ids -> Int], \A i \in Ids : grants'[i] # -1 => grants'[i] = grants[i],
         UNCHANGED <<now, given, revokedIds>>
  PROVE  ElevationInv'
<1>. DEFINE r == [at |-> "done", id |-> caller[c].who.id, tier |-> tier, began |-> caller[c].began, out |-> caller[c].out]
<1>1. ElevationTypes
  BY DEF ElevationInv
<1>2. caller[c].who.id \in Known /\ caller[c].began \in Int /\ caller[c].out \in SUBSET Ids
  BY <1>1, AtWorkFields
<1>3. r \in Ending
  BY <1>2 DEF Ending
<1>4. r.at = "done" /\ r.id = caller[c].who.id /\ r.tier = tier /\ r.began = caller[c].began /\ r.out = caller[c].out
  OBVIOUS
<1>5. caller' = [caller EXCEPT ![c] = r]
  BY DEF Ended
<1>. HIDE DEF r
<1>6. caller'[c] = r
  BY <1>1, <1>5 DEF ElevationTypes
<1>7. AtGates(c)' /\ AtGrant(c)'
  BY <1>4, <1>6 DEF AtGates, AtGrant
<1>8. AtEnd(c)'
  BY <1>4, <1>6 DEF AtEnd
<1>. QED BY <1>3, <1>5, <1>7, <1>8, CallerMoves

LEMMA PassGatesKeeps ==
  ASSUME ElevationInv, now \in Nat, NEW c \in Callers, PassGates(c)
  PROVE  ElevationInv'
<1>. DEFINE p == caller[c].who
            r == [[[caller[c] EXCEPT !.at = "grant"] EXCEPT !.grant = grants[p.id]] EXCEPT !.looked = now]
<1>1. caller[c].at = "gates" /\ UNCHANGED <<now, grants, given, revokedIds>>
  BY DEF PassGates
<1>2. ElevationTypes /\ AtGates(c)
  BY DEF ElevationInv
<1>3. /\ caller[c] \in Working /\ p \in Whose /\ p.id \in Known /\ caller[c].began \in Int
      /\ caller[c].out \in SUBSET Ids
  BY <1>1, <1>2, AtWorkFields
<1>4. caller[c].out \subseteq revokedIds /\ caller[c].began <= now
  BY <1>1, <1>2 DEF AtGates
<1>5. grants' \in [Ids -> Int] /\ \A i \in Ids : grants'[i] # -1 => grants'[i] = grants[i]
  BY <1>1, <1>2 DEF ElevationTypes
<1>6. CASE (p.verified /\ ~p.trusted) \/ (p.id # "" /\ p.id \in revokedIds)
  <2>1. Ended(c, p, "denied")
    BY <1>6 DEF PassGates
  <2>. QED BY <2>1, <1>1, <1>5, EndingKeeps
<1>7. CASE ~((p.verified /\ ~p.trusted) \/ (p.id # "" /\ p.id \in revokedIds)) /\ p.id \notin Ids
  <2>1. Ended(c, p, "own")
    BY <1>7 DEF PassGates
  <2>2. p.id \notin caller[c].out
    BY <1>3, <1>7
  <2>. QED BY <2>1, <2>2, <1>1, <1>5, EndingKeeps
<1>8. CASE ~((p.verified /\ ~p.trusted) \/ (p.id # "" /\ p.id \in revokedIds)) /\ p.id \in Ids
  <2>1. caller' = [caller EXCEPT ![c].at = "grant", ![c].grant = grants[p.id], ![c].looked = now]
    BY <1>8 DEF PassGates
  <2>2. p.id # "" /\ p.id \notin caller[c].out
    BY <1>4, <1>8, PrincipalsAssumption DEF PrincipalsAssumption
  <2>3. grants[p.id] \in Int /\ now \in Int
    <3>1. p.id \in Ids
      BY <1>8
    <3>2. grants \in [Ids -> Int]
      BY <1>2 DEF ElevationTypes
    <3>. QED BY <3>1, <3>2
  <2>4. caller' = [caller EXCEPT ![c] = r]
    BY <2>1, <1>3 DEF Working
  <2>5. /\ r \in Working /\ r.at = "grant" /\ r.who = p /\ r.out = caller[c].out /\ r.began = caller[c].began
        /\ r.grant = grants[p.id] /\ r.looked = now
    <3>. DEFINE w == caller[c]  g == grants[p.id]
    <3>1. w \in Working /\ g \in Int /\ now \in Int
      BY <1>3, <2>3
    <3>. HIDE DEF w, g
    <3>2. [[[w EXCEPT !.at = "grant"] EXCEPT !.grant = g] EXCEPT !.looked = now] \in Working
      BY <3>1 DEF Working
    <3>. DEFINE q == [[[w EXCEPT !.at = "grant"] EXCEPT !.grant = g] EXCEPT !.looked = now]
    <3>3. q.at = "grant" /\ q.who = w.who /\ q.out = w.out /\ q.began = w.began /\ q.grant = g /\ q.looked = now
      BY <3>1 DEF Working
    <3>. QED BY <3>2, <3>3 DEF w, g
  <2>. HIDE DEF r
  <2>6. caller'[c] = r
    BY <1>2, <2>4 DEF ElevationTypes
  <2>7. AtGates(c)' /\ AtEnd(c)'
    BY <2>5, <2>6 DEF AtGates, AtEnd
  <2>8. grants[p.id] # -1 => <<p.id, grants[p.id]>> \in given
    BY <1>8 DEF ElevationInv
  <2>9. AtGrant(c)'
    BY <2>2, <2>5, <2>6, <2>8, <1>1, <1>4, <1>8 DEF AtGrant
  <2>. QED BY <2>4, <2>5, <2>7, <2>9, <1>1, <1>5, CallerMoves
<1>. QED BY <1>6, <1>7, <1>8

LEMMA FinishGrantKeeps ==
  ASSUME ElevationInv, now \in Nat, NEW c \in Callers, FinishGrant(c)
  PROVE  ElevationInv'
<1>. DEFINE p == caller[c].who
<1>1. caller[c].at = "grant" /\ UNCHANGED <<now, given, revokedIds>>
  BY DEF FinishGrant
<1>2. ElevationTypes /\ AtGrant(c)
  BY DEF ElevationInv
<1>3. /\ p.id \in Ids /\ p.id \notin caller[c].out /\ caller[c].began <= caller[c].looked
      /\ caller[c].grant # -1 => <<p.id, caller[c].grant>> \in given
      /\ caller[c].began \in Int /\ caller[c].looked \in Int /\ caller[c].grant \in Int
  BY <1>1, <1>2, AtWorkFields DEF AtGrant
<1>4. CASE caller[c].grant # -1 /\ caller[c].looked > caller[c].grant
  <2>1. grants' = [grants EXCEPT ![p.id] = -1] /\ Ended(c, p, "own")
    BY <1>4 DEF FinishGrant
  <2>2. grants' \in [Ids -> Int] /\ \A i \in Ids : grants'[i] # -1 => grants'[i] = grants[i]
    <3>. DEFINE j == p.id
    <3>1. grants \in [Ids -> Int] /\ grants' = [grants EXCEPT ![j] = -1]
      BY <2>1, <1>2 DEF ElevationTypes
    <3>. DEFINE m == -1
    <3>. m \in Int
      OBVIOUS
    <3>. HIDE DEF j
    <3>2. grants' \in [Ids -> Int]
      <4>1. grants' = [grants EXCEPT ![j] = m]
        BY <3>1
      <4>. HIDE DEF m
      <4>. QED BY <3>1, <4>1
    <3>3. \A i \in Ids : grants'[i] # -1 => grants'[i] = grants[i]
      BY <3>1
    <3>. QED BY <3>2, <3>3
  <2>. QED BY <2>1, <2>2, <1>1, <1>3, EndingKeeps
<1>5. CASE ~(caller[c].grant # -1 /\ caller[c].looked > caller[c].grant)
  <2>1. grants' = grants /\ Ended(c, p, IF caller[c].grant = -1 THEN "own" ELSE "elevated")
    BY <1>5 DEF FinishGrant
  <2>2. grants' \in [Ids -> Int] /\ \A i \in Ids : grants'[i] # -1 => grants'[i] = grants[i]
    BY <2>1, <1>2 DEF ElevationTypes
  <2>3. CASE caller[c].grant = -1
    <3>1. Ended(c, p, "own")
      BY <2>1, <2>3
    <3>. QED BY <3>1, <2>2, <1>1, <1>3, EndingKeeps
  <2>4. CASE caller[c].grant # -1
    <3>1. Ended(c, p, "elevated")
      BY <2>1, <2>4
    <3>2. caller[c].began <= caller[c].grant
      BY <2>4, <1>3, <1>5
    <3>3. <<p.id, caller[c].grant>>[1] = p.id /\ <<p.id, caller[c].grant>>[2] = caller[c].grant
      OBVIOUS
    <3>4. \E g \in given : g[1] = p.id /\ caller[c].began <= g[2]
      BY <2>4, <3>2, <3>3, <1>3
    <3>. QED BY <3>1, <3>4, <2>2, <1>1, <1>3, EndingKeeps
  <2>. QED BY <2>3, <2>4
<1>. QED BY <1>4, <1>5

LEMMA ElevationStep == ElevationInv /\ now \in Nat /\ ElevationNext => ElevationInv'
<1>. SUFFICES ASSUME ElevationInv, now \in Nat, ElevationNext PROVE ElevationInv'
  OBVIOUS
<1>1. CASE Passing
  <2>1. now' = now + 1 /\ UNCHANGED <<grants, given, revokedIds, caller>>
    BY <1>1 DEF Passing, elevationPart
  <2>2. ElevationTypes'
    BY <2>1 DEF ElevationInv, ElevationTypes
  <2>3. ASSUME NEW c \in Callers PROVE AtGates(c)' /\ AtGrant(c)' /\ AtEnd(c)'
    <3>1. AtGates(c) /\ AtGrant(c) /\ AtEnd(c)
      BY DEF ElevationInv
    <3>2. caller[c].at = "gates" => caller[c].began \in Int
      BY AtWorkFields DEF ElevationInv
    <3>3. AtGates(c)'
      BY <2>1, <3>1, <3>2 DEF AtGates
    <3>4. AtGrant(c)' /\ AtEnd(c)'
      BY <2>1, <3>1 DEF AtGrant, AtEnd
    <3>. QED BY <3>3, <3>4
  <2>. QED BY <2>1, <2>2, <2>3 DEF ElevationInv
<1>2. ASSUME NEW i \in Ids, Revoke(i) PROVE ElevationInv'
  <2>1. revokedIds' = revokedIds \cup {i} /\ UNCHANGED <<now, grants, given, caller>>
    BY <1>2 DEF Revoke
  <2>2. ElevationTypes'
    BY <2>1 DEF ElevationInv, ElevationTypes
  <2>. QED BY <2>1, <2>2 DEF ElevationInv, AtGates, AtGrant, AtEnd
<1>3. ASSUME NEW i \in Ids, NEW ttl \in 1 .. MaxTTL, RequestElevation(i, ttl) PROVE ElevationInv'
  <2>1. /\ given' = given \cup {<<i, now + ttl>>} /\ grants' = [grants EXCEPT ![i] = now + ttl]
        /\ UNCHANGED <<now, revokedIds, caller>>
    BY <1>3 DEF RequestElevation
  <2>2. ttl \in Int /\ grants \in [Ids -> Int]
    BY DEF ElevationInv, ElevationTypes
  <2>3. grants' \in [Ids -> Int]
    BY <2>1, <2>2
  <2>4. ElevationTypes'
    BY <2>1, <2>3 DEF ElevationInv, ElevationTypes
  <2>5. \A j \in Ids : grants'[j] # -1 => <<j, grants'[j]>> \in given'
    BY <2>1, <2>2 DEF ElevationInv
  <2>6. ASSUME NEW c \in Callers PROVE AtGates(c)' /\ AtGrant(c)' /\ AtEnd(c)'
    BY <2>1 DEF ElevationInv, AtGates, AtGrant, AtEnd
  <2>. QED BY <2>4, <2>5, <2>6 DEF ElevationInv
<1>4. ASSUME NEW c \in Callers, (\E claim \in Claims \cup {Nobody} : BeginCall(c, claim)) \/ PassGates(c) \/ FinishGrant(c)
      PROVE  ElevationInv'
  BY <1>4, BeginCallKeeps, PassGatesKeeps, FinishGrantKeeps
<1>. QED BY <1>1, <1>2, <1>3, <1>4 DEF ElevationNext

LEMMA ElevationHolds == ElevationInv => ElevatedIsGranted /\ RevokedIsDenied
  BY DEF ElevationInv, AtEnd, ElevatedIsGranted, RevokedIsDenied

LEMMA ElevationBegins == PrincipalInit => ElevationInv
<1>. SUFFICES ASSUME PrincipalInit PROVE ElevationInv
  OBVIOUS
<1>1. /\ grants = [i \in Ids |-> -1] /\ given = {} /\ revokedIds = {}
      /\ caller = [c \in Callers |-> [at |-> "idle"]]
  BY DEF PrincipalInit
<1>2. ElevationTypes
  BY <1>1 DEF ElevationTypes
<1>. QED BY <1>1, <1>2 DEF ElevationInv, AtGates, AtGrant, AtEnd

-------------------------------------------------------------------------------
(* Trust between organisations *)

(* A registered document is listed under its own organisations and id.     *)
Listed == [from : {d.from : d \in TrustDocs}, to : {d.to : d \in TrustDocs}, id : DocIDs]
TrustInv ==
    /\ trustMap \in Seq(Listed)
    /\ \A i \in DOMAIN docs :
         /\ {"from", "to"} \subseteq DOMAIN docs[i]
         /\ \E n \in DOMAIN trustMap :
              trustMap[n].id = i /\ trustMap[n].from = docs[i].from /\ trustMap[n].to = docs[i].to

LEMMA RegisterKeeps == ASSUME TrustInv, NEW d \in TrustDocs, Register(d) PROVE TrustInv'
<1>. DEFINE e == [from |-> d.from, to |-> d.to, id |-> d.id]
            f == [d EXCEPT !.revoked = FALSE]
<1>1. /\ d.id \in DocIDs /\ trustMap' = Append(trustMap, e)
      /\ docs' = [i \in DOMAIN docs \cup {d.id} |-> IF i = d.id THEN f ELSE docs[i]]
  BY DEF Register
<1>2. {"id", "from", "to", "tools", "depth", "ends", "revoked"} \subseteq DOMAIN d
  BY PrincipalsAssumption DEF PrincipalsAssumption
<1>3. e \in Listed /\ e.from = d.from /\ e.to = d.to /\ e.id = d.id
  BY <1>1 DEF Listed
<1>4. {"from", "to"} \subseteq DOMAIN f /\ f.from = d.from /\ f.to = d.to
  BY <1>2
<1>. HIDE DEF e, f
<1>5. trustMap \in Seq(Listed)
  BY DEF TrustInv
<1>6. /\ trustMap' \in Seq(Listed) /\ Len(trustMap') = Len(trustMap) + 1
      /\ \A n \in 1 .. Len(trustMap) : trustMap'[n] = trustMap[n]
      /\ trustMap'[Len(trustMap) + 1] = e
  BY <1>1, <1>3, <1>5, AppendProperties
<1>7. DOMAIN trustMap = 1 .. Len(trustMap) /\ DOMAIN trustMap' = 1 .. (Len(trustMap) + 1) /\ Len(trustMap) \in Nat
  BY <1>5, <1>6
<1>8. ASSUME NEW i \in DOMAIN docs'
      PROVE  /\ {"from", "to"} \subseteq DOMAIN docs'[i]
             /\ \E n \in DOMAIN trustMap' :
                  trustMap'[n].id = i /\ trustMap'[n].from = docs'[i].from /\ trustMap'[n].to = docs'[i].to
  <2>1. CASE i = d.id
    <3>1. docs'[i] = f
      BY <2>1, <1>1
    <3>2. Len(trustMap) + 1 \in DOMAIN trustMap'
      BY <1>7
    <3>. QED BY <2>1, <3>1, <3>2, <1>3, <1>4, <1>6
  <2>2. CASE i # d.id
    <3>1. i \in DOMAIN docs /\ docs'[i] = docs[i]
      BY <2>2, <1>1
    <3>2. /\ {"from", "to"} \subseteq DOMAIN docs[i]
          /\ \E n \in DOMAIN trustMap :
               trustMap[n].id = i /\ trustMap[n].from = docs[i].from /\ trustMap[n].to = docs[i].to
      BY <3>1 DEF TrustInv
    <3>3. DOMAIN trustMap \subseteq DOMAIN trustMap' /\ \A n \in DOMAIN trustMap : trustMap'[n] = trustMap[n]
      BY <1>6, <1>7
    <3>. QED BY <3>1, <3>2, <3>3
  <2>. QED BY <2>1, <2>2
<1>. QED BY <1>6, <1>8 DEF TrustInv

LEMMA TrustStep == TrustInv /\ TrustNext => TrustInv'
<1>. SUFFICES ASSUME TrustInv, TrustNext PROVE TrustInv'
  OBVIOUS
<1>1. CASE Passing
  BY <1>1 DEF Passing, trustPart, TrustInv
<1>2. CASE Cleanup
  <2>1. docs' = [i \in {j \in DOMAIN docs : docs[j].ends >= now} |-> docs[i]] /\ UNCHANGED trustMap
    BY <1>2 DEF Cleanup
  <2>2. \A i \in DOMAIN docs' : i \in DOMAIN docs /\ docs'[i] = docs[i]
    BY <2>1
  <2>. QED BY <2>1, <2>2 DEF TrustInv
<1>3. ASSUME NEW j \in DocIDs, RevokeDocument(j) PROVE TrustInv'
  <2>. DEFINE f == [docs[j] EXCEPT !.revoked = TRUE]
  <2>1. j \in DOMAIN docs /\ docs' = [docs EXCEPT ![j] = f] /\ UNCHANGED trustMap
    BY <1>3 DEF RevokeDocument
  <2>2. {"from", "to"} \subseteq DOMAIN docs[j]
    BY <2>1 DEF TrustInv
  <2>3. {"from", "to"} \subseteq DOMAIN f /\ f.from = docs[j].from /\ f.to = docs[j].to
    <3>. DEFINE r == docs[j]
    <3>. HIDE DEF r
    <3>. QED BY <2>2 DEF r
  <2>. HIDE DEF f
  <2>4. DOMAIN docs' = DOMAIN docs /\ docs'[j] = f /\ \A i \in DOMAIN docs : i # j => docs'[i] = docs[i]
    BY <2>1
  <2>. QED BY <2>1, <2>3, <2>4 DEF TrustInv
<1>. QED BY <1>1, <1>2, <1>3, RegisterKeeps DEF TrustNext

LEMMA TrustHolds == TrustInv => TrustIsDocumented
<1>. SUFFICES ASSUME TrustInv, DocIDsAreTheirs, NEW from \in Orgs, NEW to \in Orgs, NEW d \in TrustDocs,
                     NEW tool \in d.tools, ChainIsValid(<<from, to>>, tool), from # to
              PROVE  \E i \in DOMAIN docs : /\ docs[i].from = from /\ docs[i].to = to
                                            /\ tool \in docs[i].tools /\ ValidDoc(docs[i])
  BY DEF TrustIsDocumented
<1>1. from # "" /\ to # ""
  BY PrincipalsAssumption DEF PrincipalsAssumption
<1>2. Len(<<from, to>>) = 2 /\ <<from, to>>[1] = from /\ <<from, to>>[2] = to
  OBVIOUS
<1>3. TrustedBy(from, to, tool)
  <2>. DEFINE chain == <<from, to>>
  <2>1. 2 \in 2 .. Len(chain) /\ 2 - 1 = 1
    BY <1>2
  <2>2. chain[2 - 1] = chain[2] \/ chain[2 - 1] = "" \/ chain[2] = "" \/ TrustedBy(chain[2 - 1], chain[2], tool)
    BY <2>1 DEF ChainIsValid
  <2>3. chain[2 - 1] = from /\ chain[2] = to
    BY <1>2, <2>1
  <2>. QED BY <2>2, <2>3, <1>1
<1>4. PICK n \in DOMAIN trustMap :
        /\ trustMap[n].from = from /\ trustMap[n].to = to /\ trustMap[n].id \in DOMAIN docs
        /\ ValidDoc(docs[trustMap[n].id]) /\ tool \in docs[trustMap[n].id].tools
  BY <1>3 DEF TrustedBy, Usable
<1>5. PICK m \in DOMAIN trustMap :
        /\ trustMap[m].id = trustMap[n].id /\ trustMap[m].from = docs[trustMap[n].id].from
        /\ trustMap[m].to = docs[trustMap[n].id].to
  BY <1>4 DEF TrustInv
<1>6. trustMap[m].from = trustMap[n].from /\ trustMap[m].to = trustMap[n].to
  BY <1>5 DEF DocIDsAreTheirs
<1>. QED BY <1>4, <1>5, <1>6

-------------------------------------------------------------------------------
(* The cache of verified tokens *)

Entries == [token : Tokens, at : Int, expires : Int]
Asking == [at : {"asking"}, token : Tokens]
Identifications == [token : Tokens, of : Tokens, verified : Int, at : Int, expires : Int]
TokenInv ==
    /\ \A k \in DOMAIN cache : cache[k] \in Entries /\ KeyOf[cache[k].token] = k
    /\ verifier \in [Callers -> {[at |-> "idle"]} \cup Asking]
    /\ identified \in Seq(Identifications)
    /\ IdentitiesAreFresh

(* An identity of an entry under the token's key, that is not too old yet. *)
LEMMA HandOutKeeps ==
  ASSUME TokenInv, now \in Nat, NEW t \in Tokens, NEW entry \in Entries, HandOut(t, entry),
         KeyOf[entry.token] = KeyOf[t], now - entry.at < CacheTTL
  PROVE  identified' \in Seq(Identifications) /\ IdentitiesAreFresh'
<1>. DEFINE r == [token |-> t, of |-> entry.token, verified |-> entry.at, at |-> now, expires |-> entry.expires]
<1>1. identified \in Seq(Identifications) /\ IdentitiesAreFresh
  BY DEF TokenInv
<1>2. entry.token \in Tokens /\ entry.at \in Int /\ entry.expires \in Int
  BY DEF Entries
<1>3. r \in Identifications /\ r.token = t /\ r.of = entry.token /\ r.verified = entry.at /\ r.at = now
  BY <1>2 DEF Identifications
<1>4. identified' = Append(identified, r)
  BY DEF HandOut
<1>. HIDE DEF r
<1>5. /\ identified' \in Seq(Identifications) /\ Len(identified') = Len(identified) + 1
      /\ \A n \in 1 .. Len(identified) : identified'[n] = identified[n]
      /\ identified'[Len(identified) + 1] = r
  BY <1>1, <1>3, <1>4, AppendProperties
<1>6. DOMAIN identified = 1 .. Len(identified) /\ DOMAIN identified' = 1 .. (Len(identified) + 1) /\ Len(identified) \in Nat
  BY <1>1, <1>5
<1>7. ASSUME NEW n \in DOMAIN identified'
      PROVE  /\ identified'[n].at - identified'[n].verified < CacheTTL
             /\ (\A u, v \in Tokens : KeyOf[u] = KeyOf[v] => u = v) => identified'[n].of = identified'[n].token
  <2>1. CASE n \in DOMAIN identified
    BY <2>1, <1>1, <1>5, <1>6 DEF IdentitiesAreFresh
  <2>2. CASE n = Len(identified) + 1
    BY <2>2, <1>2, <1>3, <1>5
  <2>. QED BY <2>1, <2>2, <1>6
<1>. QED BY <1>5, <1>7 DEF IdentitiesAreFresh

LEMMA LookUpKeeps == ASSUME TokenInv, now \in Nat, NEW c \in Callers, NEW t \in Tokens, LookUp(c, t) PROVE TokenInv'
<1>1. UNCHANGED <<now, cache>>
  BY DEF LookUp
<1>2. CASE Fresh(KeyOf[t])
  <2>1. HandOut(t, cache[KeyOf[t]]) /\ UNCHANGED verifier
    BY <1>2 DEF LookUp
  <2>2. cache[KeyOf[t]] \in Entries /\ KeyOf[cache[KeyOf[t]].token] = KeyOf[t] /\ now - cache[KeyOf[t]].at < CacheTTL
    BY <1>2 DEF Fresh, TokenInv
  <2>3. identified' \in Seq(Identifications) /\ IdentitiesAreFresh'
    BY <2>1, <2>2, HandOutKeeps
  <2>. QED BY <2>1, <2>3, <1>1 DEF TokenInv
<1>3. CASE ~Fresh(KeyOf[t])
  <2>. DEFINE r == [at |-> "asking", token |-> t]
  <2>1. verifier' = [verifier EXCEPT ![c] = r] /\ UNCHANGED identified
    BY <1>3 DEF LookUp
  <2>2. r \in Asking
    BY DEF Asking
  <2>. HIDE DEF r
  <2>3. verifier' \in [Callers -> {[at |-> "idle"]} \cup Asking]
    BY <2>1, <2>2 DEF TokenInv
  <2>. QED BY <2>1, <2>3, <1>1 DEF TokenInv, IdentitiesAreFresh
<1>. QED BY <1>2, <1>3

LEMMA VerifyKeeps == ASSUME TokenInv, now \in Nat, NEW c \in Callers, Verify(c) PROVE TokenInv'
<1>. DEFINE t == verifier[c].token  idle == [at |-> "idle"]
<1>1. verifier[c].at = "asking" /\ verifier' = [verifier EXCEPT ![c] = idle] /\ UNCHANGED now
  BY DEF Verify
<1>2. verifier[c] \in Asking
  <2>1. verifier[c] \in {idle} \cup Asking
    BY DEF TokenInv
  <2>. QED BY <2>1, <1>1
<1>3. t \in Tokens
  BY <1>2 DEF Asking
<1>4. verifier' \in [Callers -> {[at |-> "idle"]} \cup Asking]
  BY <1>1 DEF TokenInv
<1>5. CASE UNCHANGED <<cache, identified>>
  BY <1>4, <1>5 DEF TokenInv, IdentitiesAreFresh
<1>6. ASSUME NEW life \in 1 .. CacheTTL,
             LET entry == [token |-> t, at |-> now, expires |-> now + life] IN
             /\ cache' = [k \in DOMAIN cache \cup {KeyOf[entry.token]} |->
                            IF k = KeyOf[entry.token] THEN entry ELSE cache[k]]
             /\ HandOut(entry.token, entry)
      PROVE  TokenInv'
  <2>. DEFINE entry == [token |-> t, at |-> now, expires |-> now + life]
  <2>1. entry.token = t /\ entry.at = now
    OBVIOUS
  <2>2. life \in Int /\ now \in Int /\ CacheTTL \in Nat /\ 0 < CacheTTL
    <3>1. CacheTTL \in Nat
      BY PrincipalsAssumption DEF PrincipalsAssumption
    <3>. QED BY <3>1
  <2>3. entry \in Entries
    BY <1>3, <2>2 DEF Entries
  <2>4. /\ cache' = [k \in DOMAIN cache \cup {KeyOf[t]} |-> IF k = KeyOf[t] THEN entry ELSE cache[k]]
        /\ HandOut(t, entry)
    BY <1>6
  <2>. HIDE DEF entry, t
  <2>5. now - entry.at < CacheTTL
    BY <2>1, <2>2
  <2>6. identified' \in Seq(Identifications) /\ IdentitiesAreFresh'
    BY <1>3, <2>1, <2>3, <2>4, <2>5, HandOutKeeps
  <2>7. \A k \in DOMAIN cache' : cache'[k] \in Entries /\ KeyOf[cache'[k].token] = k
    BY <2>1, <2>3, <2>4 DEF TokenInv
  <2>. QED BY <1>4, <2>6, <2>7 DEF TokenInv
<1>. QED BY <1>5, <1>6 DEF Verify

LEMMA TokenStep == TokenInv /\ now \in Nat /\ TokenNext => TokenInv'
<1>. SUFFICES ASSUME TokenInv, now \in Nat, TokenNext PROVE TokenInv'
  OBVIOUS
<1>1. CASE Passing
  BY <1>1 DEF Passing, tokenPart, TokenInv, IdentitiesAreFresh
<1>2. CASE CleanupCache
  <2>1. /\ cache' = [k \in {j \in DOMAIN cache : now - cache[j].at <= CacheTTL} |-> cache[k]]
        /\ UNCHANGED <<verifier, identified>>
    BY <1>2 DEF CleanupCache
  <2>2. \A k \in DOMAIN cache' : k \in DOMAIN cache /\ cache'[k] = cache[k]
    BY <2>1
  <2>. QED BY <2>1, <2>2 DEF TokenInv, IdentitiesAreFresh
<1>. QED BY <1>1, <1>2, LookUpKeeps, VerifyKeeps DEF TokenNext

-------------------------------------------------------------------------------
(* The three of them, with the clock *)

PrincipalsInv == now \in Nat /\ ElevationInv /\ TrustInv /\ TokenInv

LEMMA PrincipalsBegin == PrincipalInit => PrincipalsInv
<1>. SUFFICES ASSUME PrincipalInit PROVE PrincipalsInv
  OBVIOUS
<1>1. /\ now = 0 /\ docs = <<>> /\ trustMap = <<>> /\ cache = <<>> /\ identified = <<>>
      /\ verifier = [c \in Callers |-> [at |-> "idle"]]
  BY DEF PrincipalInit
<1>2. TrustInv
  <2>1. docs = <<>> /\ trustMap = <<>>
    BY <1>1
  <2>2. DOMAIN docs = {} /\ trustMap \in Seq(Listed)
    BY <2>1
  <2>. QED BY <2>2 DEF TrustInv
<1>3. TokenInv
  <2>1. verifier \in [Callers -> {[at |-> "idle"]} \cup Asking]
    BY <1>1
  <2>2. cache = <<>> /\ identified = <<>>
    BY <1>1
  <2>3. DOMAIN cache = {} /\ DOMAIN identified = {} /\ identified \in Seq(Identifications)
    BY <2>2
  <2>. QED BY <2>1, <2>3 DEF TokenInv, IdentitiesAreFresh
<1>4. now \in Nat
  BY <1>1
<1>. QED BY <1>2, <1>3, <1>4, ElevationBegins DEF PrincipalsInv

LEMMA ElevationStays == ElevationInv /\ UNCHANGED <<now, elevationPart>> => ElevationInv'
<1>. SUFFICES ASSUME ElevationInv, UNCHANGED <<now, elevationPart>> PROVE ElevationInv'
  OBVIOUS
<1>1. UNCHANGED <<now, grants, given, revokedIds, caller>>
  BY DEF elevationPart
<1>2. ElevationTypes'
  BY <1>1 DEF ElevationInv, ElevationTypes
<1>. QED BY <1>1, <1>2 DEF ElevationInv, AtGates, AtGrant, AtEnd
LEMMA ElevationPasses == ElevationInv /\ now \in Nat /\ Passing => ElevationInv'
  BY ElevationStep DEF ElevationNext
LEMMA TrustStays == TrustInv /\ UNCHANGED trustPart => TrustInv'
  BY DEF trustPart, TrustInv
LEMMA TokensStay == TokenInv /\ UNCHANGED tokenPart => TokenInv'
  BY DEF tokenPart, TokenInv, IdentitiesAreFresh

(* Each part moves its own state, or the clock.                            *)
LEMMA PartsOfPrincipals ==
  /\ ElevationNext => UNCHANGED <<trustPart, tokenPart>>
  /\ TrustNext => UNCHANGED tokenPart /\ (Passing \/ UNCHANGED <<now, elevationPart>>)
  /\ TokenNext => UNCHANGED trustPart /\ (Passing \/ UNCHANGED <<now, elevationPart>>)
<1>1. ElevationNext => UNCHANGED <<trustPart, tokenPart>>
  BY DEF ElevationNext, Passing, Revoke, RequestElevation, BeginCall, PassGates, FinishGrant
<1>2. TrustNext => UNCHANGED tokenPart /\ (Passing \/ UNCHANGED <<now, elevationPart>>)
  BY DEF TrustNext, Passing, Cleanup, Register, RevokeDocument
<1>3. TokenNext => UNCHANGED trustPart /\ (Passing \/ UNCHANGED <<now, elevationPart>>)
  BY DEF TokenNext, Passing, CleanupCache, Verify, LookUp
<1>. QED BY <1>1, <1>2, <1>3

LEMMA ClockTicks ==
  ASSUME now \in Nat, ElevationNext \/ TrustNext \/ TokenNext
  PROVE  now' \in Nat
<1>1. ElevationNext => Passing \/ UNCHANGED now
  BY DEF ElevationNext, Passing, Revoke, RequestElevation, BeginCall, PassGates, FinishGrant
<1>2. Passing \/ UNCHANGED now
  BY <1>1, PartsOfPrincipals
<1>. QED BY <1>2 DEF Passing

LEMMA PrincipalsStep ==
  ASSUME PrincipalsInv, ElevationNext \/ TrustNext \/ TokenNext \/ UNCHANGED principalVars
  PROVE  PrincipalsInv'
<1>1. CASE UNCHANGED principalVars
  <2>1. UNCHANGED <<now, elevationPart>> /\ UNCHANGED trustPart /\ UNCHANGED tokenPart
    BY <1>1 DEF principalVars
  <2>. QED BY <2>1, ElevationStays, TrustStays, TokensStay DEF PrincipalsInv
<1>2. CASE ElevationNext
  <2>1. UNCHANGED trustPart /\ UNCHANGED tokenPart
    BY <1>2, PartsOfPrincipals
  <2>. QED BY <1>2, <2>1, ElevationStep, TrustStays, TokensStay, ClockTicks DEF PrincipalsInv
<1>3. CASE TrustNext
  <2>1. UNCHANGED tokenPart /\ (Passing \/ UNCHANGED <<now, elevationPart>>)
    BY <1>3, PartsOfPrincipals
  <2>2. ElevationInv'
    BY <2>1, ElevationPasses, ElevationStays DEF PrincipalsInv
  <2>. QED BY <1>3, <2>1, <2>2, TrustStep, TokensStay, ClockTicks DEF PrincipalsInv
<1>4. CASE TokenNext
  <2>1. UNCHANGED trustPart /\ (Passing \/ UNCHANGED <<now, elevationPart>>)
    BY <1>4, PartsOfPrincipals
  <2>2. ElevationInv'
    BY <2>1, ElevationPasses, ElevationStays DEF PrincipalsInv
  <2>. QED BY <1>4, <2>1, <2>2, TokenStep, TrustStays, ClockTicks DEF PrincipalsInv
<1>. QED BY <1>1, <1>2, <1>3, <1>4

LEMMA PrincipalsAreSafe == PrincipalsInv => PrincipalsHold
  BY ElevationHolds, TrustHolds DEF PrincipalsInv, TokenInv, PrincipalsHold

-------------------------------------------------------------------------------
(* The credential of a call *)

Kinds == BackendKinds \cup {"none"}
Credentials == [kind : Kinds, lease : Nat]
Borrowing == [at : {"auth", "fetch", "failed", "inject", "release", "record"}, required : BOOLEAN, kind : Kinds,
              got : Credentials, injected : Credentials, effect : {"PERMIT", "DENY"}]
LeaseStates == {"live", "unknown", "revoked"}
LeaseAnswers == [effect : {"PERMIT", "DENY"}, required : BOOLEAN, source : Kinds, recorded : BOOLEAN, lease : Nat]
LeaseTypes ==
    /\ borrower \in [Borrowers -> {Idle} \cup Borrowing]
    /\ lease \in Seq(LeaseStates)
    /\ leaseNow \in 0 .. MaxLeaseClock /\ token \in 0 .. MaxLeaseClock + TokenLife
    /\ leased \in Seq(LeaseAnswers)

(* What a call at work has, of the leases there are: only a dynamic store's *)
(* secret has a lease; a call that is injected or released has a           *)
(* credential, and so has one that requires one and is permitted.          *)
Entitled(r, issued) ==
    /\ r.got.lease <= issued
    /\ r.got.lease # 0 => r.got.kind = "dynamic"
    /\ r.injected.lease # 0 => r.injected.kind = "dynamic"
    /\ r.at \in {"auth", "fetch"} => r.kind # "none"
    /\ r.at \in {"auth", "fetch", "failed"} => r.got.lease = 0
    /\ r.at = "inject" => r.got.kind # "none"
    /\ r.at = "release" => r.injected.kind # "none"
    /\ r.at = "record" /\ r.effect = "PERMIT" /\ r.required => r.injected.kind # "none"

(* Who has not been through the release yet.                               *)
Keeps(r, n) == r.at \in {"inject", "release"} /\ r.got.lease = n

LeaseInv ==
    /\ LeaseTypes
    /\ \A b \in Borrowers : borrower[b] # Idle => Entitled(borrower[b], Len(lease))
    /\ \A n \in DOMAIN lease : lease[n] = "live" => \E b \in Borrowers : Keeps(borrower[b], n)
    /\ \A b, c \in Borrowers : borrower[b] # Idle /\ borrower[c] # Idle /\ borrower[b].got.lease # 0
                               /\ borrower[b].got.lease = borrower[c].got.lease => b = c
    /\ RequiredIsGiven

LEMMA IdleIsIdle == /\ Idle.at = "idle"
                    /\ \A r \in Borrowing : r # Idle /\ r.at # "idle"
                    /\ \A n : ~Keeps(Idle, n)
  BY DEF Idle, Borrowing, Keeps

LEMMA BorrowerFields ==
  ASSUME LeaseTypes, NEW b \in Borrowers, borrower[b].at # "idle"
  PROVE  /\ borrower[b] \in Borrowing /\ borrower[b] # Idle
         /\ borrower[b].required \in BOOLEAN /\ borrower[b].kind \in Kinds
         /\ borrower[b].got \in Credentials /\ borrower[b].got.kind \in Kinds /\ borrower[b].got.lease \in Nat
         /\ borrower[b].injected \in Credentials /\ borrower[b].injected.kind \in Kinds
         /\ borrower[b].injected.lease \in Nat /\ borrower[b].effect \in {"PERMIT", "DENY"}
<1>1. borrower[b] \in {Idle} \cup Borrowing
  BY DEF LeaseTypes
<1>2. borrower[b] \in Borrowing /\ borrower[b] # Idle
  BY <1>1, IdleIsIdle
<1>3. /\ borrower[b].required \in BOOLEAN /\ borrower[b].kind \in Kinds
      /\ borrower[b].got \in Credentials /\ borrower[b].injected \in Credentials
      /\ borrower[b].effect \in {"PERMIT", "DENY"}
  BY <1>2 DEF Borrowing
<1>. QED BY <1>2, <1>3 DEF Credentials

(* What the step of one call has to show for the leases to stay in hand.   *)
LEMMA BorrowerMoves ==
  ASSUME LeaseInv, NEW b \in Borrowers, NEW r \in {Idle} \cup Borrowing, borrower' = [borrower EXCEPT ![b] = r],
         lease' \in Seq(LeaseStates), Len(lease) <= Len(lease'),
         r # Idle => Entitled(r, Len(lease')),
         r # Idle /\ r.got.lease # 0 =>
            \/ borrower[b] # Idle /\ r.got.lease = borrower[b].got.lease
            \/ r.got.lease > Len(lease),
         \A n \in DOMAIN lease' : lease'[n] = "live" =>
            \/ Keeps(r, n)
            \/ n \in DOMAIN lease /\ lease[n] = "live" /\ ~Keeps(borrower[b], n),
         leaseNow' \in 0 .. MaxLeaseClock, token' \in 0 .. MaxLeaseClock + TokenLife,
         leased' \in Seq(LeaseAnswers), RequiredIsGiven'
  PROVE  LeaseInv'
<1>1. LeaseTypes
  BY DEF LeaseInv
<1>2. borrower'[b] = r /\ \A c \in Borrowers : c # b => borrower'[c] = borrower[c]
  BY <1>1 DEF LeaseTypes
<1>3. borrower' \in [Borrowers -> {Idle} \cup Borrowing]
  BY <1>1 DEF LeaseTypes
<1>4. LeaseTypes'
  BY <1>3 DEF LeaseTypes
<1>5. lease \in Seq(LeaseStates) /\ Len(lease) \in Nat /\ Len(lease') \in Nat
  BY <1>1 DEF LeaseTypes
<1>6. ASSUME NEW c \in Borrowers, c # b, borrower[c] # Idle
      PROVE  borrower[c].got.lease \in Nat /\ borrower[c].got.lease <= Len(lease) /\ Entitled(borrower[c], Len(lease'))
  <2>1. borrower[c] \in Borrowing
    BY <1>1, <1>6 DEF LeaseTypes
  <2>2. borrower[c].got.lease \in Nat
    BY <2>1 DEF Borrowing, Credentials
  <2>3. Entitled(borrower[c], Len(lease))
    BY <1>6 DEF LeaseInv
  <2>. QED BY <2>2, <2>3, <1>5 DEF Entitled
<1>7. ASSUME NEW c \in Borrowers, borrower'[c] # Idle PROVE Entitled(borrower'[c], Len(lease'))
  BY <1>2, <1>6, <1>7
<1>8. ASSUME NEW n \in DOMAIN lease', lease'[n] = "live" PROVE \E c \in Borrowers : Keeps(borrower'[c], n)
  <2>1. CASE Keeps(r, n)
    BY <2>1, <1>2
  <2>2. CASE n \in DOMAIN lease /\ lease[n] = "live" /\ ~Keeps(borrower[b], n)
    <3>1. PICK c \in Borrowers : Keeps(borrower[c], n)
      BY <2>2 DEF LeaseInv
    <3>. QED BY <3>1, <2>2, <1>2
  <2>. QED BY <2>1, <2>2, <1>8
<1>9. ASSUME NEW c \in Borrowers, c # b, borrower[c] # Idle, r # Idle, r.got.lease # 0,
             r.got.lease = borrower[c].got.lease
      PROVE  FALSE
  <2>1. borrower[c].got.lease \in Nat /\ borrower[c].got.lease <= Len(lease)
    BY <1>6, <1>9
  <2>2. ~(r.got.lease > Len(lease))
    BY <2>1, <1>5, <1>9
  <2>3. borrower[b] # Idle /\ r.got.lease = borrower[b].got.lease
    BY <2>2, <1>9
  <2>. QED BY <2>3, <1>9 DEF LeaseInv
<1>10. ASSUME NEW c \in Borrowers, NEW d \in Borrowers, borrower'[c] # Idle, borrower'[d] # Idle,
              borrower'[c].got.lease # 0, borrower'[c].got.lease = borrower'[d].got.lease
       PROVE  c = d
  <2>1. CASE c # b /\ d # b
    BY <2>1, <1>2, <1>10 DEF LeaseInv
  <2>2. CASE c = b /\ d # b
    BY <2>2, <1>2, <1>9, <1>10
  <2>3. CASE c # b /\ d = b
    BY <2>3, <1>2, <1>9, <1>10
  <2>. QED BY <2>1, <2>2, <2>3
<1>. QED BY <1>4, <1>7, <1>8, <1>10 DEF LeaseInv

(* A call that goes on to its next state, and keeps the rest.              *)
Going(b, at) == [borrower[b] EXCEPT !.at = at]
LEMMA GoingFields ==
  ASSUME LeaseTypes, NEW b \in Borrowers, borrower[b].at # "idle",
         NEW at \in {"auth", "fetch", "failed", "inject", "release", "record"}
  PROVE  /\ Going(b, at) \in Borrowing /\ Going(b, at) # Idle /\ Going(b, at).at = at
         /\ Going(b, at).got = borrower[b].got /\ Going(b, at).injected = borrower[b].injected
         /\ Going(b, at).kind = borrower[b].kind /\ Going(b, at).effect = borrower[b].effect
         /\ Going(b, at).required = borrower[b].required
         /\ GoTo(b, at) => borrower' = [borrower EXCEPT ![b] = Going(b, at)]
<1>. DEFINE w == borrower[b]
<1>1. w \in Borrowing
  BY BorrowerFields
<1>2. /\ [w EXCEPT !.at = at] \in Borrowing /\ [w EXCEPT !.at = at].at = at
      /\ [w EXCEPT !.at = at].got = w.got /\ [w EXCEPT !.at = at].injected = w.injected
      /\ [w EXCEPT !.at = at].kind = w.kind /\ [w EXCEPT !.at = at].effect = w.effect
      /\ [w EXCEPT !.at = at].required = w.required
  <2>. HIDE DEF w
  <2>. QED BY <1>1 DEF Borrowing
<1>3. GoTo(b, at) => borrower' = [borrower EXCEPT ![b] = Going(b, at)]
  BY DEF GoTo, Going
<1>4. Going(b, at) # Idle
  BY <1>2, IdleIsIdle DEF Going
<1>. QED BY <1>2, <1>3, <1>4 DEF Going

(* The calls answered, when none is added.                                 *)
LEMMA AnsweredStay ==
  ASSUME LeaseInv, UNCHANGED leased
  PROVE  leased' \in Seq(LeaseAnswers) /\ RequiredIsGiven'
  BY DEF LeaseInv, LeaseTypes, RequiredIsGiven

LEMMA PermitKeeps ==
  ASSUME LeaseInv, NEW b \in Borrowers, PermitCredential(b)
  PROVE  LeaseInv'
<1>1. borrower[b] = Idle /\ UNCHANGED <<lease, token, leaseNow, leased>>
  BY DEF PermitCredential
<1>. DEFINE At(plan, k) == IF ~plan.use THEN "record"
                           ELSE CASE k = "none" -> "failed" [] k = "azure" -> "auth" [] OTHER -> "fetch"
            Call(plan, k) == [at |-> At(plan, k), required |-> plan.required, kind |-> k, got |-> NoCredential,
                              injected |-> NoCredential, effect |-> "PERMIT"]
<1>2. PICK t \in DOMAIN LeaseTools, f \in CallFlags :
         \E k \in Routed[t] : borrower' = [borrower EXCEPT ![b] = Call(Plan(LeaseTools[t], f), k)]
  BY DEF PermitCredential
<1>20. PICK k \in Routed[t] : borrower' = [borrower EXCEPT ![b] = Call(Plan(LeaseTools[t], f), k)]
  BY <1>2
<1>. DEFINE plan == Plan(LeaseTools[t], f)  at == At(plan, k)  r == Call(plan, k)
<1>3. k \in Kinds
  BY LeaseAssumption DEF LeaseAssumption, Kinds
<1>4. NoCredential \in Credentials /\ NoCredential.kind = "none" /\ NoCredential.lease = 0
  BY DEF NoCredential, Credentials, Kinds
<1>5. plan.required \in BOOLEAN /\ plan.use \in BOOLEAN /\ (plan.required => plan.use)
  <2>. DEFINE R == "required" \in LeaseTools[t] \cup f
              U == LeaseTools[t] # {} \/ f \cap {"broker", "required"} # {}
  <2>1. plan = [use |-> U, required |-> R]
    BY DEF Plan
  <2>2. R \in BOOLEAN /\ U \in BOOLEAN /\ (R => U)
    OBVIOUS
  <2>. HIDE DEF plan, R, U
  <2>3. plan.required = R /\ plan.use = U
    BY <2>1
  <2>. QED BY <2>2, <2>3
<1>. HIDE DEF plan
<1>6. at \in {"record", "failed", "auth", "fetch"} /\ (at \in {"auth", "fetch"} => k # "none")
  OBVIOUS
<1>7. at = "record" => ~plan.required
  BY <1>5
<1>. HIDE DEF at, At
<1>8. r = [at |-> at, required |-> plan.required, kind |-> k, got |-> NoCredential,
           injected |-> NoCredential, effect |-> "PERMIT"]
  BY DEF at
<1>9. borrower' = [borrower EXCEPT ![b] = r]
  BY <1>20 DEF plan
<1>. HIDE DEF r, Call
<1>10. r \in Borrowing
  BY <1>3, <1>4, <1>5, <1>6, <1>8 DEF Borrowing
<1>11. /\ r.at = at /\ r.kind = k /\ r.got = NoCredential /\ r.injected = NoCredential
       /\ (r.required => plan.required)
  BY <1>8
<1>12. LeaseTypes /\ lease \in Seq(LeaseStates) /\ Len(lease) \in Nat
  BY DEF LeaseInv, LeaseTypes
<1>13. r.got.lease = 0 /\ r.injected.lease = 0 /\ r.got.lease <= Len(lease)
  BY <1>4, <1>11, <1>12
<1>14. Entitled(r, Len(lease))
  BY <1>6, <1>7, <1>11, <1>13 DEF Entitled
<1>15. \A n \in DOMAIN lease : lease[n] = "live" => ~Keeps(borrower[b], n)
  BY <1>1, IdleIsIdle
<1>16. leaseNow' \in 0 .. MaxLeaseClock /\ token' \in 0 .. MaxLeaseClock + TokenLife
  BY <1>1, <1>12 DEF LeaseTypes
<1>17. lease' \in Seq(LeaseStates) /\ Len(lease) <= Len(lease') /\ lease' = lease
  BY <1>1, <1>12
<1>. QED BY <1>1, <1>9, <1>10, <1>13, <1>14, <1>15, <1>16, <1>17, AnsweredStay, BorrowerMoves

(* A call that has no credential yet goes on without one; the store may    *)
(* have made a lease nobody has heard of.                                  *)
LEMMA GoingWithout ==
  ASSUME LeaseInv, NEW b \in Borrowers, borrower[b].at \in {"auth", "fetch", "failed"},
         NEW r \in Borrowing, borrower' = [borrower EXCEPT ![b] = r], r.got = borrower[b].got,
         Entitled(r, Len(lease')),
         lease' = lease \/ lease' = Append(lease, "unknown"),
         leaseNow' = leaseNow, token' \in 0 .. MaxLeaseClock + TokenLife, UNCHANGED leased
  PROVE  LeaseInv'
<1>1. LeaseTypes /\ lease \in Seq(LeaseStates) /\ Len(lease) \in Nat /\ leaseNow' \in 0 .. MaxLeaseClock
  BY DEF LeaseInv, LeaseTypes
<1>2. Entitled(borrower[b], Len(lease)) /\ borrower[b].got.lease = 0
  BY <1>1, BorrowerFields DEF LeaseInv, Entitled
<1>3. /\ lease' \in Seq(LeaseStates) /\ Len(lease) <= Len(lease')
      /\ \A n \in DOMAIN lease' : lease'[n] = "live" => n \in DOMAIN lease /\ lease[n] = "live"
  <2>1. CASE lease' = lease
    BY <2>1, <1>1
  <2>2. CASE lease' = Append(lease, "unknown")
    <3>1. /\ lease' \in Seq(LeaseStates) /\ Len(lease') = Len(lease) + 1
          /\ \A n \in 1 .. Len(lease) : lease'[n] = lease[n]
          /\ lease'[Len(lease) + 1] = "unknown"
      BY <1>1, <2>2, AppendProperties DEF LeaseStates
    <3>2. DOMAIN lease = 1 .. Len(lease) /\ DOMAIN lease' = 1 .. (Len(lease) + 1)
      BY <1>1, <3>1
    <3>. QED BY <1>1, <3>1, <3>2
  <2>. QED BY <2>1, <2>2
<1>4. \A n : ~Keeps(borrower[b], n)
  BY DEF Keeps
<1>5. r.got.lease = 0
  BY <1>2
<1>. QED BY <1>1, <1>3, <1>4, <1>5, AnsweredStay, BorrowerMoves

LEMMA EnsureTokenKeeps ==
  ASSUME LeaseInv, NEW b \in Borrowers, EnsureToken(b)
  PROVE  LeaseInv'
<1>1. borrower[b].at = "auth" /\ UNCHANGED <<lease, leaseNow, leased>>
  BY DEF EnsureToken
<1>2. LeaseTypes /\ Entitled(borrower[b], Len(lease))
  BY <1>1, BorrowerFields DEF LeaseInv
<1>3. token' \in 0 .. MaxLeaseClock + TokenLife
  <2>1. leaseNow \in 0 .. MaxLeaseClock /\ token \in 0 .. MaxLeaseClock + TokenLife
    BY <1>2 DEF LeaseTypes
  <2>2. MaxLeaseClock \in Nat /\ TokenLife \in Nat
    BY LeaseAssumption DEF LeaseAssumption
  <2>3. token' = token \/ token' = leaseNow + TokenLife
    BY DEF EnsureToken
  <2>. QED BY <2>1, <2>2, <2>3
<1>4. GoTo(b, "fetch") \/ GoTo(b, "failed")
  BY DEF EnsureToken
<1>5. ASSUME NEW at \in {"fetch", "failed"}, GoTo(b, at) PROVE LeaseInv'
  <2>. DEFINE r == Going(b, at)
  <2>1. /\ r \in Borrowing /\ r.at = at /\ r.got = borrower[b].got /\ r.injected = borrower[b].injected
        /\ r.kind = borrower[b].kind /\ borrower' = [borrower EXCEPT ![b] = r]
    BY <1>1, <1>2, <1>5, GoingFields
  <2>. HIDE DEF r
  <2>2. Entitled(r, Len(lease))
    BY <1>1, <1>2, <2>1 DEF Entitled
  <2>. QED BY <1>1, <1>3, <2>1, <2>2, GoingWithout
<1>. QED BY <1>4, <1>5

LEMMA FetchKeeps ==
  ASSUME LeaseInv, NEW b \in Borrowers, Fetch(b)
  PROVE  LeaseInv'
<1>. DEFINE k == borrower[b].kind
            got == [kind |-> k, lease |-> IF k = "dynamic" THEN Issue ELSE 0]
            issued == IF k = "dynamic" THEN Append(lease, "live") ELSE lease
<1>1. borrower[b].at = "fetch" /\ UNCHANGED <<token, leaseNow, leased>>
  BY DEF Fetch
<1>2. LeaseTypes /\ Entitled(borrower[b], Len(lease)) /\ lease \in Seq(LeaseStates) /\ Len(lease) \in Nat
  BY <1>1, BorrowerFields DEF LeaseInv, LeaseTypes
<1>3. token' \in 0 .. MaxLeaseClock + TokenLife /\ leaseNow' \in 0 .. MaxLeaseClock
  BY <1>1, <1>2 DEF LeaseTypes
<1>4. CASE GoTo(b, "failed") /\ (lease' = lease \/ lease' = Append(lease, "unknown"))
  <2>. DEFINE r == Going(b, "failed")
  <2>1. /\ r \in Borrowing /\ r.at = "failed" /\ r.got = borrower[b].got /\ r.injected = borrower[b].injected
        /\ borrower' = [borrower EXCEPT ![b] = r]
    BY <1>1, <1>2, <1>4, GoingFields
  <2>. HIDE DEF r
  <2>2. Len(lease) <= Len(lease') /\ Len(lease') \in Nat
    <3>1. CASE lease' = lease
      BY <3>1, <1>2
    <3>2. CASE lease' = Append(lease, "unknown")
      <4>1. Len(lease') = Len(lease) + 1
        BY <3>2, <1>2, AppendProperties DEF LeaseStates
      <4>. QED BY <4>1, <1>2
    <3>. QED BY <3>1, <3>2, <1>4
  <2>3. borrower[b].got.lease = 0
    BY <1>1, <1>2 DEF Entitled
  <2>4. Entitled(r, Len(lease'))
    BY <1>1, <1>2, <2>1, <2>2, <2>3 DEF Entitled
  <2>. QED BY <1>1, <1>3, <1>4, <2>1, <2>4, GoingWithout
<1>5. CASE borrower' = [borrower EXCEPT ![b] = [@ EXCEPT !.at = "inject", !.got = got]] /\ lease' = issued
  <2>. DEFINE w == borrower[b]  r == [[w EXCEPT !.at = "inject"] EXCEPT !.got = got]
  <2>1. w \in Borrowing /\ k \in Kinds /\ k # "none"
    BY <1>1, <1>2, BorrowerFields DEF Entitled
  <2>2. Issue = Len(lease) + 1
    <3>1. lease = <<>> => Len(lease) = 0
      OBVIOUS
    <3>. QED BY <3>1, <1>2 DEF Issue
  <2>3. /\ got \in Credentials /\ got.kind = k /\ (k # "dynamic" => got.lease = 0)
        /\ (k = "dynamic" => got.lease = Len(lease) + 1)
    BY <1>2, <2>1, <2>2 DEF Credentials
  <2>4. borrower' = [borrower EXCEPT ![b] = r]
    BY <1>5
  <2>. HIDE DEF got, w
  <2>5. /\ r \in Borrowing /\ r.at = "inject" /\ r.got = got /\ r.injected = w.injected
    BY <2>1, <2>3 DEF Borrowing
  <2>. HIDE DEF r
  <2>6. w.injected = borrower[b].injected /\ (borrower[b].injected.lease # 0 => borrower[b].injected.kind = "dynamic")
    BY <1>2 DEF Entitled, w
  <2>7. ~Keeps(borrower[b], 0) /\ \A n : ~Keeps(borrower[b], n)
    BY <1>1 DEF Keeps
  <2>8. CASE k = "dynamic"
    <3>1. lease' = Append(lease, "live") /\ got.lease = Len(lease) + 1 /\ got.kind = "dynamic"
      BY <1>5, <2>3, <2>8
    <3>2. /\ lease' \in Seq(LeaseStates) /\ Len(lease') = Len(lease) + 1
          /\ \A n \in 1 .. Len(lease) : lease'[n] = lease[n]
      BY <1>2, <3>1, AppendProperties DEF LeaseStates
    <3>3. DOMAIN lease = 1 .. Len(lease) /\ DOMAIN lease' = 1 .. (Len(lease) + 1)
      BY <1>2, <3>2
    <3>4. Entitled(r, Len(lease'))
      BY <1>2, <2>5, <2>6, <3>1, <3>2 DEF Entitled
    <3>5. ASSUME NEW n \in DOMAIN lease', lease'[n] = "live"
          PROVE  Keeps(r, n) \/ (n \in DOMAIN lease /\ lease[n] = "live")
      <4>1. CASE n = Len(lease) + 1
        BY <4>1, <2>5, <3>1 DEF Keeps
      <4>2. CASE n # Len(lease) + 1
        BY <4>2, <1>2, <3>2, <3>3, <3>5
      <4>. QED BY <4>1, <4>2
    <3>6. r.got.lease > Len(lease) /\ Len(lease) <= Len(lease')
      BY <1>2, <2>5, <3>1, <3>2
    <3>. QED BY <1>1, <1>3, <2>4, <2>5, <2>7, <3>2, <3>4, <3>5, <3>6, AnsweredStay, BorrowerMoves
  <2>9. CASE k # "dynamic"
    <3>1. lease' = lease /\ r.got.lease = 0
      BY <1>5, <2>3, <2>5, <2>9
    <3>2. Entitled(r, Len(lease'))
      BY <1>2, <2>1, <2>3, <2>5, <2>6, <3>1 DEF Entitled
    <3>3. lease' \in Seq(LeaseStates) /\ Len(lease) <= Len(lease')
      BY <1>2, <3>1
    <3>. QED BY <1>1, <1>3, <2>4, <2>5, <2>7, <3>1, <3>2, <3>3, AnsweredStay, BorrowerMoves
  <2>. QED BY <2>8, <2>9
<1>. QED BY <1>4, <1>5 DEF Fetch

LEMMA FetchFailedKeeps ==
  ASSUME LeaseInv, NEW b \in Borrowers, FetchFailed(b)
  PROVE  LeaseInv'
<1>. DEFINE w == borrower[b]
            e == IF w.effect = "PERMIT" /\ w.required THEN "DENY" ELSE w.effect
            r == [[w EXCEPT !.at = "record"] EXCEPT !.effect = e]
<1>1. w.at = "failed" /\ UNCHANGED <<lease, token, leaseNow, leased>>
  BY DEF FetchFailed
<1>3. LeaseTypes /\ w \in Borrowing /\ w # Idle /\ w.effect \in {"PERMIT", "DENY"} /\ w.required \in BOOLEAN
  BY <1>1, BorrowerFields DEF LeaseInv
<1>2. borrower' = [borrower EXCEPT ![b] = r]
  <2>. DEFINE q == [w EXCEPT !.at = "record",
                             !.effect = e]
  <2>1. borrower' = [borrower EXCEPT ![b] = q]
    BY DEF FetchFailed
  <2>2. q = r
    <3>. HIDE DEF w
    <3>. QED BY <1>3 DEF Borrowing
  <2>. HIDE DEF q, r
  <2>. QED BY <2>1, <2>2
<1>4. Entitled(w, Len(lease))
  BY <1>3 DEF LeaseInv
<1>5. e \in {"PERMIT", "DENY"} /\ (e = "PERMIT" => ~w.required)
  BY <1>3
<1>. HIDE DEF w, e
<1>6. /\ r \in Borrowing /\ r.at = "record" /\ r.got = w.got /\ r.injected = w.injected
      /\ r.effect = e /\ (r.required => w.required)
  BY <1>3, <1>5 DEF Borrowing
<1>. HIDE DEF r
<1>7. Entitled(r, Len(lease))
  BY <1>4, <1>5, <1>6, <1>1 DEF Entitled
<1>8. token' \in 0 .. MaxLeaseClock + TokenLife
  BY <1>1, <1>3 DEF LeaseTypes
<1>. QED BY <1>1, <1>2, <1>6, <1>7, <1>8, GoingWithout DEF w

(* A call that holds a lease it is not the borrower of a moment later.     *)
LEMMA InjectKeeps ==
  ASSUME LeaseInv, NEW b \in Borrowers, Inject(b)
  PROVE  LeaseInv'
<1>. DEFINE w == borrower[b]  r == [[w EXCEPT !.at = "release"] EXCEPT !.injected = w.got]
<1>1. w.at = "inject" /\ UNCHANGED <<lease, token, leaseNow, leased>>
  BY DEF Inject
<1>2. borrower' = [borrower EXCEPT ![b] = r]
  BY DEF Inject
<1>3. LeaseTypes /\ w \in Borrowing /\ w # Idle /\ w.got \in Credentials /\ w.got.lease \in Nat
  BY <1>1, BorrowerFields DEF LeaseInv
<1>4. Entitled(w, Len(lease)) /\ lease \in Seq(LeaseStates) /\ Len(lease) \in Nat
  BY <1>3 DEF LeaseInv, LeaseTypes
<1>. HIDE DEF w
<1>5. r \in Borrowing /\ r.at = "release" /\ r.got = w.got /\ r.injected = w.got
  BY <1>3 DEF Borrowing
<1>. HIDE DEF r
<1>6. Entitled(r, Len(lease))
  BY <1>1, <1>4, <1>5 DEF Entitled
<1>7. \A n : Keeps(w, n) => Keeps(r, n)
  BY <1>1, <1>5 DEF Keeps
<1>8. \A n \in DOMAIN lease' : lease'[n] = "live" => Keeps(r, n) \/ (n \in DOMAIN lease /\ lease[n] = "live" /\ ~Keeps(borrower[b], n))
  BY <1>1, <1>7 DEF w
<1>9. leaseNow' \in 0 .. MaxLeaseClock /\ token' \in 0 .. MaxLeaseClock + TokenLife
  BY <1>1, <1>3 DEF LeaseTypes
<1>10. lease' \in Seq(LeaseStates) /\ Len(lease) <= Len(lease') /\ lease' = lease
  BY <1>1, <1>4
<1>11. borrower[b] # Idle /\ r.got.lease = borrower[b].got.lease
  BY <1>3, <1>5 DEF w
<1>. QED BY <1>1, <1>2, <1>5, <1>6, <1>8, <1>9, <1>10, <1>11, AnsweredStay, BorrowerMoves

LEMMA ReleaseKeeps ==
  ASSUME LeaseInv, NEW b \in Borrowers, Release(b)
  PROVE  LeaseInv'
<1>. DEFINE w == borrower[b]  n == w.got.lease  r == Going(b, "record")
<1>1. w.at = "release" /\ GoTo(b, "record") /\ UNCHANGED <<token, leaseNow, leased>>
  BY DEF Release
<1>2. \/ n = 0 /\ lease' = lease
      \/ n # 0 /\ \E outcome \in {"revoked", "unknown"} : lease' = [lease EXCEPT ![n] = outcome]
  BY DEF Release
<1>3. LeaseTypes /\ w \in Borrowing /\ w # Idle /\ n \in Nat
  BY <1>1, BorrowerFields DEF LeaseInv
<1>4. Entitled(w, Len(lease)) /\ lease \in Seq(LeaseStates) /\ Len(lease) \in Nat
  BY <1>3 DEF LeaseInv, LeaseTypes
<1>5. /\ r \in Borrowing /\ r.at = "record" /\ r.got = w.got /\ r.injected = w.injected
      /\ borrower' = [borrower EXCEPT ![b] = r]
  BY <1>1, <1>3, GoingFields
<1>6. n <= Len(lease)
  BY <1>4 DEF Entitled
<1>7. /\ lease' \in Seq(LeaseStates) /\ Len(lease') = Len(lease)
      /\ \A i \in DOMAIN lease' : i \in DOMAIN lease /\ (i # n => lease'[i] = lease[i])
      /\ n \in DOMAIN lease => lease'[n] # "live"
  <2>. DEFINE Returned == /\ lease' \in Seq(LeaseStates) /\ Len(lease') = Len(lease)
                          /\ \A i \in DOMAIN lease' : i \in DOMAIN lease /\ (i # n => lease'[i] = lease[i])
                          /\ n \in DOMAIN lease => lease'[n] # "live"
  <2>1. CASE n = 0 /\ lease' = lease
    <3>1. 0 \notin DOMAIN lease
      BY <1>4
    <3>. HIDE DEF n, w
    <3>. QED BY <1>4, <2>1, <3>1
  <2>2. ASSUME n # 0, NEW outcome \in {"revoked", "unknown"}, lease' = [lease EXCEPT ![n] = outcome]
        PROVE  Returned
    <3>. HIDE DEF n, w
    <3>1. n \in 1 .. Len(lease) /\ outcome \in LeaseStates
      BY <1>3, <1>4, <1>6, <2>2 DEF LeaseStates
    <3>2. /\ lease' \in Seq(LeaseStates) /\ Len(lease') = Len(lease)
          /\ \A i \in 1 .. Len(lease) : lease'[i] = IF i = n THEN outcome ELSE lease[i]
      BY <1>4, <2>2, <3>1, ExceptSeq
    <3>. QED BY <1>4, <2>2, <3>1, <3>2
  <2>. QED BY <1>2, <2>1, <2>2
<1>. HIDE DEF r, n
<1>8. Entitled(r, Len(lease'))
  BY <1>1, <1>4, <1>5, <1>7 DEF Entitled
<1>9. ASSUME NEW i \in DOMAIN lease', lease'[i] = "live"
      PROVE  i \in DOMAIN lease /\ lease[i] = "live" /\ ~Keeps(borrower[b], i)
  <2>1. i \in DOMAIN lease /\ i # n
    BY <1>7, <1>9
  <2>2. lease[i] = "live"
    BY <1>7, <1>9, <2>1
  <2>. QED BY <2>1, <2>2 DEF Keeps, n
<1>10. leaseNow' \in 0 .. MaxLeaseClock /\ token' \in 0 .. MaxLeaseClock + TokenLife
  BY <1>1, <1>3 DEF LeaseTypes
<1>11. Len(lease) <= Len(lease') /\ borrower[b] # Idle /\ r.got.lease = borrower[b].got.lease
  BY <1>3, <1>4, <1>5, <1>7
<1>. QED BY <1>1, <1>5, <1>7, <1>8, <1>9, <1>10, <1>11, AnsweredStay, BorrowerMoves

LEMMA RecordLeaseKeeps ==
  ASSUME LeaseInv, NEW b \in Borrowers, RecordLease(b)
  PROVE  LeaseInv'
<1>. DEFINE w == borrower[b]
            AnswerAs(e) == [effect |-> e, required |-> w.required, source |-> w.injected.kind,
                         recorded |-> e = w.effect, lease |-> w.injected.lease]
<1>1. w.at = "record" /\ UNCHANGED <<lease, token, leaseNow>> /\ borrower' = [borrower EXCEPT ![b] = Idle]
  BY DEF RecordLease
<1>2. PICK e \in {w.effect, "DENY"} : leased' = Append(leased, AnswerAs(e))
  BY DEF RecordLease
<1>3. /\ LeaseTypes /\ w \in Borrowing /\ w # Idle /\ w.required \in BOOLEAN
      /\ w.injected.kind \in Kinds /\ w.injected.lease \in Nat /\ w.effect \in {"PERMIT", "DENY"}
  BY <1>1, BorrowerFields DEF LeaseInv
<1>4. Entitled(w, Len(lease)) /\ lease \in Seq(LeaseStates) /\ Len(lease) \in Nat /\ leased \in Seq(LeaseAnswers)
  BY <1>3 DEF LeaseInv, LeaseTypes
<1>. DEFINE x == AnswerAs(e)
<1>5. e \in {"PERMIT", "DENY"} /\ (e = "PERMIT" => w.effect = "PERMIT")
  BY <1>3
<1>. HIDE DEF w
<1>6. x \in LeaseAnswers
  BY <1>3, <1>5 DEF LeaseAnswers
<1>7. /\ x.effect = e /\ (x.required <=> w.required) /\ x.source = w.injected.kind
      /\ (x.recorded <=> e = w.effect) /\ x.lease = w.injected.lease
  OBVIOUS
<1>8. leased' = Append(leased, x)
  BY <1>2
<1>. HIDE DEF x, AnswerAs
<1>9. /\ leased' \in Seq(LeaseAnswers) /\ Len(leased') = Len(leased) + 1 /\ Len(leased) \in Nat
      /\ \A i \in 1 .. Len(leased) : leased'[i] = leased[i]
      /\ leased'[Len(leased) + 1] = x
  BY <1>4, <1>6, <1>8, AppendProperties
<1>10. /\ x.effect = "PERMIT" /\ x.required => x.source # "none"
       /\ x.effect = "PERMIT" => x.recorded
       /\ x.lease # 0 => x.source = "dynamic"
  BY <1>1, <1>4, <1>5, <1>7 DEF Entitled
<1>11. RequiredIsGiven'
  <2>1. RequiredIsGiven
    BY DEF LeaseInv
  <2>2. DOMAIN leased' = 1 .. (Len(leased) + 1) /\ DOMAIN leased = 1 .. Len(leased)
    BY <1>4, <1>9
  <2>. SUFFICES ASSUME NEW i \in DOMAIN leased'
                PROVE  /\ leased'[i].effect = "PERMIT" /\ leased'[i].required => leased'[i].source # "none"
                       /\ leased'[i].effect = "PERMIT" => leased'[i].recorded
                       /\ leased'[i].lease # 0 => leased'[i].source = "dynamic"
    BY DEF RequiredIsGiven
  <2>3. CASE i = Len(leased) + 1
    BY <2>3, <1>9, <1>10
  <2>4. CASE i # Len(leased) + 1
    <3>1. i \in 1 .. Len(leased)
      BY <2>2, <2>4, <1>9
    <3>. QED BY <3>1, <2>1, <2>2, <1>9 DEF RequiredIsGiven
  <2>. QED BY <2>3, <2>4
<1>12. \A n \in DOMAIN lease : ~Keeps(borrower[b], n)
  BY <1>1 DEF Keeps, w
<1>13. leaseNow' \in 0 .. MaxLeaseClock /\ token' \in 0 .. MaxLeaseClock + TokenLife
  BY <1>1, <1>3 DEF LeaseTypes
<1>14. lease' = lease /\ lease' \in Seq(LeaseStates) /\ Len(lease) <= Len(lease')
  BY <1>1, <1>4
<1>. QED BY <1>1, <1>9, <1>11, <1>12, <1>13, <1>14, BorrowerMoves

LEMMA LeasesBegin == LeasesInit => LeaseInv
<1>. SUFFICES ASSUME LeasesInit PROVE LeaseInv
  OBVIOUS
<1>1. borrower = [b \in Borrowers |-> Idle] /\ lease = <<>> /\ token = 0 /\ leaseNow = 0 /\ leased = <<>>
  BY DEF LeasesInit
<1>2. MaxLeaseClock \in Nat /\ TokenLife \in Nat
  BY LeaseAssumption DEF LeaseAssumption
<1>3. borrower \in [Borrowers -> {Idle} \cup Borrowing]
  BY <1>1
<1>4. token \in 0 .. MaxLeaseClock + TokenLife /\ leaseNow \in 0 .. MaxLeaseClock
  BY <1>1, <1>2
<1>5. lease \in Seq(LeaseStates) /\ leased \in Seq(LeaseAnswers) /\ DOMAIN lease = {} /\ DOMAIN leased = {}
  BY <1>1
<1>6. \A b \in Borrowers : borrower[b] = Idle
  BY <1>1
<1>7. RequiredIsGiven
  BY <1>5 DEF RequiredIsGiven
<1>. QED BY <1>3, <1>4, <1>5, <1>6, <1>7 DEF LeaseInv, LeaseTypes

LEMMA LeasesStep ==
  ASSUME LeaseInv, LeasesNext \/ UNCHANGED leaseVars
  PROVE  LeaseInv'
<1>1. ASSUME NEW b \in Borrowers,
             \/ PermitCredential(b) \/ EnsureToken(b) \/ Fetch(b) \/ FetchFailed(b)
             \/ Inject(b) \/ Release(b) \/ RecordLease(b)
      PROVE  LeaseInv'
  BY <1>1, PermitKeeps, EnsureTokenKeeps, FetchKeeps, FetchFailedKeeps, InjectKeeps, ReleaseKeeps, RecordLeaseKeeps
<1>2. ASSUME LeaseTime PROVE LeaseInv'
  <2>1. MaxLeaseClock \in Nat /\ leaseNow \in 0 .. MaxLeaseClock
    BY LeaseAssumption DEF LeaseAssumption, LeaseInv, LeaseTypes
  <2>2. leaseNow' \in 0 .. MaxLeaseClock
    BY <1>2, <2>1 DEF LeaseTime
  <2>3. UNCHANGED <<borrower, lease, token, leased>>
    BY <1>2 DEF LeaseTime
  <2>. QED BY <2>2, <2>3 DEF LeaseInv, LeaseTypes, RequiredIsGiven
<1>3. ASSUME UNCHANGED leaseVars PROVE LeaseInv'
  BY <1>3 DEF leaseVars, LeaseInv, LeaseTypes, RequiredIsGiven
<1>. QED BY <1>1, <1>2, <1>3 DEF LeasesNext

LEMMA LeasesAreSafe == LeaseInv => LeasesHold
<1>. SUFFICES ASSUME LeaseInv PROVE LeasesHold
  OBVIOUS
<1>1. LeaseTypes /\ RequiredIsGiven
  BY DEF LeaseInv
<1>2. LeasesTypeOK
  <2>1. \A n \in DOMAIN lease : lease[n] \in LeaseStates
    BY <1>1 DEF LeaseTypes
  <2>2. \A i \in DOMAIN leased : leased[i] \in LeaseAnswers
    BY <1>1 DEF LeaseTypes
  <2>3. token \in 0 .. MaxLeaseClock + TokenLife
    BY <1>1 DEF LeaseTypes
  <2>4. \A i \in DOMAIN leased : leased[i].source \in Kinds
    BY <2>2 DEF LeaseAnswers
  <2>. QED BY <2>1, <2>3, <2>4 DEF LeasesTypeOK, LeaseStates, Kinds
<1>3. ASSUME NEW n \in DOMAIN lease, lease[n] = "live"
      PROVE  \E b \in Borrowers : borrower[b] # Idle /\ borrower[b].got.lease = n
  <2>1. PICK b \in Borrowers : Keeps(borrower[b], n)
    BY <1>3 DEF LeaseInv
  <2>2. borrower[b] # Idle
    BY <2>1, IdleIsIdle
  <2>. QED BY <2>1, <2>2 DEF Keeps
<1>4. LeasesAreReturned
  BY <1>3 DEF LeasesAreReturned, LeaseInv
<1>. QED BY <1>1, <1>2, <1>4 DEF LeasesHold

-------------------------------------------------------------------------------
(* Phases and keys *)

PlainNames == Seq(STRING) \ {<<>>}

LEMMA NamesAreNames ==
  /\ \A a \in AgentNames : a \in PlainNames
  /\ \A p \in PhaseIDs : p \in PlainNames
  BY AgentRulesAssumption DEF AgentRulesAssumption, PlainNames

LEMMA NameFields ==
  ASSUME NEW a \in PlainNames
  PROVE  a \in Seq(STRING) /\ Len(a) \in Nat /\ Len(a) >= 1
  BY EmptySeq DEF PlainNames

LEMMA OnePartNames ==
  ASSUME NEW a \in PlainNames, NEW b \in PlainNames, OnePart(a), OnePart(b), a[1] = b[1]
  PROVE  a = b
<1>1. Len(a) = 1 /\ Len(b) = 1
  BY DEF OnePart
<1>2. a \in Seq(STRING) /\ b \in Seq(STRING)
  BY NameFields
<1>3. \A i \in 1 .. Len(a) : a[i] = b[i]
  BY <1>1
<1>. QED BY <1>1, <1>2, <1>3, SeqEqual

(* A name joined to another is taken for the join of two one-part names    *)
(* only if it is that join.                                                *)
LEMMA PlainKeys ==
  ASSUME NEW a \in PlainNames, NEW p \in PlainNames, NEW b \in PlainNames, NEW q \in PlainNames,
         OnePart(a), OnePart(p), PhaseKey(a, p) = PhaseKey(b, q)
  PROVE  b = a /\ q = p
<1>1. /\ a \in Seq(STRING) /\ p \in Seq(STRING) /\ b \in Seq(STRING) /\ q \in Seq(STRING)
      /\ Len(b) \in Nat /\ Len(q) \in Nat /\ Len(b) >= 1 /\ Len(q) >= 1
  BY NameFields
<1>2. Len(a) = 1 /\ Len(p) = 1
  BY DEF OnePart
<1>3. a \o p = b \o q
  BY DEF PhaseKey
<1>4. /\ Len(a \o p) = Len(a) + Len(p)
      /\ \A i \in 1 .. Len(a) + Len(p) : (a \o p)[i] = IF i <= Len(a) THEN a[i] ELSE p[i - Len(a)]
  BY <1>1, ConcatProperties
<1>5. /\ Len(b \o q) = Len(b) + Len(q)
      /\ \A i \in 1 .. Len(b) + Len(q) : (b \o q)[i] = IF i <= Len(b) THEN b[i] ELSE q[i - Len(b)]
  BY <1>1, ConcatProperties
<1>6. Len(b) = 1 /\ Len(q) = 1
  BY <1>1, <1>2, <1>3, <1>4, <1>5
<1>7. (a \o p)[1] = a[1] /\ (a \o p)[2] = p[1]
  BY <1>2, <1>4
<1>8. (b \o q)[1] = b[1] /\ (b \o q)[2] = q[1]
  BY <1>5, <1>6
<1>9. a[1] = b[1] /\ p[1] = q[1]
  BY <1>3, <1>7, <1>8
<1>. QED BY <1>6, <1>9, OnePartNames DEF OnePart

LEMMA KeysAreApartAlways == KeysAreApart
<1>. SUFFICES ASSUME NEW a \in AgentNames, NEW b \in AgentNames, NEW p \in PhaseIDs,
                     a # b, OnePart(a), OnePart(b), CanUse(a, ScopedPrefix(b) \o p)
              PROVE  FALSE
  BY DEF KeysAreApart
<1>1. a \in PlainNames /\ b \in PlainNames /\ p \in PlainNames
  BY NamesAreNames
<1>. DEFINE Parts == STRING \cup {"agent"}
<1>2. /\ a \in Seq(Parts) /\ b \in Seq(Parts) /\ p \in Seq(Parts)
      /\ Len(a) = 1 /\ Len(b) = 1 /\ Len(p) \in Nat /\ Len(p) >= 1
  <2>1. a \in Seq(STRING) /\ b \in Seq(STRING) /\ p \in Seq(STRING)
    BY <1>1, NameFields
  <2>2. STRING \subseteq Parts
    OBVIOUS
  <2>3. a \in Seq(Parts) /\ b \in Seq(Parts) /\ p \in Seq(Parts)
    BY <2>1, <2>2, SeqMonotonic
  <2>. QED BY <1>1, <2>3, NameFields DEF OnePart
<1>20. <<"agent">> \in Seq(Parts) /\ Len(<<"agent">>) = 1 /\ <<"agent">>[1] = "agent"
  OBVIOUS
<1>. HIDE DEF Parts
<1>. DEFINE x == <<"agent">> \o a  y == <<"agent">> \o b  k == y \o p
<1>3. /\ x \in Seq(Parts) /\ Len(x) = 2 /\ x[1] = "agent" /\ x[2] = a[1]
      /\ y \in Seq(Parts) /\ Len(y) = 2 /\ y[1] = "agent" /\ y[2] = b[1]
  <2>2. ASSUME NEW c \in Seq(Parts), Len(c) = 1
        PROVE  <<"agent">> \o c \in Seq(Parts) /\ Len(<<"agent">> \o c) = 2
               /\ (<<"agent">> \o c)[1] = "agent" /\ (<<"agent">> \o c)[2] = c[1]
    <3>1. /\ <<"agent">> \o c \in Seq(Parts) /\ Len(<<"agent">> \o c) = Len(<<"agent">>) + Len(c)
          /\ \A i \in 1 .. Len(<<"agent">>) + Len(c) : (<<"agent">> \o c)[i] =
                IF i <= Len(<<"agent">>) THEN <<"agent">>[i] ELSE c[i - Len(<<"agent">>)]
      BY <1>20, <2>2, ConcatProperties
    <3>. QED BY <1>20, <2>2, <3>1
  <2>. QED BY <1>2, <2>2
<1>. HIDE DEF x, y
<1>4. /\ k \in Seq(Parts) /\ Len(k) = 2 + Len(p) /\ k[1] = "agent" /\ k[2] = b[1]
  <2>1. /\ k \in Seq(Parts) /\ Len(k) = Len(y) + Len(p)
        /\ \A i \in 1 .. Len(y) + Len(p) : k[i] = IF i <= Len(y) THEN y[i] ELSE p[i - Len(y)]
    BY <1>2, <1>3, ConcatProperties
  <2>. QED BY <1>2, <1>3, <2>1
<1>5. CanUse(a, k)
  BY DEF ScopedPrefix, y
<1>. HIDE DEF k
<1>6. Head(k) = k[1]
  BY <1>4
<1>7. IsPrefix(x, k)
  BY <1>4, <1>5, <1>6 DEF CanUse, IsOwned, ScopedPrefix, x
<1>8. SubSeq(x, 1, 2) = SubSeq(k, 1, 2)
  BY <1>3, <1>7 DEF IsPrefix
<1>9. SubSeq(x, 1, 2)[2] = x[2] /\ SubSeq(k, 1, 2)[2] = k[2]
  BY <1>2, <1>3, <1>4
<1>10. a[1] = b[1]
  BY <1>3, <1>4, <1>8, <1>9
<1>. QED BY <1>1, <1>10, OnePartNames

(* The count of a plain name's key is the number of calls made under it.   *)
PhaseTypes ==
    /\ made \in Seq(AgentNames \X PhaseIDs \X RuleTools)
    /\ \A k \in DOMAIN phaseCalls : phaseCalls[k] \in [RuleTools -> Nat]
PhasesInv ==
    /\ PhaseTypes
    /\ \A a \in AgentNames, p \in PhaseIDs, t \in RuleTools :
         OnePart(a) /\ OnePart(p) => CountOf(PhaseKey(a, p), t) <= CallsMade(a, p, t)

LEMMA CountsAreNumbers ==
  ASSUME PhaseTypes, NEW t \in RuleTools
  PROVE  \A k : CountOf(k, t) \in Nat
  BY DEF PhaseTypes, CountOf

LEMMA CallsGrow ==
  ASSUME PhaseTypes, NEW x \in AgentNames \X PhaseIDs \X RuleTools, made' = Append(made, x),
         NEW a, NEW p, NEW t
  PROVE  /\ CallsMade(a, p, t) \in Nat
         /\ CallsMade(a, p, t)' = CallsMade(a, p, t) + IF x = <<a, p, t>> THEN 1 ELSE 0
<1>. DEFINE M == {n \in DOMAIN made : made[n] = <<a, p, t>>}
            N == {n \in DOMAIN made' : made'[n] = <<a, p, t>>}
            l == Len(made)
<1>1. l \in Nat /\ DOMAIN made = 1 .. l
  BY DEF PhaseTypes
<1>2. DOMAIN made' = 1 .. l + 1 /\ made'[l + 1] = x /\ \A i \in 1 .. l : made'[i] = made[i]
  <2>1. made \in Seq(AgentNames \X PhaseIDs \X RuleTools)
    BY DEF PhaseTypes
  <2>2. /\ made' \in Seq(AgentNames \X PhaseIDs \X RuleTools) /\ Len(made') = Len(made) + 1
        /\ \A i \in 1 .. Len(made) : made'[i] = made[i]
        /\ made'[Len(made) + 1] = x
    BY <2>1, AppendProperties
  <2>. QED BY <2>2
<1>3. IsFiniteSet(M) /\ Cardinality(M) \in Nat
  <2>1. M \in SUBSET (1 .. l)
    BY <1>1
  <2>2. IsFiniteSet(1 .. l)
    BY <1>1, FS_Interval
  <2>3. IsFiniteSet(M)
    BY <2>1, <2>2, FS_Subset
  <2>. QED BY <2>3, FS_CardinalityType
<1>4. N = IF x = <<a, p, t>> THEN M \cup {l + 1} ELSE M
  BY <1>1, <1>2
<1>5. l + 1 \notin M
  BY <1>1
<1>6. Cardinality(M \cup {l + 1}) = Cardinality(M) + 1
  BY <1>3, <1>5, FS_AddElement
<1>7. CallsMade(a, p, t) = Cardinality(M) /\ CallsMade(a, p, t)' = Cardinality(N)
  BY DEF CallsMade
<1>. HIDE DEF M, N, l
<1>8. CASE x = <<a, p, t>>
  BY <1>3, <1>4, <1>6, <1>7, <1>8
<1>9. CASE x # <<a, p, t>>
  BY <1>3, <1>4, <1>7, <1>9
<1>. QED BY <1>8, <1>9

LEMMA PhasesBegin == RulesInit => PhasesInv
<1>. SUFFICES ASSUME RulesInit PROVE PhasesInv
  OBVIOUS
<1>1. phaseCalls = <<>> /\ made = <<>>
  BY DEF RulesInit
<1>2. DOMAIN phaseCalls = {} /\ DOMAIN made = {}
  BY <1>1
<1>3. PhaseTypes
  BY <1>1, <1>2 DEF PhaseTypes
<1>4. \A k, t : CountOf(k, t) = 0
  BY <1>2 DEF CountOf
<1>5. ASSUME NEW a, NEW p, NEW t PROVE CallsMade(a, p, t) = 0
  <2>1. {n \in DOMAIN made : made[n] = <<a, p, t>>} = {}
    BY <1>2
  <2>. QED BY <2>1, FS_EmptySet DEF CallsMade
<1>. QED BY <1>3, <1>4, <1>5 DEF PhasesInv

LEMMA RecordToolCallKeeps ==
  ASSUME PhasesInv, NEW b \in AgentNames, NEW q \in PhaseIDs, NEW u \in RuleTools, RecordToolCall(b, q, u)
  PROVE  PhasesInv'
<1>. DEFINE key == PhaseKey(b, q)  x == <<b, q, u>>
            Counted(k, t) == CountOf(k, t) + IF k = key /\ t = u THEN 1 ELSE 0
            tallied == [k \in DOMAIN phaseCalls \cup {key} |-> [t \in RuleTools |-> Counted(k, t)]]
<1>1. PhaseTypes
  BY DEF PhasesInv
<1>2. made' = Append(made, x) /\ phaseCalls' = tallied
  BY DEF RecordToolCall
<1>3. \A k : \A t \in RuleTools : CountOf(k, t) \in Nat /\ Counted(k, t) \in Nat
  BY <1>1, CountsAreNumbers
<1>4. DOMAIN phaseCalls' = DOMAIN phaseCalls \cup {key}
  BY <1>2
<1>5. \A k \in DOMAIN phaseCalls' : phaseCalls'[k] = [t \in RuleTools |-> Counted(k, t)]
  BY <1>2
<1>6. PhaseTypes'
  <2>1. made \in Seq(AgentNames \X PhaseIDs \X RuleTools) /\ x \in AgentNames \X PhaseIDs \X RuleTools
    BY <1>1 DEF PhaseTypes
  <2>2. made' \in Seq(AgentNames \X PhaseIDs \X RuleTools)
    BY <1>2, <2>1, AppendProperties
  <2>3. \A k \in DOMAIN phaseCalls' : phaseCalls'[k] \in [RuleTools -> Nat]
    BY <1>3, <1>5
  <2>. QED BY <2>2, <2>3 DEF PhaseTypes
<1>7. ASSUME NEW a \in AgentNames, NEW p \in PhaseIDs, NEW t \in RuleTools, OnePart(a), OnePart(p)
      PROVE  CountOf(PhaseKey(a, p), t)' <= CallsMade(a, p, t)'
  <2>. DEFINE k == PhaseKey(a, p)
  <2>1. CountOf(k, t) <= CallsMade(a, p, t) /\ CountOf(k, t) \in Nat
    BY <1>3, <1>7 DEF PhasesInv
  <2>2. CountOf(k, t)' = Counted(k, t)
    <3>1. CASE k \in DOMAIN phaseCalls'
      <4>1. CountOf(k, t)' = phaseCalls'[k][t]
        BY <3>1 DEF CountOf
      <4>. QED BY <3>1, <4>1, <1>5
    <3>2. CASE k \notin DOMAIN phaseCalls'
      <4>1. CountOf(k, t)' = 0
        BY <3>2 DEF CountOf
      <4>2. k \notin DOMAIN phaseCalls /\ k # key
        BY <3>2, <1>4
      <4>3. CountOf(k, t) = 0
        BY <4>2 DEF CountOf
      <4>. QED BY <4>1, <4>2, <4>3
    <3>. QED BY <3>1, <3>2
  <2>3. k = key => a = b /\ p = q
    <3>1. a \in PlainNames /\ p \in PlainNames /\ b \in PlainNames /\ q \in PlainNames
      BY NamesAreNames
    <3>. QED BY <1>7, <3>1, PlainKeys
  <2>4. /\ CallsMade(a, p, t) \in Nat
        /\ CallsMade(a, p, t)' = CallsMade(a, p, t) + IF x = <<a, p, t>> THEN 1 ELSE 0
    <3>1. x \in AgentNames \X PhaseIDs \X RuleTools
      OBVIOUS
    <3>. QED BY <1>1, <1>2, <3>1, CallsGrow
  <2>5. k = key /\ t = u => x = <<a, p, t>>
    BY <2>3
  <2>6. Counted(k, t) <= CountOf(k, t) + IF x = <<a, p, t>> THEN 1 ELSE 0
    BY <2>1, <2>5
  <2>. HIDE DEF Counted, k, x
  <2>7. CountOf(k, t)' <= CallsMade(a, p, t)'
    <3>1. CASE x = <<a, p, t>>
      BY <3>1, <2>1, <2>2, <2>4, <2>6, <1>3
    <3>2. CASE x # <<a, p, t>>
      BY <3>2, <2>1, <2>2, <2>4, <2>6, <1>3
    <3>. QED BY <3>1, <3>2
  <2>. QED BY <2>7 DEF k
<1>. QED BY <1>6, <1>7 DEF PhasesInv

LEMMA PhasesAreSafe == PhasesInv => PhasesAreEarned
<1>. SUFFICES ASSUME PhasesInv, NEW a \in AgentNames, NEW p \in PhaseIDs, OnePart(a), OnePart(p), CanTransition(a, p),
                     NEW r \in Requirements[p]
              PROVE  \E t \in r.tools : CallsMade(a, p, t) >= r.min
  BY DEF PhasesAreEarned
<1>1. PICK t \in r.tools : CountOf(PhaseKey(a, p), t) >= r.min
  BY DEF CanTransition
<1>2. t \in RuleTools /\ r.min \in Nat
  BY AgentRulesAssumption DEF AgentRulesAssumption
<1>3. CountOf(PhaseKey(a, p), t) <= CallsMade(a, p, t) /\ CountOf(PhaseKey(a, p), t) \in Nat
  BY <1>2, CountsAreNumbers DEF PhasesInv
<1>4. CallsMade(a, p, t) \in Nat
  <2>1. DOMAIN made = 1 .. Len(made) /\ Len(made) \in Nat
    BY DEF PhasesInv, PhaseTypes
  <2>2. IsFiniteSet(1 .. Len(made))
    BY <2>1, FS_Interval
  <2>3. {n \in DOMAIN made : made[n] = <<a, p, t>>} \in SUBSET (1 .. Len(made))
    BY <2>1
  <2>4. IsFiniteSet({n \in DOMAIN made : made[n] = <<a, p, t>>})
    BY <2>2, <2>3, FS_Subset
  <2>. QED BY <2>4, FS_CardinalityType DEF CallsMade
<1>5. CallsMade(a, p, t) >= r.min
  BY <1>1, <1>2, <1>3, <1>4
<1>. QED BY <1>5

-------------------------------------------------------------------------------
(* Seals *)

(* While no call began with another under way the seals are of the calls   *)
(* in turn, and what is not sealed yet is the last.                        *)
SealTypes ==
    /\ sealer \in [Sealers -> Nat] /\ asked \in Seq(Int)
    /\ seals \in Seq(Nat \ {0})
InTurn ==
    /\ \A i \in DOMAIN seals : seals[i] = i
    /\ \A s, r \in Sealers : sealer[s] # 0 /\ sealer[r] # 0 => s = r
    /\ \A s \in Sealers : sealer[s] # 0 => sealer[s] = Len(asked) /\ Len(asked) = Len(seals) + 1
    /\ (\A s \in Sealers : sealer[s] = 0) => Len(asked) = Len(seals)
SealsInv ==
    /\ SealTypes
    /\ \A s \in Sealers : sealer[s] <= Len(asked)
    /\ \A i \in DOMAIN seals : seals[i] \in DOMAIN asked
    /\ crossed = {} => InTurn

LEMMA SealsBegin == RulesInit => SealsInv
<1>. SUFFICES ASSUME RulesInit PROVE SealsInv
  OBVIOUS
<1>1. sealer = [s \in Sealers |-> 0] /\ seals = <<>> /\ asked = <<>>
  BY DEF RulesInit
<1>2. DOMAIN seals = {} /\ Len(seals) = 0 /\ seals \in Seq(Nat \ {0}) /\ Len(asked) = 0 /\ asked \in Seq(Int)
  BY <1>1
<1>3. sealer \in [Sealers -> Nat] /\ \A s \in Sealers : sealer[s] = 0
  BY <1>1
<1>. QED BY <1>2, <1>3 DEF SealsInv, SealTypes, InTurn

LEMMA BeginSealKeeps ==
  ASSUME SealsInv, NEW s \in Sealers, NEW index \in StepIndexes, BeginSeal(s, index)
  PROVE  SealsInv'
<1>. DEFINE l == Len(asked)
<1>1. /\ sealer[s] = 0 /\ asked' = Append(asked, index) /\ sealer' = [sealer EXCEPT ![s] = l + 1] /\ seals' = seals
      /\ crossed' = {} => crossed = {} /\ \A r \in Sealers : sealer[r] = 0
  BY DEF BeginSeal
<1>2. /\ sealer \in [Sealers -> Nat] /\ asked \in Seq(Int) /\ seals \in Seq(Nat \ {0}) /\ Len(seals) \in Nat
      /\ DOMAIN seals = 1 .. Len(seals) /\ l \in Nat /\ DOMAIN asked = 1 .. l
  BY DEF SealsInv, SealTypes
<1>3. asked' \in Seq(Int) /\ Len(asked') = l + 1 /\ DOMAIN asked' = 1 .. l + 1
  <2>1. index \in Int
    BY AgentRulesAssumption DEF AgentRulesAssumption
  <2>. QED BY <1>1, <1>2, <2>1, AppendProperties
<1>. HIDE DEF l
<1>4. /\ sealer' \in [Sealers -> Nat] /\ sealer'[s] = l + 1
      /\ \A r \in Sealers : r # s => sealer'[r] = sealer[r]
  BY <1>1, <1>2
<1>5. SealTypes'
  BY <1>1, <1>2, <1>3, <1>4 DEF SealTypes
<1>6. \A r \in Sealers : sealer[r] \in Nat /\ sealer[r] <= l
  BY <1>2 DEF SealsInv, l
<1>7. ASSUME NEW r \in Sealers PROVE sealer'[r] <= Len(asked')
  <2>1. CASE r = s
    BY <2>1, <1>2, <1>3, <1>4
  <2>2. CASE r # s
    <3>1. sealer'[r] = sealer[r] /\ sealer[r] \in Nat /\ sealer[r] <= l
      BY <2>2, <1>4, <1>6
    <3>. QED BY <3>1, <1>2, <1>3
  <2>. QED BY <2>1, <2>2
<1>8. \A i \in DOMAIN seals' : seals'[i] \in DOMAIN asked'
  <2>1. \A i \in DOMAIN seals : seals[i] \in DOMAIN asked
    BY DEF SealsInv
  <2>2. DOMAIN asked \subseteq DOMAIN asked'
    BY <1>2, <1>3
  <2>. QED BY <2>1, <2>2, <1>1
<1>9. ASSUME crossed' = {} PROVE InTurn'
  <2>1. InTurn /\ \A r \in Sealers : sealer[r] = 0
    BY <1>1, <1>9 DEF SealsInv
  <2>2. l = Len(seals) /\ \A i \in DOMAIN seals : seals[i] = i
    BY <2>1 DEF InTurn, l
  <2>3. \A r \in Sealers : sealer'[r] # 0 => r = s
    BY <2>1, <1>4
  <2>4. sealer'[s] # 0 /\ sealer'[s] = Len(asked') /\ Len(asked') = Len(seals') + 1
    BY <2>2, <1>1, <1>2, <1>3, <1>4
  <2>. QED BY <2>2, <2>3, <2>4, <1>1 DEF InTurn
<1>. QED BY <1>5, <1>7, <1>8, <1>9 DEF SealsInv

LEMMA KeepSealKeeps ==
  ASSUME SealsInv, NEW s \in Sealers, KeepSeal(s)
  PROVE  SealsInv'
<1>. DEFINE n == sealer[s]  l == Len(seals)
<1>1. n # 0 /\ seals' = Append(seals, n) /\ sealer' = [sealer EXCEPT ![s] = 0] /\ UNCHANGED <<asked, crossed>>
  BY DEF KeepSeal
<1>2. /\ sealer \in [Sealers -> Nat] /\ asked \in Seq(Int) /\ seals \in Seq(Nat \ {0}) /\ l \in Nat
      /\ DOMAIN seals = 1 .. l /\ Len(asked) \in Nat /\ DOMAIN asked = 1 .. Len(asked)
  BY DEF SealsInv, SealTypes
<1>3. n \in Nat \ {0} /\ n \in DOMAIN asked
  <2>1. n \in Nat /\ n <= Len(asked)
    BY <1>2 DEF SealsInv
  <2>. QED BY <2>1, <1>1, <1>2
<1>4. sealer' \in [Sealers -> Nat] /\ sealer'[s] = 0 /\ \A r \in Sealers : r # s => sealer'[r] = sealer[r]
  BY <1>1, <1>2
<1>5. /\ seals' \in Seq(Nat \ {0}) /\ Len(seals') = l + 1 /\ DOMAIN seals' = 1 .. l + 1
      /\ \A i \in 1 .. l : seals'[i] = seals[i]
      /\ seals'[l + 1] = n
  <2>1. /\ seals' \in Seq(Nat \ {0}) /\ Len(seals') = Len(seals) + 1
        /\ \A i \in 1 .. Len(seals) : seals'[i] = seals[i]
        /\ seals'[Len(seals) + 1] = n
    BY <1>1, <1>2, <1>3, AppendProperties
  <2>. QED BY <2>1
<1>6. SealTypes'
  BY <1>1, <1>2, <1>4, <1>5 DEF SealTypes
<1>. HIDE DEF n, l
<1>7. \A r \in Sealers : sealer'[r] <= Len(asked')
  BY <1>1, <1>2, <1>4 DEF SealsInv
<1>8. ASSUME NEW i \in DOMAIN seals' PROVE seals'[i] \in DOMAIN asked'
  <2>1. CASE i = l + 1
    BY <2>1, <1>1, <1>3, <1>5
  <2>2. CASE i # l + 1
    <3>1. i \in 1 .. l
      BY <2>2, <1>2, <1>5, <1>8
    <3>2. seals[i] \in DOMAIN asked
      BY <3>1, <1>2 DEF SealsInv
    <3>. QED BY <3>1, <3>2, <1>1, <1>5
  <2>. QED BY <2>1, <2>2
<1>9. ASSUME crossed' = {} PROVE InTurn'
  <2>1. InTurn
    BY <1>1, <1>9 DEF SealsInv
  <2>2. n = Len(asked) /\ Len(asked) = l + 1 /\ \A r \in Sealers : sealer[r] # 0 => r = s
    BY <2>1, <1>1 DEF InTurn, n, l
  <2>3. \A r \in Sealers : sealer'[r] = 0
    BY <2>2, <1>4
  <2>4. \A i \in 1 .. l : seals[i] = i
    BY <2>1, <1>2 DEF InTurn
  <2>5. \A i \in DOMAIN seals' : seals'[i] = i
    BY <2>2, <2>4, <1>2, <1>5
  <2>6. Len(asked') = Len(seals')
    BY <2>2, <1>1, <1>5
  <2>. QED BY <2>3, <2>5, <2>6 DEF InTurn
<1>. QED BY <1>6, <1>7, <1>8, <1>9 DEF SealsInv

LEMMA SealsAreSafe == SealsInv => PipelinesVerify
<1>. SUFFICES ASSUME SealsInv, crossed = {}, \A s \in Sealers : sealer[s] = 0
              PROVE  VerifyChain(StepsSealed) <=> VerifyChain(asked)
  BY DEF PipelinesVerify
<1>1. (\A i \in DOMAIN seals : seals[i] = i) /\ Len(asked) = Len(seals)
  BY DEF SealsInv, InTurn
<1>2. asked \in Seq(Int) /\ seals \in Seq(Nat \ {0})
  BY DEF SealsInv, SealTypes
<1>3. DOMAIN seals = 1 .. Len(asked)
  BY <1>1, <1>2
<1>4. StepsSealed = [i \in 1 .. Len(asked) |-> asked[i]]
  BY <1>1, <1>3 DEF StepsSealed
<1>5. asked = [i \in 1 .. Len(asked) |-> asked[i]]
  BY <1>2
<1>. QED BY <1>4, <1>5

(* What is sealed of a session is a sequence of step indexes.              *)
LEMMA StepsAreNumbers == SealsInv => StepsSealed \in Seq(Int) /\ DOMAIN StepsSealed = DOMAIN seals
<1>. SUFFICES ASSUME SealsInv PROVE StepsSealed \in Seq(Int) /\ DOMAIN StepsSealed = DOMAIN seals
  OBVIOUS
<1>. DEFINE f == StepsSealed  n == Len(seals)
<1>1. asked \in Seq(Int) /\ n \in Nat /\ DOMAIN seals = 1 .. n
  BY DEF SealsInv, SealTypes
<1>2. f = [i \in 1 .. n |-> asked[seals[i]]]
  BY <1>1 DEF StepsSealed
<1>3. \A i \in 1 .. n : asked[seals[i]] \in Int
  <2>1. \A i \in 1 .. n : seals[i] \in DOMAIN asked
    BY <1>1 DEF SealsInv
  <2>2. \A k \in DOMAIN asked : asked[k] \in Int
    BY <1>1, ElementOfSeq
  <2>. QED BY <2>1, <2>2
<1>. HIDE DEF f, n
<1>4. DOMAIN f = 1 .. n /\ f = [i \in 1 .. n |-> f[i]] /\ \A i \in 1 .. n : f[i] \in Int
  BY <1>2, <1>3
<1>5. f \in Seq(Int)
  BY <1>1, <1>4, IsASeq
<1>. QED BY <1>1, <1>4, <1>5 DEF f

-------------------------------------------------------------------------------

BooksInv == PhasesInv /\ SealsInv

LEMMA BooksBegin == RulesInit => BooksInv
  BY PhasesBegin, SealsBegin DEF BooksInv

LEMMA PhasesStay ==
  ASSUME PhasesInv, UNCHANGED phasePart
  PROVE  PhasesInv'
<1>1. phaseCalls' = phaseCalls /\ made' = made
  BY DEF phasePart
<1>2. PhaseTypes'
  BY <1>1 DEF PhasesInv, PhaseTypes
<1>3. \A k, t : CountOf(k, t)' = CountOf(k, t)
  BY <1>1 DEF CountOf
<1>4. \A a, p, t : CallsMade(a, p, t)' = CallsMade(a, p, t)
  BY <1>1 DEF CallsMade
<1>. QED BY <1>2, <1>3, <1>4 DEF PhasesInv, PhaseKey

LEMMA SealsStay ==
  ASSUME SealsInv, UNCHANGED sealPart
  PROVE  SealsInv'
  BY DEF SealsInv, SealTypes, InTurn, sealPart

LEMMA BooksStep ==
  ASSUME BooksInv, PhaseNext \/ SealNext \/ LinkNext \/ AnswerNext \/ UNCHANGED ruleVars
  PROVE  BooksInv'
<1>1. CASE PhaseNext
  <2>1. PICK a \in AgentNames, p \in PhaseIDs, t \in RuleTools : RecordToolCall(a, p, t)
    BY <1>1 DEF PhaseNext
  <2>2. UNCHANGED sealPart
    BY <2>1 DEF RecordToolCall
  <2>. QED BY <2>1, <2>2, RecordToolCallKeeps, SealsStay DEF BooksInv
<1>2. CASE SealNext
  <2>1. PICK s \in Sealers : KeepSeal(s) \/ \E n \in StepIndexes : BeginSeal(s, n)
    BY <1>2 DEF SealNext
  <2>2. UNCHANGED phasePart
    BY <2>1 DEF BeginSeal, KeepSeal
  <2>3. SealsInv'
    <3>1. CASE KeepSeal(s)
      BY <3>1, KeepSealKeeps DEF BooksInv
    <3>2. CASE \E n \in StepIndexes : BeginSeal(s, n)
      BY <3>2, BeginSealKeeps DEF BooksInv
    <3>. QED BY <2>1, <3>1, <3>2
  <2>. QED BY <2>2, <2>3, PhasesStay DEF BooksInv
<1>3. CASE LinkNext \/ AnswerNext \/ UNCHANGED ruleVars
  <2>1. UNCHANGED phasePart /\ UNCHANGED sealPart
    BY <1>3 DEF LinkNext, RecordLink, AnswerNext, GovernOutput, ruleVars
  <2>. QED BY <2>1, PhasesStay, SealsStay DEF BooksInv
<1>. QED BY <1>1, <1>2, <1>3

LEMMA BooksAreSafe == BooksInv => PhasesAreEarned /\ PipelinesVerify /\ KeysAreApart
  BY PhasesAreSafe, SealsAreSafe, KeysAreApartAlways DEF BooksInv


-------------------------------------------------------------------------------
(* The HTTP doors *)

CallIds == ({r.call : r \in EdgeRequests} \cup {""}) \X Nat
DoorTokens == {TokenHash[<<c, t>>] : c \in CallIds, t \in {ToolOf(r) : r \in EdgeRequests}}
DoorHandles == [token : DoorTokens, status : {"pending", "approved", "denied", "expired"}]
DoorVerdicts == [handle : Nat, verdict : {"approved", "denied"}, after : Nat]
Carriages == [via : {r.via : r \in EdgeRequests}, agent : {AgentOf(r) : r \in EdgeRequests},
              target : {r.tool : r \in EdgeRequests}, led : Seq({r.tool : r \in EdgeRequests})]
EdgeReplies == [request : EdgeRequests, code : Nat, token : Seq(DoorTokens)]
EdgeDecisions ==
    [via : {r.via : r \in EdgeRequests}, agent : {AgentOf(r) : r \in EdgeRequests},
     session : {SessionOf(r) : r \in EdgeRequests}, tool : {ToolOf(r) : r \in EdgeRequests},
     target : {r.tool : r \in EdgeRequests}, effect : EdgeEffects, call : CallIds, handle : Nat]
EdgeTypes ==
    /\ edgeTime \in Nat
    /\ bucket \in [IPs -> [left : Nat, at : Int]]
    /\ admitted \in Seq(IPs \X Nat)
    /\ doorHandles \in Seq(DoorHandles)
    /\ approvals \in Seq(DoorVerdicts)
    /\ replies \in Seq(EdgeReplies)
    /\ upstream \in Seq(Carriages)
    /\ decided \in Seq(EdgeDecisions)

(* What an address took since any of its requests, with what its bucket    *)
(* holds, is no more than a full bucket and what trickled in since.        *)
BucketInv(ip) ==
    /\ bucket[ip].left <= BucketBurst /\ bucket[ip].at <= edgeTime
    /\ \A i \in DOMAIN admitted : admitted[i][1] = ip =>
         /\ admitted[i][2] <= bucket[ip].at
         /\ Cardinality(Admissions(ip, i, Len(admitted))) + bucket[ip].left
              <= BucketBurst + BucketRate * (bucket[ip].at - admitted[i][2])

(* A decision names a handle that is there and of its token, and a         *)
(* handle's verdict is older than no call that waits on it.                *)
ApprovalsInv == ApprovalsStand /\ \A a \in DOMAIN approvals : approvals[a].handle \in DOMAIN doorHandles
OnePending ==
    \A h, k \in DOMAIN doorHandles :
        doorHandles[h] = doorHandles[k] /\ doorHandles[h].status = "pending" => h = k
WaitsInv ==
    \A n \in DOMAIN decided : decided[n].handle # 0 =>
       decided[n].handle \in DOMAIN doorHandles /\ doorHandles[decided[n].handle].token = TokenOf(decided[n])
ToldBy(e, d) == d.handle # 0 /\ d.agent = AgentOf(e.request) /\ d.tool = ToolOf(e.request) /\ e.token = <<TokenOf(d)>>
ToldInv == \A i \in DOMAIN replies : replies[i].token # <<>> => \E n \in DOMAIN decided : ToldBy(replies[i], decided[n])
SessionsInv ==
    \A i \in DOMAIN decided :
       /\ decided[i].via = "connect" => decided[i].session[2] = "proxy-connect"
       /\ decided[i].via = "absolute" => decided[i].session[2] = "proxy-http"

EdgesInv ==
    /\ EdgeTypes /\ AddressesAreLimited /\ \A ip \in IPs : BucketInv(ip)
    /\ ApprovalsInv /\ OnePending /\ WaitsInv /\ ToldInv /\ TransfersAreDecided /\ SessionsInv

LEMMA EdgesBegin == EdgesInit => EdgesInv
<1>. SUFFICES ASSUME EdgesInit PROVE EdgesInv
  OBVIOUS
<1>1. /\ edgeTime = 0 /\ bucket = [ip \in IPs |-> NoBucket] /\ decided = <<>> /\ upstream = <<>>
      /\ replies = <<>> /\ doorHandles = <<>> /\ approvals = <<>> /\ admitted = <<>>
  BY DEF EdgesInit
<1>2. /\ decided \in Seq(EdgeDecisions) /\ upstream \in Seq(Carriages) /\ replies \in Seq(EdgeReplies)
      /\ doorHandles \in Seq(DoorHandles) /\ approvals \in Seq(DoorVerdicts) /\ admitted \in Seq(IPs \X Nat)
  BY <1>1
<1>3. NoBucket \in [left : Nat, at : Int] /\ NoBucket.left = BucketBurst /\ NoBucket.at = -1
  BY EdgesAssumption DEF NoBucket, EdgesAssumption
<1>4. DOMAIN <<>> = {}
  OBVIOUS
<1>5. ASSUME NEW e \in Transfers PROVE Cardinality(Carried(e)) <= Cardinality(LetPass(e))
  <2>1. Carried(e) = {} /\ LetPass(e) = {}
    BY <1>1, <1>4 DEF Carried, LetPass
  <2>. QED BY <2>1, FS_EmptySet
<1>6. \A ip \in IPs : BucketInv(ip)
  BY <1>1, <1>3, <1>4, EdgesAssumption DEF BucketInv, EdgesAssumption
<1>. QED
  BY <1>1, <1>2, <1>3, <1>4, <1>5, <1>6
     DEF EdgesInv, EdgeTypes, AddressesAreLimited, ApprovalsInv, ApprovalsStand, OnePending, WaitsInv, ToldInv,
         TransfersAreDecided, SessionsInv

LEMMA AppendedAt ==
  ASSUME NEW S, NEW s \in Seq(S), NEW e \in S
  PROVE  /\ Append(s, e) \in Seq(S) /\ Len(s) \in Nat /\ Len(Append(s, e)) = Len(s) + 1
         /\ DOMAIN s = 1 .. Len(s) /\ DOMAIN Append(s, e) = (1 .. Len(s)) \cup {Len(s) + 1}
         /\ \A i \in 1 .. Len(s) : Append(s, e)[i] = s[i]
         /\ Append(s, e)[Len(s) + 1] = e
<1>1. /\ Append(s, e) \in Seq(S) /\ Len(Append(s, e)) = Len(s) + 1
      /\ \A i \in 1 .. Len(s) : Append(s, e)[i] = s[i]
      /\ Append(s, e)[Len(s) + 1] = e
  BY AppendProperties
<1>2. DOMAIN s = 1 .. Len(s) /\ DOMAIN Append(s, e) = 1 .. (Len(s) + 1) /\ Len(s) \in Nat
  BY <1>1
<1>3. 1 .. (Len(s) + 1) = (1 .. Len(s)) \cup {Len(s) + 1}
  BY <1>2
<1>. QED BY <1>1, <1>2, <1>3

-------------------------------------------------------------------------------
(* What trickles in between three moments, in two parts.                   *)
LEMMA Trickles ==
  ASSUME NEW n \in Int, NEW a \in Int, NEW b \in Int, NEW c \in Int
  PROVE  /\ n * (c - a) = n * (c - b) + n * (b - a)
         /\ n * (c - a) \in Int /\ n * (c - b) \in Int /\ n * (b - a) \in Int
<1>1. \A x, y \in Int : n * x \in Int /\ n * (x + y) = n * x + n * y
  OBVIOUS
<1>2. c - b \in Int /\ b - a \in Int /\ c - a = (c - b) + (b - a)
  OBVIOUS
<1>3. n * ((c - b) + (b - a)) = n * (c - b) + n * (b - a)
  BY <1>1, <1>2
<1>4. c - a \in Int
  OBVIOUS
<1>. QED BY <1>1, <1>2, <1>3, <1>4

(* One more request takes one from the bucket.                             *)
LEMMA OneMore ==
  ASSUME NEW c \in Int, NEW l \in Int, NEW m \in Int, NEW B \in Int,
         NEW x \in Int, NEW y \in Int, NEW z \in Int,
         x = y + z, c + l <= B + z, m + 1 <= l + y
  PROVE  (c + 1) + m <= B + x
  OBVIOUS

LEMMA FilledBounds ==
  ASSUME EdgesInv, NEW ip \in IPs
  PROVE  /\ Filled(ip) \in Int /\ Filled(ip) <= BucketBurst
         /\ bucket[ip].at # -1 =>
              Filled(ip) <= bucket[ip].left + BucketRate * (edgeTime - bucket[ip].at)
<1>1. /\ bucket[ip].left \in Nat /\ bucket[ip].at \in Int /\ bucket[ip].at <= edgeTime
      /\ edgeTime \in Nat /\ BucketBurst \in Nat /\ BucketRate \in Nat
  BY EdgesAssumption DEF EdgesInv, EdgeTypes, BucketInv, EdgesAssumption
<1> DEFINE x == BucketRate * (edgeTime - bucket[ip].at)
<1>2. x \in Int
  BY <1>1
<1> HIDE DEF x
<1>3. Filled(ip) = IF bucket[ip].at = -1 THEN BucketBurst ELSE Least(BucketBurst, bucket[ip].left + x)
  BY DEF Filled, x
<1>4. /\ Filled(ip) \in Int /\ Filled(ip) <= BucketBurst
      /\ bucket[ip].at # -1 => Filled(ip) <= bucket[ip].left + x
  BY <1>1, <1>2, <1>3 DEF Least
<1>. QED BY <1>4 DEF x

(* A request that is let through keeps within the bucket of its address,   *)
(* and does not touch the others'.                                         *)
LEMMA TakeKeeps ==
  ASSUME EdgesInv, NEW ip \in IPs, Filled(ip) >= 1, Take(ip), edgeTime' = edgeTime
  PROVE  /\ bucket' \in [IPs -> [left : Nat, at : Int]] /\ admitted' \in Seq(IPs \X Nat)
         /\ AddressesAreLimited' /\ \A a \in IPs : BucketInv(a)'
<1> DEFINE left == Filled(ip) - 1
<1>0. PICK n : n = Len(admitted)
  OBVIOUS
<1>1. /\ edgeTime \in Nat /\ bucket \in [IPs -> [left : Nat, at : Int]] /\ admitted \in Seq(IPs \X Nat)
      /\ BucketBurst \in Nat /\ BucketRate \in Nat
  BY EdgesAssumption DEF EdgesInv, EdgeTypes, EdgesAssumption
<1>2. /\ bucket' = [bucket EXCEPT ![ip] = [left |-> left, at |-> edgeTime]]
      /\ admitted' = Append(admitted, <<ip, edgeTime>>)
  BY DEF Take
<1>3. left \in Nat /\ left + 1 <= BucketBurst
  BY FilledBounds, <1>1
<1>4. <<ip, edgeTime>> \in IPs \X Nat
  BY <1>1
<1>5. /\ admitted' \in Seq(IPs \X Nat) /\ n \in Nat /\ Len(admitted') = n + 1
      /\ DOMAIN admitted = 1 .. n /\ DOMAIN admitted' = (1 .. n) \cup {n + 1}
      /\ \A i \in 1 .. n : admitted'[i] = admitted[i]
      /\ admitted'[n + 1] = <<ip, edgeTime>>
  BY <1>0, <1>1, <1>2, <1>4, AppendedAt
<1>6. /\ bucket' \in [IPs -> [left : Nat, at : Int]]
      /\ bucket'[ip].left = left /\ bucket'[ip].at = edgeTime
      /\ \A a \in IPs \ {ip} : bucket'[a] = bucket[a]
  BY <1>1, <1>2, <1>3
<1>7. \A i \in 1 .. n : admitted[i][2] \in Nat
  BY <1>0, <1>1, <1>5, ElementOfSeq
<1> HIDE DEF left
<1>8. ASSUME NEW a, NEW i \in 1 .. n, NEW j \in 1 .. n
      PROVE  Admissions(a, i, j)' = Admissions(a, i, j)
  <2>1. \A k \in i .. j : k \in 1 .. n
    BY <1>5
  <2>. QED BY <2>1, <1>5 DEF Admissions
<1>9. ASSUME NEW a, NEW i \in 1 .. n
      PROVE  /\ IsFiniteSet(Admissions(a, i, n)) /\ Cardinality(Admissions(a, i, n)) \in Nat
             /\ a # ip => Admissions(a, i, n + 1)' = Admissions(a, i, n)
             /\ a = ip => Cardinality(Admissions(a, i, n + 1)') = Cardinality(Admissions(a, i, n)) + 1
  <2>0. i \in Int /\ n \in Int /\ 1 <= i /\ i <= n
    BY <1>5
  <2>1. i .. (n + 1) = (i .. n) \cup {n + 1} /\ (n + 1) \notin i .. n /\ \A k \in i .. n : k \in 1 .. n
    BY <2>0
  <2>2. IsFiniteSet(i .. n)
    BY <2>0, FS_Interval
  <2>3. IsFiniteSet(Admissions(a, i, n)) /\ n + 1 \notin Admissions(a, i, n)
    BY <2>1, <2>2, FS_Subset DEF Admissions
  <2>4. a # ip => Admissions(a, i, n + 1)' = Admissions(a, i, n)
    BY <2>1, <1>5 DEF Admissions
  <2>5. a = ip => Admissions(a, i, n + 1)' = Admissions(a, i, n) \cup {n + 1}
    BY <2>1, <1>5 DEF Admissions
  <2>. QED BY <2>3, <2>4, <2>5, FS_AddElement, FS_CardinalityType
<1>10. Cardinality(Admissions(ip, n + 1, n + 1)') = 1
  <2>1. Admissions(ip, n + 1, n + 1)' = {n + 1}
    BY <1>5 DEF Admissions
  <2>. QED BY <2>1, FS_Singleton
<1>11. ASSUME NEW i \in 1 .. n, admitted[i][1] = ip
       PROVE  /\ admitted[i][2] <= edgeTime
              /\ Cardinality(Admissions(ip, i, n + 1)') + left
                   <= BucketBurst + BucketRate * (edgeTime - admitted[i][2])
  <2> DEFINE t == admitted[i][2]
             b == bucket[ip]
             c == Cardinality(Admissions(ip, i, n))
  <2>1. /\ t <= b.at /\ b.at <= edgeTime /\ c + b.left <= BucketBurst + BucketRate * (b.at - t)
    BY <1>0, <1>5, <1>11 DEF EdgesInv, BucketInv
  <2>2. t \in Nat /\ b.at \in Int /\ b.left \in Nat /\ c \in Nat
    BY <1>1, <1>7, <1>9
  <2>3. left + 1 <= b.left + BucketRate * (edgeTime - b.at)
    BY <2>1, <2>2, FilledBounds DEF left
  <2> HIDE DEF t, c
  <2>4. BucketRate \in Int /\ t \in Int /\ b.at \in Int /\ edgeTime \in Int /\ c \in Int /\ b.left \in Int
        /\ left \in Int /\ BucketBurst \in Int
    BY <1>1, <1>3, <2>2
  <2>5. /\ BucketRate * (edgeTime - t) = BucketRate * (edgeTime - b.at) + BucketRate * (b.at - t)
        /\ BucketRate * (edgeTime - t) \in Int /\ BucketRate * (edgeTime - b.at) \in Int
        /\ BucketRate * (b.at - t) \in Int
    BY <2>4, Trickles
  <2>6. t <= edgeTime
    BY <2>1, <2>4
  <2>7. (c + 1) + left <= BucketBurst + BucketRate * (edgeTime - t)
    BY <2>1, <2>3, <2>4, <2>5, OneMore
  <2>. QED BY <1>9, <2>6, <2>7 DEF t, c
<1>12. ASSUME NEW a \in IPs PROVE BucketInv(a)'
  <2>1. CASE a = ip
    <3>1. bucket'[a].left <= BucketBurst /\ bucket'[a].at <= edgeTime'
      BY <1>1, <1>3, <1>6, <2>1
    <3>2. ASSUME NEW i \in 1 .. n, admitted'[i][1] = a
          PROVE  /\ admitted'[i][2] <= bucket'[a].at
                 /\ Cardinality(Admissions(a, i, Len(admitted))') + bucket'[a].left
                      <= BucketBurst + BucketRate * (bucket'[a].at - admitted'[i][2])
      <4>1. admitted'[i] = admitted[i] /\ admitted[i][1] = ip /\ Len(admitted') = n + 1
        BY <1>5, <2>1, <3>2
      <4>2. Admissions(a, i, Len(admitted))' = Admissions(ip, i, n + 1)'
        BY <4>1, <2>1 DEF Admissions
      <4>. QED BY <1>6, <1>11, <2>1, <4>1, <4>2
    <3>3. /\ admitted'[n + 1][2] = edgeTime
          /\ Cardinality(Admissions(a, n + 1, Len(admitted))') = 1
      <4>1. Admissions(a, n + 1, Len(admitted))' = Admissions(ip, n + 1, n + 1)'
        BY <1>5, <2>1 DEF Admissions
      <4>. QED BY <1>5, <1>10, <4>1
    <3>4. /\ admitted'[n + 1][2] <= bucket'[a].at
          /\ Cardinality(Admissions(a, n + 1, Len(admitted))') + bucket'[a].left
               <= BucketBurst + BucketRate * (bucket'[a].at - admitted'[n + 1][2])
      <4>1. BucketRate * (edgeTime - edgeTime) = 0
        BY <1>1
      <4>. QED BY <1>1, <1>3, <1>6, <2>1, <3>3, <4>1
    <3>. QED BY <1>5, <3>1, <3>2, <3>4 DEF BucketInv
  <2>2. CASE a # ip
    <3>1. bucket'[a] = bucket[a] /\ BucketInv(a)
      BY <1>6, <2>2 DEF EdgesInv
    <3>2. ASSUME NEW i \in 1 .. n, admitted'[i][1] = a
          PROVE  /\ admitted'[i][2] <= bucket'[a].at
                 /\ Cardinality(Admissions(a, i, Len(admitted))') + bucket'[a].left
                      <= BucketBurst + BucketRate * (bucket'[a].at - admitted'[i][2])
      <4>1. admitted'[i] = admitted[i] /\ Len(admitted') = n + 1
        BY <1>5
      <4>2. Admissions(a, i, Len(admitted))' = Admissions(a, i, n)
        <5>1. Admissions(a, i, Len(admitted))' = Admissions(a, i, n + 1)'
          BY <4>1 DEF Admissions
        <5>. QED BY <5>1, <1>9, <2>2
      <4>. QED BY <1>0, <1>5, <3>1, <3>2, <4>1, <4>2 DEF BucketInv
    <3>3. admitted'[n + 1][1] # a
      BY <1>5, <2>2
    <3>. QED BY <1>5, <3>1, <3>2, <3>3 DEF BucketInv
  <2>. QED BY <2>1, <2>2
<1>13. AddressesAreLimited'
  <2>1. ASSUME NEW i \in DOMAIN admitted', NEW j \in DOMAIN admitted', i <= j,
               NEW a, a = admitted'[i][1], a = admitted'[j][1]
        PROVE  Cardinality(Admissions(a, i, j)')
                 <= BucketBurst + BucketRate * (admitted'[j][2] - admitted'[i][2])
    <3>1. CASE i \in 1 .. n /\ j \in 1 .. n
      <4>1. Admissions(a, i, j)' = Admissions(admitted[i][1], i, j)
        BY <1>5, <1>8, <2>1, <3>1
      <4>. QED BY <1>5, <2>1, <3>1, <4>1 DEF EdgesInv, AddressesAreLimited
    <3>2. CASE i \in 1 .. n /\ j = n + 1
      <4>0. admitted'[j] = <<ip, edgeTime>> /\ admitted'[i] = admitted[i]
        BY <1>5, <3>2
      <4>1. admitted'[i] = admitted[i] /\ admitted[i][1] = ip /\ admitted'[j][2] = edgeTime /\ a = ip
        <5>1. admitted'[j][1] = ip /\ admitted'[j][2] = edgeTime
          BY <4>0
        <5>2. a = ip
          BY <2>1, <5>1
        <5>3. admitted[i][1] = a
          BY <2>1, <4>0, Zenon
        <5>. QED BY <4>0, <5>1, <5>2, <5>3
      <4>2. Cardinality(Admissions(ip, i, n + 1)') \in Nat
        BY <1>9, <3>2
      <4>3. BucketRate * (edgeTime - admitted[i][2]) \in Int
        <5>1. BucketRate \in Int /\ edgeTime \in Int /\ admitted[i][2] \in Int
          BY <1>1, <1>7, <3>2
        <5>. QED BY <5>1, Trickles
      <4>4. Cardinality(Admissions(ip, i, n + 1)') + left
              <= BucketBurst + BucketRate * (edgeTime - admitted[i][2])
        BY <1>11, <3>2, <4>1
      <4>5. Cardinality(Admissions(ip, i, n + 1)') <= BucketBurst + BucketRate * (edgeTime - admitted[i][2])
        <5>1. \A x, y, z, B \in Int : x + y <= B + z /\ y >= 0 => x <= B + z
          OBVIOUS
        <5>2. left \in Int /\ left >= 0 /\ BucketBurst \in Int
          BY <1>1, <1>3
        <5>. QED BY <4>2, <4>3, <4>4, <5>1, <5>2
      <4>. QED BY <1>5, <2>1, <3>2, <4>1, <4>5
    <3>3. CASE i = n + 1
      <4>1. j = n + 1
        BY <1>5, <2>1, <3>3
      <4>2. BucketRate * (edgeTime - edgeTime) = 0
        BY <1>1
      <4>. QED BY <1>1, <1>3, <1>5, <1>10, <2>1, <3>3, <4>1, <4>2
    <3>. QED BY <1>5, <2>1, <3>1, <3>2, <3>3
  <2>. QED BY <2>1 DEF AddressesAreLimited, Admissions
<1>. QED BY <1>5, <1>6, <1>12, <1>13

-------------------------------------------------------------------------------
(* A reply about no token, or about the one the call that is decided       *)
(* waits on.                                                               *)
LEMMA ToldKeeps ==
  ASSUME EdgesInv, NEW r \in EdgeRequests, NEW code \in Nat, NEW badge \in Seq(DoorTokens), Told(r, code, badge),
         \/ badge = <<>> /\ decided' = decided
         \/ \E d \in EdgeDecisions : /\ decided' = Append(decided, d)
                                     /\ badge # <<>> => /\ badge = <<TokenOf(d)>> /\ d.handle # 0
                                                        /\ d.agent = AgentOf(r) /\ d.tool = ToolOf(r)
  PROVE  replies' \in Seq(EdgeReplies) /\ ToldInv'
<1>1. replies \in Seq(EdgeReplies) /\ decided \in Seq(EdgeDecisions) /\ ToldInv
  BY DEF EdgesInv, EdgeTypes
<1> DEFINE e == [request |-> r, code |-> code, token |-> badge]
           n == Len(replies)
<1>2. e \in EdgeReplies /\ e.token = badge /\ e.request = r
  BY DEF EdgeReplies
<1>3. replies' = Append(replies, e)
  BY DEF Told
<1> HIDE DEF e
<1>4. /\ replies' \in Seq(EdgeReplies) /\ n \in Nat
      /\ DOMAIN replies = 1 .. n /\ DOMAIN replies' = (1 .. n) \cup {n + 1}
      /\ \A i \in 1 .. n : replies'[i] = replies[i]
      /\ replies'[n + 1] = e
  BY <1>1, <1>2, <1>3, AppendedAt
<1>5. DOMAIN decided \subseteq DOMAIN decided' /\ \A m \in DOMAIN decided : decided'[m] = decided[m]
  <2>1. CASE decided' = decided
    BY <2>1
  <2>2. CASE decided' # decided
    <3>1. PICK d \in EdgeDecisions : decided' = Append(decided, d)
      BY <2>2
    <3>. QED BY <1>1, <3>1, AppendedAt
  <2>. QED BY <2>1, <2>2
<1>6. ASSUME badge # <<>> PROVE \E m \in DOMAIN decided' : ToldBy(e, decided'[m])
  <2>1. PICK d \in EdgeDecisions : /\ decided' = Append(decided, d) /\ badge = <<TokenOf(d)>> /\ d.handle # 0
                                   /\ d.agent = AgentOf(r) /\ d.tool = ToolOf(r)
    BY <1>6
  <2> DEFINE m == Len(decided) + 1
  <2>2. m \in DOMAIN decided' /\ decided'[m] = d
    BY <1>1, <2>1, AppendedAt
  <2> HIDE DEF m
  <2>3. ToldBy(e, d)
    BY <1>2, <2>1 DEF ToldBy
  <2>. QED BY <2>2, <2>3
<1>7. ASSUME NEW i \in DOMAIN replies', replies'[i].token # <<>>
      PROVE  \E m \in DOMAIN decided' : ToldBy(replies'[i], decided'[m])
  <2>1. CASE i \in 1 .. n
    <3>1. replies'[i] = replies[i] /\ i \in DOMAIN replies /\ replies[i].token # <<>>
      BY <1>4, <1>7, <2>1
    <3>2. PICK m \in DOMAIN decided : ToldBy(replies[i], decided[m])
      BY <1>1, <3>1 DEF ToldInv
    <3>. QED BY <1>5, <3>1, <3>2
  <2>2. CASE i = n + 1
    BY <1>2, <1>4, <1>6, <1>7, <2>2
  <2>. QED BY <1>4, <2>1, <2>2
<1>. QED BY <1>4, <1>7 DEF ToldInv, ToldBy, TokenOf

(* Nine more targets at most, and none for a tunnel.                       *)
LEMMA WaysAreShort ==
  ASSUME NEW r \in EdgeRequests, NEW e, NEW way \in Ways(r, e)
  PROVE  /\ Led(way) \in Seq({q.tool : q \in EdgeRequests}) /\ Len(Led(way)) < MostRequests
         /\ r.via = "connect" => Led(way) = <<>>
<1> DEFINE S == {q.tool : q \in EdgeRequests}
           n == Least(Len(way), MostRequests - 1)
<1>1. MostRequests \in Nat \ {0} /\ Redirects \subseteq Seq(S)
  BY EdgesAssumption
<1>2. way \in Seq(S) /\ (r.via = "connect" => way = <<>>)
  <2>1. way \in Redirects \cup {<<>>} /\ (r.via = "connect" => way = <<>>)
    BY DEF Ways
  <2>2. <<>> \in Seq(S)
    OBVIOUS
  <2> HIDE DEF S
  <2>. QED BY <1>1, <2>1, <2>2
<1> HIDE DEF S
<1>3. Len(way) \in Nat /\ n \in Nat /\ n <= Len(way) /\ n < MostRequests /\ (r.via = "connect" => n = 0)
  <2>1. Len(way) \in Nat /\ (r.via = "connect" => Len(way) = 0)
    BY <1>2
  <2>. QED BY <1>1, <2>1 DEF Least
<1> HIDE DEF n
<1>4. SubSeq(way, 1, n) \in Seq(S) /\ Len(SubSeq(way, 1, n)) = n
  BY <1>2, <1>3, SubSeqProperties
<1>5. n = 0 => SubSeq(way, 1, n) = <<>>
  BY <1>4, EmptySeq
<1>. QED BY <1>3, <1>4, <1>5 DEF Led, n, S

(* Nothing is carried that this call's decision does not cover.            *)
LEMMA CarryKeeps ==
  ASSUME EdgesInv, NEW r \in EdgeRequests, NEW e \in EdgeEffects, NEW d \in EdgeDecisions,
         d.via = r.via, d.agent = AgentOf(r), d.target = r.tool, d.effect = e,
         decided' = Append(decided, d), NEW way \in Ways(r, e),
         upstream' = IF Lets(r, e)
                     THEN Append(upstream, [via |-> r.via, agent |-> AgentOf(r), target |-> r.tool, led |-> Led(way)])
                     ELSE upstream
  PROVE  upstream' \in Seq(Carriages) /\ TransfersAreDecided'
<1>1. upstream \in Seq(Carriages) /\ decided \in Seq(EdgeDecisions)
  BY DEF EdgesInv, EdgeTypes
<1>2. PICK m, n : m = Len(upstream) /\ n = Len(decided)
  OBVIOUS
<1> DEFINE u == [via |-> r.via, agent |-> AgentOf(r), target |-> r.tool, led |-> Led(way)]
<1>a. /\ Led(way) \in Seq({q.tool : q \in EdgeRequests}) /\ Len(Led(way)) < MostRequests
      /\ r.via = "connect" => Led(way) = <<>>
  BY WaysAreShort
<1>3. u \in Carriages
  BY <1>a DEF Carriages
<1>4. u.agent = AgentOf(r) /\ u.target = r.tool /\ u.via = r.via /\ u.led = Led(way)
  OBVIOUS
<1>5. Lets(r, e) => upstream' = Append(upstream, u)
  OBVIOUS
<1> HIDE DEF u
<1>6. /\ n \in Nat /\ DOMAIN decided = 1 .. n /\ DOMAIN decided' = (1 .. n) \cup {n + 1}
      /\ \A i \in 1 .. n : decided'[i] = decided[i]
      /\ decided'[n + 1] = d
  BY <1>1, <1>2, AppendedAt
<1>7. m \in Nat /\ DOMAIN upstream = 1 .. m
  BY <1>1, <1>2
<1>8. Lets(r, e) =>
        /\ upstream' \in Seq(Carriages) /\ DOMAIN upstream' = (1 .. m) \cup {m + 1}
        /\ \A i \in 1 .. m : upstream'[i] = upstream[i]
        /\ upstream'[m + 1] = u
  BY <1>1, <1>2, <1>3, <1>5, AppendedAt
<1>9. ASSUME NEW t \in Transfers
      PROVE  Cardinality(Carried(t)') <= Cardinality(LetPass(t)')
  <2>1. Cardinality(Carried(t)) <= Cardinality(LetPass(t))
    BY DEF EdgesInv, TransfersAreDecided
  <2>2. /\ IsFiniteSet(Carried(t)) /\ IsFiniteSet(LetPass(t))
        /\ Carried(t) \subseteq 1 .. m /\ LetPass(t) \subseteq 1 .. n
    <3>1. Carried(t) \subseteq 1 .. m /\ LetPass(t) \subseteq 1 .. n
      BY <1>6, <1>7 DEF Carried, LetPass
    <3>2. IsFiniteSet(1 .. m) /\ IsFiniteSet(1 .. n)
      BY <1>6, <1>7, FS_Interval
    <3>. QED BY <3>1, <3>2, FS_Subset
  <2>3. Cardinality(Carried(t)) \in Nat /\ Cardinality(LetPass(t)) \in Nat
    BY <2>2, FS_CardinalityType
  <2>4. \A i \in 1 .. n : i \in LetPass(t)' <=> i \in LetPass(t)
    BY <1>6 DEF LetPass
  <2> DEFINE Same == t.agent = u.agent /\ t.target = u.target
  <2>5. CASE Lets(r, e) /\ Same
    <3>1. Carried(t)' = Carried(t) \cup {m + 1}
      BY <1>7, <1>8, <2>5 DEF Carried
    <3>2. n + 1 \in LetPass(t)'
      <4>1. d.via \in {"connect", "absolute"} /\ d.effect \in {"PERMIT", "SHADOW"}
        BY <2>5 DEF Lets, Proxies
      <4>2. d.agent = t.agent /\ d.target = t.target
        BY <1>4, <2>5
      <4>. QED BY <1>6, <4>1, <4>2 DEF LetPass
    <3>3. LetPass(t)' = LetPass(t) \cup {n + 1}
      <4>1. LetPass(t)' \subseteq (1 .. n) \cup {n + 1}
        BY <1>6 DEF LetPass
      <4>. QED BY <2>2, <2>4, <3>2, <4>1
    <3>4. m + 1 \notin Carried(t) /\ n + 1 \notin LetPass(t)
      BY <1>6, <1>7, <2>2
    <3>5. /\ Cardinality(Carried(t)') = Cardinality(Carried(t)) + 1
          /\ Cardinality(LetPass(t)') = Cardinality(LetPass(t)) + 1
      BY <2>2, <3>1, <3>3, <3>4, FS_AddElement
    <3>. QED BY <2>1, <2>3, <3>5
  <2>6. CASE ~(Lets(r, e) /\ Same)
    <3>1. Carried(t)' = Carried(t)
      <4>1. CASE Lets(r, e)
        BY <1>7, <1>8, <2>6, <4>1 DEF Carried
      <4>2. CASE ~Lets(r, e)
        <5>1. upstream' = upstream
          BY <4>2
        <5>. QED BY <5>1 DEF Carried
      <4>. QED BY <4>1, <4>2
    <3>2. CASE n + 1 \in LetPass(t)'
      <4>1. LetPass(t)' = LetPass(t) \cup {n + 1}
        <5>1. LetPass(t)' \subseteq (1 .. n) \cup {n + 1}
          BY <1>6 DEF LetPass
        <5>. QED BY <2>2, <2>4, <3>2, <5>1
      <4>2. n + 1 \notin LetPass(t)
        BY <1>6, <2>2
      <4>3. Cardinality(LetPass(t)') = Cardinality(LetPass(t)) + 1
        BY <2>2, <4>1, <4>2, FS_AddElement
      <4>. QED BY <2>1, <2>3, <3>1, <4>3
    <3>3. CASE n + 1 \notin LetPass(t)'
      <4>1. LetPass(t)' \subseteq (1 .. n) \cup {n + 1}
        BY <1>6 DEF LetPass
      <4>2. LetPass(t)' = LetPass(t)
        BY <2>2, <2>4, <3>3, <4>1
      <4>. QED BY <2>1, <3>1, <4>2
    <3>. QED BY <3>2, <3>3
  <2>. QED BY <2>5, <2>6
<1>10. upstream' \in Seq(Carriages)
  BY <1>1, <1>8
<1>11. ASSUME NEW i \in DOMAIN upstream'
       PROVE  Len(upstream'[i].led) < MostRequests /\ (upstream'[i].via = "connect" => upstream'[i].led = <<>>)
  <2>1. CASE i \in 1 .. m
    <3>1. upstream'[i] = upstream[i] /\ i \in DOMAIN upstream
      <4>1. CASE Lets(r, e)
        BY <1>7, <1>8, <2>1, <4>1
      <4>2. CASE ~Lets(r, e)
        BY <1>7, <2>1, <4>2
      <4>. QED BY <4>1, <4>2
    <3>. QED BY <3>1 DEF EdgesInv, TransfersAreDecided
  <2>2. CASE i \notin 1 .. m
    <3>1. Lets(r, e)
      BY <1>7, <1>11, <2>2
    <3>2. upstream'[i] = u
      BY <1>8, <1>11, <2>2, <3>1
    <3>. QED BY <1>4, <1>a, <3>2
  <2>. QED BY <2>1, <2>2
<1>. QED BY <1>9, <1>10, <1>11 DEF TransfersAreDecided, Transfers

(* A decision that waits on no handle changes nothing of those that do;    *)
(* one that waits takes the pending one of its token, or a new one.        *)
LEMMA HandlesKeep ==
  ASSUME EdgesInv, approvals' = approvals, NEW d \in EdgeDecisions, decided' = Append(decided, d),
         \/ d.handle = 0 /\ doorHandles' = doorHandles
         \/ d.handle = HandleOf(TokenOf(d)) /\ doorHandles' = HandlesWith(TokenOf(d)) /\ TokenOf(d) \in DoorTokens
  PROVE  doorHandles' \in Seq(DoorHandles) /\ ApprovalsInv' /\ OnePending' /\ WaitsInv'
<1> DEFINE tok == TokenOf(d)
           fresh == [token |-> tok, status |-> "pending"]
           m == Len(doorHandles)
           n == Len(decided)
<1>1. /\ doorHandles \in Seq(DoorHandles) /\ ApprovalsInv /\ OnePending /\ WaitsInv
      /\ decided \in Seq(EdgeDecisions) /\ approvals \in Seq(DoorVerdicts)
  BY DEF EdgesInv, EdgeTypes
<1>2. /\ n \in Nat /\ DOMAIN decided = 1 .. n /\ DOMAIN decided' = (1 .. n) \cup {n + 1}
      /\ \A i \in 1 .. n : decided'[i] = decided[i]
      /\ decided'[n + 1] = d
  BY <1>1, AppendedAt
<1>3. fresh.token = tok /\ fresh.status = "pending" /\ (tok \in DoorTokens => fresh \in DoorHandles)
  BY DEF DoorHandles
<1>4. m \in Nat /\ DOMAIN doorHandles = 1 .. m
  BY <1>1, LenProperties
<1>5. PendingWith(tok) = {h \in 1 .. m : doorHandles[h] = fresh}
  BY <1>4 DEF PendingWith
<1> HIDE DEF tok, fresh, m, n
<1> DEFINE Added == doorHandles' = Append(doorHandles, fresh) /\ tok \in DoorTokens /\ PendingWith(tok) = {}
<1>6. \/ d.handle = 0 /\ doorHandles' = doorHandles
      \/ d.handle \in PendingWith(tok) /\ doorHandles' = doorHandles
      \/ d.handle = m + 1 /\ Added
  BY DEF HandleOf, HandlesWith, tok, fresh, m
<1>7. /\ doorHandles' \in Seq(DoorHandles) /\ 1 .. m \subseteq DOMAIN doorHandles'
      /\ \A h \in 1 .. m : doorHandles'[h] = doorHandles[h]
      /\ Added => DOMAIN doorHandles' = (1 .. m) \cup {m + 1} /\ doorHandles'[m + 1] = fresh
  <2>1. CASE doorHandles' = doorHandles /\ ~Added
    BY <1>1, <1>4, <2>1
  <2>2. CASE Added
    <3>1. /\ doorHandles' \in Seq(DoorHandles) /\ DOMAIN doorHandles' = (1 .. m) \cup {m + 1}
          /\ \A h \in 1 .. m : doorHandles'[h] = doorHandles[h]
          /\ doorHandles'[m + 1] = fresh
      BY <1>1, <1>3, <2>2, AppendedAt DEF m
    <3>. QED BY <3>1
  <2>. QED BY <1>6, <2>1, <2>2
<1>8. OnePending'
  <2>1. CASE doorHandles' = doorHandles
    BY <1>1, <2>1 DEF OnePending
  <2>2. CASE Added
    <3>1. \A h \in 1 .. m : doorHandles[h] # fresh
      BY <1>5, <2>2
    <3>2. ASSUME NEW h \in DOMAIN doorHandles', NEW k \in DOMAIN doorHandles',
                 doorHandles'[h] = doorHandles'[k], doorHandles'[h].status = "pending"
          PROVE  h = k
      <4>1. CASE h \in 1 .. m /\ k \in 1 .. m
        BY <1>1, <1>4, <1>7, <3>2, <4>1 DEF OnePending
      <4>2. CASE ~(h \in 1 .. m /\ k \in 1 .. m)
        BY <1>7, <2>2, <3>1, <3>2, <4>2
      <4>. QED BY <4>1, <4>2
    <3>. QED BY <3>2 DEF OnePending
  <2>. QED BY <1>6, <2>1, <2>2
<1>9. WaitsInv'
  <2>1. ASSUME NEW i \in DOMAIN decided', decided'[i].handle # 0
        PROVE  /\ decided'[i].handle \in DOMAIN doorHandles'
               /\ doorHandles'[decided'[i].handle].token = TokenOf(decided'[i])
    <3>1. CASE i \in 1 .. n
      <4>1. decided'[i] = decided[i] /\ i \in DOMAIN decided
        BY <1>2, <3>1
      <4>2. decided[i].handle \in 1 .. m /\ doorHandles[decided[i].handle].token = TokenOf(decided[i])
        BY <1>1, <1>4, <2>1, <4>1 DEF WaitsInv
      <4>. QED BY <1>7, <4>1, <4>2
    <3>2. CASE i = n + 1
      <4>1. decided'[i] = d /\ d.handle # 0
        BY <1>2, <2>1, <3>2
      <4>2. d.handle \in DOMAIN doorHandles' /\ doorHandles'[d.handle] = fresh
        BY <1>5, <1>6, <1>7, <4>1
      <4>. QED BY <1>3, <4>1, <4>2 DEF tok
    <3>. QED BY <1>2, <3>1, <3>2
  <2>. QED BY <2>1 DEF WaitsInv, TokenOf
<1>10. ApprovalsInv'
  <2>1. \A a \in DOMAIN approvals :
          /\ approvals[a].handle \in 1 .. m
          /\ doorHandles[approvals[a].handle].status = approvals[a].verdict
          /\ approvals[a].verdict # "pending"
    <3>1. \A a \in DOMAIN approvals : approvals[a] \in DoorVerdicts
      BY <1>1, LenProperties, ElementOfSeq
    <3>2. \A a \in DOMAIN approvals : approvals[a].verdict # "pending"
      BY <3>1 DEF DoorVerdicts
    <3>. QED BY <1>1, <1>4, <3>2 DEF ApprovalsInv, ApprovalsStand
  <2>2. \A a \in DOMAIN approvals : d.handle # approvals[a].handle
    <3>1. CASE d.handle \in PendingWith(tok)
      BY <1>3, <1>5, <2>1, <3>1
    <3>2. CASE d.handle = 0 \/ d.handle = m + 1
      BY <1>4, <2>1, <3>2
    <3>. QED BY <1>6, <3>1, <3>2
  <2>3. \A a \in DOMAIN approvals', i \in DOMAIN decided' :
          decided'[i].handle = approvals'[a].handle => i <= approvals'[a].after
    BY <1>1, <1>2, <2>2 DEF ApprovalsInv, ApprovalsStand
  <2>4. \A a \in DOMAIN approvals : /\ approvals[a].handle \in DOMAIN doorHandles'
                                   /\ doorHandles'[approvals[a].handle].status = approvals[a].verdict
    BY <1>7, <2>1
  <2>5. \A a, b \in DOMAIN approvals : approvals[a].handle = approvals[b].handle => a = b
    BY <1>1 DEF ApprovalsInv, ApprovalsStand
  <2>. QED BY <2>3, <2>4, <2>5 DEF ApprovalsInv, ApprovalsStand
<1>. QED BY <1>7, <1>8, <1>9, <1>10

(* A call that is decided, and its answer.                                 *)
LEMMA GovernKeeps ==
  ASSUME EdgesInv, NEW r \in EdgeRequests, Govern(r), approvals' = approvals
  PROVE  /\ doorHandles' \in Seq(DoorHandles)
         /\ replies' \in Seq(EdgeReplies) /\ upstream' \in Seq(Carriages)
         /\ decided' \in Seq(EdgeDecisions)
         /\ ApprovalsInv' /\ OnePending' /\ WaitsInv' /\ ToldInv' /\ TransfersAreDecided' /\ SessionsInv'
<1> DEFINE tok == TokenHash[<<CallOf(r), ToolOf(r)>>]
           D(e, h) == [via |-> r.via, agent |-> AgentOf(r), session |-> SessionOf(r), tool |-> ToolOf(r),
                       target |-> r.tool, effect |-> e, call |-> CallOf(r), handle |-> h]
<1>0. decided \in Seq(EdgeDecisions) /\ doorHandles \in Seq(DoorHandles) /\ Len(decided) \in Nat
  BY DEF EdgesInv, EdgeTypes
<1>a. CallOf(r) \in CallIds /\ tok \in DoorTokens
  <2>0. Len(decided) + 1 \in Nat /\ r.call \in {x.call : x \in EdgeRequests}
    BY <1>0
  <2>1. CallOf(r) \in CallIds
    <3> DEFINE cs == {x.call : x \in EdgeRequests}
               L == Len(decided) + 1
    <3>1. r.call \in cs /\ L \in Nat
      BY <2>0
    <3>2. CallIds = (cs \cup {""}) \X Nat
      BY DEF CallIds
    <3>3. CallOf(r) = IF r.via \in {"authorize", "function"} /\ r.call # "" THEN <<r.call, 0>> ELSE <<"", L>>
      BY DEF CallOf
    <3> HIDE DEF cs, L
    <3>4. <<r.call, 0>> \in (cs \cup {""}) \X Nat /\ <<"", L>> \in (cs \cup {""}) \X Nat
      BY <3>1
    <3>. QED BY <3>2, <3>3, <3>4
  <2>. QED BY <2>1 DEF DoorTokens
<1>b. HandleOf(tok) \in Nat \ {0}
  <2>1. Len(doorHandles) \in Nat /\ DOMAIN doorHandles = 1 .. Len(doorHandles)
    BY <1>0, LenProperties
  <2> HIDE DEF tok
  <2>2. PendingWith(tok) \in SUBSET (1 .. Len(doorHandles))
    BY <2>1 DEF PendingWith
  <2>. QED BY <2>1, <2>2 DEF HandleOf
<1> DEFINE G(e, way, waits) ==
             /\ decided' = Append(decided, D(e, IF waits THEN HandleOf(tok) ELSE 0))
             /\ doorHandles' = IF waits THEN HandlesWith(tok) ELSE doorHandles
             /\ upstream' = IF Lets(r, e)
                              THEN Append(upstream, [via |-> r.via, agent |-> AgentOf(r), target |-> r.tool, led |-> Led(way)])
                              ELSE upstream
             /\ IF ~Proxies(r) THEN Told(r, 200, IF waits THEN <<tok>> ELSE <<>>)
                ELSE \E code \in Codes(r, e, way) : Told(r, code, <<>>)
<1>f. PICK e \in EdgeEffects : \E way \in Ways(r, e) : \E waits \in BOOLEAN : G(e, way, waits)
  BY Zenon DEF Govern
<1>g. PICK way \in Ways(r, e) : \E waits \in BOOLEAN : G(e, way, waits)
  BY <1>f
<1>h. PICK waits \in BOOLEAN : G(e, way, waits)
  BY <1>g
<1>1. /\ decided' = Append(decided, D(e, IF waits THEN HandleOf(tok) ELSE 0))
      /\ doorHandles' = IF waits THEN HandlesWith(tok) ELSE doorHandles
      /\ upstream' = IF Lets(r, e)
                       THEN Append(upstream, [via |-> r.via, agent |-> AgentOf(r), target |-> r.tool, led |-> Led(way)])
                       ELSE upstream
      /\ IF ~Proxies(r) THEN Told(r, 200, IF waits THEN <<tok>> ELSE <<>>)
         ELSE \E code \in Codes(r, e, way) : Told(r, code, <<>>)
  BY <1>h
<1> DEFINE h == IF waits THEN HandleOf(tok) ELSE 0
           d == D(e, h)
<1>2. h \in Nat /\ (waits => h = HandleOf(tok) /\ h # 0) /\ (~waits => h = 0)
  <2> HIDE DEF tok
  <2>. QED BY <1>b
<1> HIDE DEF h
<1>3. /\ d \in EdgeDecisions /\ d.via = r.via /\ d.agent = AgentOf(r) /\ d.target = r.tool
      /\ d.effect = e /\ d.session = SessionOf(r) /\ d.tool = ToolOf(r) /\ d.handle = h /\ TokenOf(d) = tok
  BY <1>a, <1>2 DEF EdgeDecisions, TokenOf
<1>4. decided' = Append(decided, d)
  BY <1>1 DEF h
<1> HIDE DEF d
<1>5. upstream' \in Seq(Carriages) /\ TransfersAreDecided'
  BY <1>1, <1>3, <1>4, CarryKeeps
<1>6. doorHandles' \in Seq(DoorHandles) /\ ApprovalsInv' /\ OnePending' /\ WaitsInv'
  <2>1. \/ d.handle = 0 /\ doorHandles' = doorHandles
        \/ d.handle = HandleOf(TokenOf(d)) /\ doorHandles' = HandlesWith(TokenOf(d)) /\ TokenOf(d) \in DoorTokens
    <3> HIDE DEF tok
    <3>. QED BY <1>a, <1>1, <1>2, <1>3
  <2>. QED BY <1>3, <1>4, <2>1, HandlesKeep
<1>7. replies' \in Seq(EdgeReplies) /\ ToldInv'
  <2>1. PICK code \in Nat, badge \in Seq(DoorTokens) :
          Told(r, code, badge) /\ (badge # <<>> => badge = <<tok>> /\ h # 0)
    <3> HIDE DEF tok
    <3>1. CASE ~Proxies(r)
      <4>1. CASE waits
        <5>1. Told(r, 200, <<tok>>) /\ <<tok>> \in Seq(DoorTokens) /\ h # 0
          BY <1>a, <1>1, <1>2, <3>1, <4>1
        <5>. QED BY <5>1
      <4>2. CASE ~waits
        <5>1. Told(r, 200, <<>>) /\ <<>> \in Seq(DoorTokens)
          BY <1>1, <3>1, <4>2
        <5>. QED BY <5>1
      <4>. QED BY <4>1, <4>2
    <3>2. CASE Proxies(r)
      <4>1. PICK code \in Codes(r, e, way) : Told(r, code, <<>>)
        BY <1>1, <3>2
      <4>2. code \in Nat /\ <<>> \in Seq(DoorTokens)
        BY DEF Codes
      <4>. QED BY <4>1, <4>2
    <3>. QED BY <3>1, <3>2
  <2>2. badge # <<>> => badge = <<TokenOf(d)>> /\ d.handle # 0 /\ d.agent = AgentOf(r) /\ d.tool = ToolOf(r)
    <3> HIDE DEF tok
    <3>. QED BY <1>3, <2>1
  <2>. QED BY <1>3, <1>4, <2>1, <2>2, ToldKeeps
<1>8. decided' \in Seq(EdgeDecisions) /\ SessionsInv'
  <2>1. /\ decided' \in Seq(EdgeDecisions)
        /\ DOMAIN decided = 1 .. Len(decided) /\ DOMAIN decided' = (1 .. Len(decided)) \cup {Len(decided) + 1}
        /\ \A i \in 1 .. Len(decided) : decided'[i] = decided[i]
        /\ decided'[Len(decided) + 1] = d
    BY <1>0, <1>3, <1>4, AppendedAt
  <2>2. /\ d.via = "connect" => d.session[2] = "proxy-connect"
        /\ d.via = "absolute" => d.session[2] = "proxy-http"
    <3>1. ASSUME r.via = "connect" PROVE SessionOf(r) = <<AgentOf(r), "proxy-connect">>
      BY <3>1 DEF SessionOf
    <3>2. ASSUME r.via = "absolute" PROVE SessionOf(r) = <<AgentOf(r), "proxy-http">>
      BY <3>2 DEF SessionOf
    <3>. QED BY <1>3, <3>1, <3>2
  <2>. QED BY <2>1, <2>2 DEF SessionsInv, EdgesInv
<1>. QED BY <1>5, <1>6, <1>7, <1>8

LEMMA ArriveKeeps ==
  ASSUME EdgesInv, NEW ip \in IPs, NEW r \in EdgeRequests, Arrive(ip, r)
  PROVE  EdgesInv'
<1>1. edgeTime' = edgeTime /\ approvals' = approvals
  BY DEF Arrive
<1>2. /\ bucket' \in [IPs -> [left : Nat, at : Int]] /\ admitted' \in Seq(IPs \X Nat)
      /\ AddressesAreLimited' /\ \A a \in IPs : BucketInv(a)'
  <2>1. CASE UNCHANGED <<bucket, admitted>>
    BY <1>1, <2>1 DEF EdgesInv, EdgeTypes, AddressesAreLimited, BucketInv, Admissions
  <2>2. CASE Filled(ip) >= 1 /\ Take(ip)
    BY <1>1, <2>2, TakeKeeps
  <2>3. Filled(ip) \in Int
    BY FilledBounds
  <2>. QED BY <2>1, <2>2, <2>3 DEF Arrive
<1>3. /\ doorHandles' \in Seq(DoorHandles)
      /\ replies' \in Seq(EdgeReplies) /\ upstream' \in Seq(Carriages)
      /\ decided' \in Seq(EdgeDecisions)
      /\ ApprovalsInv' /\ OnePending' /\ WaitsInv' /\ ToldInv' /\ TransfersAreDecided' /\ SessionsInv'
  <2>1. CASE Govern(r)
    BY <1>1, <2>1, GovernKeeps
  <2>2. CASE \E code \in {400, 404, 429} : EdgeRefused(r, code)
    <3>1. PICK code \in Nat : EdgeRefused(r, code)
      BY <2>2
    <3>2. Told(r, code, <<>>) /\ decided' = decided /\ upstream' = upstream /\ doorHandles' = doorHandles
      BY <3>1 DEF EdgeRefused, NothingDecided
    <3>3. replies' \in Seq(EdgeReplies) /\ ToldInv'
      <4>1. <<>> \in Seq(DoorTokens)
        OBVIOUS
      <4>. QED BY <3>2, <4>1, ToldKeeps
    <3>4. doorHandles' \in Seq(DoorHandles) /\ ApprovalsInv' /\ OnePending' /\ WaitsInv' /\ SessionsInv'
      BY <1>1, <3>2 DEF EdgesInv, EdgeTypes, ApprovalsInv, ApprovalsStand, OnePending, WaitsInv, TokenOf, SessionsInv
    <3>5. upstream' \in Seq(Carriages) /\ decided' \in Seq(EdgeDecisions) /\ TransfersAreDecided'
      BY <3>2 DEF EdgesInv, EdgeTypes, TransfersAreDecided, Carried, LetPass, Transfers
    <3>. QED BY <3>3, <3>4, <3>5
  <2>. QED BY <2>1, <2>2 DEF Arrive
<1>. QED BY <1>1, <1>2, <1>3 DEF EdgesInv, EdgeTypes

LEMMA TickKeeps ==
  ASSUME EdgesInv, EdgeTick
  PROVE  EdgesInv'
<1>1. /\ edgeTime' = edgeTime + 1 /\ edgeTime \in Nat
      /\ UNCHANGED <<bucket, decided, upstream, replies, doorHandles, approvals, admitted>>
  BY DEF EdgeTick, EdgesInv, EdgeTypes
<1>2. bucket \in [IPs -> [left : Nat, at : Int]]
  BY DEF EdgesInv, EdgeTypes
<1>3. ASSUME NEW ip \in IPs PROVE BucketInv(ip)'
  BY <1>1, <1>2 DEF EdgesInv, BucketInv, Admissions
<1>4. AddressesAreLimited'
  BY <1>1 DEF EdgesInv, AddressesAreLimited, Admissions
<1>5. ApprovalsInv' /\ OnePending' /\ WaitsInv' /\ ToldInv' /\ SessionsInv'
  BY <1>1 DEF EdgesInv, ApprovalsInv, ApprovalsStand, OnePending, WaitsInv, ToldInv, ToldBy, TokenOf, SessionsInv
<1>6. TransfersAreDecided'
  BY <1>1 DEF EdgesInv, TransfersAreDecided, Carried, LetPass, Transfers
<1>7. EdgeTypes'
  <2>1. edgeTime' \in Nat
    BY <1>1
  <2>. QED BY <1>1, <2>1 DEF EdgesInv, EdgeTypes
<1>. QED BY <1>3, <1>4, <1>5, <1>6, <1>7 DEF EdgesInv

(* A handle that is decided was pending, so no verdict named it.           *)
LEMMA DecideKeeps ==
  ASSUME EdgesInv, NEW t \in DOMAIN doorHandles, doorHandles[t].status = "pending",
         NEW s \in {"approved", "denied", "expired"}, doorHandles' = [doorHandles EXCEPT ![t].status = s],
         \/ approvals' = approvals
         \/ /\ s \in {"approved", "denied"}
            /\ approvals' = Append(approvals, [handle |-> t, verdict |-> s, after |-> Len(decided)]),
         UNCHANGED <<edgeTime, bucket, decided, upstream, replies, admitted>>
  PROVE  EdgesInv'
<1>1. /\ doorHandles \in Seq(DoorHandles) /\ approvals \in Seq(DoorVerdicts) /\ ApprovalsInv /\ OnePending /\ WaitsInv
      /\ decided \in Seq(EdgeDecisions)
  BY DEF EdgesInv, EdgeTypes
<1> DEFINE new == [doorHandles[t] EXCEPT !.status = s]
<1>2. /\ doorHandles' \in Seq(DoorHandles) /\ DOMAIN doorHandles' = DOMAIN doorHandles
      /\ t \in Nat /\ doorHandles'[t].status = s /\ doorHandles'[t].token = doorHandles[t].token
      /\ \A x \in DOMAIN doorHandles \ {t} : doorHandles'[x] = doorHandles[x]
  <2>1. DOMAIN doorHandles = 1 .. Len(doorHandles) /\ Len(doorHandles) \in Nat
    BY <1>1, LenProperties
  <2>2. doorHandles[t] \in DoorHandles
    BY <1>1, <2>1, ElementOfSeq
  <2>3. new \in DoorHandles /\ new.status = s /\ new.token = doorHandles[t].token
    BY <2>2 DEF DoorHandles
  <2>4. doorHandles' = [doorHandles EXCEPT ![t] = new]
    OBVIOUS
  <2> HIDE DEF new
  <2>a. doorHandles' \in Seq(DoorHandles)
    <3>1. t \in 1 .. Len(doorHandles)
      BY <2>1
    <3>2. [doorHandles EXCEPT ![t] = new] \in Seq(DoorHandles)
      BY <1>1, <3>1, <2>3, ExceptSeq
    <3>. QED BY <2>4, <3>2
  <2>5. /\ doorHandles' \in Seq(DoorHandles) /\ DOMAIN doorHandles' = DOMAIN doorHandles
        /\ doorHandles'[t] = new /\ \A x \in DOMAIN doorHandles \ {t} : doorHandles'[x] = doorHandles[x]
    BY <2>a, <2>1, <2>4
  <2>. QED BY <2>1, <2>3, <2>5
<1> HIDE DEF new
<1> DEFINE n == Len(approvals)
<1>3. n \in Nat /\ DOMAIN approvals = 1 .. n /\ Len(decided) \in Nat /\ DOMAIN decided = 1 .. Len(decided)
  BY <1>1, LenProperties
<1>4. \A i \in 1 .. n :
        /\ approvals[i].handle \in DOMAIN doorHandles
        /\ approvals[i].verdict \in {"approved", "denied"}
        /\ doorHandles[approvals[i].handle].status = approvals[i].verdict
  <2>1. \A i \in 1 .. n : approvals[i] \in DoorVerdicts
    BY <1>1, <1>3, ElementOfSeq
  <2>. QED BY <1>1, <1>3, <2>1 DEF ApprovalsInv, ApprovalsStand, DoorVerdicts
<1>5. \A i \in 1 .. n : /\ approvals[i].handle # t
                        /\ approvals[i].handle \in DOMAIN doorHandles'
                        /\ doorHandles'[approvals[i].handle].status = approvals[i].verdict
  BY <1>2, <1>4
<1>a. /\ \A a, b \in 1 .. n : approvals[a].handle = approvals[b].handle => a = b
      /\ \A a \in 1 .. n, i \in DOMAIN decided : decided[i].handle = approvals[a].handle => i <= approvals[a].after
  BY <1>1, <1>3 DEF ApprovalsInv, ApprovalsStand
<1>6. approvals' \in Seq(DoorVerdicts) /\ ApprovalsInv'
  <2>1. CASE approvals' = approvals
    BY <1>1, <1>3, <1>5, <1>a, <2>1 DEF ApprovalsInv, ApprovalsStand
  <2>2. CASE approvals' # approvals
    <3> DEFINE v == [handle |-> t, verdict |-> s, after |-> Len(decided)]
    <3>1. approvals' = Append(approvals, v) /\ s \in {"approved", "denied"}
      BY <2>2
    <3>2. v \in DoorVerdicts /\ v.handle = t /\ v.verdict = s /\ v.after = Len(decided)
      BY <1>2, <1>3, <3>1 DEF DoorVerdicts
    <3> HIDE DEF v
    <3>3. /\ approvals' \in Seq(DoorVerdicts) /\ DOMAIN approvals' = (1 .. n) \cup {n + 1}
          /\ \A i \in 1 .. n : approvals'[i] = approvals[i]
          /\ approvals'[n + 1] = v
      BY <1>1, <3>1, <3>2, AppendedAt
    <3> HIDE DEF n
    <3>5. ASSUME NEW i \in DOMAIN approvals'
          PROVE  /\ approvals'[i].handle \in DOMAIN doorHandles'
                 /\ doorHandles'[approvals'[i].handle].status = approvals'[i].verdict
                 /\ \A k \in DOMAIN decided : decided[k].handle = approvals'[i].handle => k <= approvals'[i].after
      <4>1. CASE i \in 1 .. n
        BY <1>5, <1>a, <3>3, <4>1
      <4>2. CASE i = n + 1
        BY <1>2, <1>3, <3>2, <3>3, <4>2
      <4>. QED BY <3>3, <4>1, <4>2
    <3>6. ASSUME NEW i \in DOMAIN approvals', NEW j \in DOMAIN approvals', approvals'[i].handle = approvals'[j].handle
          PROVE  i = j
      <4>1. CASE i \in 1 .. n /\ j \in 1 .. n
        BY <1>a, <3>3, <3>6, <4>1
      <4>2. CASE ~(i \in 1 .. n /\ j \in 1 .. n)
        BY <1>5, <3>2, <3>3, <3>6, <4>2
      <4>. QED BY <4>1, <4>2
    <3>. QED BY <3>3, <3>5, <3>6 DEF ApprovalsInv, ApprovalsStand
  <2>. QED BY <2>1, <2>2
<1>7. OnePending' /\ WaitsInv' /\ ToldInv'
  <2>1. OnePending'
    <3>1. ASSUME NEW h \in DOMAIN doorHandles', NEW k \in DOMAIN doorHandles',
                 doorHandles'[h] = doorHandles'[k], doorHandles'[h].status = "pending"
          PROVE  h = k
      <4>1. h # t /\ k # t
        BY <1>2, <3>1
      <4>. QED BY <1>1, <1>2, <3>1, <4>1 DEF OnePending
    <3>. QED BY <3>1 DEF OnePending
  <2>2. WaitsInv'
    <3>1. \A h \in DOMAIN doorHandles : doorHandles'[h].token = doorHandles[h].token
      BY <1>2
    <3>. QED BY <1>1, <1>2, <3>1 DEF WaitsInv, TokenOf
  <2>3. ToldInv'
    BY DEF EdgesInv, ToldInv, ToldBy, TokenOf
  <2>. QED BY <2>1, <2>2, <2>3
<1>8. AddressesAreLimited' /\ \A ip \in IPs : BucketInv(ip)'
  BY DEF EdgesInv, AddressesAreLimited, BucketInv, Admissions
<1>9. TransfersAreDecided' /\ SessionsInv'
  BY DEF EdgesInv, TransfersAreDecided, Carried, LetPass, Transfers, SessionsInv
<1>10. EdgeTypes'
  BY <1>2, <1>6 DEF EdgesInv, EdgeTypes
<1>. QED BY <1>6, <1>7, <1>8, <1>9, <1>10 DEF EdgesInv

LEMMA EdgesStep == EdgesInv /\ [EdgesNext]_edgeVars => EdgesInv'
<1>. SUFFICES ASSUME EdgesInv, [EdgesNext]_edgeVars PROVE EdgesInv'
  OBVIOUS
<1>1. ASSUME NEW ip \in IPs, NEW r \in EdgeRequests, Arrive(ip, r) PROVE EdgesInv'
  BY <1>1, ArriveKeeps
<1>2. ASSUME EdgeTick PROVE EdgesInv'
  BY <1>2, TickKeeps
<1>3. ASSUME NEW t \in DOMAIN doorHandles, NEW verdict \in {"approved", "denied"}, Approve(t, verdict) PROVE EdgesInv'
  <2>1. verdict \in {"approved", "denied", "expired"}
    OBVIOUS
  <2>. QED BY <1>3, <2>1, DecideKeeps DEF Approve
<1>4. ASSUME NEW t \in DOMAIN doorHandles, ExpireToken(t) PROVE EdgesInv'
  BY <1>4, DecideKeeps DEF ExpireToken
<1>5. ASSUME UNCHANGED edgeVars PROVE EdgesInv'
  <2>1. AddressesAreLimited' /\ \A ip \in IPs : BucketInv(ip)'
    BY <1>5 DEF edgeVars, EdgesInv, AddressesAreLimited, BucketInv, Admissions
  <2>2. TransfersAreDecided' /\ SessionsInv'
    BY <1>5 DEF edgeVars, EdgesInv, TransfersAreDecided, Carried, LetPass, Transfers, SessionsInv
  <2>3. ApprovalsInv' /\ OnePending' /\ WaitsInv' /\ ToldInv'
    BY <1>5 DEF edgeVars, EdgesInv, ApprovalsInv, ApprovalsStand, OnePending, WaitsInv, ToldInv, ToldBy, TokenOf
  <2>. QED BY <1>5, <2>1, <2>2, <2>3 DEF edgeVars, EdgesInv, EdgeTypes
<1>. QED BY <1>1, <1>2, <1>3, <1>4, <1>5 DEF EdgesNext

LEMMA EdgesAreSafe == EdgesInv => EdgesHold
<1>. SUFFICES ASSUME EdgesInv PROVE EdgesHold
  OBVIOUS
<1>1. SessionsAreApart
  <2>1. "proxy-connect" # "proxy-http"
    OBVIOUS
  <2>. QED BY <2>1 DEF EdgesInv, SessionsInv, SessionsAreApart
<1>2. TokensAreTheirs
  <2>1. \A m, n \in DOMAIN decided : decided[m].handle # 0 /\ decided[m].handle = decided[n].handle =>
          TokenOf(decided[m]) = TokenOf(decided[n])
    BY DEF EdgesInv, WaitsInv
  <2>2. ASSUME NEW i \in DOMAIN replies, replies[i].token # <<>>
        PROVE  \E n \in DOMAIN decided :
                 /\ decided[n].agent = AgentOf(replies[i].request) /\ decided[n].tool = ToolOf(replies[i].request)
                 /\ decided[n].handle # 0 /\ replies[i].token = <<doorHandles[decided[n].handle].token>>
    <3>1. PICK n \in DOMAIN decided : ToldBy(replies[i], decided[n])
      BY <2>2 DEF EdgesInv, ToldInv
    <3>. QED BY <3>1 DEF ToldBy, EdgesInv, WaitsInv
  <2>. QED BY <2>1, <2>2 DEF TokensAreTheirs, EdgesInv, OnePending
<1>. QED BY <1>1, <1>2 DEF EdgesInv, EdgesHold, ApprovalsInv

(* The doors, for any addresses, requests, options and limits: a transfer  *)
(* begins only with a decision that let it pass, and is led on to nine     *)
(* targets more at most (connect.go, forward_http.go); no address gets     *)
(* more requests past the limiter, over all doors, than a full bucket and  *)
(* what trickled in (server.go, allowIP); an approval that was             *)
(* acknowledged stands, and covers no call made after it (handleApprove,   *)
(* DeferWithToken); calls wait on one handle only when their ids and tools *)
(* make one token, and a caller is told a token its calls wait on; calls   *)
(* by CONNECT and by forwarding never share a session.                     *)
THEOREM DoorsAreKept == EdgesSpec => []EdgesHold
  BY EdgesBegin, EdgesStep, EdgesAreSafe, PTL DEF EdgesSpec
===============================================================================
