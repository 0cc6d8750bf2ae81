--------------------------- MODULE AuditChainProofs ---------------------------
(***************************************************************************)
(* Proofs about AuditChain for any number of agents, workers, calls and    *)
(* crashes. The first four theorems allow every write fault and every tear *)
(* a crash may leave; the later ones say which of them they exclude.       *)
(***************************************************************************)
EXTENDS AuditChain, SequenceTheorems, FiniteSetTheorems, TLAPS

-------------------------------------------------------------------------------
(* The inductive invariant *)

(* A worker past Evaluate's entry carries a call; past buildRecord, a record. *)
JobInv ==
    \A w \in Workers :
        /\ pc[w] # "idle" => job[w].agent \in Agents
        /\ pc[w] \notin {"idle", "called"} => job[w].rec \in Records

(* WAL.mu is held exactly by the worker that is between the header and the *)
(* end of the fsync, and the frame it is writing is the last of the file.  *)
LockInv ==
    \A w \in Workers :
        /\ pc[w] \in {"payload", "sync"} => walMu = w /\ synced < Len(file)
        /\ pc[w] = "payload" => file[Len(file)] = Frame(job[w].rec, "payload")
        /\ pc[w] = "sync" => file[Len(file)] = Frame(job[w].rec, "full")

(* A record Write accepted in this run of the daemon is a synced frame. *)
LoggedInv ==
    \A r \in logged : r > base => \E i \in 1 .. synced : file[i] = Frame(r, "full")

(* What follows the WAL write handles accepted records only. *)
AcceptedInv ==
    /\ answered \subseteq logged
    /\ \A w \in Workers : pc[w] \in {"logged", "replicated"} => job[w].rec \in logged

(* The cache names a record no older than any of this run, and a record's  *)
(* predecessor is older than it.                                           *)
TailInv ==
    \A j \in base + 1 .. Len(built) :
        /\ built[j].prev < j
        /\ j <= tail[built[j].agent]

(* When the daemon is down every worker is idle and nothing is in flight. *)
DownInv ==
    ~up => /\ \A w \in Workers : pc[w] = "idle"
           /\ walMu = None

IInv ==
    /\ TypeOK /\ JobInv /\ LockInv /\ LoggedInv /\ AcceptedInv
    /\ StoreIsAudited /\ (up => TailInv) /\ NoForkWithinRun /\ DownInv

-------------------------------------------------------------------------------
(* Types *)

(* A crash keeps the synced frames, and leaves no frame that was not there. *)
LEMMA CrashImageType ==
    ASSUME WalTypes, NEW f \in CrashImages
    PROVE  /\ f \in Seq([rec : Records, part : Parts])
           /\ synced <= Len(f)
           /\ \A i \in 1 .. synced : f[i] = file[i]
<1> DEFINE T == [rec : Records, part : Parts]
<1>1. /\ file \in Seq(T)
      /\ synced \in 0 .. Len(file)
      /\ Tears \subseteq Parts
  BY ChainAssumption DEF WalTypes, Parts
<1>2. ASSUME NEW k \in 0 .. Len(file)
      PROVE  /\ SubSeq(file, 1, k) \in Seq(T)
             /\ Len(SubSeq(file, 1, k)) = k
             /\ \A i \in 1 .. k : SubSeq(file, 1, k)[i] = file[i]
  <2> HIDE DEF T
  <2> QED BY <1>1, SubSeqProperties
<1>3. CASE \E k \in synced .. Len(file) : f = SubSeq(file, 1, k)
  <2>1. PICK k \in synced .. Len(file) : f = SubSeq(file, 1, k)
    BY <1>3
  <2> HIDE DEF T
  <2>2. k \in 0 .. Len(file)
    BY <1>1
  <2>3. f \in Seq(T) /\ Len(f) = k /\ \A i \in 1 .. k : f[i] = file[i]
    BY <2>1, <2>2, <1>2
  <2> QED
    BY <1>1, <2>3 DEF T
<1>4. CASE \E k \in synced + 1 .. Len(file) : \E t \in Tears :
             f = Append(SubSeq(file, 1, k - 1), Frame(file[k].rec, t))
  <2>1. PICK k \in synced + 1 .. Len(file), t \in Tears :
              f = Append(SubSeq(file, 1, k - 1), Frame(file[k].rec, t))
    BY <1>4
  <2> DEFINE g == SubSeq(file, 1, k - 1)
  <2>2. k \in 1 .. Len(file)
    BY <1>1
  <2>3. file[k] \in T
    <3> HIDE DEF T
    <3> QED BY <1>1, <2>2, ElementOfSeq
  <2>4. Frame(file[k].rec, t) \in T
    BY <1>1, <2>3 DEF Frame
  <2>5. g \in Seq(T) /\ Len(g) = k - 1 /\ \A i \in 1 .. k - 1 : g[i] = file[i]
    BY <1>1, <1>2, <2>2
  <2> HIDE DEF T, g
  <2>6. f \in Seq(T) /\ Len(f) = k /\ \A i \in 1 .. k - 1 : f[i] = g[i]
    BY <2>1, <2>2, <2>4, <2>5, AppendProperties DEF g
  <2>7. synced <= Len(f) /\ \A i \in 1 .. synced : f[i] = file[i]
    BY <1>1, <2>5, <2>6
  <2> QED
    BY <2>6, <2>7 DEF T
<1>5. \/ f \in {SubSeq(file, 1, k) : k \in synced .. Len(file)}
      \/ \E k \in synced + 1 .. Len(file) :
           f \in {Append(SubSeq(file, 1, k - 1), Frame(file[k].rec, t)) : t \in CanTear(file[k])}
  BY Zenon DEF CrashImages
<1>6. \A k \in synced + 1 .. Len(file) : CanTear(file[k]) \subseteq Tears
  BY DEF CanTear
<1> QED
  BY <1>3, <1>4, <1>5, <1>6

LEMMA TypeInit == Init => TypeOK
<1> SUFFICES ASSUME Init PROVE TypeOK
  OBVIOUS
<1> USE ChainAssumption DEF Init
<1>1. LifeTypes
  BY DEF LifeTypes
<1>2. ChainTypes
  BY DEF ChainTypes
<1>3. ProcTypes
  BY DEF ProcTypes, Idle, Steps
<1>4. WalTypes
  BY DEF WalTypes
<1>5. StoreTypes
  BY DEF StoreTypes
<1> QED
  BY <1>1, <1>2, <1>3, <1>4, <1>5 DEF TypeOK

LEMMA LifeTypesStep ==
    ASSUME LifeTypes, Next
    PROVE  LifeTypes'
<1> USE DEF LifeTypes, lifeVars
<1>1. ASSUME NEW w \in Workers, NEW a \in Agents, Call(w, a)
      PROVE  LifeTypes'
  BY <1>1 DEF Call
<1>2. ASSUME NEW w \in Workers, BuildRecord(w)
      PROVE  LifeTypes'
  BY <1>2 DEF BuildRecord
<1>3. ASSUME NEW w \in Workers, WriteHeader(w)
      PROVE  LifeTypes'
  BY <1>3 DEF WriteHeader
<1>4. ASSUME NEW w \in Workers, WritePayload(w)
      PROVE  LifeTypes'
  BY <1>4 DEF WritePayload
<1>5. ASSUME NEW w \in Workers, Sync(w)
      PROVE  LifeTypes'
  BY <1>5 DEF Sync
<1>6. ASSUME NEW w \in Workers, HeaderFails(w)
      PROVE  LifeTypes'
  BY <1>6 DEF HeaderFails
<1>7. ASSUME NEW w \in Workers, PayloadOrSyncFails(w)
      PROVE  LifeTypes'
  BY <1>7 DEF PayloadOrSyncFails
<1>8. ASSUME NEW w \in Workers, Deny(w)
      PROVE  LifeTypes'
  BY <1>8 DEF Deny
<1>9. ASSUME NEW w \in Workers, Replicate(w)
      PROVE  LifeTypes'
  BY <1>9 DEF Replicate
<1>10. ASSUME NEW w \in Workers, Answer(w)
      PROVE  LifeTypes'
  BY <1>10 DEF Answer
<1>11. CASE QueueTake
  BY <1>11 DEF QueueTake
<1>12. CASE QueueSave
  BY <1>12 DEF QueueSave
<1>13. ASSUME NEW r \in saving, FallbackSave(r)
      PROVE  LifeTypes'
  BY <1>13 DEF FallbackSave
<1>14. CASE Crash
  <2>1. up' \in BOOLEAN
    BY <1>14, Zenon DEF Crash
  <2>2. crashes' \in Nat /\ calls' \in Nat
    BY <1>14, SMT DEF Crash
  <2> QED
    BY <2>1, <2>2, Zenon
<1>15. CASE Start
  BY <1>15 DEF Start
<1> QED
  BY <1>1, <1>2, <1>3, <1>4, <1>5, <1>6, <1>7, <1>8, <1>9, <1>10,
     <1>11, <1>12, <1>13, <1>14, <1>15 DEF Next, Decide

LEMMA ChainTypesStep ==
    ASSUME ChainTypes, ProcTypes, JobInv, Next
    PROVE  ChainTypes'
<1> USE DEF ChainTypes, chainVars
<1>1. ASSUME NEW w \in Workers, NEW a \in Agents, Call(w, a)
      PROVE  ChainTypes'
  BY <1>1 DEF Call
<1>2. ASSUME NEW w \in Workers, BuildRecord(w)
      PROVE  ChainTypes'
  BY <1>2 DEF BuildRecord, ProcTypes, JobInv
<1>3. ASSUME NEW w \in Workers, WriteHeader(w)
      PROVE  ChainTypes'
  BY <1>3 DEF WriteHeader
<1>4. ASSUME NEW w \in Workers, WritePayload(w)
      PROVE  ChainTypes'
  BY <1>4 DEF WritePayload
<1>5. ASSUME NEW w \in Workers, Sync(w)
      PROVE  ChainTypes'
  BY <1>5 DEF Sync
<1>6. ASSUME NEW w \in Workers, HeaderFails(w)
      PROVE  ChainTypes'
  BY <1>6 DEF HeaderFails
<1>7. ASSUME NEW w \in Workers, PayloadOrSyncFails(w)
      PROVE  ChainTypes'
  BY <1>7 DEF PayloadOrSyncFails
<1>8. ASSUME NEW w \in Workers, Deny(w)
      PROVE  ChainTypes'
  BY <1>8 DEF Deny
<1>9. ASSUME NEW w \in Workers, Replicate(w)
      PROVE  ChainTypes'
  BY <1>9 DEF Replicate
<1>10. ASSUME NEW w \in Workers, Answer(w)
      PROVE  ChainTypes'
  BY <1>10 DEF Answer
<1>11. CASE QueueTake
  BY <1>11 DEF QueueTake
<1>12. CASE QueueSave
  BY <1>12 DEF QueueSave
<1>13. ASSUME NEW r \in saving, FallbackSave(r)
      PROVE  ChainTypes'
  BY <1>13 DEF FallbackSave
<1>14. CASE Crash
  BY <1>14 DEF Crash
<1>15. CASE Start
  BY <1>15 DEF Start
<1> QED
  BY <1>1, <1>2, <1>3, <1>4, <1>5, <1>6, <1>7, <1>8, <1>9, <1>10,
     <1>11, <1>12, <1>13, <1>14, <1>15 DEF Next, Decide

LEMMA ProcTypesStep ==
    ASSUME LifeTypes, ChainTypes, ProcTypes, Next
    PROVE  ProcTypes'
<1> USE ChainAssumption DEF ProcTypes, Steps, Idle, procVars, chainVars
<1>1. ASSUME NEW w \in Workers, NEW a \in Agents, Call(w, a)
      PROVE  ProcTypes'
  <2>1. [agent |-> a, ts |-> calls + 1, rec |-> 0]
            \in [agent : Agents \cup {None}, ts : Nat, rec : 0 .. Len(built)]
    BY DEF ChainTypes, LifeTypes
  <2> QED
    BY <1>1, <2>1 DEF Call, walVars
<1>2. ASSUME NEW w \in Workers, BuildRecord(w)
      PROVE  ProcTypes'
  BY <1>2 DEF BuildRecord, walVars, ChainTypes
<1>3. ASSUME NEW w \in Workers, WriteHeader(w)
      PROVE  ProcTypes'
  BY <1>3 DEF WriteHeader, walVars
<1>4. ASSUME NEW w \in Workers, WritePayload(w)
      PROVE  ProcTypes'
  BY <1>4 DEF WritePayload, walVars
<1>5. ASSUME NEW w \in Workers, Sync(w)
      PROVE  ProcTypes'
  BY <1>5 DEF Sync, walVars
<1>6. ASSUME NEW w \in Workers, HeaderFails(w)
      PROVE  ProcTypes'
  BY <1>6 DEF HeaderFails, walVars
<1>7. ASSUME NEW w \in Workers, PayloadOrSyncFails(w)
      PROVE  ProcTypes'
  BY <1>7 DEF PayloadOrSyncFails, walVars
<1>8. ASSUME NEW w \in Workers, Deny(w)
      PROVE  ProcTypes'
  BY <1>8 DEF Deny, walVars
<1>9. ASSUME NEW w \in Workers, Replicate(w)
      PROVE  ProcTypes'
  BY <1>9 DEF Replicate, walVars
<1>10. ASSUME NEW w \in Workers, Answer(w)
      PROVE  ProcTypes'
  BY <1>10 DEF Answer, walVars
<1>11. CASE QueueTake
  BY <1>11 DEF QueueTake, walVars
<1>12. CASE QueueSave
  BY <1>12 DEF QueueSave, walVars
<1>13. ASSUME NEW r \in saving, FallbackSave(r)
      PROVE  ProcTypes'
  BY <1>13 DEF FallbackSave, walVars
<1>14. CASE Crash
  BY <1>14 DEF Crash, walVars
<1>15. CASE Start
  BY <1>15 DEF Start, walVars
<1> QED
  BY <1>1, <1>2, <1>3, <1>4, <1>5, <1>6, <1>7, <1>8, <1>9, <1>10,
     <1>11, <1>12, <1>13, <1>14, <1>15 DEF Next, Decide

LEMMA WalTypesStep ==
    ASSUME ChainTypes, ProcTypes, WalTypes, JobInv, LockInv, Next
    PROVE  WalTypes'
<1> USE DEF WalTypes, Records, walVars, chainVars
<1>1. ASSUME NEW w \in Workers, NEW a \in Agents, Call(w, a)
      PROVE  WalTypes'
  BY <1>1 DEF Call
<1>2. ASSUME NEW w \in Workers, BuildRecord(w)
      PROVE  WalTypes'
  <2>1. Len(built') = Len(built) + 1 /\ Len(built) \in Nat
    BY <1>2 DEF BuildRecord, ChainTypes
  <2>2. [rec : Records, part : Parts] \subseteq [rec : Records', part : Parts]
    BY <2>1
  <2>3. file \in Seq([rec : Records', part : Parts])
    BY <2>2, SeqMonotonic, Zenon
  <2> QED
    BY <1>2, <2>1, <2>3 DEF BuildRecord
<1>3. ASSUME NEW w \in Workers, WriteHeader(w)
      PROVE  WalTypes'
  BY <1>3 DEF WriteHeader, JobInv, Frame, Parts
<1>4. ASSUME NEW w \in Workers, WritePayload(w)
      PROVE  WalTypes'
  <2> DEFINE T == [rec : Records, part : Parts]
             e == [file[Len(file)] EXCEPT !.part = "full"]
  <2>1. file \in Seq(T) /\ Len(file) \in 1 .. Len(file)
    BY <1>4 DEF WritePayload, LockInv
  <2>2. file[Len(file)] \in T
    <3> HIDE DEF T
    <3> QED BY <2>1, ElementOfSeq
  <2>3. e \in T
    BY <2>2 DEF Parts
  <2>4. file' = [file EXCEPT ![Len(file)] = e]
    BY <1>4 DEF WritePayload
  <2>5. file' \in Seq(T) /\ Len(file') = Len(file)
    <3> HIDE DEF T, e
    <3> QED BY <2>1, <2>3, <2>4, ExceptSeq
  <2> QED
    BY <1>4, <2>5 DEF WritePayload
<1>5. ASSUME NEW w \in Workers, Sync(w)
      PROVE  WalTypes'
  BY <1>5 DEF Sync, JobInv
<1>6. ASSUME NEW w \in Workers, HeaderFails(w)
      PROVE  WalTypes'
  <2>1. Frame(job[w].rec, "header") \in [rec : Records, part : Parts]
    BY <1>6 DEF HeaderFails, JobInv, Frame, Parts
  <2>2. CASE UNCHANGED file
    BY <1>6, <2>2 DEF HeaderFails
  <2>3. CASE file' = Append(file, Frame(job[w].rec, "header"))
    BY <1>6, <2>1, <2>3 DEF HeaderFails
  <2> QED
    BY <1>6, <2>2, <2>3 DEF HeaderFails
<1>7. ASSUME NEW w \in Workers, PayloadOrSyncFails(w)
      PROVE  WalTypes'
  BY <1>7 DEF PayloadOrSyncFails
<1>8. ASSUME NEW w \in Workers, Deny(w)
      PROVE  WalTypes'
  BY <1>8 DEF Deny
<1>9. ASSUME NEW w \in Workers, Replicate(w)
      PROVE  WalTypes'
  BY <1>9 DEF Replicate
<1>10. ASSUME NEW w \in Workers, Answer(w)
      PROVE  WalTypes'
  BY <1>10 DEF Answer, JobInv
<1>11. CASE QueueTake
  BY <1>11 DEF QueueTake
<1>12. CASE QueueSave
  BY <1>12 DEF QueueSave
<1>13. ASSUME NEW r \in saving, FallbackSave(r)
      PROVE  WalTypes'
  BY <1>13 DEF FallbackSave
<1>14. CASE Crash
  <2>1. file' \in CrashImages /\ UNCHANGED <<built, synced, logged, answered>>
    BY <1>14 DEF Crash
  <2>2. /\ file' \in Seq([rec : Records, part : Parts])
        /\ synced <= Len(file')
    BY <2>1, CrashImageType
  <2> QED
    BY <2>1, <2>2
<1>15. CASE Start
  BY <1>15 DEF Start, RecoverTail
<1> QED
  BY <1>1, <1>2, <1>3, <1>4, <1>5, <1>6, <1>7, <1>8, <1>9, <1>10,
     <1>11, <1>12, <1>13, <1>14, <1>15 DEF Next, Decide

LEMMA StoreTypesStep ==
    ASSUME ChainTypes, StoreTypes, JobInv, Next
    PROVE  StoreTypes'
<1> USE DEF StoreTypes, Records, storeVars, chainVars
<1>1. ASSUME NEW w \in Workers, NEW a \in Agents, Call(w, a)
      PROVE  StoreTypes'
  BY <1>1 DEF Call
<1>2. ASSUME NEW w \in Workers, BuildRecord(w)
      PROVE  StoreTypes'
  BY <1>2 DEF BuildRecord, ChainTypes
<1>3. ASSUME NEW w \in Workers, WriteHeader(w)
      PROVE  StoreTypes'
  BY <1>3 DEF WriteHeader
<1>4. ASSUME NEW w \in Workers, WritePayload(w)
      PROVE  StoreTypes'
  BY <1>4 DEF WritePayload
<1>5. ASSUME NEW w \in Workers, Sync(w)
      PROVE  StoreTypes'
  BY <1>5 DEF Sync
<1>6. ASSUME NEW w \in Workers, HeaderFails(w)
      PROVE  StoreTypes'
  BY <1>6 DEF HeaderFails
<1>7. ASSUME NEW w \in Workers, PayloadOrSyncFails(w)
      PROVE  StoreTypes'
  BY <1>7 DEF PayloadOrSyncFails
<1>8. ASSUME NEW w \in Workers, Deny(w)
      PROVE  StoreTypes'
  BY <1>8 DEF Deny
<1>9. ASSUME NEW w \in Workers, Replicate(w)
      PROVE  StoreTypes'
  <2>1. job[w].rec \in Records
    BY <1>9 DEF Replicate, JobInv
  <2>2. UNCHANGED <<built, hand, store>>
    BY <1>9 DEF Replicate
  <2>3. CASE queue' = Append(queue, job[w].rec) /\ UNCHANGED saving
    BY <2>1, <2>2, <2>3
  <2>4. CASE saving' = saving \cup {job[w].rec} /\ UNCHANGED queue
    BY <2>1, <2>2, <2>4
  <2> QED
    BY <1>9, <2>3, <2>4 DEF Replicate
<1>10. ASSUME NEW w \in Workers, Answer(w)
      PROVE  StoreTypes'
  BY <1>10 DEF Answer
<1>11. CASE QueueTake
  BY <1>11 DEF QueueTake
<1>12. CASE QueueSave
  <2>1. hand' = 0 /\ built' = built /\ queue' = queue /\ saving' = saving
    BY <1>12 DEF QueueSave
  <2>2. store' = store \/ store' = store \cup {hand}
    BY <1>12, Zenon DEF QueueSave
  <2>3. hand # 0
    BY <1>12, Zenon DEF QueueSave
  <2>4. 0 \in 0 .. Len(built) /\ hand \in Records
    BY <2>3
  <2> QED
    BY <2>1, <2>2, <2>4
<1>13. ASSUME NEW r \in saving, FallbackSave(r)
      PROVE  StoreTypes'
  BY <1>13 DEF FallbackSave
<1>14. CASE Crash
  BY <1>14 DEF Crash
<1>15. CASE Start
  BY <1>15 DEF Start
<1> QED
  BY <1>1, <1>2, <1>3, <1>4, <1>5, <1>6, <1>7, <1>8, <1>9, <1>10,
     <1>11, <1>12, <1>13, <1>14, <1>15 DEF Next, Decide

LEMMA TypeStep ==
    ASSUME TypeOK, JobInv, LockInv, Next
    PROVE  TypeOK'
BY LifeTypesStep, ChainTypesStep, ProcTypesStep, WalTypesStep, StoreTypesStep DEF TypeOK

-------------------------------------------------------------------------------
(* The other conjuncts *)

(* A worker's call and record. *)
LEMMA JobStep ==
    ASSUME TypeOK, JobInv, Next
    PROVE  JobInv'
<1> USE DEF TypeOK, ProcTypes, ChainTypes, JobInv, Records, Steps
<1>1. ASSUME NEW w \in Workers, NEW a \in Agents, Call(w, a)
      PROVE  JobInv'
  BY <1>1 DEF Call, procVars, chainVars
<1>2. ASSUME NEW w \in Workers, BuildRecord(w)
      PROVE  JobInv'
  BY <1>2 DEF BuildRecord, procVars, chainVars
<1>3. ASSUME NEW w \in Workers, WriteHeader(w)
      PROVE  JobInv'
  BY <1>3 DEF WriteHeader, procVars, chainVars
<1>4. ASSUME NEW w \in Workers, WritePayload(w)
      PROVE  JobInv'
  BY <1>4 DEF WritePayload, procVars, chainVars
<1>5. ASSUME NEW w \in Workers, Sync(w)
      PROVE  JobInv'
  BY <1>5 DEF Sync, procVars, chainVars
<1>6. ASSUME NEW w \in Workers, HeaderFails(w)
      PROVE  JobInv'
  BY <1>6 DEF HeaderFails, procVars, chainVars
<1>7. ASSUME NEW w \in Workers, PayloadOrSyncFails(w)
      PROVE  JobInv'
  BY <1>7 DEF PayloadOrSyncFails, procVars, chainVars
<1>8. ASSUME NEW w \in Workers, Deny(w)
      PROVE  JobInv'
  BY <1>8 DEF Deny, procVars, chainVars
<1>9. ASSUME NEW w \in Workers, Replicate(w)
      PROVE  JobInv'
  BY <1>9 DEF Replicate, procVars, chainVars
<1>10. ASSUME NEW w \in Workers, Answer(w)
       PROVE  JobInv'
  BY <1>10 DEF Answer, procVars, chainVars
<1>11. CASE QueueTake
  BY <1>11 DEF QueueTake, procVars, chainVars
<1>12. CASE QueueSave
  BY <1>12 DEF QueueSave, procVars, chainVars
<1>13. ASSUME NEW r \in saving, FallbackSave(r)
       PROVE  JobInv'
  BY <1>13 DEF FallbackSave, procVars, chainVars
<1>14. CASE Crash
  BY <1>14 DEF Crash, procVars, chainVars
<1>15. CASE Start
  BY <1>15 DEF Start, procVars, chainVars
<1> QED
  BY <1>1, <1>2, <1>3, <1>4, <1>5, <1>6, <1>7, <1>8, <1>9, <1>10,
     <1>11, <1>12, <1>13, <1>14, <1>15 DEF Next, Decide

(* Who holds WAL.mu, and the frame it writes. *)
LEMMA LockStep ==
    ASSUME TypeOK, JobInv, LockInv, DownInv, Next
    PROVE  LockInv'
<1> USE ChainAssumption DEF TypeOK, ProcTypes, WalTypes, LockInv
<1>1. ASSUME NEW w \in Workers, NEW a \in Agents, Call(w, a)
      PROVE  LockInv'
  BY <1>1 DEF Call, procVars, walVars
<1>2. ASSUME NEW w \in Workers, BuildRecord(w)
      PROVE  LockInv'
  BY <1>2 DEF BuildRecord, procVars, walVars
<1>3. ASSUME NEW w \in Workers, WriteHeader(w)
      PROVE  LockInv'
  BY <1>3 DEF WriteHeader, procVars, walVars
<1>4. ASSUME NEW w \in Workers, WritePayload(w)
      PROVE  LockInv'
  <2>1. /\ walMu = w /\ walMu' = walMu /\ synced' = synced /\ job' = job
        /\ synced < Len(file) /\ file[Len(file)] = Frame(job[w].rec, "payload")
        /\ pc' = [pc EXCEPT ![w] = "sync"]
    BY <1>4 DEF WritePayload
  <2>2. \A v \in Workers : pc[v] \in {"payload", "sync"} => v = w
    BY <2>1
  <2>3. Len(file') = Len(file) /\ file'[Len(file)] = [file[Len(file)] EXCEPT !.part = "full"]
    BY <1>4, <2>1 DEF WritePayload
  <2>4. file'[Len(file')] = Frame(job[w].rec, "full")
    BY <2>1, <2>3 DEF Frame
  <2> QED
    BY <2>1, <2>2, <2>3, <2>4
<1>5. ASSUME NEW w \in Workers, Sync(w)
      PROVE  LockInv'
  BY <1>5 DEF Sync, procVars, walVars
<1>6. ASSUME NEW w \in Workers, HeaderFails(w)
      PROVE  LockInv'
  BY <1>6 DEF HeaderFails, procVars, walVars
<1>7. ASSUME NEW w \in Workers, PayloadOrSyncFails(w)
      PROVE  LockInv'
  BY <1>7 DEF PayloadOrSyncFails, procVars, walVars
<1>8. ASSUME NEW w \in Workers, Deny(w)
      PROVE  LockInv'
  BY <1>8 DEF Deny, procVars, walVars
<1>9. ASSUME NEW w \in Workers, Replicate(w)
      PROVE  LockInv'
  BY <1>9 DEF Replicate, procVars, walVars
<1>10. ASSUME NEW w \in Workers, Answer(w)
       PROVE  LockInv'
  BY <1>10 DEF Answer, procVars, walVars
<1>11. CASE QueueTake
  BY <1>11 DEF QueueTake, procVars, walVars
<1>12. CASE QueueSave
  BY <1>12 DEF QueueSave, procVars, walVars
<1>13. ASSUME NEW r \in saving, FallbackSave(r)
       PROVE  LockInv'
  BY <1>13 DEF FallbackSave, procVars, walVars
<1>14. CASE Crash
  BY <1>14 DEF Crash, procVars, walVars
<1>15. CASE Start
  BY <1>15 DEF Start, procVars, DownInv
<1> QED
  BY <1>1, <1>2, <1>3, <1>4, <1>5, <1>6, <1>7, <1>8, <1>9, <1>10,
     <1>11, <1>12, <1>13, <1>14, <1>15 DEF Next, Decide

(* Accepted records are synced frames. *)
LEMMA LoggedStep ==
    ASSUME TypeOK, JobInv, LockInv, LoggedInv, Next
    PROVE  LoggedInv'
<1> USE DEF TypeOK, ChainTypes, ProcTypes, WalTypes, LoggedInv, Records
<1>1. ASSUME NEW w \in Workers, NEW a \in Agents, Call(w, a)
      PROVE  LoggedInv'
  BY <1>1 DEF Call, walVars, chainVars
<1>2. ASSUME NEW w \in Workers, BuildRecord(w)
      PROVE  LoggedInv'
  BY <1>2 DEF BuildRecord, walVars, chainVars
<1>3. ASSUME NEW w \in Workers, WriteHeader(w)
      PROVE  LoggedInv'
  BY <1>3 DEF WriteHeader, walVars, chainVars
<1>4. ASSUME NEW w \in Workers, WritePayload(w)
      PROVE  LoggedInv'
  <2>1. synced < Len(file)
    BY <1>4 DEF WritePayload, LockInv
  <2>2. \A i \in 1 .. synced : file'[i] = file[i]
    BY <1>4, <2>1 DEF WritePayload
  <2>3. synced' = synced /\ base' = base /\ logged' = logged
    BY <1>4 DEF WritePayload, chainVars
  <2> QED
    BY <2>2, <2>3
<1>5. ASSUME NEW w \in Workers, Sync(w)
      PROVE  LoggedInv'
  <2>1. file[Len(file)] = Frame(job[w].rec, "full") /\ synced < Len(file)
    BY <1>5 DEF Sync, LockInv
  <2>2. /\ synced' = Len(file) /\ logged' = logged \cup {job[w].rec}
        /\ file' = file /\ base' = base
    BY <1>5 DEF Sync, chainVars
  <2>3. Len(file) \in Nat /\ synced \in Nat
    OBVIOUS
  <2>4. Len(file) \in 1 .. Len(file) /\ \A i \in 1 .. synced : i \in 1 .. Len(file)
    <3> HIDE DEF TypeOK, LoggedInv
    <3> QED BY <2>1, <2>3
  <2> QED
    BY <2>1, <2>2, <2>4
<1>6. ASSUME NEW w \in Workers, HeaderFails(w)
      PROVE  LoggedInv'
  <2>1. synced' = synced /\ base' = base /\ logged' = logged
    BY <1>6 DEF HeaderFails, chainVars
  <2>2. \A i \in 1 .. synced : file'[i] = file[i]
    <3>1. CASE file' = file
      BY <3>1
    <3>2. CASE file' = Append(file, Frame(job[w].rec, "header"))
      BY <3>2
    <3> QED
      BY <1>6, <3>1, <3>2 DEF HeaderFails
  <2> QED
    BY <2>1, <2>2
<1>7. ASSUME NEW w \in Workers, PayloadOrSyncFails(w)
      PROVE  LoggedInv'
  BY <1>7 DEF PayloadOrSyncFails, walVars, chainVars
<1>8. ASSUME NEW w \in Workers, Deny(w)
      PROVE  LoggedInv'
  BY <1>8 DEF Deny, walVars, chainVars
<1>9. ASSUME NEW w \in Workers, Replicate(w)
      PROVE  LoggedInv'
  BY <1>9 DEF Replicate, walVars, chainVars
<1>10. ASSUME NEW w \in Workers, Answer(w)
       PROVE  LoggedInv'
  BY <1>10 DEF Answer, walVars, chainVars
<1>11. CASE QueueTake
  BY <1>11 DEF QueueTake, walVars, chainVars
<1>12. CASE QueueSave
  BY <1>12 DEF QueueSave, walVars, chainVars
<1>13. ASSUME NEW r \in saving, FallbackSave(r)
       PROVE  LoggedInv'
  BY <1>13 DEF FallbackSave, walVars, chainVars
<1>14. CASE Crash
  <2>1. file' \in CrashImages /\ synced' = synced /\ base' = base /\ logged' = logged
    BY <1>14 DEF Crash
  <2>2. \A i \in 1 .. synced : file'[i] = file[i]
    BY <2>1, CrashImageType
  <2> QED
    BY <2>1, <2>2
<1>15. CASE Start
  BY <1>15 DEF Start, walVars, chainVars
<1> QED
  BY <1>1, <1>2, <1>3, <1>4, <1>5, <1>6, <1>7, <1>8, <1>9, <1>10,
     <1>11, <1>12, <1>13, <1>14, <1>15 DEF Next, Decide

(* Only accepted records are copied or answered. *)
LEMMA AcceptedStep ==
    ASSUME TypeOK, AcceptedInv, Next
    PROVE  AcceptedInv'
<1> USE DEF TypeOK, ProcTypes, WalTypes, AcceptedInv
<1>1. ASSUME NEW w \in Workers, NEW a \in Agents, Call(w, a)
      PROVE  AcceptedInv'
  BY <1>1 DEF Call, walVars, procVars
<1>2. ASSUME NEW w \in Workers, BuildRecord(w)
      PROVE  AcceptedInv'
  BY <1>2 DEF BuildRecord, walVars, procVars
<1>3. ASSUME NEW w \in Workers, WriteHeader(w)
      PROVE  AcceptedInv'
  BY <1>3 DEF WriteHeader, walVars, procVars
<1>4. ASSUME NEW w \in Workers, WritePayload(w)
      PROVE  AcceptedInv'
  BY <1>4 DEF WritePayload, walVars, procVars
<1>5. ASSUME NEW w \in Workers, Sync(w)
      PROVE  AcceptedInv'
  BY <1>5 DEF Sync, walVars, procVars
<1>6. ASSUME NEW w \in Workers, HeaderFails(w)
      PROVE  AcceptedInv'
  BY <1>6 DEF HeaderFails, walVars, procVars
<1>7. ASSUME NEW w \in Workers, PayloadOrSyncFails(w)
      PROVE  AcceptedInv'
  BY <1>7 DEF PayloadOrSyncFails, walVars, procVars
<1>8. ASSUME NEW w \in Workers, Deny(w)
      PROVE  AcceptedInv'
  BY <1>8 DEF Deny, walVars, procVars
<1>9. ASSUME NEW w \in Workers, Replicate(w)
      PROVE  AcceptedInv'
  BY <1>9 DEF Replicate, walVars, procVars
<1>10. ASSUME NEW w \in Workers, Answer(w)
       PROVE  AcceptedInv'
  BY <1>10 DEF Answer, walVars, procVars
<1>11. CASE QueueTake
  BY <1>11 DEF QueueTake, walVars, procVars
<1>12. CASE QueueSave
  BY <1>12 DEF QueueSave, walVars, procVars
<1>13. ASSUME NEW r \in saving, FallbackSave(r)
       PROVE  AcceptedInv'
  BY <1>13 DEF FallbackSave, walVars, procVars
<1>14. CASE Crash
  BY <1>14 DEF Crash, walVars, procVars
<1>15. CASE Start
  BY <1>15 DEF Start, walVars, procVars
<1> QED
  BY <1>1, <1>2, <1>3, <1>4, <1>5, <1>6, <1>7, <1>8, <1>9, <1>10,
     <1>11, <1>12, <1>13, <1>14, <1>15 DEF Next, Decide

(* Only accepted records are in, or on their way to, the store. *)
LEMMA StoreStep ==
    ASSUME TypeOK, AcceptedInv, StoreIsAudited, Next
    PROVE  StoreIsAudited'
<1> USE DEF TypeOK, ProcTypes, WalTypes, StoreTypes, AcceptedInv, StoreIsAudited
<1>1. ASSUME NEW w \in Workers, NEW a \in Agents, Call(w, a)
      PROVE  StoreIsAudited'
  BY <1>1 DEF Call, walVars, storeVars
<1>2. ASSUME NEW w \in Workers, BuildRecord(w)
      PROVE  StoreIsAudited'
  BY <1>2 DEF BuildRecord, walVars, storeVars
<1>3. ASSUME NEW w \in Workers, WriteHeader(w)
      PROVE  StoreIsAudited'
  BY <1>3 DEF WriteHeader, walVars, storeVars
<1>4. ASSUME NEW w \in Workers, WritePayload(w)
      PROVE  StoreIsAudited'
  BY <1>4 DEF WritePayload, walVars, storeVars
<1>5. ASSUME NEW w \in Workers, Sync(w)
      PROVE  StoreIsAudited'
  BY <1>5 DEF Sync, walVars, storeVars
<1>6. ASSUME NEW w \in Workers, HeaderFails(w)
      PROVE  StoreIsAudited'
  BY <1>6 DEF HeaderFails, walVars, storeVars
<1>7. ASSUME NEW w \in Workers, PayloadOrSyncFails(w)
      PROVE  StoreIsAudited'
  BY <1>7 DEF PayloadOrSyncFails, walVars, storeVars
<1>8. ASSUME NEW w \in Workers, Deny(w)
      PROVE  StoreIsAudited'
  BY <1>8 DEF Deny, walVars, storeVars
<1>9. ASSUME NEW w \in Workers, Replicate(w)
      PROVE  StoreIsAudited'
  <2>1. job[w].rec \in logged
    BY <1>9 DEF Replicate
  <2>2. UNCHANGED <<logged, hand, store>>
    BY <1>9 DEF Replicate, walVars
  <2>3. CASE queue' = Append(queue, job[w].rec) /\ UNCHANGED saving
    BY <2>1, <2>2, <2>3
  <2>4. CASE saving' = saving \cup {job[w].rec} /\ UNCHANGED queue
    BY <2>1, <2>2, <2>4
  <2> QED
    BY <1>9, <2>3, <2>4 DEF Replicate
<1>10. ASSUME NEW w \in Workers, Answer(w)
       PROVE  StoreIsAudited'
  BY <1>10 DEF Answer, walVars, storeVars
<1>11. CASE QueueTake
  BY <1>11 DEF QueueTake, walVars, storeVars
<1>12. CASE QueueSave
  BY <1>12 DEF QueueSave, walVars, storeVars
<1>13. ASSUME NEW r \in saving, FallbackSave(r)
       PROVE  StoreIsAudited'
  BY <1>13 DEF FallbackSave, walVars, storeVars
<1>14. CASE Crash
  BY <1>14 DEF Crash, walVars, storeVars
<1>15. CASE Start
  BY <1>15 DEF Start, walVars, storeVars
<1> QED
  BY <1>1, <1>2, <1>3, <1>4, <1>5, <1>6, <1>7, <1>8, <1>9, <1>10,
     <1>11, <1>12, <1>13, <1>14, <1>15 DEF Next, Decide

(* The chain cache is at least as new as every record of this run. *)
LEMMA TailStep ==
    ASSUME TypeOK, JobInv, DownInv, (up => TailInv), Next
    PROVE  (up => TailInv)'
<1> USE DEF TypeOK, ChainTypes, ProcTypes, JobInv, TailInv
<1>1. ASSUME NEW w \in Workers, NEW a \in Agents, Call(w, a)
      PROVE  (up => TailInv)'
  BY <1>1 DEF Call, chainVars, lifeVars
<1>2. ASSUME NEW w \in Workers, BuildRecord(w)
      PROVE  (up => TailInv)'
  BY <1>2 DEF BuildRecord, chainVars, lifeVars
<1>3. ASSUME NEW w \in Workers, WriteHeader(w)
      PROVE  (up => TailInv)'
  BY <1>3 DEF WriteHeader, chainVars, lifeVars
<1>4. ASSUME NEW w \in Workers, WritePayload(w)
      PROVE  (up => TailInv)'
  BY <1>4 DEF WritePayload, chainVars, lifeVars
<1>5. ASSUME NEW w \in Workers, Sync(w)
      PROVE  (up => TailInv)'
  BY <1>5 DEF Sync, chainVars, lifeVars
<1>6. ASSUME NEW w \in Workers, HeaderFails(w)
      PROVE  (up => TailInv)'
  BY <1>6 DEF HeaderFails, chainVars, lifeVars
<1>7. ASSUME NEW w \in Workers, PayloadOrSyncFails(w)
      PROVE  (up => TailInv)'
  BY <1>7 DEF PayloadOrSyncFails, chainVars, lifeVars
<1>8. ASSUME NEW w \in Workers, Deny(w)
      PROVE  (up => TailInv)'
  BY <1>8 DEF Deny, chainVars, lifeVars
<1>9. ASSUME NEW w \in Workers, Replicate(w)
      PROVE  (up => TailInv)'
  BY <1>9 DEF Replicate, chainVars, lifeVars
<1>10. ASSUME NEW w \in Workers, Answer(w)
       PROVE  (up => TailInv)'
  BY <1>10 DEF Answer, chainVars, lifeVars
<1>11. CASE QueueTake
  BY <1>11 DEF QueueTake, chainVars, lifeVars
<1>12. CASE QueueSave
  BY <1>12 DEF QueueSave, chainVars, lifeVars
<1>13. ASSUME NEW r \in saving, FallbackSave(r)
       PROVE  (up => TailInv)'
  BY <1>13 DEF FallbackSave, chainVars, lifeVars
<1>14. CASE Crash
  BY <1>14 DEF Crash, chainVars, lifeVars
<1>15. CASE Start
  BY <1>15 DEF Start, chainVars, lifeVars
<1> QED
  BY <1>1, <1>2, <1>3, <1>4, <1>5, <1>6, <1>7, <1>8, <1>9, <1>10,
     <1>11, <1>12, <1>13, <1>14, <1>15 DEF Next, Decide

(* No two records of this run have the same predecessor. *)
LEMMA ForkStep ==
    ASSUME TypeOK, JobInv, DownInv, (up => TailInv), NoForkWithinRun, Next
    PROVE  NoForkWithinRun'
<1> USE DEF TypeOK, ChainTypes, ProcTypes, JobInv, NoForkWithinRun
<1>1. ASSUME NEW w \in Workers, NEW a \in Agents, Call(w, a)
      PROVE  NoForkWithinRun'
  BY <1>1 DEF Call, chainVars
<1>2. ASSUME NEW w \in Workers, BuildRecord(w)
      PROVE  NoForkWithinRun'
  <2> DEFINE n == Len(built)
             a == job[w].agent
  <2>1. up /\ a \in Agents
    BY <1>2 DEF BuildRecord, DownInv
  <2>2. /\ built' = Append(built, [agent |-> a, prev |-> tail[a], ts |-> job[w].ts])
        /\ base' = base
    BY <1>2 DEF BuildRecord
  <2>3. /\ n \in Nat /\ base \in 0 .. n /\ Len(built') = n + 1
        /\ built'[n + 1].agent = a /\ built'[n + 1].prev = tail[a]
        /\ \A j \in 1 .. n : built'[j] = built[j]
    BY <2>1, <2>2
  <2>4. TailInv
    BY <2>1
  <2>5. ASSUME NEW j \in base + 1 .. n, built[j].agent = a
        PROVE  built[j].prev # tail[a]
    <3>1. \A i \in 1 .. n : built[i].prev \in Nat
      <4> DEFINE R == [agent : Agents, prev : Nat, ts : Nat]
      <4>1. built \in Seq(R)
        OBVIOUS
      <4>2. \A i \in 1 .. Len(built) : built[i] \in R
        <5> HIDE DEF R, TypeOK
        <5> QED BY <4>1, ElementOfSeq
      <4> HIDE DEF TypeOK
      <4> QED
        BY <4>2
    <3>2. tail[a] \in Nat
      BY <2>1
    <3> HIDE DEF TypeOK, NoForkWithinRun, n, a
    <3>3. built[j].prev < j /\ j <= tail[a]
      BY <2>4, <2>5 DEF TailInv, n
    <3>4. j \in 1 .. n
      BY <2>3
    <3> QED
      BY <3>1, <3>2, <3>3, <3>4
  <2>6. \A i, j \in base + 1 .. n :
           built[i].agent = built[j].agent /\ built[i].prev = built[j].prev => i = j
    BY DEF NoForkWithinRun
  <2> HIDE DEF n, a, TypeOK, NoForkWithinRun
  <2>7. \A j \in base + 1 .. n + 1 : j = n + 1 \/ (j \in base + 1 .. n /\ built'[j] = built[j])
    BY <2>3
  <2>8. \A i, j \in base + 1 .. n + 1 :
           built'[i].agent = built'[j].agent /\ built'[i].prev = built'[j].prev => i = j
    BY <2>3, <2>5, <2>6, <2>7
  <2> QED
    BY <2>2, <2>3, <2>8 DEF NoForkWithinRun
<1>3. ASSUME NEW w \in Workers, WriteHeader(w)
      PROVE  NoForkWithinRun'
  BY <1>3 DEF WriteHeader, chainVars
<1>4. ASSUME NEW w \in Workers, WritePayload(w)
      PROVE  NoForkWithinRun'
  BY <1>4 DEF WritePayload, chainVars
<1>5. ASSUME NEW w \in Workers, Sync(w)
      PROVE  NoForkWithinRun'
  BY <1>5 DEF Sync, chainVars
<1>6. ASSUME NEW w \in Workers, HeaderFails(w)
      PROVE  NoForkWithinRun'
  BY <1>6 DEF HeaderFails, chainVars
<1>7. ASSUME NEW w \in Workers, PayloadOrSyncFails(w)
      PROVE  NoForkWithinRun'
  BY <1>7 DEF PayloadOrSyncFails, chainVars
<1>8. ASSUME NEW w \in Workers, Deny(w)
      PROVE  NoForkWithinRun'
  BY <1>8 DEF Deny, chainVars
<1>9. ASSUME NEW w \in Workers, Replicate(w)
      PROVE  NoForkWithinRun'
  BY <1>9 DEF Replicate, chainVars
<1>10. ASSUME NEW w \in Workers, Answer(w)
       PROVE  NoForkWithinRun'
  BY <1>10 DEF Answer, chainVars
<1>11. CASE QueueTake
  BY <1>11 DEF QueueTake, chainVars
<1>12. CASE QueueSave
  BY <1>12 DEF QueueSave, chainVars
<1>13. ASSUME NEW r \in saving, FallbackSave(r)
       PROVE  NoForkWithinRun'
  BY <1>13 DEF FallbackSave, chainVars
<1>14. CASE Crash
  BY <1>14 DEF Crash, chainVars
<1>15. CASE Start
  BY <1>15 DEF Start, chainVars
<1> QED
  BY <1>1, <1>2, <1>3, <1>4, <1>5, <1>6, <1>7, <1>8, <1>9, <1>10,
     <1>11, <1>12, <1>13, <1>14, <1>15 DEF Next, Decide

(* Nothing is in flight while the daemon is down. *)
LEMMA DownStep ==
    ASSUME TypeOK, DownInv, Next
    PROVE  DownInv'
<1> USE DEF TypeOK, ProcTypes, DownInv
<1>1. ASSUME NEW w \in Workers, NEW a \in Agents, Call(w, a)
      PROVE  DownInv'
  BY <1>1 DEF Call, lifeVars, procVars, walVars
<1>2. ASSUME NEW w \in Workers, BuildRecord(w)
      PROVE  DownInv'
  BY <1>2 DEF BuildRecord, lifeVars, procVars, walVars
<1>3. ASSUME NEW w \in Workers, WriteHeader(w)
      PROVE  DownInv'
  BY <1>3 DEF WriteHeader, lifeVars, procVars, walVars
<1>4. ASSUME NEW w \in Workers, WritePayload(w)
      PROVE  DownInv'
  BY <1>4 DEF WritePayload, lifeVars, procVars, walVars
<1>5. ASSUME NEW w \in Workers, Sync(w)
      PROVE  DownInv'
  BY <1>5 DEF Sync, lifeVars, procVars, walVars
<1>6. ASSUME NEW w \in Workers, HeaderFails(w)
      PROVE  DownInv'
  BY <1>6 DEF HeaderFails, lifeVars, procVars, walVars
<1>7. ASSUME NEW w \in Workers, PayloadOrSyncFails(w)
      PROVE  DownInv'
  BY <1>7 DEF PayloadOrSyncFails, lifeVars, procVars, walVars
<1>8. ASSUME NEW w \in Workers, Deny(w)
      PROVE  DownInv'
  BY <1>8 DEF Deny, lifeVars, procVars, walVars
<1>9. ASSUME NEW w \in Workers, Replicate(w)
      PROVE  DownInv'
  BY <1>9 DEF Replicate, lifeVars, procVars, walVars
<1>10. ASSUME NEW w \in Workers, Answer(w)
       PROVE  DownInv'
  BY <1>10 DEF Answer, lifeVars, procVars, walVars
<1>11. CASE QueueTake
  BY <1>11 DEF QueueTake, lifeVars, procVars, walVars
<1>12. CASE QueueSave
  BY <1>12 DEF QueueSave, lifeVars, procVars, walVars
<1>13. ASSUME NEW r \in saving, FallbackSave(r)
       PROVE  DownInv'
  BY <1>13 DEF FallbackSave, lifeVars, procVars, walVars
<1>14. CASE Crash
  BY <1>14 DEF Crash, lifeVars, procVars, walVars
<1>15. CASE Start
  BY <1>15 DEF Start, lifeVars, procVars, walVars
<1> QED
  BY <1>1, <1>2, <1>3, <1>4, <1>5, <1>6, <1>7, <1>8, <1>9, <1>10,
     <1>11, <1>12, <1>13, <1>14, <1>15 DEF Next, Decide

-------------------------------------------------------------------------------
(* Theorems *)

LEMMA InvInit == Init => IInv
<1> SUFFICES ASSUME Init PROVE IInv
  OBVIOUS
<1>1. TypeOK
  BY TypeInit
<1>2. JobInv /\ LockInv /\ LoggedInv /\ AcceptedInv /\ StoreIsAudited /\ DownInv
  BY DEF Init, JobInv, LockInv, LoggedInv, AcceptedInv, StoreIsAudited, DownInv
<1>3. (up => TailInv) /\ NoForkWithinRun
  BY DEF Init, TailInv, NoForkWithinRun
<1> QED
  BY <1>1, <1>2, <1>3 DEF IInv

LEMMA InvStep == IInv /\ [Next]_vars => IInv'
<1>1. ASSUME IInv, Next
      PROVE  IInv'
  BY <1>1, TypeStep, JobStep, LockStep, LoggedStep, AcceptedStep, StoreStep,
     TailStep, ForkStep, DownStep DEF IInv
<1>2. ASSUME IInv, UNCHANGED vars
      PROVE  IInv'
  <2> USE <1>2 DEF vars, lifeVars, chainVars, procVars, walVars, storeVars
  <2>1. TypeOK'
    BY DEF IInv, TypeOK, LifeTypes, ChainTypes, ProcTypes, WalTypes, StoreTypes, Records
  <2>2. JobInv' /\ LockInv' /\ LoggedInv' /\ AcceptedInv' /\ StoreIsAudited' /\ DownInv'
    BY DEF IInv, JobInv, LockInv, LoggedInv, AcceptedInv, StoreIsAudited, DownInv, Records
  <2>3. (up => TailInv)' /\ NoForkWithinRun'
    BY DEF IInv, TailInv, NoForkWithinRun
  <2> QED
    BY <2>1, <2>2, <2>3 DEF IInv
<1> QED
  BY <1>1, <1>2

LEMMA Invariance == Spec => []IInv
BY InvInit, InvStep, PTL DEF Spec

(* Every reachable state of the chain, the log and the store is well typed. *)
THEOREM TypeCorrect == Spec => []TypeOK
<1>1. IInv => TypeOK
  BY DEF IInv
<1> QED
  BY <1>1, Invariance, PTL

(* The WAL ordering invariant of pipeline.go: no decision is returned       *)
(* before its record is a complete frame that an fsync covers, whichever    *)
(* writes fail and however many evaluations run at once.                    *)
THEOREM AuditPrecedesAnswer == Spec => []AuditBeforeAnswer
<1>1. IInv => AuditBeforeAnswer
  BY DEF IInv, AcceptedInv, LoggedInv, AuditBeforeAnswer
<1> QED
  BY <1>1, Invariance, PTL

(* The record store never holds a decision that the WAL refused. *)
THEOREM StoreHoldsAuditedOnly == Spec => []StoreIsAudited
<1>1. IInv => StoreIsAudited
  BY DEF IInv
<1> QED
  BY <1>1, Invariance, PTL

(* Within a run of the daemon no two records of an agent have the same      *)
(* predecessor, for any interleaving of the evaluations.                    *)
THEOREM ChainDoesNotFork == Spec => []NoForkWithinRun
<1>1. IInv => NoForkWithinRun
  BY DEF IInv
<1> QED
  BY <1>1, Invariance, PTL

-------------------------------------------------------------------------------
(* What was answered can be read back *)

(* The regime in which the log can tell a torn frame: a failed write       *)
(* leaves nothing, or the whole frame, and a crash cuts payloads only.     *)
TearsShow ==
    /\ WriteFaults \subseteq {"nothing", "sync"}
    /\ MaxCrashes = 0 \/ Tears \subseteq {"payload"}

(* Then only the last frame may be incomplete, while it is being written   *)
(* or after a crash, and whatever Write ever accepted is a synced frame.   *)
Whole(f) == f.part = "full"
FrameInv ==
    /\ \A i \in 1 .. Len(file) : ~Whole(file[i]) =>
         /\ i = Len(file) /\ synced < i /\ file[i].part = "payload"
         /\ up => \E w \in Workers : pc[w] = "payload"
    /\ \A r \in logged : \E i \in 1 .. synced : file[i] = Frame(r, "full")

(* Every record was made for a call of its own. *)
Unbuilt == {job[w].ts : w \in {v \in Workers : pc[v] = "called"}}
CountInv ==
    /\ \A v, w \in Workers : pc[v] = "called" /\ pc[w] = "called" /\ job[v].ts = job[w].ts => v = w
    /\ Unbuilt \subseteq 1 .. calls
    /\ calls <= MaxCalls
    /\ Len(built) + Cardinality(Unbuilt) <= calls

(* Agents that wait for an answer before they call again, of a daemon whose *)
(* writes do not fail and that does not die.                               *)
Orderly == SerialAgents /\ WriteFaults = {} /\ MaxCrashes = 0

Same(i, j) == built[i].agent = built[j].agent
Busy(w) == pc[w] # "idle"
InLog(r) == \E k \in 1 .. Len(file) : file[k].rec = r

(* An agent's records are made in the order of its calls, each one linked  *)
(* to the one before it.                                                   *)
BuildInv ==
    /\ \A i, j \in Records : Same(i, j) /\ i < j => built[i].ts < built[j].ts
    /\ \A j \in Records :
         /\ built[j].prev < j
         /\ built[j].prev # 0 => Same(built[j].prev, j)
         /\ \A i \in Records : Same(i, j) /\ i < j => i <= built[j].prev
    /\ \A j \in Records : built[j].ts <= calls /\ j <= tail[built[j].agent]
    /\ \A a \in Agents : tail[a] # 0 => built[tail[a]].agent = a

(* One call of an agent is under way, for its newest record or for none yet. *)
CallInv ==
    /\ up
    /\ \A w \in Workers : pc[w] # "failed" /\ (job[w].agent # None <=> Busy(w))
    /\ \A v, w \in Workers : Busy(v) /\ Busy(w) /\ job[v].agent = job[w].agent => v = w
    /\ \A w \in Workers : pc[w] = "called" =>
         /\ job[w].ts <= calls
         /\ \A j \in Records : built[j].agent = job[w].agent => built[j].ts < job[w].ts
    /\ \A w \in Workers : pc[w] \notin {"idle", "called"} =>
         built[job[w].rec].agent = job[w].agent /\ job[w].rec = tail[job[w].agent]

(* The log has an agent's records in that order, and every record but one  *)
(* that is still to be written or is being written.                        *)
OrderInv ==
    /\ \A i, k \in 1 .. Len(file) : Same(file[i].rec, file[k].rec) /\ i < k => file[i].rec < file[k].rec
    /\ \A r \in Records : InLog(r) \/ \E w \in Workers : pc[w] = "built" /\ job[w].rec = r
    /\ \A w \in Workers : pc[w] = "built" => ~InLog(job[w].rec)
    /\ \A r \in Records : r \in logged \/
         \E w \in Workers : pc[w] \in {"built", "payload", "sync"} /\ job[w].rec = r

-------------------------------------------------------------------------------
(* The log can be read to its end *)

(* What a crash leaves of a file whose frames are whole: again whole frames, *)
(* but perhaps for the last, which the crash cut or found half written.      *)
LEMMA CrashKeepsFrames ==
    ASSUME Tears \subseteq {"payload"}, WalTypes, FrameInv, NEW f \in CrashImages
    PROVE  \A i \in 1 .. Len(f) : ~Whole(f[i]) =>
             i = Len(f) /\ synced < i /\ f[i].part = "payload"
<1> DEFINE T == [rec : Records, part : Parts]
<1>1. file \in Seq(T) /\ synced \in 0 .. Len(file)
  BY DEF WalTypes
<1>2. ASSUME NEW k \in 0 .. Len(file)
      PROVE  /\ SubSeq(file, 1, k) \in Seq(T)
             /\ Len(SubSeq(file, 1, k)) = k
             /\ \A i \in 1 .. k : SubSeq(file, 1, k)[i] = file[i]
  <2> HIDE DEF T
  <2> QED BY <1>1, SubSeqProperties
<1>3. \A i \in 1 .. Len(file) : ~Whole(file[i]) =>
        i = Len(file) /\ synced < i /\ file[i].part = "payload"
  BY DEF FrameInv
<1>4. CASE \E k \in synced .. Len(file) : f = SubSeq(file, 1, k)
  <2>1. PICK k \in synced .. Len(file) : f = SubSeq(file, 1, k)
    BY <1>4
  <2>2. k \in 0 .. Len(file)
    BY <1>1
  <2> HIDE DEF T
  <2>3. Len(f) = k /\ \A i \in 1 .. k : f[i] = file[i]
    BY <2>1, <2>2, <1>2
  <2> QED
    BY <1>1, <1>3, <2>2, <2>3
<1>5. CASE \E k \in synced + 1 .. Len(file) : \E t \in Tears :
             f = Append(SubSeq(file, 1, k - 1), Frame(file[k].rec, t))
  <2>1. PICK k \in synced + 1 .. Len(file), t \in Tears :
              f = Append(SubSeq(file, 1, k - 1), Frame(file[k].rec, t))
    BY <1>5
  <2> DEFINE g == SubSeq(file, 1, k - 1)
             e == Frame(file[k].rec, t)
  <2>2. k \in 1 .. Len(file) /\ k - 1 \in 0 .. Len(file)
    BY <1>1
  <2>3. t = "payload" /\ e.part = "payload"
    BY DEF Frame
  <2>4. g \in Seq(T) /\ Len(g) = k - 1 /\ \A i \in 1 .. k - 1 : g[i] = file[i]
    BY <1>2, <2>2
  <2>5. f = Append(g, e)
    BY <2>1
  <2>6. file[k] \in T
    <3> HIDE DEF T
    <3> QED BY <1>1, <2>2, ElementOfSeq
  <2>7. e \in T
    BY <2>3, <2>6 DEF Frame, Parts
  <2> HIDE DEF T, g, e
  <2>8. Len(f) = k /\ f[k] = e /\ \A i \in 1 .. k - 1 : f[i] = g[i]
    BY <2>2, <2>4, <2>5, <2>7, AppendProperties
  <2>9. \A i \in 1 .. k : i = k \/ (i \in 1 .. k - 1 /\ i \in 1 .. Len(file) /\ i # Len(file))
    BY <1>1, <2>2
  <2> QED
    BY <1>1, <1>3, <2>2, <2>3, <2>4, <2>8, <2>9
<1>6. \/ f \in {SubSeq(file, 1, k) : k \in synced .. Len(file)}
      \/ \E k \in synced + 1 .. Len(file) :
           f \in {Append(SubSeq(file, 1, k - 1), Frame(file[k].rec, t)) : t \in CanTear(file[k])}
  BY Zenon DEF CrashImages
<1>7. \A k \in synced + 1 .. Len(file) : CanTear(file[k]) \subseteq Tears
  BY DEF CanTear
<1> QED
  BY <1>4, <1>5, <1>6, <1>7

(* Opening the log: every frame up to the first one that cannot be read is  *)
(* kept, and the synced ones are among them.                                *)
LEMMA RecoveryKeepsFrames ==
    ASSUME WalTypes, FrameInv, NEW n \in 0 .. Len(file), Delivers(file, n)
    PROVE  /\ synced <= n
           /\ RecoverTail(file, n) = SubSeq(file, 1, n)
           /\ Len(SubSeq(file, 1, n)) = n
           /\ \A i \in 1 .. n : SubSeq(file, 1, n)[i] = file[i]
           /\ \A i \in 1 .. n : Whole(file[i])
<1> DEFINE T == [rec : Records, part : Parts]
<1>1. file \in Seq(T) /\ synced \in 0 .. Len(file)
  BY DEF WalTypes
<1>2. /\ Len(SubSeq(file, 1, n)) = n
      /\ \A i \in 1 .. n : SubSeq(file, 1, n)[i] = file[i]
  <2> HIDE DEF T
  <2> QED BY <1>1, SubSeqProperties
<1>3. n < Len(file) => n + 1 \in 1 .. Len(file) /\ ~Whole(file[n + 1])
  BY <1>1 DEF Delivers, Whole
<1>4. synced <= n
  BY <1>1, <1>3 DEF FrameInv
<1>5. RecoverTail(file, n) = SubSeq(file, 1, n)
  <2>1. n + 1 = Len(file) => file[Len(file)].part = "payload"
    BY <1>1, <1>3 DEF FrameInv
  <2> QED
    BY <2>1 DEF RecoverTail
<1>6. \A i \in 1 .. n : Whole(file[i])
  BY DEF Delivers, Whole
<1> QED
  BY <1>2, <1>4, <1>5, <1>6

(* Only the last frame may be incomplete, and accepted records stay whole. *)
LEMMA FrameStep ==
    ASSUME TearsShow, IInv, FrameInv, Next
    PROVE  FrameInv'
<1>0. /\ WalTypes /\ ProcTypes /\ ChainAssumption /\ LockInv /\ DownInv /\ JobInv
      /\ file \in Seq([rec : Records, part : Parts]) /\ synced \in 0 .. Len(file)
      /\ logged \subseteq Records
      /\ pc \in [Workers -> Steps] /\ None \notin Workers
  BY ChainAssumption DEF IInv, TypeOK, WalTypes, ProcTypes
<1> DEFINE Cut(f, s, u, p) ==
      \A i \in 1 .. Len(f) : ~Whole(f[i]) =>
        /\ i = Len(f) /\ s < i /\ f[i].part = "payload"
        /\ u => \E w \in Workers : p[w] = "payload"
    Kept(f, s, l) == \A r \in l : \E i \in 1 .. s : f[i] = Frame(r, "full")
<1>00. /\ Cut(file, synced, up, pc) /\ Kept(file, synced, logged)
       /\ FrameInv' <=> Cut(file', synced', up', pc') /\ Kept(file', synced', logged')
  BY DEF FrameInv
<1>a. ASSUME UNCHANGED <<file, synced, logged, up>>,
             \A w \in Workers : pc[w] = "payload" => pc'[w] = "payload"
      PROVE  FrameInv'
  BY <1>a, <1>00
<1>1. ASSUME NEW w \in Workers, NEW a \in Agents, Call(w, a)
      PROVE  FrameInv'
  BY <1>0, <1>1, <1>a DEF Call, walVars
<1>2. ASSUME NEW w \in Workers, BuildRecord(w)
      PROVE  FrameInv'
  BY <1>0, <1>2, <1>a DEF BuildRecord, walVars, lifeVars
<1>3. ASSUME NEW w \in Workers, WriteHeader(w)
      PROVE  FrameInv'
  <2> DEFINE e == Frame(job[w].rec, "payload")
  <2>1. /\ pc[w] = "built" /\ walMu = None /\ pc' = [pc EXCEPT ![w] = "payload"]
        /\ file' = Append(file, e) /\ UNCHANGED <<synced, logged, up>>
    BY <1>3 DEF WriteHeader, lifeVars
  <2>2. up
    BY <1>0, <2>1 DEF DownInv
  <2>3. \A i \in 1 .. Len(file) : Whole(file[i])
    BY <1>0, <1>00, <2>1, <2>2 DEF LockInv
  <2>4. e \in [rec : Records, part : Parts] /\ e.part = "payload"
    BY <1>0, <2>1 DEF JobInv, Frame, Parts
  <2>5. /\ Len(file') = Len(file) + 1 /\ file'[Len(file) + 1] = e
        /\ \A i \in 1 .. Len(file) : file'[i] = file[i]
    BY <1>0, <2>1, <2>4
  <2> HIDE DEF e
  <2>6. Cut(file', synced', up', pc')
    <3> SUFFICES ASSUME NEW i \in 1 .. Len(file'), ~Whole(file'[i])
                 PROVE  /\ i = Len(file') /\ synced' < i /\ file'[i].part = "payload"
                        /\ up' => \E v \in Workers : pc'[v] = "payload"
      OBVIOUS
    <3>1. i = Len(file) + 1
      BY <1>0, <2>3, <2>5 DEF Whole
    <3> QED
      BY <1>0, <3>1, <2>1, <2>4, <2>5
  <2>7. Kept(file', synced', logged')
    BY <1>0, <1>00, <2>1, <2>5
  <2> QED
    BY <1>00, <2>6, <2>7
<1>4. ASSUME NEW w \in Workers, WritePayload(w)
      PROVE  FrameInv'
  <2> DEFINE e == [file[Len(file)] EXCEPT !.part = "full"]
  <2>1. /\ pc[w] = "payload" /\ pc' = [pc EXCEPT ![w] = "sync"]
        /\ file' = [file EXCEPT ![Len(file)] = e] /\ UNCHANGED <<synced, logged, up>>
    BY <1>4 DEF WritePayload, lifeVars
  <2>2. synced < Len(file) /\ file[Len(file)] = Frame(job[w].rec, "payload")
    BY <1>0, <2>1 DEF LockInv
  <2>3. e.part = "full"
    BY <2>2 DEF Frame
  <2> HIDE DEF e
  <2>4. /\ Len(file') = Len(file) /\ file'[Len(file)] = e
        /\ \A i \in 1 .. Len(file) : i # Len(file) => file'[i] = file[i]
    BY <1>0, <2>1, <2>2
  <2>5. \A i \in 1 .. Len(file') : Whole(file'[i])
    BY <1>0, <1>00, <2>3, <2>4 DEF Whole
  <2>6. Cut(file', synced', up', pc')
    BY <2>5
  <2>7. \A i \in 1 .. synced : file'[i] = file[i]
    BY <1>0, <2>2, <2>4
  <2>8. Kept(file', synced', logged')
    BY <1>00, <2>1, <2>7
  <2> QED
    BY <1>00, <2>6, <2>8
<1>5. ASSUME NEW w \in Workers, Sync(w)
      PROVE  FrameInv'
  <2>1. /\ pc[w] = "sync" /\ synced' = Len(file) /\ logged' = logged \cup {job[w].rec}
        /\ UNCHANGED <<file, up>>
    BY <1>5 DEF Sync, lifeVars
  <2>2. file[Len(file)] = Frame(job[w].rec, "full") /\ synced < Len(file)
    BY <1>0, <2>1 DEF LockInv
  <2>3. \A i \in 1 .. Len(file') : Whole(file'[i])
    BY <1>0, <1>00, <2>1, <2>2 DEF Whole, Frame
  <2>4. Kept(file', synced', logged')
    BY <1>0, <1>00, <2>1, <2>2
  <2> QED
    BY <1>00, <2>3, <2>4
<1>6. ASSUME NEW w \in Workers, HeaderFails(w)
      PROVE  FrameInv'
  <2>1. UNCHANGED <<file, synced, logged, up>> /\ pc[w] = "built" /\ pc' = [pc EXCEPT ![w] = "failed"]
    BY <1>6 DEF HeaderFails, lifeVars, TearsShow
  <2> QED
    BY <1>0, <2>1, <1>a
<1>7. ASSUME NEW w \in Workers, PayloadOrSyncFails(w)
      PROVE  FrameInv'
  <2>1. UNCHANGED <<file, synced, logged, up>> /\ pc[w] = "sync" /\ pc' = [pc EXCEPT ![w] = "failed"]
    BY <1>7 DEF PayloadOrSyncFails, lifeVars, TearsShow
  <2> QED
    BY <1>0, <2>1, <1>a
<1>8. ASSUME NEW w \in Workers, Deny(w)
      PROVE  FrameInv'
  BY <1>0, <1>8, <1>a DEF Deny, walVars, lifeVars
<1>9. ASSUME NEW w \in Workers, Replicate(w)
      PROVE  FrameInv'
  BY <1>0, <1>9, <1>a DEF Replicate, walVars, lifeVars
<1>10. ASSUME NEW w \in Workers, Answer(w)
       PROVE  FrameInv'
  BY <1>0, <1>10, <1>a DEF Answer, walVars, lifeVars
<1>11. CASE QueueTake
  BY <1>11, <1>a DEF QueueTake, walVars, lifeVars, procVars
<1>12. CASE QueueSave
  BY <1>12, <1>a DEF QueueSave, walVars, lifeVars, procVars
<1>13. ASSUME NEW r \in saving, FallbackSave(r)
       PROVE  FrameInv'
  BY <1>13, <1>a DEF FallbackSave, walVars, lifeVars, procVars
<1>14. CASE Crash
  <2>1. file' \in CrashImages /\ up' = FALSE /\ UNCHANGED <<synced, logged>>
    BY <1>14, Zenon DEF Crash
  <2>2. crashes \in Nat /\ MaxCrashes \in Nat /\ crashes < MaxCrashes
    BY <1>14, ChainAssumption, SMT DEF Crash, IInv, TypeOK, LifeTypes
  <2>3. Tears \subseteq {"payload"}
    BY <2>2 DEF TearsShow
  <2>4. Cut(file', synced', up', pc')
    BY <1>0, <2>1, <2>3, CrashKeepsFrames
  <2>5. synced <= Len(file') /\ \A i \in 1 .. synced : file'[i] = file[i]
    BY <1>0, <2>1, CrashImageType
  <2>6. Kept(file', synced', logged')
    BY <1>00, <2>1, <2>5
  <2> QED
    BY <1>00, <2>4, <2>6
<1>15. CASE Start
  <2>1. PICK n \in 0 .. Len(file) : Delivers(file, n) /\ file' = RecoverTail(file, n)
    BY <1>15 DEF Start
  <2>2. synced' = Len(file') /\ logged' = logged
    BY <1>15 DEF Start
  <2>3. /\ synced <= n /\ Len(file') = n
        /\ \A i \in 1 .. n : file'[i] = file[i] /\ Whole(file[i])
    BY <1>0, <2>1, RecoveryKeepsFrames
  <2>4. Cut(file', synced', up', pc')
    BY <2>3
  <2>5. Kept(file', synced', logged')
    BY <1>0, <1>00, <2>2, <2>3
  <2> QED
    BY <1>00, <2>4, <2>5
<1> QED
  BY <1>1, <1>2, <1>3, <1>4, <1>5, <1>6, <1>7, <1>8, <1>9, <1>10,
     <1>11, <1>12, <1>13, <1>14, <1>15 DEF Next, Decide

LEMMA FrameInvariance == ASSUME TearsShow PROVE Spec => [](IInv /\ FrameInv)
<1>1. Init => FrameInv
  BY DEF Init, FrameInv
<1>2. IInv /\ FrameInv /\ [Next]_vars => FrameInv'
  <2>1. ASSUME IInv, FrameInv, UNCHANGED vars
        PROVE  FrameInv'
    BY <2>1 DEF FrameInv, vars, lifeVars, procVars, walVars
  <2> QED
    BY <2>1, FrameStep
<1> QED
  BY <1>1, <1>2, InvInit, InvStep, PTL DEF Spec

(* Some prefix of the log is what a reader delivers: all of it, or all but  *)
(* the last frame.                                                          *)
LEMMA ReaderDelivers ==
    ASSUME WalTypes, FrameInv
    PROVE  /\ ReadablePrefix(file) = SubSeq(file, 1, CHOOSE n \in 0 .. Len(file) : Delivers(file, n))
           /\ (CHOOSE n \in 0 .. Len(file) : Delivers(file, n)) \in 0 .. Len(file)
           /\ Delivers(file, CHOOSE n \in 0 .. Len(file) : Delivers(file, n))
<1> DEFINE last == Len(file)
<1>1. file \in Seq([rec : Records, part : Parts]) /\ synced \in 0 .. last /\ last \in Nat
  BY DEF WalTypes
<1>2. \E m \in 0 .. last : Delivers(file, m)
  <2>1. CASE last = 0 \/ Whole(file[last])
    <3>1. \A i \in 1 .. last : Whole(file[i])
      BY <1>1, <2>1 DEF FrameInv
    <3> QED
      BY <1>1, <3>1 DEF Delivers, Whole
  <2>2. CASE last # 0 /\ ~Whole(file[last])
    <3>1. last - 1 \in 0 .. last /\ \A i \in 1 .. last - 1 : i \in 1 .. last /\ i # last
      BY <1>1, <2>2
    <3>2. \A i \in 1 .. last - 1 : Whole(file[i])
      BY <3>1 DEF FrameInv
    <3>3. file[(last - 1) + 1].part # "full"
      BY <1>1, <2>2 DEF Whole
    <3>4. Delivers(file, last - 1)
      BY <3>2, <3>3 DEF Delivers, Whole
    <3> QED
      BY <3>1, <3>4
  <2> QED
    BY <2>1, <2>2
<1> QED
  BY <1>2 DEF ReadablePrefix

(* README.md:387, "No execution without a durable audit record": whatever a *)
(* caller was answered is read back from the log, at any later time and     *)
(* after any number of crashes, when a failed write leaves nothing or a     *)
(* whole frame and a crash cuts payloads only. Without that it is refuted   *)
(* by the run chain_torn_write.                                             *)
THEOREM AnsweredReadable == ASSUME TearsShow PROVE Spec => []AnsweredStaysReadable
<1>1. IInv /\ FrameInv => AnsweredStaysReadable
  <2> SUFFICES ASSUME IInv, FrameInv, NEW r \in answered
               PROVE  r \in Readable
    BY DEF AnsweredStaysReadable
  <2>1. WalTypes /\ r \in logged
    BY DEF IInv, TypeOK, AcceptedInv
  <2> DEFINE n == CHOOSE m \in 0 .. Len(file) : Delivers(file, m)
             last == Len(file)
  <2>2. file \in Seq([rec : Records, part : Parts]) /\ synced \in 0 .. last /\ last \in Nat
    BY <2>1 DEF WalTypes
  <2>4. n \in 0 .. Len(file) /\ Delivers(file, n) /\ ReadablePrefix(file) = SubSeq(file, 1, n)
    BY <2>1, ReaderDelivers
  <2> HIDE DEF n, last
  <2>6. /\ synced <= n /\ Len(ReadablePrefix(file)) = n
        /\ \A i \in 1 .. n : ReadablePrefix(file)[i] = file[i]
    BY <2>1, <2>4, RecoveryKeepsFrames
  <2>7. PICK i \in 1 .. synced : file[i] = Frame(r, "full")
    BY <2>1 DEF FrameInv
  <2>8. i \in 1 .. n /\ file[i].rec = r
    BY <2>2, <2>4, <2>6, <2>7 DEF Frame
  <2> QED
    BY <2>6, <2>8 DEF Readable
<1> QED
  BY <1>1, FrameInvariance, PTL

-------------------------------------------------------------------------------
(* The daemon implements the abstract audit log *)

(* The stamps of the calls still to be recorded are a finite set. *)
LEMMA UnbuiltIsFinite ==
    ASSUME LifeTypes, CountInv
    PROVE  IsFiniteSet(Unbuilt) /\ Cardinality(Unbuilt) \in Nat
<1>1. calls \in Nat /\ 1 \in Int /\ Unbuilt \in SUBSET (1 .. calls)
  BY DEF LifeTypes, CountInv
<1> HIDE DEF Unbuilt
<1>2. IsFiniteSet(1 .. calls)
  BY <1>1, FS_Interval
<1> QED
  BY <1>1, <1>2, FS_Subset, FS_CardinalityType

(* No record is made but for a call of its own. *)
LEMMA CountStep ==
    ASSUME IInv, CountInv, Next
    PROVE  CountInv'
<1>0. /\ LifeTypes /\ calls \in Nat /\ Len(built) \in Nat /\ DownInv
      /\ pc \in [Workers -> Steps] /\ job \in [Workers -> [agent : Agents \cup {None}, ts : Nat, rec : 0 .. Len(built)]]
      /\ MaxCalls \in Nat
      /\ IsFiniteSet(Unbuilt) /\ Cardinality(Unbuilt) \in Nat
  BY UnbuiltIsFinite, ChainAssumption DEF IInv, TypeOK, LifeTypes, ChainTypes, ProcTypes
<1> DEFINE Pending(w) == pc[w] = "called"
<1>a. ASSUME UNCHANGED <<calls, built>>,
             \A w \in Workers : pc'[w] = "called" <=> pc[w] = "called",
             \A w \in Workers : pc[w] = "called" => job'[w] = job[w]
      PROVE  CountInv'
  <2>1. {w \in Workers : Pending(w)}' = {w \in Workers : Pending(w)}
    BY <1>a
  <2>2. Unbuilt' = Unbuilt
    BY <1>a DEF Unbuilt
  <2> QED
    BY <1>a, <2>2 DEF CountInv
<1>1. ASSUME NEW w \in Workers, NEW a \in Agents, Call(w, a)
      PROVE  CountInv'
  <2> DEFINE j == [agent |-> a, ts |-> calls + 1, rec |-> 0]
  <2>1. /\ pc[w] = "idle" /\ calls < MaxCalls /\ calls' = calls + 1 /\ built' = built
        /\ pc' = [pc EXCEPT ![w] = "called"] /\ job' = [job EXCEPT ![w] = j]
    BY <1>1 DEF Call, chainVars
  <2>2. j.ts = calls + 1
    OBVIOUS
  <2> HIDE DEF j
  <2>3. \A v \in Workers : (pc'[v] = "called" <=> v = w \/ pc[v] = "called")
    BY <1>0, <2>1
  <2>4. \A v \in Workers : pc[v] = "called" => job'[v] = job[v] /\ job[v].ts \in 1 .. calls
    BY <1>0, <2>1 DEF CountInv, Unbuilt
  <2>5. job'[w].ts = calls + 1
    BY <1>0, <2>1, <2>2
  <2>6. Unbuilt' = Unbuilt \cup {calls + 1}
    BY <2>3, <2>4, <2>5 DEF Unbuilt
  <2>7. calls + 1 \notin Unbuilt
    BY <1>0 DEF CountInv
  <2>8. Cardinality(Unbuilt') = Cardinality(Unbuilt) + 1
    BY <1>0, <2>6, <2>7, FS_AddElement
  <2>9. \A u, v \in Workers : pc'[u] = "called" /\ pc'[v] = "called" /\ job'[u].ts = job'[v].ts => u = v
    BY <1>0, <2>3, <2>4, <2>5 DEF CountInv
  <2>10. Unbuilt' \subseteq 1 .. calls'
    BY <1>0, <2>1, <2>6 DEF CountInv
  <2>11. calls' <= MaxCalls /\ Len(built') + Cardinality(Unbuilt') <= calls'
    BY <1>0, <2>1, <2>8 DEF CountInv
  <2> QED
    BY <2>9, <2>10, <2>11 DEF CountInv
<1>2. ASSUME NEW w \in Workers, BuildRecord(w)
      PROVE  CountInv'
  <2>1. /\ pc[w] = "called" /\ calls' = calls /\ Len(built') = Len(built) + 1
        /\ pc' = [pc EXCEPT ![w] = "built"] /\ job' = [job EXCEPT ![w].rec = Len(built) + 1]
    BY <1>2 DEF BuildRecord, lifeVars, IInv, TypeOK, ChainTypes
  <2>2. \A v \in Workers : (pc'[v] = "called" <=> v # w /\ pc[v] = "called")
    BY <1>0, <2>1
  <2>3. \A v \in Workers : v # w => job'[v] = job[v]
    BY <1>0, <2>1
  <2>4. \A v \in Workers : v # w /\ pc[v] = "called" => job[v].ts # job[w].ts
    BY <2>1 DEF CountInv
  <2>5. Unbuilt' = Unbuilt \ {job[w].ts}
    BY <2>2, <2>3, <2>4 DEF Unbuilt
  <2>6. job[w].ts \in Unbuilt
    BY <2>1 DEF Unbuilt
  <2>7. Cardinality(Unbuilt') = Cardinality(Unbuilt) - 1
    BY <1>0, <2>5, <2>6, FS_RemoveElement
  <2>8. \A u, v \in Workers : pc'[u] = "called" /\ pc'[v] = "called" /\ job'[u].ts = job'[v].ts => u = v
    BY <2>2, <2>3 DEF CountInv
  <2>9. Unbuilt' \subseteq 1 .. calls' /\ calls' <= MaxCalls
    BY <2>1, <2>5 DEF CountInv
  <2>10. Len(built') + Cardinality(Unbuilt') <= calls'
    BY <1>0, <2>1, <2>7 DEF CountInv
  <2> QED
    BY <2>8, <2>9, <2>10 DEF CountInv
<1>3. ASSUME NEW w \in Workers, WriteHeader(w)
      PROVE  CountInv'
  BY <1>0, <1>3, <1>a DEF WriteHeader, lifeVars, chainVars
<1>4. ASSUME NEW w \in Workers, WritePayload(w)
      PROVE  CountInv'
  BY <1>0, <1>4, <1>a DEF WritePayload, lifeVars, chainVars
<1>5. ASSUME NEW w \in Workers, Sync(w)
      PROVE  CountInv'
  BY <1>0, <1>5, <1>a DEF Sync, lifeVars, chainVars
<1>6. ASSUME NEW w \in Workers, HeaderFails(w)
      PROVE  CountInv'
  BY <1>0, <1>6, <1>a DEF HeaderFails, lifeVars, chainVars
<1>7. ASSUME NEW w \in Workers, PayloadOrSyncFails(w)
      PROVE  CountInv'
  BY <1>0, <1>7, <1>a DEF PayloadOrSyncFails, lifeVars, chainVars
<1>8. ASSUME NEW w \in Workers, Deny(w)
      PROVE  CountInv'
  BY <1>0, <1>8, <1>a DEF Deny, lifeVars, chainVars
<1>9. ASSUME NEW w \in Workers, Replicate(w)
      PROVE  CountInv'
  BY <1>0, <1>9, <1>a DEF Replicate, lifeVars, chainVars
<1>10. ASSUME NEW w \in Workers, Answer(w)
       PROVE  CountInv'
  BY <1>0, <1>10, <1>a DEF Answer, lifeVars, chainVars
<1>11. CASE QueueTake
  BY <1>11, <1>a DEF QueueTake, lifeVars, chainVars, procVars
<1>12. CASE QueueSave
  BY <1>12, <1>a DEF QueueSave, lifeVars, chainVars, procVars
<1>13. ASSUME NEW r \in saving, FallbackSave(r)
       PROVE  CountInv'
  BY <1>13, <1>a DEF FallbackSave, lifeVars, chainVars, procVars
<1>14. CASE Crash
  <2>1. UNCHANGED <<calls, built>> /\ \A w \in Workers : pc'[w] = "idle"
    BY <1>14, Zenon DEF Crash
  <2>2. Unbuilt' = {}
    BY <2>1 DEF Unbuilt
  <2>3. Cardinality(Unbuilt') = 0
    BY <2>2, FS_EmptySet
  <2> QED
    BY <1>0, <2>1, <2>2, <2>3 DEF CountInv
<1>15. CASE Start
  BY <1>15, <1>a DEF Start, procVars
<1> QED
  BY <1>1, <1>2, <1>3, <1>4, <1>5, <1>6, <1>7, <1>8, <1>9, <1>10,
     <1>11, <1>12, <1>13, <1>14, <1>15 DEF Next, Decide

LEMMA CountInit == Init => CountInv
<1> SUFFICES ASSUME Init PROVE CountInv
  OBVIOUS
<1>1. Unbuilt = {}
  BY DEF Init, Unbuilt
<1>2. Cardinality(Unbuilt) = 0
  BY <1>1, FS_EmptySet
<1> QED
  BY <1>1, <1>2, ChainAssumption DEF Init, CountInv

(* What is durable is what the synced frames hold. *)
DurableShows ==
    /\ Durable = {file[i].rec : i \in 1 .. synced}
    /\ Durable \subseteq 1 .. MaxCalls

LEMMA DurableIs == IInv /\ FrameInv /\ CountInv => DurableShows
<1> SUFFICES ASSUME IInv, FrameInv, CountInv PROVE DurableShows
  OBVIOUS
<1> DEFINE n == CHOOSE m \in 0 .. Len(file) : Delivers(file, m)
           T == [rec : Records, part : Parts]
<1>1. WalTypes /\ file \in Seq(T) /\ synced \in 0 .. Len(file) /\ LifeTypes /\ Len(built) \in Nat
  BY DEF IInv, TypeOK, WalTypes, ChainTypes
<1>2. n \in 0 .. Len(file) /\ Delivers(file, n) /\ ReadablePrefix(file) = SubSeq(file, 1, n)
  BY <1>1, ReaderDelivers
<1> HIDE DEF n
<1>3. /\ synced <= n /\ Len(ReadablePrefix(file)) = n
      /\ \A i \in 1 .. n : ReadablePrefix(file)[i] = file[i] /\ Whole(file[i])
  BY <1>1, <1>2, RecoveryKeepsFrames
<1>4. \A i \in 1 .. synced : i \in 1 .. n /\ i \in 1 .. Len(file)
  BY <1>1, <1>2, <1>3
<1>5. \A i \in 1 .. synced : file[i] \in T
  <2> HIDE DEF T
  <2> QED BY <1>1, <1>4, ElementOfSeq
<1>6. \A i \in 1 .. synced : file[i] = Frame(file[i].rec, "full") /\ file[i].rec \in Readable
  <2>1. \A i \in 1 .. synced : file[i] = Frame(file[i].rec, "full")
    BY <1>3, <1>4, <1>5 DEF Whole, Frame
  <2>2. \A i \in 1 .. synced : file[i].rec \in Readable
    BY <1>3, <1>4 DEF Readable
  <2> QED
    BY <2>1, <2>2
<1>7. \A r : \A i \in 1 .. synced : file[i] = Frame(r, "full") => file[i].rec = r
  BY DEF Frame
<1>8. Durable = {file[i].rec : i \in 1 .. synced}
  BY <1>6, <1>7 DEF Durable
<1>9. Records \subseteq 1 .. MaxCalls
  BY <1>1, UnbuiltIsFinite, ChainAssumption DEF CountInv, LifeTypes, Records
<1>10. \A i \in 1 .. synced : file[i].rec \in Records
  BY <1>5
<1> QED
  BY <1>8, <1>9, <1>10 DEF DurableShows

LEMMA LogInitIsAbstract == Init /\ DurableShows => Abstract!LogInit
BY DEF Init, DurableShows, Abstract!LogInit

(* What an fsync or a restart adds to the durable records is persisted in   *)
(* one abstract step; nothing else changes them, and nothing is forgotten.  *)
LEMMA DurableStep ==
    ASSUME DurableShows, DurableShows', synced \in Nat, synced' \in Nat,
           synced <= synced', \A i \in 1 .. synced : file'[i] = file[i],
           answered' = answered
    PROVE  Abstract!LogNext \/ UNCHANGED <<Durable, answered>>
<1>1. Durable \subseteq Durable'
  <2>1. \A i \in 1 .. synced : i \in 1 .. synced' /\ file[i].rec = file'[i].rec
    OBVIOUS
  <2> QED
    BY <2>1 DEF DurableShows
<1>2. CASE Durable' # Durable
  <2> DEFINE S == Durable' \ Durable
  <2>1. S # {} /\ Durable' = Durable \cup S /\ S \in SUBSET (1 .. MaxCalls)
    BY <1>1, <1>2 DEF DurableShows
  <2> HIDE DEF S
  <2>2. Abstract!Persist(S)
    BY <2>1 DEF Abstract!Persist
  <2> QED
    BY <2>1, <2>2 DEF Abstract!LogNext
<1> QED
  BY <1>2

(* Every step persists records, answers for a durable one, or changes       *)
(* nothing that the abstract log shows.                                     *)
LEMMA LogStepIsAbstract ==
    ASSUME IInv, FrameInv, DurableShows, IInv', DurableShows', Next
    PROVE  Abstract!LogNext \/ UNCHANGED <<Durable, answered>>
<1>0. /\ WalTypes /\ LockInv /\ AcceptedInv /\ JobInv
      /\ synced \in Nat /\ synced' \in Nat /\ synced <= Len(file) /\ Len(file) \in Nat
      /\ file \in Seq([rec : Records, part : Parts])
      /\ pc \in [Workers -> Steps]
  BY DEF IInv, TypeOK, WalTypes, ProcTypes
<1>a. ASSUME UNCHANGED <<file, synced, answered>>
      PROVE  Abstract!LogNext \/ UNCHANGED <<Durable, answered>>
  BY <1>0, <1>a, DurableStep
<1>1. ASSUME NEW w \in Workers, NEW a \in Agents, Call(w, a)
      PROVE  UNCHANGED <<file, synced, answered>>
  BY <1>1 DEF Call, walVars
<1>2. ASSUME NEW w \in Workers, BuildRecord(w)
      PROVE  UNCHANGED <<file, synced, answered>>
  BY <1>2 DEF BuildRecord, walVars
<1>3. ASSUME NEW w \in Workers, WriteHeader(w)
      PROVE  Abstract!LogNext \/ UNCHANGED <<Durable, answered>>
  <2> DEFINE e == Frame(job[w].rec, "payload")
  <2>1. /\ pc[w] = "built" /\ file' = Append(file, e) /\ UNCHANGED <<synced, answered>>
    BY <1>3 DEF WriteHeader
  <2>2. e \in [rec : Records, part : Parts]
    BY <1>0, <2>1 DEF JobInv, Frame, Parts
  <2> HIDE DEF e
  <2>3. \A i \in 1 .. synced : file'[i] = file[i]
    BY <1>0, <2>1, <2>2
  <2> QED
    BY <1>0, <2>1, <2>3, DurableStep
<1>4. ASSUME NEW w \in Workers, WritePayload(w)
      PROVE  Abstract!LogNext \/ UNCHANGED <<Durable, answered>>
  <2> DEFINE e == [file[Len(file)] EXCEPT !.part = "full"]
  <2>1. /\ pc[w] = "payload" /\ file' = [file EXCEPT ![Len(file)] = e]
        /\ UNCHANGED <<synced, answered>>
    BY <1>4 DEF WritePayload
  <2>2. synced < Len(file)
    BY <1>0, <2>1 DEF LockInv
  <2> HIDE DEF e
  <2>3. \A i \in 1 .. synced : file'[i] = file[i]
    BY <1>0, <2>1, <2>2
  <2> QED
    BY <1>0, <2>1, <2>3, DurableStep
<1>5. ASSUME NEW w \in Workers, Sync(w)
      PROVE  Abstract!LogNext \/ UNCHANGED <<Durable, answered>>
  <2>1. synced' = Len(file) /\ UNCHANGED <<file, answered>>
    BY <1>5 DEF Sync
  <2> QED
    BY <1>0, <2>1, DurableStep
<1>6. ASSUME NEW w \in Workers, HeaderFails(w)
      PROVE  Abstract!LogNext \/ UNCHANGED <<Durable, answered>>
  <2> DEFINE e == Frame(job[w].rec, "header")
  <2>1. /\ pc[w] = "built" /\ (file' = file \/ file' = Append(file, e))
        /\ UNCHANGED <<synced, answered>>
    BY <1>6 DEF HeaderFails
  <2>2. e \in [rec : Records, part : Parts]
    BY <1>0, <2>1 DEF JobInv, Frame, Parts
  <2> HIDE DEF e
  <2>3. \A i \in 1 .. synced : file'[i] = file[i]
    BY <1>0, <2>1, <2>2
  <2> QED
    BY <1>0, <2>1, <2>3, DurableStep
<1>7. ASSUME NEW w \in Workers, PayloadOrSyncFails(w)
      PROVE  UNCHANGED <<file, synced, answered>>
  BY <1>7 DEF PayloadOrSyncFails
<1>8. ASSUME NEW w \in Workers, Deny(w)
      PROVE  UNCHANGED <<file, synced, answered>>
  BY <1>8 DEF Deny, walVars
<1>9. ASSUME NEW w \in Workers, Replicate(w)
      PROVE  UNCHANGED <<file, synced, answered>>
  BY <1>9 DEF Replicate, walVars
<1>10. ASSUME NEW w \in Workers, Answer(w)
       PROVE  Abstract!LogNext \/ UNCHANGED <<Durable, answered>>
  <2> DEFINE r == job[w].rec
  <2>1. /\ pc[w] = "replicated" /\ UNCHANGED <<file, synced>>
        /\ answered' = answered \cup {r}
    BY <1>10 DEF Answer, walVars
  <2>2. r \in logged
    BY <1>0, <2>1 DEF AcceptedInv
  <2>3. PICK i \in 1 .. synced : file[i] = Frame(r, "full")
    BY <2>2 DEF FrameInv
  <2>4. file[i].rec = r
    BY <2>3 DEF Frame
  <2>5. r \in Durable
    BY <2>3, <2>4 DEF DurableShows
  <2>6. Durable' = Durable
    BY <2>1 DEF DurableShows
  <2> HIDE DEF r
  <2>7. Abstract!Return(r) /\ r \in 1 .. MaxCalls
    BY <2>1, <2>5, <2>6 DEF Abstract!Return, DurableShows
  <2> QED
    BY <2>7 DEF Abstract!LogNext
<1>11. CASE QueueTake
  BY <1>11, <1>a DEF QueueTake, walVars
<1>12. CASE QueueSave
  BY <1>12, <1>a DEF QueueSave, walVars
<1>13. ASSUME NEW r \in saving, FallbackSave(r)
       PROVE  UNCHANGED <<file, synced, answered>>
  BY <1>13 DEF FallbackSave, walVars
<1>14. CASE Crash
  <2>1. file' \in CrashImages /\ UNCHANGED <<synced, answered>>
    BY <1>14, Zenon DEF Crash
  <2>2. \A i \in 1 .. synced : file'[i] = file[i]
    BY <1>0, <2>1, CrashImageType
  <2> QED
    BY <1>0, <2>1, <2>2, DurableStep
<1>15. CASE Start
  <2>1. PICK n \in 0 .. Len(file) : Delivers(file, n) /\ file' = RecoverTail(file, n)
    BY <1>15 DEF Start
  <2>2. synced' = Len(file') /\ answered' = answered
    BY <1>15 DEF Start
  <2>3. synced <= n /\ Len(file') = n /\ \A i \in 1 .. n : file'[i] = file[i]
    BY <1>0, <2>1, RecoveryKeepsFrames
  <2>4. \A i \in 1 .. synced : file'[i] = file[i]
    BY <1>0, <2>3
  <2> QED
    BY <1>0, <2>2, <2>3, <2>4, DurableStep
<1> QED
  BY <1>a, <1>1, <1>2, <1>3, <1>4, <1>5, <1>6, <1>7, <1>8, <1>9, <1>10,
     <1>11, <1>12, <1>13, <1>14, <1>15 DEF Next, Decide

(* The WAL, with its lock, its failed writes, its crashes and its recovery, *)
(* is an audit log: what a reader finds only grows, and an answer is given  *)
(* for durable records only. The hypothesis is that of AnsweredReadable.    *)
THEOREM LogIsImplemented == ASSUME TearsShow PROVE Spec => ImplementsAuditLog
<1> DEFINE Inv == IInv /\ FrameInv /\ CountInv
<1>1. Init => Inv
  <2>1. Init => FrameInv
    BY DEF Init, FrameInv
  <2> QED
    BY <2>1, InvInit, CountInit
<1>2. Inv /\ [Next]_vars => Inv'
  <2>1. ASSUME FrameInv, CountInv, UNCHANGED vars PROVE FrameInv' /\ CountInv'
    BY <2>1 DEF FrameInv, CountInv, Unbuilt, vars, lifeVars, procVars, walVars, chainVars
  <2> QED
    BY <2>1, InvStep, FrameStep, CountStep
<1>3. Inv => DurableShows
  BY DurableIs
<1>4. Inv /\ DurableShows /\ Inv' /\ DurableShows' /\ [Next]_vars
         => Abstract!LogNext \/ UNCHANGED <<Durable, answered>>
  <2>1. ASSUME DurableShows, DurableShows', UNCHANGED vars
        PROVE  UNCHANGED <<Durable, answered>>
    BY <2>1 DEF DurableShows, vars, walVars
  <2> QED
    BY <2>1, LogStepIsAbstract
<1>5. Inv /\ DurableShows /\ Inv' /\ DurableShows' /\ [Next]_vars
         => [Abstract!LogNext]_<<Durable, answered>>
  BY <1>4
<1>6. [Abstract!LogNext]_<<Durable, answered>> => [Abstract!LogNext]_Abstract!logVars
  BY DEF Abstract!logVars
<1> QED
  BY <1>1, <1>2, <1>3, <1>5, <1>6, LogInitIsAbstract, PTL
     DEF Spec, ImplementsAuditLog, Abstract!LogSpec

-------------------------------------------------------------------------------
(* Agents that wait for an answer *)

LEMMA ElementTypes ==
    ASSUME TypeOK
    PROVE  /\ Len(built) \in Nat /\ Records = 1 .. Len(built)
           /\ \A j \in Records : built[j].agent \in Agents /\ built[j].prev \in Nat /\ built[j].ts \in Nat
           /\ Len(file) \in Nat /\ \A i \in 1 .. Len(file) : file[i].rec \in Records
<1> DEFINE R == [agent : Agents, prev : Nat, ts : Nat]
           T == [rec : Records, part : Parts]
<1>1. built \in Seq(R) /\ file \in Seq(T)
  BY DEF TypeOK, ChainTypes, WalTypes
<1>2. /\ \A j \in 1 .. Len(built) : built[j] \in R
      /\ \A i \in 1 .. Len(file) : file[i] \in T
  <2> HIDE DEF R, T
  <2> QED BY <1>1, ElementOfSeq
<1>3. Len(built) \in Nat /\ Len(file) \in Nat
  BY <1>1
<1> QED
  BY <1>2, <1>3 DEF Records

(* What an orderly daemon may do: nothing fails, and nothing dies. *)
LEMMA OrderlySteps ==
    ASSUME Orderly, IInv, CallInv, Next
    PROVE  \/ \E w \in Workers, a \in Agents : Call(w, a)
           \/ \E w \in Workers : \/ BuildRecord(w) \/ WriteHeader(w) \/ WritePayload(w)
                                 \/ Sync(w) \/ Replicate(w) \/ Answer(w)
           \/ UNCHANGED <<up, calls, built, tail, pc, job, file, logged>>
<1> USE DEF lifeVars, chainVars, procVars, walVars
<1>1. ASSUME NEW w \in Workers, HeaderFails(w) PROVE FALSE
  BY <1>1 DEF HeaderFails, Orderly
<1>2. ASSUME NEW w \in Workers, PayloadOrSyncFails(w) PROVE FALSE
  BY <1>2 DEF PayloadOrSyncFails, Orderly
<1>3. ASSUME NEW w \in Workers, Deny(w) PROVE FALSE
  BY <1>3 DEF Deny, CallInv
<1>4. ASSUME Crash PROVE FALSE
  <2>1. crashes \in Nat /\ crashes < 0
    BY <1>4, SMT DEF Crash, Orderly, IInv, TypeOK, LifeTypes
  <2> QED
    BY <2>1
<1>5. ASSUME Start PROVE FALSE
  BY <1>5, Zenon DEF Start, CallInv
<1>6. CASE QueueTake
  BY <1>6 DEF QueueTake
<1>7. CASE QueueSave
  BY <1>7 DEF QueueSave
<1>8. ASSUME NEW r \in saving, FallbackSave(r)
      PROVE  UNCHANGED <<up, calls, built, tail, pc, job, file, logged>>
  BY <1>8 DEF FallbackSave
<1> QED
  BY <1>1, <1>2, <1>3, <1>4, <1>5, <1>6, <1>7, <1>8 DEF Next, Decide

(* An agent's records stay in the order of its calls. *)
LEMMA BuildStep ==
    ASSUME Orderly, IInv, BuildInv, CallInv, Next
    PROVE  BuildInv'
<1>0. /\ TypeOK /\ calls \in Nat /\ Len(built) \in Nat
      /\ tail \in [Agents -> 0 .. Len(built)]
      /\ job \in [Workers -> [agent : Agents \cup {None}, ts : Nat, rec : 0 .. Len(built)]]
      /\ \A w \in Workers : pc[w] # "idle" => job[w].agent \in Agents
  BY DEF IInv, TypeOK, LifeTypes, ChainTypes, ProcTypes, JobInv
<1>1. ASSUME UNCHANGED <<built, tail>>, calls' = calls \/ calls' = calls + 1
      PROVE  BuildInv'
  <2>1. \A j \in Records : built[j].ts <= calls'
    BY <1>0, <1>1, ElementTypes DEF BuildInv
  <2> QED
    BY <1>1, <2>1 DEF BuildInv, Records, Same
<1>2. ASSUME NEW w \in Workers, BuildRecord(w)
      PROVE  BuildInv'
  <2> DEFINE n == Len(built)
             a == job[w].agent
             t == job[w].ts
             e == [agent |-> a, prev |-> tail[a], ts |-> t]
  <2>1. /\ pc[w] = "called" /\ calls' = calls
        /\ built' = Append(built, e) /\ tail' = [tail EXCEPT ![a] = n + 1]
    BY <1>2 DEF BuildRecord, lifeVars
  <2>2. a \in Agents /\ t \in Nat /\ tail[a] \in 0 .. n
    BY <1>0, <2>1
  <2>3. e.agent = a /\ e.prev = tail[a] /\ e.ts = t
    OBVIOUS
  <2>4. /\ n \in Nat /\ Len(built') = n + 1 /\ built'[n + 1] = e
        /\ \A j \in 1 .. n : built'[j] = built[j]
    BY <1>0, <2>1, <2>2 DEF TypeOK, ChainTypes
  <2>5. t <= calls /\ \A j \in Records : built[j].agent = a => built[j].ts < t
    BY <2>1 DEF CallInv
  <2>6. Records = 1 .. n /\ Records' = 1 .. n + 1
    BY <2>4 DEF Records
  <2> HIDE DEF n, a, t, e
  <2>7. \A j \in Records' : j = n + 1 \/ j \in Records
    BY <2>4, <2>6
  <2>8. \A j \in Records : j < n + 1 /\ j # n + 1 /\ built'[j] = built[j] /\ j \in Nat
    BY <2>4, <2>6
  <2>9. /\ built'[n + 1].agent = a /\ built'[n + 1].prev = tail[a] /\ built'[n + 1].ts = t
    BY <2>3, <2>4
  <2>10. tail'[a] = n + 1 /\ \A b \in Agents : b # a => tail'[b] = tail[b]
    BY <1>0, <2>1, <2>2
  <2>11. \A i, j \in Records' : built'[i].agent = built'[j].agent /\ i < j => built'[i].ts < built'[j].ts
    BY <2>4, <2>5, <2>6, <2>7, <2>8, <2>9 DEF BuildInv, Same
  <2>12. \A j \in Records' :
           /\ built'[j].prev < j
           /\ built'[j].prev # 0 => built'[built'[j].prev].agent = built'[j].agent
           /\ \A i \in Records' : built'[i].agent = built'[j].agent /\ i < j => i <= built'[j].prev
    <3> SUFFICES ASSUME NEW j \in Records'
                 PROVE  /\ built'[j].prev < j
                        /\ built'[j].prev # 0 => built'[built'[j].prev].agent = built'[j].agent
                        /\ \A i \in Records' : built'[i].agent = built'[j].agent /\ i < j => i <= built'[j].prev
      OBVIOUS
    <3>1. CASE j = n + 1
      <4>1. tail[a] # 0 => tail[a] \in Records /\ built[tail[a]].agent = a
        BY <2>2, <2>6 DEF BuildInv
      <4>2. \A i \in Records : built[i].agent = a => i <= tail[a]
        BY DEF BuildInv
      <4> QED
        BY <2>2, <2>4, <2>6, <2>7, <2>8, <2>9, <3>1, <4>1, <4>2 DEF Same
    <3>2. CASE j \in Records
      <4>1. built[j].prev \in Nat /\ j \in Nat
        BY <1>0, <3>2, <2>8, ElementTypes
      <4>2. built[j].prev < j
        BY <3>2 DEF BuildInv
      <4>3. built[j].prev # 0 => built[j].prev \in Records /\ built[built[j].prev].agent = built[j].agent
        <5>1. built[j].prev # 0 => built[built[j].prev].agent = built[j].agent
          BY <3>2 DEF BuildInv, Same
        <5> DEFINE p == built[j].prev
        <5>2. p \in Nat /\ j \in 1 .. n /\ p < j /\ n \in Nat
          BY <2>4, <2>6, <3>2, <4>1, <4>2
        <5> HIDE DEF p
        <5>3. p # 0 => p \in 1 .. n
          BY <5>2
        <5> QED
          BY <2>6, <5>1, <5>3 DEF p
      <4>4. \A i \in Records : built[i].agent = built[j].agent /\ i < j => i <= built[j].prev
        BY <3>2 DEF BuildInv, Same
      <4>5. ~(n + 1 < j)
        BY <2>4, <2>6, <3>2
      <4>6. \A i \in Records' : built'[i].agent = built'[j].agent /\ i < j => i <= built'[j].prev
        BY <2>7, <2>8, <3>2, <4>4, <4>5
      <4> QED
        BY <2>8, <3>2, <4>2, <4>3, <4>6
    <3> QED
      BY <2>7, <3>1, <3>2
  <2>13. \A j \in Records' : built'[j].ts <= calls' /\ j <= tail'[built'[j].agent]
    <3>1. \A j \in Records : built[j].ts <= calls /\ j <= tail[built[j].agent] /\ built[j].agent \in Agents
      BY <1>0, ElementTypes DEF BuildInv
    <3>2. \A j \in Records : built'[j].ts <= calls' /\ j <= tail'[built'[j].agent]
      <4> SUFFICES ASSUME NEW j \in Records
                   PROVE  built'[j].ts <= calls' /\ j <= tail'[built'[j].agent]
        OBVIOUS
      <4>1. j <= n + 1
        BY <2>4, <2>6
      <4> QED
        BY <2>1, <2>8, <2>10, <3>1, <4>1
    <3>3. built'[n + 1].ts <= calls' /\ n + 1 <= tail'[built'[n + 1].agent]
      BY <2>1, <2>4, <2>5, <2>9, <2>10
    <3> QED
      BY <2>7, <3>2, <3>3
  <2>14. \A b \in Agents : tail'[b] # 0 => built'[tail'[b]].agent = b
    <3>1. \A b \in Agents : tail[b] # 0 => tail[b] \in Records /\ built[tail[b]].agent = b
      BY <1>0, <2>4, <2>6 DEF BuildInv, n
    <3> QED
      BY <2>8, <2>9, <2>10, <3>1
  <2> QED
    BY <2>11, <2>12, <2>13, <2>14 DEF BuildInv, Same
<1>3. ASSUME NEW w \in Workers, NEW a \in Agents, Call(w, a) PROVE BuildInv'
  BY <1>1, <1>3 DEF Call, chainVars
<1>4. ASSUME NEW w \in Workers,
             WriteHeader(w) \/ WritePayload(w) \/ Sync(w) \/ Replicate(w) \/ Answer(w)
      PROVE  BuildInv'
  BY <1>1, <1>4 DEF WriteHeader, WritePayload, Sync, Replicate, Answer, lifeVars, chainVars
<1> QED
  BY <1>1, <1>2, <1>3, <1>4, OrderlySteps

(* An agent has one call under way at most, for its newest record. *)
LEMMA CallStep ==
    ASSUME Orderly, IInv, BuildInv, CallInv, Next
    PROVE  CallInv'
<1>0. /\ TypeOK /\ calls \in Nat /\ Len(built) \in Nat
      /\ tail \in [Agents -> 0 .. Len(built)]
      /\ pc \in [Workers -> Steps] /\ None \notin Agents
      /\ job \in [Workers -> [agent : Agents \cup {None}, ts : Nat, rec : 0 .. Len(built)]]
      /\ \A w \in Workers : pc[w] # "idle" => job[w].agent \in Agents
      /\ \A w \in Workers : pc[w] \notin {"idle", "called"} => job[w].rec \in Records
  BY ChainAssumption DEF IInv, TypeOK, LifeTypes, ChainTypes, ProcTypes, JobInv
<1> DEFINE Before(w) == job[w].ts <= calls /\ \A j \in Records : built[j].agent = job[w].agent => built[j].ts < job[w].ts
           Newest(w) == built[job[w].rec].agent = job[w].agent /\ job[w].rec = tail[job[w].agent]
<1>1. /\ up
      /\ \A w \in Workers : pc[w] # "failed" /\ (job[w].agent # None <=> pc[w] # "idle")
      /\ \A v, w \in Workers : pc[v] # "idle" /\ pc[w] # "idle" /\ job[v].agent = job[w].agent => v = w
      /\ \A w \in Workers : pc[w] = "called" => Before(w)
      /\ \A w \in Workers : pc[w] \notin {"idle", "called"} => Newest(w)
  BY DEF CallInv, Busy
<1>2. ASSUME UNCHANGED <<up, calls, built, tail, job>>,
             NEW w \in Workers, pc[w] \notin {"idle", "called"},
             NEW s \in Steps \ {"idle", "called", "failed"}, pc' = [pc EXCEPT ![w] = s]
      PROVE  CallInv'
  <2>1. \A v \in Workers :
          /\ pc'[v] # "idle" <=> pc[v] # "idle"
          /\ pc'[v] = "called" <=> pc[v] = "called"
          /\ pc[v] # "failed" => pc'[v] # "failed"
    BY <1>0, <1>2
  <2> QED
    BY <1>1, <1>2, <2>1 DEF CallInv, Busy, Records
<1>3. ASSUME NEW w \in Workers, NEW a \in Agents, Call(w, a)
      PROVE  CallInv'
  <2> DEFINE j == [agent |-> a, ts |-> calls + 1, rec |-> 0]
  <2>1. /\ pc[w] = "idle" /\ UNCHANGED <<up, built, tail>> /\ calls' = calls + 1
        /\ \A v \in Workers : job[v].agent # a
        /\ pc' = [pc EXCEPT ![w] = "called"] /\ job' = [job EXCEPT ![w] = j]
    BY <1>3 DEF Call, chainVars, Orderly
  <2>2. j.agent = a /\ j.ts = calls + 1
    OBVIOUS
  <2> HIDE DEF j
  <2>3. /\ pc'[w] = "called" /\ job'[w] = j
        /\ \A v \in Workers : v # w => pc'[v] = pc[v] /\ job'[v] = job[v]
    BY <1>0, <2>1
  <2>4. \A i \in Records : built[i].ts \in Nat /\ built[i].ts <= calls
    BY <1>0, ElementTypes DEF BuildInv
  <2>5. \A v \in Workers : pc'[v] # "failed" /\ (job'[v].agent # None <=> pc'[v] # "idle")
    BY <1>0, <1>1, <2>2, <2>3
  <2>6. \A u, v \in Workers : pc'[u] # "idle" /\ pc'[v] # "idle" /\ job'[u].agent = job'[v].agent => u = v
    BY <1>1, <2>1, <2>2, <2>3
  <2>7. \A v \in Workers : pc'[v] = "called" =>
          /\ job'[v].ts <= calls'
          /\ \A i \in Records' : built'[i].agent = job'[v].agent => built'[i].ts < job'[v].ts
    <3> SUFFICES ASSUME NEW v \in Workers, pc'[v] = "called"
                 PROVE  /\ job'[v].ts <= calls'
                        /\ \A i \in Records' : built'[i].agent = job'[v].agent => built'[i].ts < job'[v].ts
      OBVIOUS
    <3>1. Records' = Records /\ job[v].ts \in Nat
      BY <1>0, <2>1 DEF Records
    <3> QED
      BY <1>0, <1>1, <2>1, <2>2, <2>3, <2>4, <3>1
  <2>8. \A v \in Workers : pc'[v] \notin {"idle", "called"} =>
          built'[job'[v].rec].agent = job'[v].agent /\ job'[v].rec = tail'[job'[v].agent]
    BY <1>1, <2>1, <2>3
  <2> QED
    BY <1>1, <2>1, <2>5, <2>6, <2>7, <2>8 DEF CallInv, Busy
<1>4. ASSUME NEW w \in Workers, BuildRecord(w)
      PROVE  CallInv'
  <2> DEFINE n == Len(built)
             a == job[w].agent
             e == [agent |-> a, prev |-> tail[a], ts |-> job[w].ts]
  <2>1. /\ pc[w] = "called" /\ UNCHANGED <<up, calls>>
        /\ pc' = [pc EXCEPT ![w] = "built"]
        /\ job' = [job EXCEPT ![w].rec = n + 1]
        /\ built' = Append(built, e) /\ tail' = [tail EXCEPT ![a] = n + 1]
    BY <1>4 DEF BuildRecord, lifeVars
  <2>2. a \in Agents /\ e.agent = a
    BY <1>0, <2>1
  <2>3. /\ n \in Nat /\ Len(built') = n + 1 /\ built'[n + 1] = e
        /\ \A j \in 1 .. n : built'[j] = built[j]
    BY <1>0, <2>1, <2>2 DEF TypeOK, ChainTypes
  <2>4. Records = 1 .. n /\ Records' = 1 .. n + 1
    BY <2>3 DEF Records
  <2>5. job'[w].agent = a /\ job'[w].rec = n + 1 /\ job'[w].ts = job[w].ts
    BY <1>0, <2>1
  <2>6. tail'[a] = n + 1 /\ \A b \in Agents : b # a => tail'[b] = tail[b]
    BY <1>0, <2>1, <2>2
  <2> HIDE DEF n, a, e
  <2>7. \A v \in Workers : v # w => pc'[v] = pc[v] /\ job'[v] = job[v]
    BY <1>0, <2>1
  <2>8. pc'[w] = "built" /\ pc[w] = "called"
    BY <1>0, <2>1
  <2>9. \A v \in Workers : v # w /\ pc[v] # "idle" => job[v].agent # a
    BY <1>1, <2>8 DEF a
  <2>10. \A v \in Workers : pc'[v] # "failed" /\ (job'[v].agent # None <=> pc'[v] # "idle")
    <3>1. \A v \in Workers : pc[v] # "failed" /\ (job[v].agent # None <=> pc[v] # "idle")
      BY <1>1
    <3>2. a # None
      BY <1>0, <2>2
    <3>3. pc'[w] # "failed" /\ job'[w].agent # None /\ pc'[w] # "idle"
      BY <2>5, <2>8, <3>2
    <3> QED
      BY <2>7, <3>1, <3>3
  <2>11. \A u, v \in Workers : pc'[u] # "idle" /\ pc'[v] # "idle" /\ job'[u].agent = job'[v].agent => u = v
    BY <1>1, <2>5, <2>7, <2>8, <2>9
  <2>12. \A j \in Records' : j = n + 1 \/ (j \in Records /\ built'[j] = built[j])
    BY <2>3, <2>4
  <2>13. \A v \in Workers : pc'[v] = "called" =>
           /\ job'[v].ts <= calls'
           /\ \A j \in Records' : built'[j].agent = job'[v].agent => built'[j].ts < job'[v].ts
    <3> SUFFICES ASSUME NEW v \in Workers, pc'[v] = "called"
                 PROVE  /\ job'[v].ts <= calls'
                        /\ \A j \in Records' : built'[j].agent = job'[v].agent => built'[j].ts < job'[v].ts
      OBVIOUS
    <3>1. v # w /\ pc[v] = "called" /\ job'[v] = job[v] /\ Before(v) /\ job[v].agent # a
      BY <1>1, <2>7, <2>8, <2>9
    <3>2. built'[n + 1].agent = a
      BY <2>2, <2>3
    <3> QED
      BY <2>1, <2>12, <3>1, <3>2
  <2>14. \A v \in Workers : pc'[v] \notin {"idle", "called"} =>
           built'[job'[v].rec].agent = job'[v].agent /\ job'[v].rec = tail'[job'[v].agent]
    <3> SUFFICES ASSUME NEW v \in Workers, pc'[v] \notin {"idle", "called"}
                 PROVE  built'[job'[v].rec].agent = job'[v].agent /\ job'[v].rec = tail'[job'[v].agent]
      OBVIOUS
    <3>1. CASE v = w
      BY <2>2, <2>3, <2>5, <2>6, <3>1
    <3>2. CASE v # w
      <4>1. job'[v] = job[v] /\ pc[v] \notin {"idle", "called"} /\ job[v].agent # a
        BY <2>7, <2>9, <3>2
      <4>2. Newest(v) /\ job[v].rec \in Records /\ job[v].agent \in Agents
        BY <1>0, <1>1, <4>1
      <4>3. built'[job[v].rec] = built[job[v].rec]
        BY <2>3, <2>4, <4>2
      <4> QED
        BY <2>6, <4>1, <4>2, <4>3
    <3> QED
      BY <3>1, <3>2
  <2> QED
    BY <1>1, <2>1, <2>10, <2>11, <2>13, <2>14 DEF CallInv, Busy
<1>5. ASSUME NEW w \in Workers, WriteHeader(w) PROVE CallInv'
  BY <1>5, <1>2 DEF WriteHeader, lifeVars, chainVars, Steps
<1>6. ASSUME NEW w \in Workers, WritePayload(w) PROVE CallInv'
  BY <1>6, <1>2 DEF WritePayload, lifeVars, chainVars, Steps
<1>7. ASSUME NEW w \in Workers, Sync(w) PROVE CallInv'
  BY <1>7, <1>2 DEF Sync, lifeVars, chainVars, Steps
<1>8. ASSUME NEW w \in Workers, Replicate(w) PROVE CallInv'
  BY <1>8, <1>2 DEF Replicate, lifeVars, chainVars, Steps
<1>9. ASSUME NEW w \in Workers, Answer(w) PROVE CallInv'
  <2>1. /\ UNCHANGED <<up, calls, built, tail>>
        /\ pc' = [pc EXCEPT ![w] = "idle"] /\ job' = [job EXCEPT ![w] = Idle]
    BY <1>9 DEF Answer, lifeVars, chainVars
  <2>2. /\ pc'[w] = "idle" /\ job'[w].agent = None
        /\ \A v \in Workers : v # w => pc'[v] = pc[v] /\ job'[v] = job[v]
    BY <1>0, <2>1 DEF Idle
  <2>3. Records' = Records
    BY <2>1 DEF Records
  <2>4. /\ up' /\ \A v \in Workers : pc'[v] # "failed" /\ (job'[v].agent # None <=> pc'[v] # "idle")
        /\ \A u, v \in Workers : pc'[u] # "idle" /\ pc'[v] # "idle" /\ job'[u].agent = job'[v].agent => u = v
    BY <1>1, <2>1, <2>2
  <2>5. \A v \in Workers : pc'[v] # "idle" => pc'[v] = pc[v] /\ job'[v] = job[v]
    BY <2>2
  <2> QED
    BY <1>1, <2>1, <2>3, <2>4, <2>5 DEF CallInv, Busy
<1>10. CASE UNCHANGED <<up, calls, built, tail, pc, job, file, logged>>
  BY <1>1, <1>10 DEF CallInv, Busy, Records
<1> QED
  BY <1>3, <1>4, <1>5, <1>6, <1>7, <1>8, <1>9, <1>10, OrderlySteps

(* The log, and what it has still to accept, keep that order. *)
LEMMA OrderStep ==
    ASSUME Orderly, IInv, BuildInv, CallInv, OrderInv, Next
    PROVE  OrderInv'
<1> DEFINE Late == {"built", "payload", "sync"}
<1>0. /\ TypeOK /\ LockInv /\ Len(built) \in Nat /\ Len(file) \in Nat
      /\ Records = 1 .. Len(built)
      /\ \A i \in 1 .. Len(file) : file[i].rec \in Records
      /\ pc \in [Workers -> Steps]
      /\ job \in [Workers -> [agent : Agents \cup {None}, ts : Nat, rec : 0 .. Len(built)]]
      /\ \A w \in Workers : pc[w] \notin {"idle", "called"} => job[w].rec \in Records
  <2>1. TypeOK
    BY DEF IInv
  <2> QED
    BY <2>1, ElementTypes DEF IInv, TypeOK, ProcTypes, JobInv
<1>1. /\ \A i, k \in 1 .. Len(file) :
           built[file[i].rec].agent = built[file[k].rec].agent /\ i < k => file[i].rec < file[k].rec
      /\ \A r \in Records : (\E k \in 1 .. Len(file) : file[k].rec = r)
                            \/ \E w \in Workers : pc[w] = "built" /\ job[w].rec = r
      /\ \A w \in Workers : pc[w] = "built" => \A k \in 1 .. Len(file) : file[k].rec # job[w].rec
      /\ \A r \in Records : r \in logged \/ \E w \in Workers : pc[w] \in Late /\ job[w].rec = r
  BY DEF OrderInv, Same, InLog
<1>2. ASSUME UNCHANGED <<file, built, logged>>,
             \A v \in Workers : pc[v] \in Late => pc'[v] = pc[v] /\ job'[v] = job[v],
             \A v \in Workers : pc'[v] = "built" => pc[v] = "built" /\ job'[v] = job[v]
      PROVE  OrderInv'
  <2>1. Records' = Records
    BY <1>2 DEF Records
  <2> QED
    BY <1>1, <1>2, <2>1 DEF OrderInv, Same, InLog
<1>3. ASSUME NEW w \in Workers, NEW a \in Agents, Call(w, a) PROVE OrderInv'
  <2>1. /\ pc[w] = "idle" /\ UNCHANGED <<file, built, logged>> /\ pc'[w] = "called"
        /\ \A v \in Workers : v # w => pc'[v] = pc[v] /\ job'[v] = job[v]
    BY <1>0, <1>3 DEF Call, chainVars, walVars
  <2> QED
    BY <1>2, <2>1
<1>4. ASSUME NEW w \in Workers, BuildRecord(w) PROVE OrderInv'
  <2> DEFINE n == Len(built)
             e == [agent |-> job[w].agent, prev |-> tail[job[w].agent], ts |-> job[w].ts]
  <2>1. /\ pc[w] = "called" /\ UNCHANGED <<file, logged>>
        /\ pc' = [pc EXCEPT ![w] = "built"]
        /\ job' = [job EXCEPT ![w].rec = n + 1] /\ built' = Append(built, e)
    BY <1>4 DEF BuildRecord, walVars
  <2>2. /\ n \in Nat /\ Len(built') = n + 1 /\ \A j \in 1 .. n : built'[j] = built[j]
    BY <1>0, <2>1 DEF TypeOK, ChainTypes
  <2>3. Records = 1 .. n /\ Records' = 1 .. n + 1
    BY <2>2 DEF Records
  <2>4. /\ pc'[w] = "built" /\ job'[w].rec = n + 1
        /\ \A v \in Workers : v # w => pc'[v] = pc[v] /\ job'[v] = job[v]
    BY <1>0, <2>1
  <2> HIDE DEF n, e
  <2>5. /\ \A i \in 1 .. Len(file) : built'[file[i].rec] = built[file[i].rec] /\ file[i].rec # n + 1
        /\ \A r \in Records' : r = n + 1 \/ r \in Records
    BY <1>0, <2>2, <2>3
  <2>6. \A i, k \in 1 .. Len(file') :
           built'[file'[i].rec].agent = built'[file'[k].rec].agent /\ i < k => file'[i].rec < file'[k].rec
    <3> SUFFICES ASSUME NEW i \in 1 .. Len(file), NEW k \in 1 .. Len(file),
                        built'[file[i].rec].agent = built'[file[k].rec].agent, i < k
                 PROVE  file[i].rec < file[k].rec
      BY <2>1
    <3>1. built[file[i].rec].agent = built[file[k].rec].agent
      BY <2>5
    <3> QED
      BY <1>1, <3>1
  <2>7. \A r \in Records' : (\E k \in 1 .. Len(file') : file'[k].rec = r)
                            \/ \E v \in Workers : pc'[v] = "built" /\ job'[v].rec = r
    <3> SUFFICES ASSUME NEW r \in Records, r # n + 1,
                        NEW v \in Workers, pc[v] = "built", job[v].rec = r
                 PROVE  pc'[v] = "built" /\ job'[v].rec = r
      BY <1>1, <2>1, <2>4, <2>5
    <3> QED
      BY <2>1, <2>4
  <2>8. \A v \in Workers : pc'[v] = "built" => \A k \in 1 .. Len(file') : file'[k].rec # job'[v].rec
    BY <1>1, <2>1, <2>4, <2>5
  <2>9. \A r \in Records' : r \in logged' \/ \E v \in Workers : pc'[v] \in Late /\ job'[v].rec = r
    <3>1. \A v \in Workers : pc[v] \in Late => pc'[v] \in Late /\ job'[v].rec = job[v].rec
      BY <2>1, <2>4
    <3>2. pc'[w] \in Late /\ job'[w].rec = n + 1
      BY <2>4
    <3> HIDE DEF Late
    <3> QED
      BY <1>1, <2>1, <2>5, <3>1, <3>2
  <2> QED
    BY <2>6, <2>7, <2>8, <2>9 DEF OrderInv, Same, InLog
<1>5. ASSUME NEW w \in Workers, WriteHeader(w) PROVE OrderInv'
  <2> DEFINE r == job[w].rec
             m == Len(file)
             e == Frame(r, "payload")
  <2>1. /\ pc[w] = "built" /\ UNCHANGED <<built, job, logged>>
        /\ file' = Append(file, e) /\ pc' = [pc EXCEPT ![w] = "payload"]
    BY <1>5 DEF WriteHeader, chainVars
  <2>2. r \in Records /\ e \in [rec : Records, part : Parts] /\ e.rec = r
    BY <1>0, <2>1 DEF Frame, Parts
  <2>3. /\ m \in Nat /\ Len(file') = m + 1 /\ file'[m + 1].rec = r
        /\ \A i \in 1 .. m : file'[i] = file[i]
    BY <1>0, <2>1, <2>2 DEF TypeOK, WalTypes
  <2>4. /\ pc'[w] = "payload" /\ \A v \in Workers : v # w => pc'[v] = pc[v]
    BY <1>0, <2>1
  <2>5. \A i \in 1 .. m : file[i].rec # r
    BY <1>1, <2>1
  <2>6. \A j \in Records : built[j].agent = built[r].agent => j <= r
    <3>1. built[r].agent = job[w].agent /\ r = tail[job[w].agent]
      BY <2>1 DEF CallInv
    <3> QED
      BY <2>2, <3>1 DEF BuildInv
  <2>7. \A v \in Workers : v # w /\ pc[v] = "built" => job[v].rec # r
    <3>1. \A v \in Workers : pc[v] = "built" => built[job[v].rec].agent = job[v].agent
      BY DEF CallInv
    <3>2. \A v \in Workers : pc[v] = "built" /\ job[v].agent = job[w].agent => v = w
      BY <2>1 DEF CallInv, Busy
    <3> QED
      BY <2>1, <3>1, <3>2
  <2> HIDE DEF r, m, e
  <2>8. Records' = Records
    BY <2>1 DEF Records
  <2>9. \A i \in 1 .. m + 1 : i = m + 1 \/ i \in 1 .. m
    BY <2>3
  <2>10. \A i \in 1 .. m : file[i].rec \in Records /\ file[i].rec \in Nat /\ r \in Nat /\ i < m + 1 /\ i \in Nat
    BY <1>0, <2>2, <2>3 DEF m
  <2>11. \A i, k \in 1 .. Len(file') :
           built'[file'[i].rec].agent = built'[file'[k].rec].agent /\ i < k => file'[i].rec < file'[k].rec
    <3> SUFFICES ASSUME NEW i \in 1 .. m + 1, NEW k \in 1 .. m + 1,
                        built[file'[i].rec].agent = built[file'[k].rec].agent, i < k
                 PROVE  file'[i].rec < file'[k].rec
      BY <2>1, <2>3
    <3>1. i \in 1 .. m
      BY <2>3
    <3>2. CASE k = m + 1
      <4>1. file[i].rec <= r /\ file[i].rec # r
        BY <2>3, <2>5, <2>6, <2>10, <3>1, <3>2
      <4> QED
        BY <2>3, <2>10, <3>1, <3>2, <4>1
    <3>3. CASE k \in 1 .. m
      BY <1>1, <2>3, <3>1, <3>3 DEF m
    <3> QED
      BY <2>9, <3>2, <3>3
  <2>12. \A q \in Records' : (\E k \in 1 .. Len(file') : file'[k].rec = q)
                             \/ \E v \in Workers : pc'[v] = "built" /\ job'[v].rec = q
    <3> SUFFICES ASSUME NEW q \in Records
                 PROVE  (\E k \in 1 .. m + 1 : file'[k].rec = q)
                        \/ \E v \in Workers : pc'[v] = "built" /\ job'[v].rec = q
      BY <2>3, <2>8
    <3>1. CASE \E k \in 1 .. m : file[k].rec = q
      <4>1. PICK k \in 1 .. m : file[k].rec = q
        BY <3>1
      <4>2. k \in 1 .. m + 1 /\ file'[k].rec = q
        BY <2>3, <4>1
      <4> QED
        BY <4>2
    <3>2. CASE \E v \in Workers : pc[v] = "built" /\ job[v].rec = q
      <4>1. PICK v \in Workers : pc[v] = "built" /\ job[v].rec = q
        BY <3>2
      <4>2. CASE v = w
        <5>1. m + 1 \in 1 .. m + 1 /\ file'[m + 1].rec = q
          BY <2>3, <4>1, <4>2 DEF r
        <5> QED
          BY <5>1
      <4> QED
        BY <2>1, <2>4, <4>1, <4>2
    <3> QED
      BY <1>1, <3>1, <3>2 DEF m
  <2>13. \A v \in Workers : pc'[v] = "built" => \A k \in 1 .. Len(file') : file'[k].rec # job'[v].rec
    <3> SUFFICES ASSUME NEW v \in Workers, pc'[v] = "built", NEW k \in 1 .. m + 1
                 PROVE  file'[k].rec # job[v].rec
      BY <2>1, <2>3
    <3>1. v # w /\ pc[v] = "built"
      BY <2>4
    <3> QED
      BY <1>1, <2>3, <2>7, <2>9, <3>1 DEF m
  <2>14. \A q \in Records' : q \in logged' \/ \E v \in Workers : pc'[v] \in Late /\ job'[v].rec = q
    <3>1. \A v \in Workers : pc[v] \in Late => pc'[v] \in Late
      BY <2>4
    <3> HIDE DEF Late
    <3> QED
      BY <1>1, <2>1, <2>8, <3>1
  <2> QED
    BY <2>11, <2>12, <2>13, <2>14 DEF OrderInv, Same, InLog
<1>6. ASSUME NEW w \in Workers, WritePayload(w) PROVE OrderInv'
  <2>1. /\ pc[w] = "payload" /\ UNCHANGED <<built, job, logged>>
        /\ pc' = [pc EXCEPT ![w] = "sync"]
        /\ file' = [file EXCEPT ![Len(file)].part = "full"]
    BY <1>6 DEF WritePayload, chainVars
  <2>2. file[Len(file)] = Frame(job[w].rec, "payload") /\ Len(file) \in 1 .. Len(file)
    BY <1>0, <2>1 DEF LockInv, TypeOK, WalTypes
  <2>3. Len(file') = Len(file) /\ \A i \in 1 .. Len(file) : file'[i].rec = file[i].rec
    <3>1. \A i \in 1 .. Len(file) : i # Len(file) => file'[i] = file[i]
      BY <1>0, <2>1 DEF TypeOK, WalTypes
    <3>2. file'[Len(file)].rec = file[Len(file)].rec
      BY <1>0, <2>1, <2>2 DEF TypeOK, WalTypes, Frame
    <3>3. Len(file') = Len(file)
      BY <1>0, <2>1 DEF TypeOK, WalTypes
    <3> QED
      BY <3>1, <3>2, <3>3
  <2>4. Records' = Records /\ pc'[w] = "sync" /\ \A v \in Workers : v # w => pc'[v] = pc[v]
    BY <1>0, <2>1 DEF Records
  <2>5. \A v \in Workers : /\ pc[v] \in Late => pc'[v] \in Late
                           /\ pc'[v] = "built" <=> pc[v] = "built"
    BY <2>1, <2>4
  <2>6. \A r \in Records' : r \in logged' \/ \E v \in Workers : pc'[v] \in Late /\ job'[v].rec = r
    <3> HIDE DEF Late
    <3> QED BY <1>1, <2>1, <2>4, <2>5
  <2> QED
    BY <1>1, <2>1, <2>3, <2>4, <2>5, <2>6 DEF OrderInv, Same, InLog
<1>7. ASSUME NEW w \in Workers, Sync(w) PROVE OrderInv'
  <2>1. /\ pc[w] = "sync" /\ UNCHANGED <<built, job, file>>
        /\ pc' = [pc EXCEPT ![w] = "logged"] /\ logged' = logged \cup {job[w].rec}
    BY <1>7 DEF Sync, chainVars
  <2>2. Records' = Records /\ pc'[w] = "logged" /\ \A v \in Workers : v # w => pc'[v] = pc[v]
    BY <1>0, <2>1 DEF Records
  <2>3. \A r \in Records' : r \in logged' \/ \E v \in Workers : pc'[v] \in Late /\ job'[v].rec = r
    <3> HIDE DEF Late
    <3> QED BY <1>1, <2>1, <2>2
  <2>4. \A v \in Workers : pc'[v] = "built" <=> pc[v] = "built"
    BY <2>1, <2>2
  <2> QED
    BY <1>1, <2>1, <2>2, <2>3, <2>4 DEF OrderInv, Same, InLog
<1>8. ASSUME NEW w \in Workers, Replicate(w) \/ Answer(w) PROVE OrderInv'
  <2>1. /\ pc[w] \notin Late /\ UNCHANGED <<file, built, logged>>
        /\ pc'[w] # "built" /\ \A v \in Workers : v # w => pc'[v] = pc[v] /\ job'[v] = job[v]
    BY <1>0, <1>8 DEF Replicate, Answer, chainVars, walVars
  <2> HIDE DEF Late
  <2> QED
    BY <1>2, <2>1
<1>9. CASE UNCHANGED <<up, calls, built, tail, pc, job, file, logged>>
  BY <1>2, <1>9
<1> QED
  BY <1>3, <1>4, <1>5, <1>6, <1>7, <1>8, <1>9, OrderlySteps

LEMMA OrderInvariance ==
    ASSUME Orderly
    PROVE  Spec => [](IInv /\ FrameInv /\ BuildInv /\ CallInv /\ OrderInv)
<1>1. Init => FrameInv /\ BuildInv /\ CallInv /\ OrderInv
  BY ChainAssumption DEF Init, FrameInv, BuildInv, CallInv, OrderInv, Records, Idle, Busy
<1>2. TearsShow
  BY DEF Orderly, TearsShow
<1>3. ASSUME FrameInv, BuildInv, CallInv, OrderInv, UNCHANGED vars
      PROVE  FrameInv' /\ BuildInv' /\ CallInv' /\ OrderInv'
  <2> USE <1>3 DEF vars, lifeVars, procVars, walVars, chainVars
  <2>1. FrameInv'
    BY DEF FrameInv
  <2>2. BuildInv'
    BY DEF BuildInv, Records, Same
  <2>3. CallInv'
    BY DEF CallInv, Records, Busy
  <2>4. OrderInv'
    BY DEF OrderInv, Records, Same, InLog
  <2> QED
    BY <2>1, <2>2, <2>3, <2>4
<1>4. IInv /\ FrameInv /\ BuildInv /\ CallInv /\ OrderInv /\ [Next]_vars
         => FrameInv' /\ BuildInv' /\ CallInv' /\ OrderInv'
  BY <1>2, <1>3, FrameStep, BuildStep, CallStep, OrderStep
<1> QED
  BY <1>1, <1>4, InvInit, InvStep, PTL DEF Spec

(* A record of an agent that is not the newest one is past its WAL write, *)
(* and past its answer.                                                   *)
LEMMA OlderIsAccepted ==
    ASSUME IInv, BuildInv, CallInv, OrderInv,
           NEW r \in Records, NEW p \in Records, Same(p, r), p < r
    PROVE  /\ InLog(p) /\ p \in logged
           /\ \A w \in Workers : pc[w] \notin {"idle", "called"} => job[w].rec # p
<1>1. \A w \in Workers : pc[w] \notin {"idle", "called"} => job[w].rec # p
  <2> SUFFICES ASSUME NEW w \in Workers, pc[w] \notin {"idle", "called"}, job[w].rec = p
               PROVE  FALSE
    OBVIOUS
  <2>1. p = tail[built[p].agent]
    BY DEF CallInv
  <2>2. r <= tail[built[r].agent]
    BY DEF BuildInv
  <2>3. r <= p /\ p \in Nat /\ r \in Nat
    BY <2>1, <2>2, ElementTypes DEF Same, IInv
  <2> QED
    BY <2>3
<1>2. \A w \in Workers : pc[w] \in {"built", "payload", "sync"} => job[w].rec # p
  BY <1>1
<1> QED
  BY <1>1, <1>2 DEF OrderInv

(* wal.go:115-119: when an agent waits for each answer before it calls      *)
(* again, and no write fails, the log replays as one chain per agent: the   *)
(* first record has the genesis marker and each later one links to the one  *)
(* before it in the log, however the agents' calls interleave.              *)
THEOREM LogReplays == ASSUME Orderly PROVE Spec => []ReplayValidates
<1>1. IInv /\ FrameInv /\ BuildInv /\ CallInv /\ OrderInv => ReplayValidates
  <2> DEFINE log == ReadablePrefix(file)
  <2> SUFFICES ASSUME IInv, FrameInv, BuildInv, CallInv, OrderInv, NEW i \in 1 .. Len(log)
               PROVE  built[log[i].rec].prev = Precursor(log, i)
    BY DEF ReplayValidates
  <2> DEFINE n == CHOOSE m \in 0 .. Len(file) : Delivers(file, m)
             r == log[i].rec
             p == built[r].prev
             mine == {j \in 1 .. i - 1 : built[log[j].rec].agent = built[r].agent}
  <2>1. TypeOK /\ WalTypes
    BY DEF IInv, TypeOK
  <2>2. n \in 0 .. Len(file) /\ Delivers(file, n) /\ log = SubSeq(file, 1, n)
    BY <2>1, ReaderDelivers
  <2> HIDE DEF n
  <2>3. Len(log) = n /\ \A k \in 1 .. n : log[k] = file[k]
    BY <2>1, <2>2, RecoveryKeepsFrames
  <2>4. Precursor(log, i) = IF mine = {} THEN 0 ELSE log[CHOOSE j \in mine : \A k \in mine : k <= j].rec
    BY DEF Precursor
  <2> HIDE DEF log
  <2>5. /\ Len(file) \in Nat /\ n \in Nat /\ i \in 1 .. n /\ Records = 1 .. Len(built) /\ Len(built) \in Nat
        /\ \A k \in 1 .. n : k \in 1 .. Len(file) /\ log[k].rec \in Records /\ log[k].rec \in Nat
    BY <2>1, <2>2, <2>3, ElementTypes
  <2>6. r \in Records /\ r \in Nat /\ p \in Nat
    BY <2>1, <2>5, ElementTypes
  <2>7. /\ p < r /\ (p # 0 => Same(p, r))
        /\ \A j \in Records : Same(j, r) /\ j < r => j <= p
    BY <2>6 DEF BuildInv
  <2>8. \A j, k \in 1 .. n : Same(log[j].rec, log[k].rec) /\ j < k => log[j].rec < log[k].rec
    BY <2>3, <2>5 DEF OrderInv
  <2> HIDE DEF r, p
  <2>9. \A j \in mine : /\ j \in 1 .. n /\ j < i /\ log[j].rec \in Records /\ log[j].rec <= p
                        /\ Same(log[j].rec, r)
    <3> SUFFICES ASSUME NEW j \in 1 .. i - 1, built[log[j].rec].agent = built[r].agent
                 PROVE  j \in 1 .. n /\ j < i /\ log[j].rec \in Records /\ log[j].rec <= p /\ Same(log[j].rec, r)
      OBVIOUS
    <3>1. j \in 1 .. n /\ j < i
      BY <2>5
    <3>2. Same(log[j].rec, r) /\ log[j].rec \in Records
      BY <2>5, <3>1 DEF Same
    <3>3. log[j].rec < r
      BY <2>5, <2>8, <3>1, <3>2 DEF r
    <3> QED
      BY <2>7, <3>1, <3>2, <3>3
  <2>10. CASE p = 0
    <3>1. mine = {}
      BY <2>5, <2>9, <2>10
    <3> QED
      BY <2>4, <2>10, <3>1 DEF p, r
  <2>11. CASE p # 0
    <3>1. p \in Records /\ Same(p, r)
      BY <2>5, <2>6, <2>7, <2>11
    <3>2. PICK k \in 1 .. Len(file) : file[k].rec = p
      BY <2>6, <2>7, <3>1, OlderIsAccepted DEF InLog
    <3>3. k < i
      <4>1. file[i].rec = r /\ i \in 1 .. Len(file)
        BY <2>3, <2>5 DEF r
      <4>2. i < k => r < p
        BY <3>1, <3>2, <4>1 DEF OrderInv, Same
      <4>3. i # k
        BY <2>6, <2>7, <3>2, <4>1
      <4> QED
        BY <2>5, <2>6, <2>7, <4>2, <4>3
    <3>4. k \in 1 .. n /\ k \in 1 .. i - 1 /\ log[k].rec = p
      BY <2>3, <2>5, <3>2, <3>3
    <3>5. k \in mine
      BY <3>1, <3>4 DEF Same
    <3>6. \A j \in mine : j <= k
      <4> SUFFICES ASSUME NEW j \in mine, k < j
                   PROVE  FALSE
        BY <2>5, <2>9, <3>4
      <4>1. Same(log[k].rec, log[j].rec)
        BY <2>9, <3>1, <3>4 DEF Same
      <4>2. p < log[j].rec /\ log[j].rec <= p /\ log[j].rec \in Nat
        BY <2>5, <2>8, <2>9, <3>4, <4>1
      <4> QED
        BY <2>6, <4>2
    <3>7. \A j \in mine : (\A h \in mine : h <= j) => j = k
      BY <2>5, <2>9, <3>4, <3>5, <3>6
    <3> HIDE DEF mine
    <3>8. (CHOOSE j \in mine : \A h \in mine : h <= j) = k
      BY <3>5, <3>6, <3>7
    <3> QED
      BY <2>4, <3>4, <3>5, <3>8 DEF p, r
  <2> QED
    BY <2>10, <2>11
<1> QED
  BY <1>1, OrderInvariance, PTL

-------------------------------------------------------------------------------
(* The copies *)

(* What the log accepted is being copied, or is about to be. *)
CopyInv ==
    \A r \in logged : r \in Copies \/ \E w \in Workers : pc[w] = "logged" /\ job[w].rec = r

LEMMA CopyStep ==
    ASSUME Orderly, ~SaveFaults, IInv, CallInv, CopyInv, Next
    PROVE  CopyInv'
<1>0. /\ pc \in [Workers -> Steps] /\ queue \in Seq(Records) /\ hand \in 0 .. Len(built)
      /\ job \in [Workers -> [agent : Agents \cup {None}, ts : Nat, rec : 0 .. Len(built)]]
  BY DEF IInv, TypeOK, ProcTypes, StoreTypes
<1>1. ASSUME Copies \subseteq Copies', logged' = logged,
             \A w \in Workers : pc[w] = "logged" => pc'[w] = "logged" /\ job'[w] = job[w]
      PROVE  CopyInv'
  BY <1>1 DEF CopyInv
<1>2. ASSUME UNCHANGED <<storeVars, logged>>,
             \A w \in Workers : pc[w] = "logged" => pc'[w] = "logged" /\ job'[w] = job[w]
      PROVE  CopyInv'
  <2>1. Copies' = Copies
    BY <1>2 DEF Copies, storeVars
  <2> QED
    BY <1>1, <1>2, <2>1
<1>3. ASSUME NEW w \in Workers, NEW a \in Agents, Call(w, a) PROVE CopyInv'
  BY <1>0, <1>2, <1>3 DEF Call, walVars
<1>4. ASSUME NEW w \in Workers,
             BuildRecord(w) \/ WriteHeader(w) \/ WritePayload(w) \/ Answer(w)
      PROVE  CopyInv'
  BY <1>0, <1>2, <1>4 DEF BuildRecord, WriteHeader, WritePayload, Answer, walVars
<1>5. ASSUME NEW w \in Workers, Sync(w) PROVE CopyInv'
  <2>1. /\ pc[w] = "sync" /\ UNCHANGED <<job, storeVars>>
        /\ pc' = [pc EXCEPT ![w] = "logged"] /\ logged' = logged \cup {job[w].rec}
    BY <1>5 DEF Sync
  <2>2. Copies' = Copies
    BY <2>1 DEF Copies, storeVars
  <2>3. pc'[w] = "logged" /\ \A v \in Workers : pc[v] = "logged" => pc'[v] = "logged"
    BY <1>0, <2>1
  <2> QED
    BY <2>1, <2>2, <2>3 DEF CopyInv
<1>6. ASSUME NEW w \in Workers, Replicate(w) PROVE CopyInv'
  <2>1. /\ pc[w] = "logged" /\ UNCHANGED <<job, logged, hand, store>>
        /\ pc' = [pc EXCEPT ![w] = "replicated"]
        /\ \/ queue' = Append(queue, job[w].rec) /\ saving' = saving
           \/ queue' = queue /\ saving' = saving \cup {job[w].rec}
    BY <1>6 DEF Replicate, walVars
  <2>2. job[w].rec \in Records
    BY <2>1 DEF IInv, JobInv
  <2>3. Copies \subseteq Copies' /\ job[w].rec \in Copies'
    <3>1. CASE queue' = queue /\ saving' = saving \cup {job[w].rec}
      BY <2>1, <3>1 DEF Copies
    <3>2. CASE queue' = Append(queue, job[w].rec) /\ saving' = saving
      <4>1. /\ Len(queue') = Len(queue) + 1 /\ Len(queue) \in Nat
            /\ queue'[Len(queue) + 1] = job[w].rec
            /\ \A i \in 1 .. Len(queue) : queue'[i] = queue[i]
        BY <1>0, <2>2, <3>2, AppendProperties
      <4> QED
        BY <2>1, <3>2, <4>1 DEF Copies
    <3> QED
      BY <2>1, <3>1, <3>2
  <2>4. \A v \in Workers : v # w => pc'[v] = pc[v]
    BY <1>0, <2>1
  <2> QED
    BY <2>1, <2>3, <2>4 DEF CopyInv
<1>7. CASE QueueTake
  <2>1. /\ hand = 0 /\ queue # <<>> /\ hand' = Head(queue) /\ queue' = Tail(queue)
        /\ UNCHANGED <<pc, job, logged, saving, store>>
    BY <1>7 DEF QueueTake, procVars, walVars
  <2>2. /\ Len(queue) \in Nat \ {0} /\ Len(queue') = Len(queue) - 1 /\ hand' = queue[1]
        /\ \A i \in 1 .. Len(queue) - 1 : queue'[i] = queue[i + 1]
    BY <1>0, <2>1, HeadTailProperties, EmptySeq
  <2>3. \A i \in 1 .. Len(queue) : queue[i] \in Copies'
    <3> SUFFICES ASSUME NEW i \in 1 .. Len(queue) PROVE queue[i] \in Copies'
      OBVIOUS
    <3>1. CASE i = 1
      BY <2>2, <3>1 DEF Copies
    <3>2. CASE i # 1
      <4>1. i - 1 \in 1 .. Len(queue') /\ queue'[i - 1] = queue[i]
        BY <2>2, <3>2
      <4> QED
        BY <4>1 DEF Copies
    <3> QED
      BY <3>1, <3>2
  <2>4. \A r \in logged : r \in Copies => r \in Copies' \/ r = 0
    BY <2>1, <2>3 DEF Copies
  <2>5. 0 \notin logged
    BY DEF IInv, TypeOK, WalTypes, Records
  <2> QED
    BY <2>1, <2>4, <2>5 DEF CopyInv
<1>8. CASE QueueSave
  <2>1. /\ hand' = 0 /\ store' = store \cup {hand} /\ UNCHANGED <<pc, job, logged, queue, saving>>
    BY <1>8 DEF QueueSave, procVars, walVars
  <2>2. Copies \subseteq Copies'
    BY <2>1 DEF Copies
  <2> QED
    BY <1>1, <2>1, <2>2
<1>9. ASSUME NEW r \in saving, FallbackSave(r) PROVE CopyInv'
  <2>1. /\ saving' = saving \ {r} /\ store' = store \cup {r}
        /\ UNCHANGED <<pc, job, logged, queue, hand>>
    BY <1>9 DEF FallbackSave, procVars, walVars
  <2>2. Copies \subseteq Copies'
    BY <2>1 DEF Copies
  <2> QED
    BY <1>1, <2>1, <2>2
<1>10. ASSUME NEW w \in Workers, HeaderFails(w) \/ PayloadOrSyncFails(w) \/ Deny(w) PROVE FALSE
  BY <1>10 DEF HeaderFails, PayloadOrSyncFails, Deny, Orderly, CallInv
<1>11. ASSUME Crash PROVE FALSE
  <2>1. crashes \in Nat /\ crashes < 0
    BY <1>11, SMT DEF Crash, Orderly, IInv, TypeOK, LifeTypes
  <2> QED
    BY <2>1
<1>12. ASSUME Start PROVE FALSE
  BY <1>12, Zenon DEF Start, CallInv
<1> QED
  BY <1>3, <1>4, <1>5, <1>6, <1>7, <1>8, <1>9, <1>10, <1>11, <1>12 DEF Next, Decide

(* pipeline.go:960-975: for the same agents, and a store that takes what it *)
(* is given, the stored records of an agent are one line of links, however  *)
(* the direct saves overtake the queue: no predecessor is lost or shared.   *)
THEOREM StoreKeepsOneLine ==
    ASSUME Orderly, ~SaveFaults
    PROVE  Spec => []StoredInOneLine
<1>1. IInv /\ BuildInv /\ CallInv /\ OrderInv /\ CopyInv => StoredInOneLine
  <2> SUFFICES ASSUME IInv, BuildInv, CallInv, OrderInv, CopyInv, NEW r \in store
               PROVE  /\ built[r].prev # 0 =>
                           built[r].prev \in Copies /\ built[built[r].prev].agent = built[r].agent
                      /\ \A s \in store :
                           built[r].agent = built[s].agent /\ built[r].prev = built[s].prev => r = s
    BY DEF StoredInOneLine
  <2>1. TypeOK /\ store \subseteq Records
    BY DEF IInv, TypeOK, StoreTypes
  <2>2. /\ Records = 1 .. Len(built) /\ Len(built) \in Nat
        /\ \A j \in Records : built[j].prev \in Nat
    BY <2>1, ElementTypes
  <2>3. ASSUME built[r].prev # 0
        PROVE  built[r].prev \in Copies /\ built[built[r].prev].agent = built[r].agent
    <3> DEFINE p == built[r].prev
    <3>1. p \in Nat /\ p < r /\ Same(p, r)
      BY <2>1, <2>2, <2>3 DEF BuildInv
    <3> HIDE DEF p
    <3>2. p \in Records
      BY <2>1, <2>2, <2>3, <3>1 DEF p
    <3>3. p \in logged /\ \A w \in Workers : pc[w] \notin {"idle", "called"} => job[w].rec # p
      BY <2>1, <3>1, <3>2, OlderIsAccepted
    <3>4. p \in Copies
      BY <3>3 DEF CopyInv
    <3> QED
      BY <3>1, <3>4 DEF p, Same
  <2>4. ASSUME NEW s \in store, built[r].agent = built[s].agent, built[r].prev = built[s].prev, r # s
        PROVE  FALSE
    <3>1. r < s => r <= built[s].prev /\ built[r].prev < r
      BY <2>1, <2>4 DEF BuildInv, Same
    <3>2. s < r => s <= built[r].prev /\ built[s].prev < s
      BY <2>1, <2>4 DEF BuildInv, Same
    <3> QED
      BY <2>1, <2>2, <2>4, <3>1, <3>2
  <2> QED
    BY <2>3, <2>4
<1>2. Init => CopyInv
  BY DEF Init, CopyInv
<1>3. ASSUME CopyInv, UNCHANGED vars PROVE CopyInv'
  BY <1>3 DEF CopyInv, Copies, vars, procVars, walVars, storeVars
<1>4. IInv /\ CallInv /\ CopyInv /\ [Next]_vars => CopyInv'
  BY <1>3, CopyStep
<1> QED
  BY <1>1, <1>2, <1>4, OrderInvariance, PTL DEF Spec
===============================================================================
