--------------------------- MODULE MCAuditChainProofs ---------------------------
(***************************************************************************)
(* What AuditChainProofs proves under a hypothesis about the constants,    *)
(* carried over to the regimes of MCAuditChain: in each of them the steps  *)
(* are those of an audit chain whose constants satisfy the hypothesis, for *)
(* any number of agents, workers, calls and deaths.                        *)
(***************************************************************************)
EXTENDS MCAuditChain, TLAPS

(* The theorems, for a daemon that may die and for one that does not fail. *)
Dying == INSTANCE AuditChainProofs WITH
             MaxCalls <- FewCalls, MaxCrashes <- Deaths, WriteFaults <- {"nothing", "sync"},
             Tears <- {"payload"}, QueueCap <- 0
Calm == INSTANCE AuditChainProofs WITH
            MaxCrashes <- 0, WriteFaults <- {}, SaveFaults <- FALSE, SerialAgents <- TRUE

-------------------------------------------------------------------------------
(* Crashes whose damage the recovery can see *)

LEMMA DyingAssumption == Dying!ChainAssumption /\ Dying!TearsShow
  BY ChainAssumption, RegimesAssumption DEF Dying!ChainAssumption, Dying!TearsShow

LEMMA DyingStep == ASSUME Crashing!Next PROVE Dying!Next
<1>1. ASSUME NEW w \in Workers, NEW a \in Agents, Crashing!Call(w, a) PROVE Dying!Call(w, a)
  BY <1>1 DEF Crashing!Call, Dying!Call, Crashing!chainVars, Dying!chainVars, Crashing!walVars,
         Dying!walVars, Crashing!storeVars, Dying!storeVars
<1>2. ASSUME NEW w \in Workers, Crashing!Decide(w) PROVE Dying!Decide(w)
  BY <1>2 DEF Crashing!Decide, Dying!Decide, Crashing!BuildRecord, Dying!BuildRecord,
         Crashing!WriteHeader, Dying!WriteHeader, Crashing!WritePayload, Dying!WritePayload,
         Crashing!Sync, Dying!Sync, Crashing!HeaderFails, Dying!HeaderFails,
         Crashing!PayloadOrSyncFails, Dying!PayloadOrSyncFails, Crashing!Deny, Dying!Deny,
         Crashing!Replicate, Dying!Replicate, Crashing!Answer, Dying!Answer, Crashing!Frame,
         Dying!Frame, Crashing!Idle, Dying!Idle, Crashing!lifeVars, Dying!lifeVars,
         Crashing!chainVars, Dying!chainVars, Crashing!walVars, Dying!walVars,
         Crashing!storeVars, Dying!storeVars
<1>3. ASSUME Crashing!QueueTake \/ Crashing!QueueSave PROVE Dying!QueueTake \/ Dying!QueueSave
  BY <1>3 DEF Crashing!QueueTake, Dying!QueueTake, Crashing!QueueSave, Dying!QueueSave,
         Crashing!lifeVars, Dying!lifeVars, Crashing!chainVars, Dying!chainVars,
         Crashing!procVars, Dying!procVars, Crashing!walVars, Dying!walVars
<1>4. ASSUME NEW r \in saving, Crashing!FallbackSave(r) PROVE Dying!FallbackSave(r)
  BY <1>4 DEF Crashing!FallbackSave, Dying!FallbackSave, Crashing!lifeVars, Dying!lifeVars,
         Crashing!chainVars, Dying!chainVars, Crashing!procVars, Dying!procVars,
         Crashing!walVars, Dying!walVars
<1>5. ASSUME Crashing!Crash PROVE Dying!Crash
  BY <1>5 DEF Crashing!Crash, Dying!Crash, Crashing!CrashImages, Dying!CrashImages,
         Crashing!CanTear, Dying!CanTear, Crashing!Frame, Dying!Frame, Crashing!Idle, Dying!Idle
<1>6. ASSUME Crashing!Start PROVE Dying!Start
  BY <1>6 DEF Crashing!Start, Dying!Start, Crashing!Delivers, Dying!Delivers,
         Crashing!RecoverTail, Dying!RecoverTail, Crashing!LastHash, Dying!LastHash,
         Crashing!procVars, Dying!procVars, Crashing!storeVars, Dying!storeVars
<1> QED
  BY <1>1, <1>2, <1>3, <1>4, <1>5, <1>6 DEF Crashing!Next, Dying!Next

(* A behaviour keeps to its regime.                                        *)
LEMMA DyingRuns ==
    RegimesInit /\ [][RegimesNext]_<<regime, vars>> => []~(regime = "crashing") \/ Dying!Spec
<1> DEFINE Within == regime = "crashing"
<1>1. RegimesInit => Dying!Init
  BY DEF RegimesInit, Init, Dying!Init, Idle, Dying!Idle
<1>2. [RegimesNext]_<<regime, vars>> /\ Within => Within' /\ [Dying!Next]_(Dying!vars)
  <2>1. ASSUME RegimesNext, Within PROVE Within' /\ Dying!Next
    BY <2>1, DyingStep DEF RegimesNext
  <2>2. ASSUME UNCHANGED <<regime, vars>>, Within PROVE Within' /\ UNCHANGED Dying!vars
    BY <2>2 DEF vars, Dying!vars, lifeVars, Dying!lifeVars, chainVars, Dying!chainVars,
                procVars, Dying!procVars, walVars, Dying!walVars, storeVars, Dying!storeVars
  <2> QED
    BY <2>1, <2>2
<1>3. [RegimesNext]_<<regime, vars>> /\ ~Within => ~Within'
  BY DEF RegimesNext
<1> HIDE DEF Within
<1>4. RegimesInit /\ [][RegimesNext]_<<regime, vars>> => []~Within \/ Dying!Spec
  BY <1>1, <1>2, <1>3, PTL DEF Dying!Spec
<1> QED
  BY <1>4 DEF Within

(* README.md:387, "No execution without a durable audit record": in this   *)
(* regime what a caller was answered is read back from the log at any      *)
(* later time, after any number of deaths.                                 *)
THEOREM CrashesLoseNothingAnswered == RegimesSpec => []AnsweredStaysReadableInCrash
<1>1. Dying!Spec => []Dying!AnsweredStaysReadable
  BY DyingAssumption, Dying!AnsweredReadable
<1>2. Dying!AnsweredStaysReadable => AnsweredStaysReadableInCrash
  BY DEF Dying!AnsweredStaysReadable, AnsweredStaysReadableInCrash, AnsweredStaysReadable,
         Dying!Readable, Readable, Dying!ReadablePrefix, ReadablePrefix, Dying!Delivers, Delivers
<1>3. ~(regime = "crashing") => AnsweredStaysReadableInCrash
  BY DEF AnsweredStaysReadableInCrash
<1> QED
  BY <1>1, <1>2, <1>3, DyingRuns, PTL DEF RegimesSpec

LEMMA SameDurable == Dying!Durable = Durable /\ Dying!Durable' = Durable'
  BY DEF Dying!Durable, Durable, Dying!Readable, Readable, Dying!ReadablePrefix, ReadablePrefix,
         Dying!Delivers, Delivers, Dying!Frame, Frame

(* In this regime the log of a daemon that dies and starts again is an     *)
(* audit log: what a reader finds is lost only if nobody was answered for  *)
(* it, and an answer is given for what he finds.                           *)
THEOREM CrashingLogIsImplemented == RegimesSpec => CrashingImplementsAuditLog
<1> DEFINE Within == regime = "crashing"
<1>1. Dying!Spec => [][Dying!Abstract!LogNext]_(Dying!Abstract!logVars)
  BY DyingAssumption, Dying!LogIsImplemented, PTL
     DEF Dying!ImplementsAuditLog, Dying!Abstract!LogSpec
<1>2. [Dying!Abstract!LogNext]_(Dying!Abstract!logVars)
          => [Within => Abstract!LogNext]_<<Durable, answered>>
  <2>1. Dying!Abstract!LogNext => Abstract!LogNext
    BY SameDurable, RegimesAssumption, ChainAssumption
       DEF Dying!Abstract!LogNext, Abstract!LogNext, Dying!Abstract!Persist, Abstract!Persist,
           Dying!Abstract!Forget, Abstract!Forget, Dying!Abstract!Return, Abstract!Return
  <2> QED
    BY <2>1, SameDurable DEF Dying!Abstract!logVars
<1>3. ~Within => [Within => Abstract!LogNext]_<<Durable, answered>>
  OBVIOUS
<1>4. RegimesInit => Abstract!LogInit
  BY DEF RegimesInit, Init, Durable, Abstract!LogInit
<1>5. RegimesSpec => []~Within \/ Dying!Spec
  BY DyingRuns DEF RegimesSpec
<1> HIDE DEF Within
<1>6. RegimesSpec => Abstract!LogInit /\ [][Within => Abstract!LogNext]_<<Durable, answered>>
  BY <1>1, <1>2, <1>3, <1>4, <1>5, PTL DEF RegimesSpec
<1> QED
  BY <1>6 DEF CrashingImplementsAuditLog, Within

-------------------------------------------------------------------------------
(* Agents that wait for an answer *)

LEMMA CalmAssumption == Calm!ChainAssumption /\ Calm!Orderly
  BY ChainAssumption DEF Calm!ChainAssumption, Calm!Orderly

LEMMA CalmStep == ASSUME Serial!Next PROVE Calm!Next
<1>1. ASSUME NEW w \in Workers, NEW a \in Agents, Serial!Call(w, a) PROVE Calm!Call(w, a)
  BY <1>1 DEF Serial!Call, Calm!Call, Serial!chainVars, Calm!chainVars, Serial!walVars,
         Calm!walVars, Serial!storeVars, Calm!storeVars
<1>2. ASSUME NEW w \in Workers, Serial!Decide(w) PROVE Calm!Decide(w)
  BY <1>2 DEF Serial!Decide, Calm!Decide, Serial!BuildRecord, Calm!BuildRecord,
         Serial!WriteHeader, Calm!WriteHeader, Serial!WritePayload, Calm!WritePayload,
         Serial!Sync, Calm!Sync, Serial!HeaderFails, Calm!HeaderFails,
         Serial!PayloadOrSyncFails, Calm!PayloadOrSyncFails, Serial!Deny, Calm!Deny,
         Serial!Replicate, Calm!Replicate, Serial!Answer, Calm!Answer, Serial!Frame, Calm!Frame,
         Serial!Idle, Calm!Idle, Serial!lifeVars, Calm!lifeVars, Serial!chainVars,
         Calm!chainVars, Serial!walVars, Calm!walVars, Serial!storeVars, Calm!storeVars
<1>3. ASSUME Serial!QueueTake \/ Serial!QueueSave PROVE Calm!QueueTake \/ Calm!QueueSave
  BY <1>3 DEF Serial!QueueTake, Calm!QueueTake, Serial!QueueSave, Calm!QueueSave,
         Serial!lifeVars, Calm!lifeVars, Serial!chainVars, Calm!chainVars, Serial!procVars,
         Calm!procVars, Serial!walVars, Calm!walVars
<1>4. ASSUME NEW r \in saving, Serial!FallbackSave(r) PROVE Calm!FallbackSave(r)
  BY <1>4 DEF Serial!FallbackSave, Calm!FallbackSave, Serial!lifeVars, Calm!lifeVars,
         Serial!chainVars, Calm!chainVars, Serial!procVars, Calm!procVars, Serial!walVars,
         Calm!walVars
<1>5. ASSUME Serial!Crash PROVE Calm!Crash
  BY <1>5 DEF Serial!Crash, Calm!Crash, Serial!CrashImages, Calm!CrashImages, Serial!CanTear,
         Calm!CanTear, Serial!Frame, Calm!Frame, Serial!Idle, Calm!Idle
<1>6. ASSUME Serial!Start PROVE Calm!Start
  BY <1>6 DEF Serial!Start, Calm!Start, Serial!Delivers, Calm!Delivers, Serial!RecoverTail,
         Calm!RecoverTail, Serial!LastHash, Calm!LastHash, Serial!procVars, Calm!procVars,
         Serial!storeVars, Calm!storeVars
<1> QED
  BY <1>1, <1>2, <1>3, <1>4, <1>5, <1>6 DEF Serial!Next, Calm!Next

(* A behaviour keeps to its regime.                                        *)
LEMMA CalmRuns ==
    RegimesInit /\ [][RegimesNext]_<<regime, vars>> => []~(regime = "serial") \/ Calm!Spec
<1> DEFINE Within == regime = "serial"
<1>1. RegimesInit => Calm!Init
  BY DEF RegimesInit, Init, Calm!Init, Idle, Calm!Idle
<1>2. [RegimesNext]_<<regime, vars>> /\ Within => Within' /\ [Calm!Next]_(Calm!vars)
  <2>1. ASSUME RegimesNext, Within PROVE Within' /\ Calm!Next
    BY <2>1, CalmStep DEF RegimesNext
  <2>2. ASSUME UNCHANGED <<regime, vars>>, Within PROVE Within' /\ UNCHANGED Calm!vars
    BY <2>2 DEF vars, Calm!vars, lifeVars, Calm!lifeVars, chainVars, Calm!chainVars, procVars,
                Calm!procVars, walVars, Calm!walVars, storeVars, Calm!storeVars
  <2> QED
    BY <2>1, <2>2
<1>3. [RegimesNext]_<<regime, vars>> /\ ~Within => ~Within'
  BY DEF RegimesNext
<1> HIDE DEF Within
<1>4. RegimesInit /\ [][RegimesNext]_<<regime, vars>> => []~Within \/ Calm!Spec
  BY <1>1, <1>2, <1>3, PTL DEF Calm!Spec
<1> QED
  BY <1>4 DEF Within

(* wal.go:115-119: while agents wait for their answers and nothing fails,  *)
(* the log replays as one chain per agent.                                 *)
THEOREM SerialLogReplays == RegimesSpec => []ReplayValidatesSerial
<1>1. Calm!Spec => []Calm!ReplayValidates
  BY CalmAssumption, Calm!LogReplays
<1>2. Calm!ReplayValidates => ReplayValidatesSerial
  BY DEF Calm!ReplayValidates, ReplayValidatesSerial, ReplayValidates, Calm!Precursor, Precursor,
         Calm!ReadablePrefix, ReadablePrefix, Calm!Delivers, Delivers
<1>3. ~(regime = "serial") => ReplayValidatesSerial
  BY DEF ReplayValidatesSerial
<1> QED
  BY <1>1, <1>2, <1>3, CalmRuns, PTL DEF RegimesSpec

(* pipeline.go:960-975: for the same agents, of a daemon whose store takes *)
(* what it is given, the stored records of an agent are one line of links. *)
THEOREM SerialStoreKeepsOneLine == RegimesSpec => []StoredInOneLineSerial
<1>1. Calm!Spec => []Calm!StoredInOneLine
  BY CalmAssumption, Calm!StoreKeepsOneLine
<1>2. Calm!StoredInOneLine => StoredInOneLineSerial
  BY DEF Calm!StoredInOneLine, StoredInOneLineSerial, StoredInOneLine, Calm!Copies, Copies
<1>3. ~(regime = "serial") => StoredInOneLineSerial
  BY DEF StoredInOneLineSerial
<1> QED
  BY <1>1, <1>2, <1>3, CalmRuns, PTL DEF RegimesSpec
===============================================================================
