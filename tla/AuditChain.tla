------------------------------ MODULE AuditChain ------------------------------
(***************************************************************************)
(* The decision record (DPR) chain of the Faramesh daemon:                 *)
(*                                                                         *)
(*   - Pipeline.decide and Pipeline.buildRecord (core/pipeline.go), run by *)
(*     any number of adapter goroutines at once;                           *)
(*   - the write-ahead log (core/dpr/wal.go): framed writes, fsync and the *)
(*     recovery of the tail when the file is opened;                       *)
(*   - the asynchronous copy to the record store (core/jobs/dpr_queue.go,  *)
(*     core/dpr/sqlite.go) and the reseeding of the chain from that store  *)
(*     when a pipeline is constructed.                                     *)
(*                                                                         *)
(* A record is named by its position in "built", the order in which        *)
(* buildRecord made them; the name stands for its record_hash (SHA-256,    *)
(* taken to be injective). The name 0 stands for an absent hash, which     *)
(* buildRecord turns into the agent's genesis marker.                      *)
(***************************************************************************)
EXTENDS Naturals, Sequences, FiniteSets

CONSTANTS
    Agents,         \* agent ids
    Workers,        \* goroutines that evaluate calls
    None,           \* no agent, no worker
    MaxCalls,       \* bound on the calls ever evaluated
    MaxCrashes,     \* bound on the times the process dies
    WriteFaults,    \* ways WAL.Write may fail
    Tears,          \* what a crash may leave of the frame it interrupts
    SaveFaults,     \* may Store.Save return an error?
    QueueCap,       \* buffer of the DPR queue, 0 when no queue is configured
    SerialAgents    \* does an agent wait for an answer before its next call?

ASSUME ChainAssumption ==
    /\ None \notin Agents
    /\ None \notin Workers
    /\ MaxCalls \in Nat
    /\ MaxCrashes \in Nat
    /\ QueueCap \in Nat
    /\ SaveFaults \in BOOLEAN
    /\ SerialAgents \in BOOLEAN
    /\ WriteFaults \subseteq {"nothing", "header", "payload", "sync"}
    /\ Tears \subseteq {"header", "payload"}

VARIABLES
    up,         \* is the daemon running?
    crashes,    \* times it died
    calls,      \* calls received, the clock that req.Timestamp is read from
    built,      \* every record made, in the order buildRecord made them
    base,       \* Len(built) when the daemon last started
    tail,       \* Pipeline.chainMu: last record per agent, 0 if none
    pc,         \* where each worker is in decide
    job,        \* the call each worker is deciding
    walMu,      \* holder of WAL.mu
    file,       \* the frames of the WAL file
    synced,     \* how many of them an fsync has covered
    logged,     \* records for which WAL.Write returned nil
    answered,   \* records whose decision was returned to the caller
    queue,      \* InprocDPRQueue.ch
    hand,       \* record the queue's worker is saving, 0 if none
    saving,     \* records that fallback goroutines are saving
    store       \* records in the store

procVars  == <<pc, job>>
chainVars == <<built, base, tail>>
walVars   == <<walMu, file, synced, logged>>
storeVars == <<queue, hand, saving, store>>
lifeVars  == <<up, crashes, calls>>
vars == <<lifeVars, chainVars, procVars, walVars, answered, storeVars>>

Idle == [agent |-> None, ts |-> 0, rec |-> 0]

(* What is in the file of a frame: part of its header only, its header and *)
(* part of the payload, or all of it.                                      *)
Parts == {"header", "payload", "full"}
Frame(r, part) == [rec |-> r, part |-> part]

Steps == {"idle", "called", "built", "payload", "sync", "logged",
          "replicated", "failed"}

Init ==
    /\ up = TRUE /\ crashes = 0 /\ calls = 0
    /\ built = <<>> /\ base = 0
    /\ tail = [a \in Agents |-> 0]
    /\ pc = [w \in Workers |-> "idle"]
    /\ job = [w \in Workers |-> Idle]
    /\ walMu = None
    /\ file = <<>> /\ synced = 0
    /\ logged = {} /\ answered = {}
    /\ queue = <<>> /\ hand = 0 /\ saving = {} /\ store = {}

-------------------------------------------------------------------------------
(* Deciding a call *)

(* An adapter calls Evaluate; the request is stamped on arrival. *)
Call(w, a) ==
    /\ up /\ pc[w] = "idle"
    /\ calls < MaxCalls
    /\ SerialAgents => \A v \in Workers : job[v].agent # a
    /\ calls' = calls + 1
    /\ pc' = [pc EXCEPT ![w] = "called"]
    /\ job' = [job EXCEPT ![w] = [agent |-> a, ts |-> calls + 1, rec |-> 0]]
    /\ UNCHANGED <<up, crashes, chainVars, walVars, answered, storeVars>>

(* Mutant of BuildRecord: the chain cache is not advanced. *)
BuildRecordStaleTail(w) ==
    /\ pc[w] = "called"
    /\ LET a == job[w].agent IN
         built' = Append(built, [agent |-> a, prev |-> tail[a], ts |-> job[w].ts])
    /\ job' = [job EXCEPT ![w].rec = Len(built) + 1]
    /\ pc' = [pc EXCEPT ![w] = "built"]
    /\ UNCHANGED <<lifeVars, base, tail, walVars, answered, storeVars>>

(* Mutant of BuildRecord: the chain cache names a record that is not kept. *)
BuildRecordNotKept(w) ==
    /\ pc[w] = "called"
    /\ tail' = [tail EXCEPT ![job[w].agent] = Len(built) + 1]
    /\ job' = [job EXCEPT ![w].rec = Len(built) + 1]
    /\ pc' = [pc EXCEPT ![w] = "built"]
    /\ UNCHANGED <<lifeVars, built, base, walVars, answered, storeVars>>

(* Under chainLock: link to the agent's last record, then become it. *)
BuildRecord(w) ==
    /\ pc[w] = "called"
    /\ LET a == job[w].agent IN
         /\ built' = Append(built, [agent |-> a, prev |-> tail[a], ts |-> job[w].ts])
         /\ tail' = [tail EXCEPT ![a] = Len(built) + 1]
    /\ job' = [job EXCEPT ![w].rec = Len(built) + 1]
    /\ pc' = [pc EXCEPT ![w] = "built"]
    /\ UNCHANGED <<lifeVars, base, walVars, answered, storeVars>>

(* WAL.Write takes its lock and writes the 12 byte header. *)
WriteHeader(w) ==
    /\ pc[w] = "built" /\ walMu = None
    /\ walMu' = w
    /\ file' = Append(file, Frame(job[w].rec, "payload"))
    /\ pc' = [pc EXCEPT ![w] = "payload"]
    /\ UNCHANGED <<lifeVars, chainVars, job, synced, logged, answered, storeVars>>

WritePayload(w) ==
    /\ pc[w] = "payload"
    /\ file' = [file EXCEPT ![Len(file)].part = "full"]
    /\ pc' = [pc EXCEPT ![w] = "sync"]
    /\ UNCHANGED <<lifeVars, chainVars, job, walMu, synced, logged, answered, storeVars>>

(* Mutant of Sync: Write returns without waiting for the fsync. *)
SyncSkipped(w) ==
    /\ pc[w] = "sync"
    /\ logged' = logged \cup {job[w].rec}
    /\ walMu' = None
    /\ pc' = [pc EXCEPT ![w] = "logged"]
    /\ UNCHANGED <<lifeVars, chainVars, job, file, synced, answered, storeVars>>

Sync(w) ==
    /\ pc[w] = "sync"
    /\ synced' = Len(file)
    /\ logged' = logged \cup {job[w].rec}
    /\ walMu' = None
    /\ pc' = [pc EXCEPT ![w] = "logged"]
    /\ UNCHANGED <<lifeVars, chainVars, job, file, answered, storeVars>>

(* Write returns an error. What it already wrote stays in the file. *)
HeaderFails(w) ==
    /\ pc[w] = "built" /\ walMu = None
    /\ \/ "nothing" \in WriteFaults /\ UNCHANGED file
       \/ "header" \in WriteFaults /\ file' = Append(file, Frame(job[w].rec, "header"))
    /\ pc' = [pc EXCEPT ![w] = "failed"]
    /\ UNCHANGED <<lifeVars, chainVars, job, walMu, synced, logged, answered, storeVars>>

(* Mutant of PayloadOrSyncFails: the lock is kept. *)
PayloadOrSyncFailsLocked(w) ==
    /\ \/ pc[w] = "payload" /\ "payload" \in WriteFaults
       \/ pc[w] = "sync" /\ "sync" \in WriteFaults
    /\ pc' = [pc EXCEPT ![w] = "failed"]
    /\ UNCHANGED <<lifeVars, chainVars, job, walVars, answered, storeVars>>

(* Mutant: the error is dropped and decide goes on. *)
PayloadOrSyncFailsIgnored(w) ==
    /\ \/ pc[w] = "payload" /\ "payload" \in WriteFaults
       \/ pc[w] = "sync" /\ "sync" \in WriteFaults
    /\ walMu' = None
    /\ pc' = [pc EXCEPT ![w] = "logged"]
    /\ UNCHANGED <<lifeVars, chainVars, job, file, synced, logged, answered, storeVars>>

PayloadOrSyncFails(w) ==
    /\ \/ pc[w] = "payload" /\ "payload" \in WriteFaults
       \/ pc[w] = "sync" /\ "sync" \in WriteFaults
    /\ walMu' = None
    /\ pc' = [pc EXCEPT ![w] = "failed"]
    /\ UNCHANGED <<lifeVars, chainVars, job, file, synced, logged, answered, storeVars>>

(* Mutant of Deny: the decision is returned although the write failed. *)
DenyFailOpen(w) ==
    /\ pc[w] = "failed"
    /\ pc' = [pc EXCEPT ![w] = "idle"]
    /\ job' = [job EXCEPT ![w] = Idle]
    /\ answered' = answered \cup {job[w].rec}
    /\ UNCHANGED <<lifeVars, chainVars, walVars, storeVars>>

(* decide replaces the decision by DENY(WAL_WRITE_FAILURE) and returns it. *)
Deny(w) ==
    /\ pc[w] = "failed"
    /\ pc' = [pc EXCEPT ![w] = "idle"]
    /\ job' = [job EXCEPT ![w] = Idle]
    /\ UNCHANGED <<lifeVars, chainVars, walVars, answered, storeVars>>

(* Mutant of Replicate: a record the queue has no room for is dropped. *)
ReplicateOrDrop(w) ==
    /\ pc[w] = "logged"
    /\ queue' = IF Len(queue) < QueueCap THEN Append(queue, job[w].rec) ELSE queue
    /\ pc' = [pc EXCEPT ![w] = "replicated"]
    /\ UNCHANGED <<lifeVars, chainVars, job, walVars, answered, hand, saving, store>>

(* Hand the record to the queue; when that fails, or no queue is           *)
(* configured, start a goroutine that saves it.                            *)
Replicate(w) ==
    /\ pc[w] = "logged"
    /\ IF Len(queue) < QueueCap
         THEN queue' = Append(queue, job[w].rec) /\ UNCHANGED saving
         ELSE saving' = saving \cup {job[w].rec} /\ UNCHANGED queue
    /\ pc' = [pc EXCEPT ![w] = "replicated"]
    /\ UNCHANGED <<lifeVars, chainVars, job, walVars, answered, hand, store>>

Answer(w) ==
    /\ pc[w] = "replicated"
    /\ answered' = answered \cup {job[w].rec}
    /\ pc' = [pc EXCEPT ![w] = "idle"]
    /\ job' = [job EXCEPT ![w] = Idle]
    /\ UNCHANGED <<lifeVars, chainVars, walVars, storeVars>>

-------------------------------------------------------------------------------
(* Copying records to the store *)

QueueTake ==
    /\ hand = 0 /\ queue # <<>>
    /\ hand' = Head(queue)
    /\ queue' = Tail(queue)
    /\ UNCHANGED <<lifeVars, chainVars, procVars, walVars, answered, saving, store>>

(* The queue's worker ignores what Save returns, and so does the fallback. *)
QueueSave ==
    /\ hand # 0
    /\ \/ store' = store \cup {hand}
       \/ SaveFaults /\ UNCHANGED store
    /\ hand' = 0
    /\ UNCHANGED <<lifeVars, chainVars, procVars, walVars, answered, queue, saving>>

FallbackSave(r) ==
    /\ r \in saving
    /\ \/ store' = store \cup {r}
       \/ SaveFaults /\ UNCHANGED store
    /\ saving' = saving \ {r}
    /\ UNCHANGED <<lifeVars, chainVars, procVars, walVars, answered, queue, hand>>

-------------------------------------------------------------------------------
(* Dying and starting again *)

(* What the disk may hold after the process and the machine die: every     *)
(* synced frame, and of the rest a prefix whose last frame may be cut.     *)
CanTear(f) == {t \in Tears : f.part = "header" => t = "header"}

CrashImages ==
    {SubSeq(file, 1, k) : k \in synced .. Len(file)} \cup
    UNION {{Append(SubSeq(file, 1, k - 1), Frame(file[k].rec, t)) : t \in CanTear(file[k])} :
              k \in synced + 1 .. Len(file)}

(* The process dies, or is stopped: stop() drops what the queue holds. *)
Crash ==
    /\ up /\ crashes < MaxCrashes
    /\ up' = FALSE
    /\ crashes' = crashes + 1
    /\ file' \in CrashImages
    /\ tail' = [a \in Agents |-> 0]
    /\ pc' = [w \in Workers |-> "idle"]
    /\ job' = [w \in Workers |-> Idle]
    /\ walMu' = None
    /\ queue' = <<>> /\ hand' = 0 /\ saving' = {}
    /\ UNCHANGED <<calls, built, base, synced, logged, answered, store>>

(* readNextRecord succeeds n times on f, then finds the end of the file or *)
(* a frame it cannot read.                                                 *)
Delivers(f, n) ==
    /\ \A i \in 1 .. n : f[i].part = "full"
    /\ n < Len(f) => f[n + 1].part # "full"

(* recoverWALTail cuts the file at the first frame it cannot read, except  *)
(* that a partial header at the very end reads as a clean end of file, and *)
(* stays: the file is opened for appending.                                *)
RecoverTail(f, n) ==
    IF n + 1 = Len(f) /\ f[Len(f)].part = "header" THEN f ELSE SubSeq(f, 1, n)

(* Store.LastHash: the record whose created_at is the last as a text. The  *)
(* texts drop trailing zeros, so those of one second come in any order     *)
(* (RecordStores has them), and of records in one second any may be last.  *)
LastHash(a) ==
    LET mine == {r \in store : built[r].agent = a} IN
    IF mine = {} THEN {0} ELSE mine

(* OpenWAL, then NewPipeline. *)
Start ==
    /\ ~up
    /\ up' = TRUE
    /\ \E n \in 0 .. Len(file) :
         /\ Delivers(file, n)
         /\ file' = RecoverTail(file, n)
         /\ synced' = Len(file')
    /\ tail' \in {t \in [Agents -> 0 .. Len(built)] : \A a \in Agents : t[a] \in LastHash(a)}
    /\ base' = Len(built)
    /\ UNCHANGED <<crashes, calls, built, procVars, walMu, logged, answered, storeVars>>

-------------------------------------------------------------------------------

Decide(w) ==
    \/ BuildRecord(w)
    \/ WriteHeader(w) \/ WritePayload(w) \/ Sync(w)
    \/ HeaderFails(w) \/ PayloadOrSyncFails(w) \/ Deny(w)
    \/ Replicate(w) \/ Answer(w)

Next ==
    \/ \E w \in Workers, a \in Agents : Call(w, a)
    \/ \E w \in Workers : Decide(w)
    \/ QueueTake \/ QueueSave
    \/ \E r \in saving : FallbackSave(r)
    \/ Crash \/ Start

Spec == Init /\ [][Next]_vars

(* Goroutines are scheduled, and a Go mutex hands itself to a waiter that  *)
(* has been starved for a millisecond, so a worker waiting for WAL.mu gets *)
(* it. Calls, crashes and restarts are not fair.                           *)
Fairness ==
    /\ \A w \in Workers : SF_vars(Decide(w))
    /\ WF_vars(QueueTake) /\ WF_vars(QueueSave)
    /\ \A r \in 1 .. MaxCalls : WF_vars(FallbackSave(r))

FairSpec == Spec /\ Fairness

-------------------------------------------------------------------------------
(* Properties *)

Records == 1 .. Len(built)

LifeTypes == up \in BOOLEAN /\ crashes \in Nat /\ calls \in Nat
ChainTypes ==
    /\ built \in Seq([agent : Agents, prev : Nat, ts : Nat])
    /\ base \in 0 .. Len(built)
    /\ tail \in [Agents -> 0 .. Len(built)]
ProcTypes ==
    /\ pc \in [Workers -> Steps]
    /\ job \in [Workers -> [agent : Agents \cup {None}, ts : Nat, rec : 0 .. Len(built)]]
    /\ walMu \in Workers \cup {None}
WalTypes ==
    /\ file \in Seq([rec : Records, part : Parts])
    /\ synced \in 0 .. Len(file)
    /\ logged \subseteq Records /\ answered \subseteq Records
StoreTypes ==
    /\ queue \in Seq(Records) /\ hand \in 0 .. Len(built)
    /\ saving \subseteq Records /\ store \subseteq Records

(* The types of the variables. *)
TypeOK == LifeTypes /\ ChainTypes /\ ProcTypes /\ WalTypes /\ StoreTypes

(* The WAL ordering invariant (pipeline.go:69): a decision is returned     *)
(* only when its own record is a complete frame that an fsync has covered. *)
(* It must hold whichever writes failed before or beside it.               *)
AuditBeforeAnswer ==
    \A r \in answered : r > base =>
        \E i \in 1 .. synced : file[i] = Frame(r, "full")

(* Nothing reaches the store, its queue or a saving goroutine unless the   *)
(* WAL accepted it: the store never shows a decision that was refused.     *)
StoreIsAudited ==
    /\ saving \cup store \subseteq logged
    /\ \A i \in 1 .. Len(queue) : queue[i] \in logged
    /\ hand # 0 => hand \in logged

(* Two evaluations, however they interleave, never extend the same record: *)
(* within a run of the daemon the chain of an agent does not fork.         *)
NoForkWithinRun ==
    \A i, j \in base + 1 .. Len(built) :
        built[i].agent = built[j].agent /\ built[i].prev = built[j].prev => i = j

(* README.md:387, "No execution without a durable audit record": what a    *)
(* caller was answered can be read back from the log, at any later time    *)
(* and after any number of restarts.                                       *)
ReadablePrefix(f) == SubSeq(f, 1, CHOOSE n \in 0 .. Len(f) : Delivers(f, n))
Readable == {ReadablePrefix(file)[i].rec : i \in 1 .. Len(ReadablePrefix(file))}
AnsweredStaysReadable == answered \subseteq Readable

(* wal.go:115-119: in the log, the first record of an agent has the        *)
(* genesis marker and each later one links to the one before it.           *)
Precursor(log, i) ==
    LET mine == {j \in 1 .. i - 1 : built[log[j].rec].agent = built[log[i].rec].agent}
    IN  IF mine = {} THEN 0
        ELSE log[CHOOSE j \in mine : \A k \in mine : k <= j].rec
ReplayValidates ==
    LET log == ReadablePrefix(file) IN
    \A i \in 1 .. Len(log) : built[log[i].rec].prev = Precursor(log, i)

(* pipeline.go:146-148: the chain is continuous across restarts: no two    *)
(* accepted records of an agent have the same predecessor.                 *)
ChainSurvivesRestart ==
    \A i, j \in logged :
        built[i].agent = built[j].agent /\ built[i].prev = built[j].prev => i = j

(* pipeline.go:960-975: the copies keep the chain's links. However the     *)
(* direct save of a full queue overtakes what waits in the queue, what the *)
(* store has of an agent is one line: a record's predecessor is stored or  *)
(* on its way, never lost, and no two records have the same one.           *)
(* (Whether VerifyChain accepts the rows is the matter of RecordStores.)   *)
Copies == store \cup saving \cup {hand} \cup {queue[i] : i \in 1 .. Len(queue)}
StoredInOneLine ==
    \A r \in store :
        /\ built[r].prev # 0 =>
             built[r].prev \in Copies /\ built[built[r].prev].agent = built[r].agent
        /\ \A s \in store :
             built[r].agent = built[s].agent /\ built[r].prev = built[s].prev => r = s

(* Every evaluation ends, with a decision or a denial: no worker waits for *)
(* the WAL's lock forever, also when another worker's write failed.        *)
EvaluationEnds == \A w \in Workers : pc[w] # "idle" ~> pc[w] = "idle"

(* Every record the WAL accepted reaches the store, also the ones that     *)
(* found the queue full.                                                   *)
EventuallyStored == \A r \in 1 .. MaxCalls : r \in logged ~> r \in store

(* The daemon implements the abstract audit log. *)
Durable == {r \in Readable : \E i \in 1 .. synced : file[i] = Frame(r, "full")}
Abstract == INSTANCE AuditLog WITH
                Record <- 1 .. MaxCalls, durable <- Durable, answered <- answered
ImplementsAuditLog == Abstract!LogSpec
===============================================================================
