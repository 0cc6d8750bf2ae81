------------------------------ MODULE RecordStores ------------------------------
(***************************************************************************)
(* Where the audit records are kept once the WAL has them, and what is     *)
(* read back: the SQLite store and its PostgreSQL mirror (core/dpr), the   *)
(* queues that write them (core/jobs), the verification of a chain, and    *)
(* the Merkle proofs of a compliance export.                               *)
(*                                                                         *)
(* The WAL itself is AuditChain's; here every record it was given is       *)
(* durable.                                                                *)
(***************************************************************************)
EXTENDS Integers, Sequences, FiniteSets, SequencesExt

CONSTANTS
    RecordAgents,
    Instants,       \* the times of records, in hundredths of some second
    Offsets,        \* zones a host may be in; 0 is UTC
    Timeouts,       \* execution timeouts a call may ask for; 0 is none
    Backends,       \* subsets of {"sqlite", "postgres"} a daemon may have
    Queues,         \* subset of {"inproc", "river"}
    QueueRoom, MaxRecords, MaxFailures, MaxReopens

ASSUME RecordStoresAssumption ==
    Instants \subseteq 0 .. 199 /\ MaxRecords \in Nat /\ {} \notin Backends

VARIABLES
    offset, backends, queueKind,    \* of the daemon's host and configuration
    walRecords,     \* the records of the WAL, in its order
    chainTail,      \* Pipeline.chainMu: each agent's last record, 0 without one
    waitingRecords, \* records handed to the queue and not done with
    rows,           \* each backend's rows, in the order they were inserted
    failedSaves, reopens,
    export          \* the last compliance export

recordVars == <<offset, backends, queueKind, walRecords, chainTail, waitingRecords, rows, failedSaves,
                reopens, export>>

-------------------------------------------------------------------------------
(* Records, rows and their order *)

(* CanonicalBytes and ComputeHash: what of a record its hash covers. A     *)
(* time is written with the offset it carries.                             *)
HashOf(r) == [id |-> r.id, prev |-> r.prev, agent |-> r.agent, timeout |-> r.timeout, time |-> r.time,
              zone |-> r.zone]
Sealed(r) == r @@ [hash |-> HashOf(r)]

(* What Save writes and scanRecords reads back. Neither store has a column *)
(* for the timeout. SQLite keeps the time as text in UTC; PostgreSQL to    *)
(* the microsecond, the coarser digit here, and answers in the host's zone.*)
SqliteRow(r) == [r EXCEPT !.timeout = 0, !.zone = 0]
PostgresRow(r) == [r EXCEPT !.timeout = 0, !.zone = offset, !.time = @ - (@ % 10)]
RowOf(store, r) == IF store = "sqlite" THEN SqliteRow(r) ELSE PostgresRow(r)

(* time.RFC3339Nano: no trailing zeros, and no point before none. The      *)
(* characters by their order: the point, the digits, the Z.                *)
Digits(t) == LET f == t % 100 IN
    IF f = 0 THEN <<>> ELSE IF f % 10 = 0 THEN <<0, 1 + f \div 10>> ELSE <<0, 1 + f \div 10, 1 + (f % 10)>>
Text(t) == <<t \div 100>> \o Digits(t) \o <<99>>
TextBefore(s, t) ==
    \E k \in 1 .. Len(s) : /\ k <= Len(t) /\ s[k] < t[k]
                           /\ \A j \in 1 .. k - 1 : s[j] = t[j]

(* ORDER BY created_at. *)
CreatedBefore(store, r, s) ==
    IF store = "sqlite" THEN TextBefore(Text(r.time), Text(s.time)) ELSE r.time < s.time
OldestFirst(store, a) ==
    LET mine == SelectSeq(rows[store], LAMBDA r : r.agent = a)
        Rank(i) == Cardinality({j \in DOMAIN mine : \/ CreatedBefore(store, mine[j], mine[i])
                                                    \/ ~CreatedBefore(store, mine[i], mine[j]) /\ j < i})
    IN [n \in DOMAIN mine |-> mine[CHOOSE i \in DOMAIN mine : Rank(i) = n - 1]]

(* The store reads go to: MultiStore.primary. *)
Primary == IF "sqlite" \in backends THEN "sqlite" ELSE "postgres"
Mirrored == backends = {"sqlite", "postgres"}

(* LastHash: of several with the latest time, the one the index yields.    *)
LastStored(a) ==
    LET mine == {r \in ToSet(rows[Primary]) : r.agent = a} IN
    IF mine = {} THEN {0}
    ELSE {r.hash.id : r \in {s \in mine : \A t \in mine : ~CreatedBefore(Primary, s, t)}}

(* VerifyChain: the first row whose hash is not that of its columns, or    *)
(* whose predecessor is not the row before; 0 without one.                 *)
ChainBreak(store, a) ==
    LET recs == OldestFirst(store, a)
        Broken(n) == \/ recs[n].hash # HashOf(recs[n])
                     \/ n > 1 /\ recs[n].prev # recs[n - 1].hash.id
        breaks == {n \in DOMAIN recs : Broken(n)}
    IN IF breaks = {} THEN 0 ELSE CHOOSE n \in breaks : \A m \in breaks : n <= m

(* audit verify, audit export --verify: the hashes alone, of all agents.   *)
Violations == Cardinality({n \in DOMAIN rows["sqlite"] : rows["sqlite"][n].hash # HashOf(rows["sqlite"][n])})

-------------------------------------------------------------------------------
(* Merkle proofs *)

(* buildParentLevel: an odd node at the end moves up as it is.             *)
ParentLevel(level) ==
    [i \in 1 .. (Len(level) + 1) \div 2 |->
        IF 2 * i > Len(level) THEN level[2 * i - 1] ELSE <<level[2 * i - 1], level[2 * i]>>]

(* The levels from the leaves to the root. *)
Levels(leaves) ==
    LET Depth == Len(leaves)
        up[n \in 1 .. Depth] == IF n = 1 THEN leaves
                                ELSE IF Len(up[n - 1]) = 1 THEN up[n - 1] ELSE ParentLevel(up[n - 1])
    IN SelectSeq([n \in 1 .. Depth |-> up[n]], LAMBDA level : Len(level) > 1)
MerkleRoot(leaves) ==
    IF Len(leaves) <= 1 THEN leaves ELSE ParentLevel(Last(Levels(leaves)))

(* BuildInclusionProof, of the leaf at index i, from 0: at each level the  *)
(* neighbour, if there is one.                                             *)
InclusionProof(leaves, i) ==
    LET levels == Levels(leaves)
        At(n) == i \div (2 ^ (n - 1))
        Neighbour(n) == IF At(n) % 2 = 0 THEN At(n) + 1 ELSE At(n) - 1
        Sibling(n) == IF Neighbour(n) < Len(levels[n]) THEN <<levels[n][Neighbour(n) + 1]>> ELSE <<>>
    IN [size |-> Len(leaves), index |-> i, leaf |-> leaves[i + 1],
        hashes |-> FlattenSeq([n \in DOMAIN levels |-> Sibling(n)])]

(* VerifyInclusionProof recomputes the root from the leaf and the sizes of *)
(* the levels, n levels up: the node, its index, the level's width, and    *)
(* the hashes not yet used.  Where one is missing it gets no further.      *)
Climb(leaf, index, size, hashes) ==
    LET HasSibling(s) == s.idx % 2 = 1 \/ s.idx + 1 < s.width
        Joined(s) == IF s.idx % 2 = 0 THEN <<s.cur, Head(s.left)>> ELSE <<Head(s.left), s.cur>>
        up[n \in 0 .. size] ==
          IF n = 0 THEN [cur |-> leaf, idx |-> index, width |-> size, left |-> hashes]
          ELSE LET s == up[n - 1]
                   above == [s EXCEPT !.idx = @ \div 2, !.width = (@ + 1) \div 2]
               IN  IF s.width <= 1 \/ (HasSibling(s) /\ s.left = <<>>) THEN s
                   ELSE IF HasSibling(s) THEN [above EXCEPT !.cur = Joined(s), !.left = Tail(@)]
                   ELSE above
        top == up[size]
    IN  IF top.width <= 1 /\ top.left = <<>> THEN <<top.cur>> ELSE <<>>
VerifyInclusion(proof, root) ==
    /\ proof.size > 0 /\ proof.index < proof.size
    /\ Climb(proof.leaf, proof.index, proof.size, proof.hashes) = root

(* BuildConsistencyProof hands over every leaf; VerifyConsistencyProof     *)
(* computes both roots again.                                              *)
ConsistencyProof(leaves, from, to) ==
    [from |-> from, to |-> to, fromRoot |-> MerkleRoot(SubSeq(leaves, 1, from)),
     toRoot |-> MerkleRoot(SubSeq(leaves, 1, to)),
     hashes |-> IF from = to THEN <<>> ELSE SubSeq(leaves, 1, to)]
VerifyConsistency(p) ==
    /\ 0 < p.from /\ p.from <= p.to
    /\ IF p.from = p.to THEN p.hashes = <<>> /\ p.fromRoot = p.toRoot
       ELSE /\ Len(p.hashes) = p.to
            /\ MerkleRoot(SubSeq(p.hashes, 1, p.from)) = p.fromRoot
            /\ MerkleRoot(p.hashes) = p.toRoot

-------------------------------------------------------------------------------
(* The stores at work *)

NoExport == [leaves |-> <<>>, previous |-> 0]

RecordsInit ==
    /\ offset \in Offsets /\ backends \in Backends /\ queueKind \in Queues
    /\ walRecords = <<>> /\ chainTail = [a \in RecordAgents |-> 0]
    /\ waitingRecords = <<>> /\ rows = [s \in {"sqlite", "postgres"} |-> <<>>]
    /\ failedSaves = 0 /\ reopens = 0 /\ export = NoExport

(* INSERT OR IGNORE, ON CONFLICT (record_id) DO NOTHING.                   *)
Inserted(store, old, r) ==
    IF \E n \in DOMAIN old : old[n].id = r.id THEN old ELSE Append(old, RowOf(store, r))

(* Mutant of SaveOutcomes: the mirror is written whatever the primary did. *)
SaveOutcomesOfEach == IF failedSaves < MaxFailures THEN SUBSET backends ELSE {backends}

(* The outcomes of MultiStore.Save, or of the only store's: where the      *)
(* record was saved. The mirror is tried once the primary has it.          *)
SaveOutcomes == {backends} \cup (IF failedSaves < MaxFailures
                                 THEN {{}} \cup (IF Mirrored THEN {{Primary}} ELSE {}) ELSE {})

Saved(r, where) ==
    /\ rows' = [s \in DOMAIN rows |-> IF s \in where THEN Inserted(s, rows[s], r) ELSE rows[s]]
    /\ failedSaves' = IF where = backends THEN failedSaves ELSE failedSaves + 1

(* Pipeline.decide: the record is built on the agent's last one, and goes  *)
(* to the queue, or to the store itself when that has no room.             *)
Record(a, t, timeout) ==
    /\ Len(walRecords) < MaxRecords
    /\ walRecords # <<>> => Last(walRecords).time <= t
    /\ LET r == Sealed([id |-> Len(walRecords) + 1, agent |-> a, prev |-> chainTail[a], time |-> t,
                        zone |-> offset, timeout |-> timeout])
       IN /\ walRecords' = Append(walRecords, r)
          /\ chainTail' = [chainTail EXCEPT ![a] = r.id]
          /\ IF queueKind = "river" \/ Len(waitingRecords) < QueueRoom
               THEN waitingRecords' = Append(waitingRecords, r) /\ UNCHANGED <<rows, failedSaves>>
               ELSE (\E where \in SaveOutcomes : Saved(r, where)) /\ UNCHANGED waitingRecords
    /\ UNCHANGED <<offset, backends, queueKind, reopens, export>>

(* The in-process worker saves one record after the other and drops the    *)
(* error.                                                                  *)
WorkInproc ==
    /\ queueKind = "inproc" /\ waitingRecords # <<>>
    /\ \E where \in SaveOutcomes : Saved(Head(waitingRecords), where)
    /\ waitingRecords' = Tail(waitingRecords)
    /\ UNCHANGED <<offset, backends, queueKind, walRecords, chainTail, reopens, export>>

(* One of River's four workers; a job that failed is tried again. A worker *)
(* may also save a record and end before the job is marked done.           *)
WorkRiver ==
    /\ queueKind = "river"
    /\ \E n \in DOMAIN waitingRecords : \E where \in SaveOutcomes : \E marked \in BOOLEAN :
         /\ n <= 4 /\ Saved(waitingRecords[n], where)
         /\ (~marked => reopens < MaxReopens)
         /\ waitingRecords' = IF where = backends /\ marked THEN RemoveAt(waitingRecords, n)
                                                             ELSE waitingRecords
         /\ reopens' = IF marked THEN reopens ELSE reopens + 1
    /\ UNCHANGED <<offset, backends, queueKind, walRecords, chainTail, export>>

(* The daemon starts again: NewPipeline asks the store for the last        *)
(* records; the in-process queue is lost.                                  *)
Reopen ==
    /\ reopens < MaxReopens /\ reopens' = reopens + 1
    /\ waitingRecords' = IF queueKind = "river" THEN waitingRecords ELSE <<>>
    /\ chainTail' \in {t \in [RecordAgents -> 0 .. Len(walRecords)] :
                          \A a \in RecordAgents : t[a] \in LastStored(a)}
    /\ UNCHANGED <<offset, backends, queueKind, walRecords, rows, failedSaves, export>>

(* compliance export: BuildComplianceExportBundle over the WAL's records.  *)
Export ==
    /\ export.leaves # [n \in DOMAIN walRecords |-> walRecords[n].id]
    /\ export' = [leaves |-> [n \in DOMAIN walRecords |-> walRecords[n].id], previous |-> Len(export.leaves)]
    /\ UNCHANGED <<offset, backends, queueKind, walRecords, chainTail, waitingRecords, rows, failedSaves,
                   reopens>>

RecordsNext ==
    \/ \E a \in RecordAgents, t \in Instants, timeout \in Timeouts : Record(a, t, timeout)
    \/ WorkInproc \/ WorkRiver \/ Reopen \/ Export

-------------------------------------------------------------------------------
(* Properties *)

IdsOf(store) == {r.hash.id : r \in ToSet(rows[store])}

(* multistore.go:5: the mirror never has a record the primary lacks, and   *)
(* however often a record is saved again no store has it twice.            *)
MirrorFollows ==
    /\ Mirrored => IdsOf("postgres") \subseteq IdsOf("sqlite")
    /\ \A s \in backends : Cardinality(IdsOf(s)) = Len(rows[s])

(* An agent whose rows VerifyChain finds whole has in the store a stretch  *)
(* of its records without a gap: a record a save lost, or one appended to  *)
(* another than the last after a restart, breaks it.                       *)
GapsAreFound ==
    \A s \in backends, a \in RecordAgents : ChainBreak(s, a) = 0 =>
        \A r \in ToSet(rows[s]) : r.agent = a =>
            \A b \in ToSet(rows[s]) : b.agent = a /\ b.id < r.id => r.prev \in IdsOf(s)

(* Without a timeout, in UTC, one record a second and no failure, what is  *)
(* in the store is found whole.                                            *)
WholeSecond(r) == r.timeout = 0 /\ r.zone = 0 /\ r.time % 100 = 0
WholeIsVerified ==
    /\ \A n \in DOMAIN walRecords : WholeSecond(walRecords[n]) /\ (n > 1 => walRecords[n - 1].time < walRecords[n].time)
    /\ failedSaves = 0 /\ reopens = 0 /\ waitingRecords = <<>>
    => \A s \in backends, a \in RecordAgents : ChainBreak(s, a) = 0

(* merkle_proofs.go:84: the proof of each exported record verifies against *)
(* the root, no other record's does in its place, and the export before is *)
(* a beginning of this one.                                                *)
ExportsAreProved ==
    LET leaves == export.leaves root == MerkleRoot(leaves) IN
    /\ \A i, j \in DOMAIN leaves :
          VerifyInclusion([InclusionProof(leaves, i - 1) EXCEPT !.leaf = leaves[j]], root) <=> i = j
    /\ \A i, j \in DOMAIN leaves :
          VerifyInclusion([InclusionProof(leaves, i - 1) EXCEPT !.index = j - 1], root) => i = j
    /\ \A from \in 1 .. Len(leaves) : VerifyConsistency(ConsistencyProof(leaves, from, Len(leaves)))

RecordsHold == MirrorFollows /\ GapsAreFound /\ WholeIsVerified /\ ExportsAreProved

(* sqlite.go:182: every record of the WAL is in the store, and yet the     *)
(* chain does not verify.                                                  *)
CompleteIsVerified ==
    (\A s \in backends : Len(rows[s]) = Len(walRecords)) /\ reopens = 0 =>
        \A a \in RecordAgents : ChainBreak(Primary, a) = 0
(* audit.go:35: no violation is reported of a store with gaps.             *)
AuditFindsGaps ==
    waitingRecords = <<>> /\ "sqlite" \in backends /\ Violations = 0 => Len(rows["sqlite"]) = Len(walRecords)
===============================================================================
