--------------------------- MODULE MCServicesProofs ---------------------------
(***************************************************************************)
(* Parts of a daemon that MCServices composes, for every number of         *)
(* handlers, connections, callbacks and agents and every bound: the        *)
(* inductive invariants of the orderly stop, the SDK socket, the callback  *)
(* manager, the synchronisation gate with its fan-out budget, and what     *)
(* these three, which fan out to others, give together; and of the gateway *)
(* to MCP servers.                                                         *)
(***************************************************************************)
EXTENDS MCServices, SequenceTheorems, FiniteSetTheorems, TLAPS

-------------------------------------------------------------------------------
(* The stop *)

Positions == {"running", "sdk", "http", "grpc", "mcp", "wal", "queue", "store", "webhooks",
              "syncer", "stopped", "crashed"}
HandlerType == [at : {"idle", "evaluating", "logged", "waiting"}, dec : Decisions \cup {0}]
DprType(W) == [ch : Seq(W), closed : BOOLEAN, hand : W \cup {0}, worker : BOOLEAN]
HooksType(W) == [ch : Seq(W), closed : BOOLEAN, done : BOOLEAN]
HorizonType(W) == [ch : Seq(W), closed : BOOLEAN, batch : SUBSET W]

(* The types, part by part. *)
ServingTypes ==
    /\ decisions \in Nat /\ handler \in [Handlers -> HandlerType] /\ waited \subseteq GrpcHandlers
    /\ watches \subseteq HealthWatches
DprTypes(W) == dpr \in DprType(W) /\ saves \cup lateSaves \subseteq W
HookTypes(W) == hooks \in HooksType(W) /\ emits \cup attempted \cup accepted \subseteq W
SyncTypes(W) == horizon \in HorizonType(W) /\ syncs \subseteq W
DaemonTypes ==
    /\ stopStep \in Positions /\ walOpen \in BOOLEAN /\ storeOpen \in BOOLEAN
    /\ ServingTypes /\ DprTypes(walLogged) /\ HookTypes(walLogged) /\ SyncTypes(walLogged)

(* Only what the log accepted is handed on; a call waits for an approval   *)
(* once.                                                                   *)
HandlersInv ==
    \A h \in Handlers :
      /\ handler[h].at = "logged" => handler[h].dec \in walLogged
      /\ handler[h].at = "waiting" => h \in GrpcHandlers \ waited

(* A call that waited for an approval is evaluated once more at most.      *)
DecisionsInv == decisions <= MaxDecisions + Cardinality(waited)

(* What the sender took is on its way or was tried, and its loop ends on   *)
(* an empty channel that nobody can send on any more.                      *)
Queued(s) == {s[i] : i \in 1 .. Len(s)}
HookInv ==
    /\ accepted = attempted \cup Queued(hooks.ch)
    /\ hooks.done => hooks.closed /\ hooks.ch = <<>>
    /\ stopStep \in {"syncer", "stopped"} => hooks.done

(* The worker of the record queue leaves no record behind, and the store   *)
(* is closed after it has gone.                                            *)
WorkerInv ==
    /\ ~dpr.worker => dpr.hand = 0
    /\ stopStep \in {"store", "webhooks", "syncer", "stopped"} \/ ~storeOpen => ~dpr.worker
    /\ lateSaves = {}

DaemonInv == DaemonTypes /\ HandlersInv /\ DecisionsInv /\ HookInv /\ WorkerInv

-------------------------------------------------------------------------------
(* DaemonTypes *)

LEMMA SeqGrows ==
    ASSUME NEW S, NEW T, S \subseteq T, NEW s \in Seq(S)
    PROVE  s \in Seq(T)
<1>1. s \in [1 .. Len(s) -> S] /\ Len(s) \in Nat
  BY LenProperties
<1>2. s \in [1 .. Len(s) -> T]
  BY <1>1
<1> QED
  BY <1>1, <1>2, SeqDef

LEMMA PositionType ==
    ASSUME stopStep \in Positions, StopNext
    PROVE  stopStep' \in Positions
BY DEF StopNext, StopOn, Serve, Evaluation, Log, HandOn, HandOnToClosedQueue, EndWait, Watch, EndWatch,
       FallbackSaves, EmitWebhook, SendDecision, TakeRecord, SaveRecord, EndWorker, DeliverEvent,
       EndDelivery, Collect, Flush, BeginStop, CloseSdk, CloseProxy, StopGrpc, CloseMcp, CloseWal,
       CloseQueue, CloseStore, CloseWebhooks, CloseSyncer, Goto, Positions

(* What a handler does to itself. *)
LEMMA HandlersStep ==
    ASSUME DaemonTypes, HandlersInv, DecisionsInv, StopNext
    PROVE  ServingTypes' /\ HandlersInv' /\ DecisionsInv' /\ walLogged \subseteq walLogged'
<1>0. ServingTypes
  BY DEF DaemonTypes
<1>1. CASE UNCHANGED servingVars
  BY <1>0, <1>1 DEF servingVars, ServingTypes, HandlersInv, DecisionsInv
<1> DEFINE bound == MaxDecisions + Cardinality(Handlers)
           k == Cardinality(waited)
<1>2. /\ IsFiniteSet(waited) /\ k \in Nat /\ MaxDecisions \in Nat
      /\ \A w \in SUBSET GrpcHandlers : Cardinality(w) \in Nat /\ MaxDecisions + Cardinality(w) <= bound
      /\ \A n \in Nat : n > 0 /\ n <= bound => n \in Decisions
      /\ MaxDecisions <= bound
  <2>1. IsFiniteSet(Handlers) /\ Cardinality(Handlers) \in Nat /\ MaxDecisions \in Nat
    BY DaemonStopAssumption, FS_CardinalityType
  <2>2. \A w \in SUBSET GrpcHandlers :
          IsFiniteSet(w) /\ Cardinality(w) \in Nat /\ Cardinality(w) <= Cardinality(Handlers)
    <3> TAKE w \in SUBSET GrpcHandlers
    <3>1. w \subseteq Handlers
      BY DaemonStopAssumption
    <3>2. IsFiniteSet(w) /\ Cardinality(w) <= Cardinality(Handlers)
      BY <2>1, <3>1, FS_Subset
    <3> QED
      BY <3>2, FS_CardinalityType
  <2> QED
    BY <1>0, <2>1, <2>2 DEF Decisions, ServingTypes
<1>3. ASSUME NEW h \in Handlers, Serve(h)
      PROVE  ServingTypes' /\ HandlersInv' /\ DecisionsInv' /\ walLogged \subseteq walLogged'
  <2>1. /\ handler' = [handler EXCEPT ![h] = At("evaluating", decisions + 1)]
        /\ waited' = waited \ {h} /\ walLogged' = walLogged /\ watches' = watches
        /\ decisions' = decisions + 1 /\ decisions < MaxDecisions
    BY <1>3 DEF Serve
  <2>2. decisions + 1 \in Nat /\ decisions + 1 <= MaxDecisions /\ decisions + 1 \in Decisions
    <3>1. decisions + 1 \in Nat /\ decisions + 1 > 0 /\ decisions + 1 <= MaxDecisions
      BY <1>0, <1>2, <2>1 DEF ServingTypes
    <3>2. decisions + 1 <= bound
      BY <1>2, <3>1, DaemonStopAssumption, FS_CardinalityType
    <3> QED
      BY <1>2, <3>1, <3>2
  <2>3. waited' \subseteq GrpcHandlers /\ Cardinality(waited') \in Nat
    BY <1>0, <1>2, <2>1 DEF ServingTypes
  <2>4. ServingTypes' /\ HandlersInv'
    BY <1>0, <2>1, <2>2, <2>3 DEF ServingTypes, HandlersInv, HandlerType, At
  <2>5. DecisionsInv'
    BY <1>2, <2>1, <2>2, <2>3 DEF DecisionsInv
  <2> QED
    BY <2>1, <2>4, <2>5
<1>4. ASSUME NEW h \in Handlers, Evaluation(h)
      PROVE  ServingTypes' /\ HandlersInv' /\ DecisionsInv' /\ walLogged \subseteq walLogged'
  BY <1>0, <1>4
  DEF Evaluation, Log, HandOn, HandOnToClosedQueue, AfterDecision, ServingTypes, HandlerType,
      HandlersInv, DecisionsInv, At
<1>5. ASSUME NEW h \in Handlers, EndWait(h)
      PROVE  ServingTypes' /\ HandlersInv' /\ DecisionsInv' /\ walLogged \subseteq walLogged'
  <2>1. /\ handler[h].at = "waiting" /\ waited' = waited \cup {h} /\ walLogged' = walLogged
        /\ watches' = watches
        /\ \/ handler' = [handler EXCEPT ![h] = At("idle", 0)] /\ decisions' = decisions
           \/ /\ handler' = [handler EXCEPT ![h] = At("evaluating", decisions + 1)]
              /\ decisions' = decisions + 1
    BY <1>5 DEF EndWait
  <2>2. h \in GrpcHandlers \ waited /\ waited' \subseteq GrpcHandlers
    BY <1>0, <2>1 DEF HandlersInv, ServingTypes
  <2>3. Cardinality(waited') = k + 1
    BY <1>2, <2>1, <2>2, FS_AddElement
  <2>4. decisions + 1 \in Nat /\ decisions + 1 <= MaxDecisions + (k + 1)
    BY <1>0, <1>2 DEF DecisionsInv, ServingTypes
  <2>5. decisions + 1 \in Decisions
    <3>1. MaxDecisions + (k + 1) <= bound /\ bound \in Nat
      BY <1>2, <2>2, <2>3, DaemonStopAssumption, FS_CardinalityType
    <3> HIDE DEF bound, k
    <3> QED
      BY <1>0, <1>2, <2>4, <3>1 DEF ServingTypes
  <2>6. ServingTypes' /\ HandlersInv'
    BY <1>0, <2>1, <2>2, <2>4, <2>5 DEF ServingTypes, HandlersInv, HandlerType, At
  <2>7. DecisionsInv'
    <3> HIDE DEF k
    <3> QED
      BY <1>0, <1>2, <2>1, <2>3, <2>4 DEF DecisionsInv, ServingTypes
  <2> QED
    BY <2>1, <2>6, <2>7
<1>7. ASSUME NEW k0 \in HealthWatches, Watch(k0) \/ EndWatch(k0)
      PROVE  ServingTypes' /\ HandlersInv' /\ DecisionsInv' /\ walLogged \subseteq walLogged'
  BY <1>0, <1>7 DEF Watch, EndWatch, ServingTypes, HandlersInv, DecisionsInv
<1>6. \/ UNCHANGED servingVars
      \/ \E h \in Handlers : Serve(h) \/ Evaluation(h) \/ EndWait(h)
      \/ \E w \in HealthWatches : Watch(w) \/ EndWatch(w)
  BY DEF StopNext, StopOn, FallbackSaves, EmitWebhook, SendDecision, TakeRecord, SaveRecord,
         EndWorker, DeliverEvent, EndDelivery, Collect, Flush, BeginStop, CloseSdk, CloseProxy,
         StopGrpc, CloseMcp, CloseWal, CloseQueue, CloseStore, CloseWebhooks, CloseSyncer, Goto
<1> QED
  BY <1>1, <1>3, <1>4, <1>5, <1>6, <1>7

-------------------------------------------------------------------------------
(* The record queue, the webhook sender and the syncer *)

(* The first and the other records of a channel. *)
LEMMA ChannelTakes ==
    ASSUME NEW S, NEW s \in Seq(S), s # <<>>
    PROVE  /\ Head(s) \in S /\ Tail(s) \in Seq(S)
           /\ Queued(s) = {Head(s)} \cup Queued(Tail(s))
<1>1. /\ Head(s) \in S /\ Tail(s) \in Seq(S) /\ Head(s) = s[1] /\ Len(s) \in Nat \ {0}
      /\ Len(Tail(s)) = Len(s) - 1
      /\ \A i \in 1 .. Len(Tail(s)) : Tail(s)[i] = s[i + 1]
  BY EmptySeq, HeadTailProperties
<1>2. /\ 1 \in 1 .. Len(s) /\ \A i \in 1 .. Len(Tail(s)) : i + 1 \in 1 .. Len(s)
      /\ \A i \in 1 .. Len(s) : i = 1 \/ (i - 1 \in 1 .. Len(Tail(s)) /\ i = (i - 1) + 1)
  BY <1>1
<1>3. \A i \in 1 .. Len(s) : s[i] = s[1] \/ s[i] \in Queued(Tail(s))
  <2> TAKE i \in 1 .. Len(s)
  <2>1. CASE i = 1
    BY <2>1
  <2>2. CASE i - 1 \in 1 .. Len(Tail(s)) /\ i = (i - 1) + 1
    <3>1. Tail(s)[i - 1] = s[(i - 1) + 1]
      BY <1>1, <2>2
    <3> QED
      BY <2>2, <3>1 DEF Queued
  <2> QED
    BY <1>2, <2>1, <2>2
<1>4. Queued(Tail(s)) \subseteq Queued(s) /\ s[1] \in Queued(s)
  BY <1>1, <1>2 DEF Queued
<1> QED
  BY <1>1, <1>3, <1>4 DEF Queued

LEMMA ChannelAdds ==
    ASSUME NEW S, NEW s \in Seq(S), NEW d \in S
    PROVE  Append(s, d) \in Seq(S) /\ Queued(Append(s, d)) = Queued(s) \cup {d}
<1>1. /\ Append(s, d) \in Seq(S) /\ Len(Append(s, d)) = Len(s) + 1 /\ Len(s) \in Nat
      /\ \A i \in 1 .. Len(s) : Append(s, d)[i] = s[i]
      /\ Append(s, d)[Len(s) + 1] = d
  BY AppendProperties, LenProperties
<1>2. 1 .. Len(s) + 1 = (1 .. Len(s)) \cup {Len(s) + 1}
  BY <1>1
<1> QED
  BY <1>1, <1>2 DEF Queued

AfterQueue == {"store", "webhooks", "syncer", "stopped"}

LEMMA QueueSteps ==
    ASSUME StopNext
    PROVE  \/ UNCHANGED <<dprVars, storeOpen>> /\ (stopStep' \in AfterQueue => stopStep \in AfterQueue)
           \/ CloseQueue \/ CloseStore \/ TakeRecord \/ SaveRecord \/ EndWorker
           \/ \E h \in Handlers : HandOn(h)
           \/ \E d \in Decisions : FallbackSaves(d)
BY DEF StopNext, StopOn, Serve, Evaluation, Log, HandOnToClosedQueue, EndWait, Watch, EndWatch,
       EmitWebhook, SendDecision, DeliverEvent, EndDelivery, Collect, Flush, BeginStop,
       CloseSdk, CloseProxy, StopGrpc, CloseMcp, CloseWal, CloseWebhooks, CloseSyncer, Goto, AfterQueue

LEMMA QueueKeeps ==
    ASSUME DaemonTypes, HandlersInv, WorkerInv, StopNext
    PROVE  /\ dpr' \in DprType(walLogged) /\ saves' \cup lateSaves' \subseteq walLogged
           /\ WorkerInv' /\ storeOpen' \in BOOLEAN
<1> DEFINE W == walLogged
           Goal == /\ dpr' \in DprType(W) /\ saves' \cup lateSaves' \subseteq W
                   /\ WorkerInv' /\ storeOpen' \in BOOLEAN
<1>0. /\ dpr \in DprType(W) /\ saves \cup lateSaves \subseteq W /\ storeOpen \in BOOLEAN
      /\ dpr.ch \in Seq(W) /\ dpr.hand \in W \cup {0}
  BY DEF DaemonTypes, DprTypes, DprType
<1>1. CASE UNCHANGED <<dprVars, storeOpen>> /\ (stopStep' \in AfterQueue => stopStep \in AfterQueue)
  BY <1>0, <1>1 DEF dprVars, WorkerInv, AfterQueue
<1>2. CASE CloseQueue
  BY <1>0, <1>2 DEF CloseQueue, Goto, dprVars, WorkerInv, DprType
<1>3. CASE CloseStore
  BY <1>0, <1>3 DEF CloseStore, Goto, dprVars, WorkerInv
<1>4. CASE TakeRecord
  <2>1. Head(dpr.ch) \in W /\ Tail(dpr.ch) \in Seq(W)
    BY <1>0, <1>4, ChannelTakes DEF TakeRecord
  <2> QED
    BY <1>0, <1>4, <2>1 DEF TakeRecord, WorkerInv, DprType
<1>5. CASE SaveRecord
  BY <1>0, <1>5 DEF SaveRecord, WorkerInv, DprType
<1>6. CASE EndWorker
  BY <1>0, <1>6 DEF EndWorker, WorkerInv, DprType
<1>7. ASSUME NEW h \in Handlers, HandOn(h) PROVE Goal
  <2> DEFINE d == handler[h].dec
  <2>1. d \in W
    BY <1>7 DEF HandOn, HandlersInv
  <2>2. Append(dpr.ch, d) \in Seq(W)
    BY <1>0, <2>1, ChannelAdds
  <2>3. \/ dpr' = [dpr EXCEPT !.ch = Append(dpr.ch, d)] /\ saves' = saves
        \/ saves' = saves \cup {d} /\ dpr' = dpr
    BY <1>7 DEF HandOn
  <2> HIDE DEF d
  <2>4. /\ dpr' \in DprType(W) /\ saves' \subseteq W
        /\ dpr'.worker = dpr.worker /\ dpr'.hand = dpr.hand
    BY <1>0, <2>1, <2>2, <2>3 DEF DprType
  <2>5. UNCHANGED <<lateSaves, storeOpen, stopStep>>
    BY <1>7 DEF HandOn
  <2> QED
    BY <1>0, <2>4, <2>5 DEF WorkerInv
<1>8. ASSUME NEW d \in Decisions, FallbackSaves(d) PROVE Goal
  BY <1>0, <1>8 DEF FallbackSaves, WorkerInv
<1> QED
  BY <1>1, <1>2, <1>3, <1>4, <1>5, <1>6, <1>7, <1>8, QueueSteps

LEMMA HookSteps ==
    ASSUME StopNext
    PROVE  \/ /\ UNCHANGED hookVars
              /\ stopStep' \in {"syncer", "stopped"} => stopStep \in {"syncer", "stopped"}
           \/ CloseWebhooks \/ DeliverEvent \/ EndDelivery
           \/ \E h \in Handlers : HandOn(h)
           \/ \E d \in Decisions : EmitWebhook(d)
BY DEF StopNext, StopOn, Serve, Evaluation, Log, HandOnToClosedQueue, EndWait, Watch, EndWatch, FallbackSaves,
       TakeRecord, SaveRecord, EndWorker, SendDecision, Collect, Flush, BeginStop, CloseSdk,
       CloseProxy, StopGrpc, CloseMcp, CloseWal, CloseQueue, CloseStore, CloseSyncer, Goto

LEMMA HooksKeep ==
    ASSUME DaemonTypes, HandlersInv, HookInv, StopNext
    PROVE  /\ hooks' \in HooksType(walLogged)
           /\ emits' \cup attempted' \cup accepted' \subseteq walLogged
           /\ HookInv'
<1> DEFINE W == walLogged
           Goal == /\ hooks' \in HooksType(W) /\ emits' \cup attempted' \cup accepted' \subseteq W
                   /\ HookInv'
<1>0. /\ hooks \in HooksType(W) /\ emits \cup attempted \cup accepted \subseteq W
      /\ hooks.ch \in Seq(W)
  BY DEF DaemonTypes, HookTypes, HooksType
<1>1. CASE /\ UNCHANGED hookVars
           /\ stopStep' \in {"syncer", "stopped"} => stopStep \in {"syncer", "stopped"}
  BY <1>0, <1>1 DEF hookVars, HookInv
<1>2. CASE CloseWebhooks
  BY <1>0, <1>2 DEF CloseWebhooks, Goto, hookVars, HookInv, HooksType
<1>3. CASE DeliverEvent
  <2>1. /\ Head(hooks.ch) \in W /\ Tail(hooks.ch) \in Seq(W) /\ hooks.ch # <<>>
        /\ Queued(hooks.ch) = {Head(hooks.ch)} \cup Queued(Tail(hooks.ch))
    BY <1>0, <1>3, ChannelTakes DEF DeliverEvent
  <2>2. /\ hooks' = [hooks EXCEPT !.ch = Tail(hooks.ch)]
        /\ attempted' = attempted \cup {Head(hooks.ch)}
        /\ UNCHANGED <<emits, accepted, stopStep>>
    BY <1>3 DEF DeliverEvent
  <2>3. /\ hooks' \in HooksType(W) /\ hooks'.ch = Tail(hooks.ch)
        /\ hooks'.done = hooks.done /\ hooks'.closed = hooks.closed
    BY <1>0, <2>1, <2>2 DEF HooksType
  <2>4. ~hooks.done
    BY <2>1 DEF HookInv
  <2> QED
    BY <1>0, <2>1, <2>2, <2>3, <2>4 DEF HookInv
<1>4. CASE EndDelivery
  BY <1>0, <1>4 DEF EndDelivery, HookInv, HooksType
<1>5. ASSUME NEW h \in Handlers, HandOn(h) PROVE Goal
  BY <1>0, <1>5 DEF HandOn, HookInv, HandlersInv
<1>6. ASSUME NEW d \in Decisions, EmitWebhook(d) PROVE Goal
  <2>1. d \in W /\ emits' \subseteq emits /\ attempted' = attempted
    BY <1>0, <1>6 DEF EmitWebhook
  <2>2. CASE UNCHANGED <<hooks, accepted>> /\ (stopStep' = stopStep \/ stopStep' = "crashed")
    BY <1>0, <2>1, <2>2 DEF HookInv
  <2>3. CASE /\ ~hooks.closed /\ hooks' = [hooks EXCEPT !.ch = Append(hooks.ch, d)]
             /\ accepted' = accepted \cup {d} /\ stopStep' = stopStep
    <3>1. Append(hooks.ch, d) \in Seq(W) /\ Queued(Append(hooks.ch, d)) = Queued(hooks.ch) \cup {d}
      BY <1>0, <2>1, ChannelAdds
    <3>2. /\ hooks' \in HooksType(W) /\ hooks'.ch = Append(hooks.ch, d)
          /\ hooks'.done = hooks.done
      BY <1>0, <2>3, <3>1 DEF HooksType
    <3>3. ~hooks.done
      BY <2>3 DEF HookInv
    <3> QED
      BY <1>0, <2>1, <2>3, <3>1, <3>2, <3>3 DEF HookInv
  <2> QED
    BY <1>6, <2>2, <2>3 DEF EmitWebhook
<1> QED
  BY <1>1, <1>2, <1>3, <1>4, <1>5, <1>6, HookSteps

LEMMA SyncKeeps ==
    ASSUME DaemonTypes, HandlersInv, StopNext
    PROVE  horizon' \in HorizonType(walLogged) /\ syncs' \subseteq walLogged
<1> DEFINE W == walLogged
           Goal == horizon' \in HorizonType(W) /\ syncs' \subseteq W
<1>0. /\ horizon \in HorizonType(W) /\ syncs \subseteq W
      /\ horizon.ch \in Seq(W) /\ horizon.batch \subseteq W
  BY DEF DaemonTypes, SyncTypes, HorizonType
<1>1. CASE UNCHANGED syncVars
  BY <1>0, <1>1 DEF syncVars
<1>2. ASSUME NEW h \in Handlers, HandOn(h) PROVE Goal
  BY <1>0, <1>2 DEF HandOn, HandlersInv
<1>3. ASSUME NEW d \in Decisions, SendDecision(d) PROVE Goal
  <2>1. Append(horizon.ch, d) \in Seq(W)
    BY <1>0, <1>3, ChannelAdds DEF SendDecision
  <2> QED
    BY <1>0, <1>3, <2>1 DEF SendDecision, HorizonType
<1>4. CASE Collect
  <2>1. Head(horizon.ch) \in W /\ Tail(horizon.ch) \in Seq(W)
    BY <1>0, <1>4, ChannelTakes DEF Collect
  <2> QED
    BY <1>0, <1>4, <2>1 DEF Collect, HorizonType
<1>5. CASE Flush \/ CloseSyncer
  BY <1>0, <1>5 DEF Flush, CloseSyncer, syncVars, HorizonType
<1>6. \/ UNCHANGED syncVars \/ Collect \/ Flush \/ CloseSyncer
      \/ \E h \in Handlers : HandOn(h)
      \/ \E d \in Decisions : SendDecision(d)
  BY DEF StopNext, StopOn, Serve, Evaluation, Log, HandOnToClosedQueue, EndWait, Watch, EndWatch, FallbackSaves,
         EmitWebhook, TakeRecord, SaveRecord, EndWorker, DeliverEvent, EndDelivery, BeginStop,
         CloseSdk, CloseProxy, StopGrpc, CloseMcp, CloseWal, CloseQueue, CloseStore, CloseWebhooks, Goto
<1> QED
  BY <1>1, <1>2, <1>3, <1>4, <1>5, <1>6

-------------------------------------------------------------------------------
(* The invariant holds *)

LEMMA DaemonBegins == StopInit => DaemonInv
<1> SUFFICES ASSUME StopInit PROVE DaemonInv
  OBVIOUS
<1>1. <<>> \in Seq(walLogged) /\ Len(<<>>) = 0
  BY EmptySeq
<1>2. DaemonTypes
  BY <1>1 DEF StopInit, DaemonTypes, Positions, ServingTypes, DprTypes, HookTypes, SyncTypes, DprType,
              HooksType, HorizonType, HandlerType, At
<1>3. HandlersInv /\ WorkerInv
  BY DEF StopInit, HandlersInv, WorkerInv, At
<1>4. HookInv
  BY <1>1 DEF StopInit, HookInv, Queued
<1>5. DecisionsInv
  <2>1. Cardinality({}) = 0 /\ MaxDecisions \in Nat
    BY FS_EmptySet, DaemonStopAssumption
  <2> QED
    BY <2>1 DEF StopInit, DecisionsInv
<1> QED
  BY <1>2, <1>3, <1>4, <1>5 DEF DaemonInv

LEMMA DaemonStep == DaemonInv /\ [StopNext]_stopVars => DaemonInv'
<1> SUFFICES ASSUME DaemonInv, [StopNext]_stopVars PROVE DaemonInv'
  OBVIOUS
<1>1. CASE StopNext
  <2>1. ServingTypes' /\ HandlersInv' /\ DecisionsInv' /\ walLogged \subseteq walLogged'
    BY <1>1, HandlersStep DEF DaemonInv
  <2>2. stopStep' \in Positions /\ walOpen' \in BOOLEAN
    <3>1. walOpen' = walOpen \/ walOpen' = FALSE
      BY <1>1 DEF StopNext, StopOn, Serve, Evaluation, Log, HandOn, HandOnToClosedQueue, EndWait, Watch, EndWatch,
         FallbackSaves, EmitWebhook, SendDecision, TakeRecord, SaveRecord, EndWorker, DeliverEvent,
         EndDelivery, Collect, Flush, BeginStop, CloseSdk, CloseProxy, StopGrpc, CloseMcp, CloseWal,
         CloseQueue, CloseStore, CloseWebhooks, CloseSyncer
    <3> QED
      BY <1>1, <3>1, PositionType DEF DaemonInv, DaemonTypes
  <2>3. Seq(walLogged) \subseteq Seq(walLogged')
    BY <2>1, SeqGrows
  <2>4. DprTypes(walLogged)' /\ WorkerInv' /\ storeOpen' \in BOOLEAN
    BY <1>1, <2>1, <2>3, QueueKeeps DEF DaemonInv, DprTypes, DprType
  <2>5. HookTypes(walLogged)' /\ HookInv'
    BY <1>1, <2>1, <2>3, HooksKeep DEF DaemonInv, HookTypes, HooksType
  <2>6. SyncTypes(walLogged)'
    BY <1>1, <2>1, <2>3, SyncKeeps DEF DaemonInv, SyncTypes, HorizonType
  <2> QED
    BY <2>1, <2>2, <2>4, <2>5, <2>6 DEF DaemonInv, DaemonTypes
<1>2. CASE UNCHANGED stopVars
  BY <1>2 DEF stopVars, DaemonInv, DaemonTypes, ServingTypes, DprTypes, HookTypes, SyncTypes, HandlersInv,
              DecisionsInv, HookInv, WorkerInv
<1> QED
  BY <1>1, <1>2

(* However evaluations, workers and the orderly stop interleave: when the  *)
(* daemon has stopped, every event the webhook sender took was tried, and  *)
(* the record queue never writes to a closed store.                        *)
THEOREM StopIsSafe == StopSpec => []StopSafe
<1>1. DaemonInv => StopTypeOK
  <2> SUFFICES ASSUME DaemonInv PROVE StopTypeOK
    OBVIOUS
  <2>1. stopStep \in {StopOrder[i] : i \in 1 .. Len(StopOrder)} \cup {"crashed"}
    BY DEF DaemonInv, DaemonTypes, Positions, StopOrder
  <2>2. decisions \in 0 .. MaxDecisions + Cardinality(Handlers)
    <3>1. IsFiniteSet(Handlers) /\ waited \subseteq Handlers /\ MaxDecisions \in Nat
      BY DaemonStopAssumption DEF DaemonInv, DaemonTypes, ServingTypes
    <3>2. /\ Cardinality(waited) <= Cardinality(Handlers)
          /\ Cardinality(waited) \in Nat /\ Cardinality(Handlers) \in Nat
      BY <3>1, FS_Subset, FS_CardinalityType
    <3> QED
      BY <3>1, <3>2 DEF DaemonInv, DaemonTypes, ServingTypes, DecisionsInv
  <2> QED
    BY <2>1, <2>2 DEF DaemonInv, DaemonTypes, ServingTypes, DprTypes, HookTypes, SyncTypes, DprType, HooksType,
                      HorizonType, HandlerType, StopTypeOK
<1>2. DaemonInv => WebhooksDrained
  <2> SUFFICES ASSUME DaemonInv, stopStep = "stopped" PROVE attempted = accepted
    BY DEF WebhooksDrained
  <2>1. hooks.ch = <<>> /\ accepted = attempted \cup Queued(hooks.ch)
    BY DEF DaemonInv, HookInv
  <2>2. Queued(hooks.ch) = {}
    BY <2>1, EmptySeq DEF Queued
  <2> QED
    BY <2>1, <2>2
<1>3. DaemonInv => QueueStopsFirst
  BY DEF DaemonInv, WorkerInv, QueueStopsFirst
<1> QED
  BY <1>1, <1>2, <1>3, DaemonBegins, DaemonStep, PTL DEF StopSpec, StopSafe

-------------------------------------------------------------------------------
(* The SDK socket *)

SdkPlaces == {"none", "backlog", "reading", "asked", "decided", "audit", "callback",
              "announce", "replying", "streaming", "ended"}
Outcomes == {"pending", "approved", "denied", "expired"}
SdkTypes ==
    /\ client \in [SdkConns -> {"none", "open", "stalled", "left"}]
    /\ handling \in [SdkConns -> [at : SdkPlaces, req : Requests \cup Outcomes \cup Streams \cup {"none"}]]
    /\ requests \in 0 .. MaxRequests /\ bucket \in 0 .. RateBurst
    /\ deferStatus \in Outcomes

(* No more connections are served than there are tokens. *)
ServingInv == IsFiniteSet(Serving) /\ Cardinality(Serving) <= SdkTokens

(* What a channel may hold, and who announces or streams what. *)
Told == {"decision"} \cup ({deferStatus} \ {"pending"})
Holds(q) == q \in Seq(Told) /\ Len(q) <= SubBuffer
ChannelInv ==
    /\ subs = [s \in Streams |-> subs[s]]
    /\ \A s \in Streams : /\ DOMAIN subs[s] \subseteq SdkConns
                          /\ subs[s] = [c \in DOMAIN subs[s] |-> subs[s][c]]
                          /\ \A c \in DOMAIN subs[s] : Holds(subs[s][c])
    /\ \A c \in SdkConns :
         /\ handling[c].at = "announce" => handling[c].req \in Told
         /\ handling[c].at = "streaming" =>
              handling[c].req \in Streams /\ c \in DOMAIN subs[handling[c].req]

SdkInv == SdkTypes /\ ServingInv /\ ChannelInv

LEMMA SdkBegins == SdkInit => SdkInv
<1> SUFFICES ASSUME SdkInit PROVE SdkInv
  OBVIOUS
<1>1. SdkTypes
  BY SdkAssumption DEF SdkInit, SdkTypes, Does, SdkPlaces, Outcomes
<1>2. Serving = {}
  BY DEF SdkInit, Serving, Does
<1>3. ServingInv
  BY <1>2, FS_EmptySet, SdkAssumption DEF ServingInv
<1>4. ChannelInv
  <2>1. \A s \in Streams : subs[s] = <<>> /\ DOMAIN subs[s] = {}
    BY DEF SdkInit
  <2>2. \A s \in Streams : subs[s] = [c \in DOMAIN subs[s] |-> subs[s][c]]
    BY <2>1
  <2> QED
    BY <2>1, <2>2 DEF SdkInit, ChannelInv, Does
<1> QED
  BY <1>1, <1>3, <1>4 DEF SdkInv

LEMMA SdkTypesStep == ASSUME SdkTypes, SdkNext PROVE SdkTypes'
<1> USE DEF SdkTypes, SdkPlaces, Outcomes, Streams, Requests, Goes, Does, peerVars, wfVars, Asked
<1>1. ASSUME NEW c \in SdkConns,
             Connect(c) \/ StopReading(c) \/ Leave(c) \/ Accept(c) \/ EndOfInput(c)
      PROVE  SdkTypes'
  BY <1>1 DEF Connect, StopReading, Leave, Accept, EndOfInput
<1>2. ASSUME NEW c \in SdkConns, SendLine(c) PROVE SdkTypes'
  BY <1>2, SdkAssumption DEF SendLine
<1>3. ASSUME NEW c \in SdkConns, Govern(c) \/ ReplyOnly(c) PROVE SdkTypes'
  BY <1>3, SdkAssumption DEF Govern, ReplyOnly, AllowAgent, RateLimited
<1>4. ASSUME NEW c \in SdkConns,
             WriteDecision(c) \/ Broadcast(c) \/ BroadcastCallback(c) \/ PollDefer(c)
             \/ Announce(c) \/ AnswerClient(c) \/ Stream(c)
      PROVE  SdkTypes'
  BY <1>4 DEF WriteDecision, Broadcast, BroadcastCallback, PollDefer, Announce, AnswerClient, Stream
<1>5. ASSUME NEW c \in SdkConns, ApproveDefer(c) PROVE SdkTypes'
  BY <1>5 DEF ApproveDefer
<1>6. ASSUME NEW c \in SdkConns, Subscribe(c) PROVE SdkTypes'
  BY <1>6 DEF Subscribe
<1>7. CASE Refill
  BY <1>7, SdkAssumption DEF Refill
<1>8. CASE ExpireDefer
  BY <1>8 DEF ExpireDefer
<1> QED
  BY <1>1, <1>2, <1>3, <1>4, <1>5, <1>6, <1>7, <1>8 DEF SdkNext, SdkHandle

LEMMA ServingStep == ASSUME SdkTypes, ServingInv, SdkNext PROVE ServingInv'
<1>0. /\ handling \in [SdkConns -> [at : SdkPlaces, req : Requests \cup Outcomes \cup Streams \cup {"none"}]]
      /\ IsFiniteSet(Serving) /\ Cardinality(Serving) \in Nat /\ Cardinality(Serving) <= SdkTokens
      /\ SdkTokens \in Nat
  BY FS_CardinalityType, SdkAssumption DEF SdkTypes, ServingInv
<1>1. ASSUME Serving' \subseteq Serving PROVE ServingInv'
  <2>1. Serving' \in SUBSET Serving
    BY <1>1
  <2>2. IsFiniteSet(Serving') /\ Cardinality(Serving') <= Cardinality(Serving)
    BY <1>0, <2>1, FS_Subset
  <2>3. Cardinality(Serving') \in Nat
    BY <2>2, FS_CardinalityType
  <2> QED
    BY <1>0, <2>2, <2>3 DEF ServingInv
<1>2. ASSUME NEW c \in SdkConns, c \in Serving, \A d \in SdkConns : d # c => handling'[d] = handling[d]
      PROVE  ServingInv'
  BY <1>1, <1>2 DEF Serving
<1>3. ASSUME UNCHANGED handling PROVE ServingInv'
  BY <1>1, <1>3 DEF Serving
<1> USE DEF Goes, Does
<1>4. ASSUME NEW c \in SdkConns, Accept(c) PROVE ServingInv'
  <2>1. CASE Cardinality(Serving) < SdkTokens
    <3>1. handling' = [handling EXCEPT ![c].at = "reading"] /\ handling[c].at = "backlog"
      BY <1>4, <2>1 DEF Accept
    <3>2. Serving' = Serving \cup {c} /\ c \notin Serving
      BY <1>0, <3>1 DEF Serving
    <3>3. IsFiniteSet(Serving') /\ Cardinality(Serving') = Cardinality(Serving) + 1
      BY <1>0, <3>2, FS_AddElement
    <3> QED
      BY <1>0, <2>1, <3>3 DEF ServingInv
  <2>2. CASE ~(Cardinality(Serving) < SdkTokens)
    <3>1. handling' = [handling EXCEPT ![c].at = "ended"]
      BY <1>4, <2>2 DEF Accept
    <3>2. Serving' \subseteq Serving
      BY <1>0, <3>1 DEF Serving
    <3> QED
      BY <1>1, <3>2
  <2> QED
    BY <2>1, <2>2
<1>5. ASSUME NEW c \in SdkConns, Connect(c) PROVE ServingInv'
  <2>1. handling' = [handling EXCEPT ![c].at = "backlog"]
    BY <1>5 DEF Connect
  <2>2. Serving' \subseteq Serving
    BY <1>0, <2>1 DEF Serving
  <2> QED
    BY <1>1, <2>2
<1>6. ASSUME NEW c \in SdkConns, StopReading(c) \/ Leave(c) \/ Stream(c) PROVE ServingInv'
  BY <1>3, <1>6 DEF StopReading, Leave, Stream
<1>7. ASSUME NEW c \in SdkConns,
             SendLine(c) \/ Govern(c) \/ WriteDecision(c) \/ Broadcast(c) \/ BroadcastCallback(c)
             \/ PollDefer(c) \/ Announce(c) \/ ReplyOnly(c) \/ AnswerClient(c) \/ EndOfInput(c)
      PROVE  ServingInv'
  <2>1. handling[c].at \notin {"none", "backlog", "ended"}
    BY <1>7 DEF SendLine, Govern, WriteDecision, Broadcast, BroadcastCallback, PollDefer,
                Announce, ReplyOnly, AnswerClient, EndOfInput, Asked
  <2>2. \E x : handling' = [handling EXCEPT ![c] = x]
    BY <1>7 DEF SendLine, Govern, WriteDecision, Broadcast, BroadcastCallback, PollDefer,
                Announce, ReplyOnly, AnswerClient, EndOfInput
  <2>3. \A d \in SdkConns : d # c => handling'[d] = handling[d]
    BY <1>0, <2>2
  <2> QED
    BY <1>2, <2>1, <2>3 DEF Serving
<1>8. ASSUME NEW c \in SdkConns, ApproveDefer(c) \/ Subscribe(c) PROVE ServingInv'
  <2>1. handling[c].at \notin {"none", "backlog", "ended"}
    BY <1>8 DEF ApproveDefer, Subscribe, Asked
  <2>2. \E x : handling' = [handling EXCEPT ![c] = x]
    BY <1>8 DEF ApproveDefer, Subscribe
  <2>3. \A d \in SdkConns : d # c => handling'[d] = handling[d]
    BY <1>0, <2>2
  <2> QED
    BY <1>2, <2>1, <2>3 DEF Serving
<1>9. ASSUME Refill \/ ExpireDefer PROVE ServingInv'
  BY <1>3, <1>9 DEF Refill, ExpireDefer
<1> QED
  BY <1>4, <1>5, <1>6, <1>7, <1>8, <1>9 DEF SdkNext, SdkHandle

(* An event offered to the channels of a stream is one they may hold. *)
LEMMA OfferKeeps ==
    ASSUME ChannelInv, NEW s \in Streams, NEW e \in Told, Offer(s, e), UNCHANGED deferStatus
    PROVE  /\ subs' = [t \in Streams |-> subs'[t]]
           /\ \A t \in Streams : /\ DOMAIN subs'[t] = DOMAIN subs[t]
                                 /\ subs'[t] = [c \in DOMAIN subs'[t] |-> subs'[t][c]]
                                 /\ \A c \in DOMAIN subs'[t] : Holds(subs[t][c])'
<1> DEFINE Q(c) == IF Len(subs[s][c]) < SubBuffer THEN Append(subs[s][c], e) ELSE subs[s][c]
           m == [c \in DOMAIN subs[s] |-> Q(c)]
<1>1. subs' = [subs EXCEPT ![s] = m]
  BY DEF Offer
<1>2. \A c \in DOMAIN subs[s] : Q(c) \in Seq(Told) /\ Len(Q(c)) <= SubBuffer
  <2> SUFFICES ASSUME NEW c \in DOMAIN subs[s]
               PROVE  Q(c) \in Seq(Told) /\ Len(Q(c)) <= SubBuffer
    OBVIOUS
  <2> DEFINE q == subs[s][c]
  <2>1. q \in Seq(Told) /\ Len(q) <= SubBuffer /\ SubBuffer \in Nat
    BY SdkAssumption DEF ChannelInv, Holds
  <2> HIDE DEF q
  <2> USE DEF Q
  <2>2. (IF Len(q) < SubBuffer THEN Append(q, e) ELSE q) \in Seq(Told)
        /\ Len(IF Len(q) < SubBuffer THEN Append(q, e) ELSE q) <= SubBuffer
    <3> HIDE DEF Told
    <3> QED BY <2>1
  <2> QED
    BY <2>2 DEF q
<1> HIDE DEF Q
<1>3. DOMAIN m = DOMAIN subs[s] /\ m = [c \in DOMAIN m |-> m[c]] /\ \A c \in DOMAIN subs[s] : m[c] = Q(c)
  OBVIOUS
<1> HIDE DEF m
<1>4. Told' = Told
  BY DEF Told
<1>5. subs'[s] = m /\ \A t \in Streams : t # s => subs'[t] = subs[t]
  BY <1>1 DEF ChannelInv
<1>6. subs' = [t \in Streams |-> subs'[t]]
  BY <1>1 DEF ChannelInv
<1>7. \A c \in DOMAIN subs'[s] : Holds(subs[s][c])'
  BY <1>2, <1>3, <1>4, <1>5 DEF Holds
<1>8. \A t \in Streams : t # s => \A c \in DOMAIN subs'[t] : Holds(subs[t][c])'
  <2>1. \A t \in Streams : \A c \in DOMAIN subs[t] : Holds(subs[t][c])
    BY DEF ChannelInv
  <2> QED
    BY <1>4, <1>5, <2>1 DEF Holds
<1>9. \A t \in Streams : subs'[t] = [c \in DOMAIN subs'[t] |-> subs'[t][c]] /\ DOMAIN subs'[t] = DOMAIN subs[t]
  BY <1>3, <1>5 DEF ChannelInv
<1> QED
  BY <1>6, <1>7, <1>8, <1>9

(* Handlers that neither announce nor stream leave what others do alone. *)
LEMMA HandlerMoves ==
    ASSUME SdkTypes, ChannelInv, NEW c \in SdkConns, NEW h,
           handling' = [handling EXCEPT ![c] = h],
           h.at \notin {"announce", "streaming"}, UNCHANGED deferStatus,
           \A s \in Streams : DOMAIN subs[s] \subseteq DOMAIN subs'[s]
    PROVE  \A d \in SdkConns :
             /\ handling'[d].at = "announce" => handling'[d].req \in Told'
             /\ handling'[d].at = "streaming" =>
                  handling'[d].req \in Streams /\ d \in DOMAIN subs'[handling'[d].req]
<1> SUFFICES ASSUME NEW d \in SdkConns
             PROVE  /\ handling'[d].at = "announce" => handling'[d].req \in Told'
                    /\ handling'[d].at = "streaming" =>
                         handling'[d].req \in Streams /\ d \in DOMAIN subs'[handling'[d].req]
  OBVIOUS
<1>1. Told' = Told
  BY DEF Told
<1>2. handling'[d] = IF d = c THEN h ELSE handling[d]
  BY DEF SdkTypes
<1>3. /\ handling[d].at = "announce" => handling[d].req \in Told
      /\ handling[d].at = "streaming" => handling[d].req \in Streams /\ d \in DOMAIN subs[handling[d].req]
  BY DEF ChannelInv
<1> QED
  BY <1>1, <1>2, <1>3

LEMMA ChannelStep == ASSUME SdkTypes, ChannelInv, SdkNext PROVE ChannelInv'
<1>0. handling \in [SdkConns -> [at : SdkPlaces, req : Requests \cup Outcomes \cup Streams \cup {"none"}]]
      /\ deferStatus \in Outcomes
  BY DEF SdkTypes
<1>1. ASSUME NEW c \in SdkConns, NEW h, handling' = [handling EXCEPT ![c] = h],
             h.at \notin {"announce", "streaming"}, UNCHANGED <<subs, deferStatus>>
      PROVE  ChannelInv'
  <2>1. \A d \in SdkConns :
          /\ handling'[d].at = "announce" => handling'[d].req \in Told'
          /\ handling'[d].at = "streaming" =>
               handling'[d].req \in Streams /\ d \in DOMAIN subs'[handling'[d].req]
    BY <1>1, HandlerMoves
  <2>2. Told' = Told
    BY <1>1 DEF Told
  <2> QED
    BY <1>1, <2>1, <2>2 DEF ChannelInv, Holds
<1>2. ASSUME NEW c \in SdkConns, NEW h, handling' = [handling EXCEPT ![c] = h],
             h.at \notin {"announce", "streaming"}, UNCHANGED deferStatus,
             NEW s \in Streams, NEW e \in Told, Offer(s, e)
      PROVE  ChannelInv'
  <2>1. /\ subs' = [t \in Streams |-> subs'[t]]
        /\ \A t \in Streams : /\ DOMAIN subs'[t] = DOMAIN subs[t]
                              /\ subs'[t] = [d \in DOMAIN subs'[t] |-> subs'[t][d]]
                              /\ \A d \in DOMAIN subs'[t] : Holds(subs[t][d])'
    BY <1>2, OfferKeeps
  <2>2. \A d \in SdkConns :
          /\ handling'[d].at = "announce" => handling'[d].req \in Told'
          /\ handling'[d].at = "streaming" =>
               handling'[d].req \in Streams /\ d \in DOMAIN subs'[handling'[d].req]
    BY <1>2, <2>1, HandlerMoves
  <2> QED
    BY <2>1, <2>2 DEF ChannelInv
<1>3. ASSUME UNCHANGED <<handling, subs, deferStatus>> PROVE ChannelInv'
  BY <1>3 DEF ChannelInv, Holds, Told
<1>4. ASSUME NEW c \in SdkConns, NEW s, UNCHANGED <<subs, deferStatus>>, Goes(c, s),
             s \notin {"announce", "streaming"}
      PROVE  ChannelInv'
  <2>1. /\ handling' = [handling EXCEPT ![c] = [handling[c] EXCEPT !.at = s]]
        /\ [handling[c] EXCEPT !.at = s].at = s
    BY <1>0, <1>4 DEF Goes
  <2> QED
    BY <1>1, <1>4, <2>1
<1>5. ASSUME NEW c \in SdkConns, NEW g, UNCHANGED deferStatus, Goes(c, g),
             g \notin {"announce", "streaming"}, NEW s \in Streams, NEW e \in Told, Offer(s, e)
      PROVE  ChannelInv'
  <2>1. /\ handling' = [handling EXCEPT ![c] = [handling[c] EXCEPT !.at = g]]
        /\ [handling[c] EXCEPT !.at = g].at = g
    BY <1>0, <1>5 DEF Goes
  <2> QED
    BY <1>2, <1>5, <2>1
<1>6. ASSUME NEW c \in SdkConns, Connect(c) \/ Accept(c) \/ EndOfInput(c) PROVE ChannelInv'
  BY <1>4, <1>6 DEF Connect, Accept, EndOfInput, wfVars
<1>7. ASSUME NEW c \in SdkConns, SendLine(c) PROVE ChannelInv'
  <2>1. PICK r \in Requests : handling' = [handling EXCEPT ![c] = Does("asked", r)]
    BY <1>7 DEF SendLine
  <2> QED
    BY <1>1, <1>7, <2>1 DEF SendLine, Does, wfVars
<1>8. ASSUME NEW c \in SdkConns, StopReading(c) \/ Leave(c) PROVE ChannelInv'
  BY <1>3, <1>8 DEF StopReading, Leave, wfVars
<1>9. ASSUME Refill PROVE ChannelInv'
  BY <1>3, <1>9 DEF Refill
<1>10. ASSUME NEW c \in SdkConns, Govern(c) \/ WriteDecision(c) \/ ReplyOnly(c) \/ AnswerClient(c)
       PROVE  ChannelInv'
  BY <1>4, <1>10 DEF Govern, WriteDecision, ReplyOnly, AnswerClient, wfVars
<1>11. ASSUME NEW c \in SdkConns, Broadcast(c) \/ BroadcastCallback(c) PROVE ChannelInv'
  <2>1. "decision" \in Told /\ "audit" \in Streams /\ "callback" \in Streams
    BY DEF Told, Streams
  <2> QED
    BY <1>5, <1>11, <2>1 DEF Broadcast, BroadcastCallback, wfVars
<1>12. ASSUME NEW c \in SdkConns, PollDefer(c) PROVE ChannelInv'
  <2>1. "callback" \in Streams /\ (deferStatus # "pending" => deferStatus \in Told)
    BY DEF Told, Streams
  <2> QED
    BY <1>4, <1>5, <1>12, <2>1 DEF PollDefer, wfVars
<1>13. ASSUME NEW c \in SdkConns, Announce(c) PROVE ChannelInv'
  <2>1. "callback" \in Streams /\ handling[c].req \in Told
    BY <1>13 DEF Announce, Streams, ChannelInv
  <2> QED
    BY <1>5, <1>13, <2>1 DEF Announce, wfVars
<1>14. ASSUME deferStatus = "pending", UNCHANGED subs,
              \A c \in SdkConns : handling'[c] = handling[c] \/ handling'[c] = Does("announce", deferStatus'),
              deferStatus' # "pending"
       PROVE  ChannelInv'
  <2>1. Told = {"decision"} /\ Told' = {"decision", deferStatus'}
    BY <1>14 DEF Told
  <2>2. \A q : Holds(q) => q \in Seq(Told') /\ Len(q) <= SubBuffer
    <3> SUFFICES ASSUME NEW q, Holds(q) PROVE q \in Seq(Told') /\ Len(q) <= SubBuffer
      OBVIOUS
    <3>1. q \in Seq(Told) /\ Len(q) <= SubBuffer /\ Told \subseteq Told'
      BY <2>1 DEF Holds
    <3>2. \A i \in 1 .. Len(q) : q[i] \in Told'
      <4> HIDE DEF Told
      <4> QED BY <3>1
    <3>3. Len(q) \in Nat /\ q = [i \in 1 .. Len(q) |-> q[i]]
      <4> HIDE DEF Told
      <4> QED BY <3>1, SeqDef
    <3> QED
      BY <3>1, <3>2, <3>3, IsASeq
  <2>3. \A s \in Streams : \A c \in DOMAIN subs'[s] : Holds(subs[s][c])'
    BY <1>14, <2>2 DEF ChannelInv, Holds
  <2>4. \A c \in SdkConns :
          /\ handling'[c].at = "announce" => handling'[c].req \in Told'
          /\ handling'[c].at = "streaming" =>
               handling'[c].req \in Streams /\ c \in DOMAIN subs'[handling'[c].req]
    <3> SUFFICES ASSUME NEW c \in SdkConns
                 PROVE  /\ handling'[c].at = "announce" => handling'[c].req \in Told'
                        /\ handling'[c].at = "streaming" =>
                             handling'[c].req \in Streams /\ c \in DOMAIN subs'[handling'[c].req]
      OBVIOUS
    <3>1. CASE handling'[c] = handling[c]
      BY <1>14, <2>1, <3>1 DEF ChannelInv
    <3>2. CASE handling'[c] = Does("announce", deferStatus')
      BY <2>1, <3>2 DEF Does
    <3> QED
      BY <1>14, <3>1, <3>2
  <2> QED
    BY <1>14, <2>3, <2>4 DEF ChannelInv
<1>15. ASSUME NEW c \in SdkConns, ApproveDefer(c) PROVE ChannelInv'
  <2>1. CASE deferStatus = "pending"
    <3>1. /\ deferStatus' \in {"approved", "denied"} /\ UNCHANGED subs
          /\ handling' = [handling EXCEPT ![c] = Does("announce", deferStatus')]
      BY <1>15, <2>1 DEF ApproveDefer
    <3> QED
      BY <1>0, <1>14, <2>1, <3>1
  <2>2. CASE deferStatus # "pending"
    BY <1>4, <1>15, <2>2 DEF ApproveDefer
  <2> QED
    BY <2>1, <2>2
<1>16. ASSUME ExpireDefer PROVE ChannelInv'
  BY <1>14, <1>16 DEF ExpireDefer
<1>17. ASSUME NEW c \in SdkConns, Subscribe(c) PROVE ChannelInv'
  <2>1. PICK s \in Streams :
          /\ subs' = [subs EXCEPT ![s] = [d \in DOMAIN subs[s] \cup {c} |-> IF d = c THEN <<>> ELSE subs[s][d]]]
          /\ handling' = [handling EXCEPT ![c] = Does("streaming", s)]
          /\ UNCHANGED deferStatus
    BY <1>17 DEF Subscribe, Streams, wfVars
  <2> DEFINE m == [d \in DOMAIN subs[s] \cup {c} |-> IF d = c THEN <<>> ELSE subs[s][d]]
  <2>2. /\ DOMAIN m = DOMAIN subs[s] \cup {c} /\ m = [d \in DOMAIN m |-> m[d]]
        /\ m[c] = <<>> /\ \A d \in DOMAIN subs[s] : d # c => m[d] = subs[s][d]
    OBVIOUS
  <2> HIDE DEF m
  <2>3. subs'[s] = m /\ (\A t \in Streams : t # s => subs'[t] = subs[t]) /\ subs' = [t \in Streams |-> subs'[t]]
    BY <2>1 DEF ChannelInv, m
  <2>4. Told' = Told /\ Holds(<<>>)
    <3>1. Told' = Told
      BY <2>1 DEF Told
    <3>2. <<>> \in Seq(Told) /\ Len(<<>>) = 0
      OBVIOUS
    <3> QED
      BY <3>1, <3>2, SdkAssumption DEF Holds
  <2>5. \A t \in Streams : \A d \in DOMAIN subs'[t] : Holds(subs'[t][d])
    BY <2>2, <2>3, <2>4 DEF ChannelInv
  <2>6. \A t \in Streams : /\ DOMAIN subs'[t] \subseteq SdkConns /\ DOMAIN subs[t] \subseteq DOMAIN subs'[t]
                          /\ subs'[t] = [d \in DOMAIN subs'[t] |-> subs'[t][d]]
    BY <2>2, <2>3 DEF ChannelInv
  <2>7. \A d \in SdkConns :
          /\ handling'[d].at = "announce" => handling'[d].req \in Told'
          /\ handling'[d].at = "streaming" =>
               handling'[d].req \in Streams /\ d \in DOMAIN subs'[handling'[d].req]
    <3> SUFFICES ASSUME NEW d \in SdkConns
                 PROVE  /\ handling'[d].at = "announce" => handling'[d].req \in Told'
                        /\ handling'[d].at = "streaming" =>
                             handling'[d].req \in Streams /\ d \in DOMAIN subs'[handling'[d].req]
      OBVIOUS
    <3>1. CASE d = c
      <4>1. handling'[d] = Does("streaming", s)
        BY <1>0, <2>1, <3>1
      <4> QED
        BY <2>2, <2>3, <3>1, <4>1 DEF Does
    <3>2. CASE d # c
      <4>1. handling'[d] = handling[d]
        BY <1>0, <2>1, <3>2
      <4> QED
        BY <2>4, <2>6, <4>1 DEF ChannelInv
    <3> QED
      BY <3>1, <3>2
  <2> QED
    BY <2>3, <2>4, <2>5, <2>6, <2>7 DEF ChannelInv, Holds
<1>18. ASSUME NEW c \in SdkConns, Stream(c) PROVE ChannelInv'
  <2> DEFINE s == handling[c].req
             q == subs[s][c]
  <2>1. /\ s \in Streams /\ c \in DOMAIN subs[s] /\ q # <<>> /\ Holds(q)
        /\ subs' = [subs EXCEPT ![s][c] = Tail(q)]
        /\ UNCHANGED <<handling, deferStatus>>
    BY <1>18 DEF Stream, ChannelInv, wfVars
  <2>2. Holds(Tail(q)) /\ Told' = Told
    <3>1. q \in Seq(Told) /\ Len(q) <= SubBuffer /\ q # <<>> /\ SubBuffer \in Nat
      BY <2>1, SdkAssumption DEF Holds
    <3> HIDE DEF q
    <3>2. Tail(q) \in Seq(Told) /\ Len(Tail(q)) <= SubBuffer
      <4> HIDE DEF Told
      <4> QED BY <3>1
    <3> QED
      BY <2>1, <3>2 DEF Holds, Told
  <2>3. /\ DOMAIN subs'[s] = DOMAIN subs[s] /\ subs'[s] = [d \in DOMAIN subs'[s] |-> subs'[s][d]]
        /\ subs'[s][c] = Tail(q) /\ \A d \in DOMAIN subs[s] : d # c => subs'[s][d] = subs[s][d]
    BY <2>1 DEF ChannelInv
  <2>4. /\ subs' = [t \in Streams |-> subs'[t]]
        /\ \A t \in Streams : t # s => subs'[t] = subs[t]
    BY <2>1 DEF ChannelInv
  <2> HIDE DEF q
  <2>5. \A t \in Streams : /\ DOMAIN subs'[t] = DOMAIN subs[t]
                          /\ subs'[t] = [d \in DOMAIN subs'[t] |-> subs'[t][d]]
                          /\ \A d \in DOMAIN subs'[t] : Holds(subs'[t][d])
    BY <2>2, <2>3, <2>4 DEF ChannelInv
  <2> HIDE DEF s
  <2> QED
    BY <2>1, <2>2, <2>4, <2>5 DEF ChannelInv, Holds
<1> QED
  BY <1>6, <1>7, <1>8, <1>9, <1>10, <1>11, <1>12, <1>13, <1>15, <1>16, <1>17, <1>18 DEF SdkNext, SdkHandle

LEMMA SdkStep == SdkInv /\ [SdkNext]_sdkVars => SdkInv'
<1>1. ASSUME SdkInv, UNCHANGED sdkVars PROVE SdkInv'
  BY <1>1 DEF SdkInv, sdkVars, SdkTypes, ServingInv, Serving, ChannelInv, Holds, Told
<1> QED
  BY <1>1, SdkTypesStep, ServingStep, ChannelStep DEF SdkInv

LEMMA SdkInvIsSafe == SdkInv => SdkSafe
<1> SUFFICES ASSUME SdkInv PROVE SdkSafe
  OBVIOUS
<1>1. \A s \in Streams : /\ DOMAIN subs[s] \subseteq SdkConns
                        /\ \A c \in DOMAIN subs[s] : Holds(subs[s][c])
  BY DEF SdkInv, ChannelInv
<1>2. SdkTypeOK
  BY <1>1 DEF SdkInv, SdkTypes, ServingInv, SdkTypeOK, Holds
<1>3. AnnouncementsAgree
  <2> SUFFICES ASSUME NEW c \in DOMAIN subs["callback"], NEW i \in 1 .. Len(subs["callback"][c])
               PROVE  subs["callback"][c][i] \in {"decision", deferStatus}
    BY DEF AnnouncementsAgree
  <2>1. subs["callback"][c] \in Seq(Told)
    BY <1>1 DEF Streams, Holds
  <2>2. subs["callback"][c][i] \in Told
    <3> HIDE DEF Told
    <3> QED BY <2>1
  <2> QED
    BY <2>2 DEF Told
<1> QED
  BY <1>2, <1>3 DEF SdkSafe

(* No more connections are served than the socket has tokens for, and what *)
(* a subscriber is told of a deferred call is what became of it.           *)
THEOREM SubscribersAreToldTheOutcome == SdkSpec => []SdkSafe
BY SdkBegins, SdkStep, SdkInvIsSafe, PTL DEF SdkSpec

-------------------------------------------------------------------------------
(* The callback manager *)

Entries == CallbackIDs \cup {"free"}
Jobs == [id : Entries \cup {"url"}, fire : Nat]
Loops == [at : {"rest", "loop", "fired"}, arr : Nat, len : Nat, i : Nat \ {0}, fire : Nat,
          due : SUBSET Entries, given : Seq(Entries), full : BOOLEAN, crossed : BOOLEAN]
CbTypes ==
    /\ arrays \in Seq(Seq(Entries)) /\ Len(arrays) > 0
    /\ slice \in [arr : Nat, len : Nat] /\ slice.arr = Len(arrays) /\ slice.len <= Len(arrays[slice.arr])
    /\ firing \in [Firers -> Loops]
    /\ fnJobs \in Seq(Jobs) /\ Len(fnJobs) <= CbQueue
    /\ httpJobs \in Seq(Jobs) /\ Len(httpJobs) <= CbQueue
    /\ manager \in {"started", "stopped", "panicked"} /\ fires \in Nat

(* The first n entries of an array are registrations of different ids. *)
OnceEach(a, n) == \A i, j \in 1 .. n : a[i] = a[j] => i = j

(* A loop stays within its array.  Unless a removal moved them, the entries *)
(* it runs over are those that were registered, no later registration is   *)
(* written over them, and the events given so far went to them in turn.    *)
Within(s) ==
    /\ s.arr \in 1 .. Len(arrays) /\ s.len <= Len(arrays[s.arr]) /\ s.i <= s.len + 1
    /\ s.at = "fired" => s.i = s.len + 1
Undisturbed(s) ==
    /\ s.arr = slice.arr => s.len <= slice.len
    /\ OnceEach(arrays[s.arr], s.len)
    /\ s.due = {arrays[s.arr][k] : k \in 1 .. s.len}
    /\ ~s.full => Len(s.given) = s.i - 1 /\ \A k \in 1 .. s.i - 1 : s.given[k] = arrays[s.arr][k]

LoopsInv == \A f \in Firers : Within(firing[f]) /\ (~firing[f].crossed => Undisturbed(firing[f]))

CbInv == CbTypes /\ OnceEach(arrays[slice.arr], slice.len) /\ LoopsInv

LEMMA CbBegins == CbInit => CbInv
<1> SUFFICES ASSUME CbInit PROVE CbInv
  OBVIOUS
<1>1. arrays = <<<<>>>> /\ slice = [arr |-> 1, len |-> 0] /\ firing = [f \in Firers |-> AtRest]
  BY DEF CbInit
<1>2. <<>> \in Seq(Entries) /\ <<>> \in Seq(Jobs)
  OBVIOUS
<1>3. arrays \in Seq(Seq(Entries)) /\ Len(arrays) = 1 /\ arrays[1] = <<>> /\ Len(arrays[1]) = 0
  BY <1>1, <1>2
<1>4. AtRest \in Loops
  BY <1>2 DEF AtRest, Loops
<1>5. CbTypes
  BY <1>1, <1>2, <1>3, <1>4, CallbacksAssumption DEF CbTypes, CbInit
<1>6. OnceEach(arrays[slice.arr], slice.len)
  BY <1>1 DEF OnceEach
<1>7. Within(AtRest) /\ Undisturbed(AtRest)
  BY <1>1, <1>3 DEF Within, Undisturbed, OnceEach, AtRest
<1> QED
  BY <1>1, <1>5, <1>6, <1>7 DEF CbInv, LoopsInv

(* Writing behind what a loop runs over leaves the loop undisturbed. *)
LEMMA LoopsKept ==
    ASSUME CbTypes, LoopsInv, UNCHANGED firing, Len(arrays') \in Nat, Len(arrays') >= Len(arrays),
           \A a \in 1 .. Len(arrays) : Len(arrays'[a]) = Len(arrays[a]),
           \A a \in 1 .. Len(arrays) : \A k \in 1 .. Len(arrays[a]) :
              a # slice.arr \/ k <= slice.len => arrays'[a][k] = arrays[a][k],
           \/ slice'.arr = slice.arr /\ slice'.len \in Nat /\ slice'.len >= slice.len
           \/ slice'.arr \in Nat /\ slice'.arr > Len(arrays)
    PROVE  LoopsInv'
<1> SUFFICES ASSUME NEW f \in Firers
             PROVE  Within(firing[f])' /\ (~firing[f].crossed => Undisturbed(firing[f])')
  BY DEF LoopsInv
<1> DEFINE s == firing[f]
<1>1. s \in Loops /\ s' = s /\ Within(s) /\ (~s.crossed => Undisturbed(s))
  BY DEF CbTypes, LoopsInv
<1> HIDE DEF s
<1>2. /\ s.arr \in 1 .. Len(arrays) /\ s.len \in Nat /\ s.i \in Nat /\ Len(arrays) \in Nat
      /\ slice.arr \in Nat /\ slice.len \in Nat /\ slice.arr = Len(arrays)
  BY <1>1 DEF Within, Loops, CbTypes
<1>3. Len(arrays'[s.arr]) = Len(arrays[s.arr]) /\ Len(arrays[s.arr]) \in Nat
  BY <1>2 DEF CbTypes
<1>4. Within(s)'
  BY <1>1, <1>2, <1>3 DEF Within
<1>5. ASSUME ~s.crossed PROVE Undisturbed(s)'
  <2>1. \A k \in 1 .. s.len : arrays'[s.arr][k] = arrays[s.arr][k]
    <3> SUFFICES ASSUME NEW k \in 1 .. s.len
                 PROVE  arrays'[s.arr][k] = arrays[s.arr][k]
      OBVIOUS
    <3>1. k \in 1 .. Len(arrays[s.arr])
      BY <1>1, <1>2, <1>3 DEF Within
    <3>2. s.arr # slice.arr \/ k <= slice.len
      BY <1>1, <1>2, <1>5 DEF Undisturbed
    <3> QED
      BY <1>2, <3>1, <3>2
  <2>2. s.arr = slice'.arr => s.len <= slice'.len
    BY <1>1, <1>2, <1>5 DEF Undisturbed
  <2>3. OnceEach(arrays'[s.arr], s.len)
    BY <1>1, <1>5, <2>1 DEF Undisturbed, OnceEach
  <2>4. s.due = {arrays'[s.arr][k] : k \in 1 .. s.len}
    <3>1. {arrays'[s.arr][k] : k \in 1 .. s.len} = {arrays[s.arr][k] : k \in 1 .. s.len}
      BY <2>1
    <3> QED
      BY <1>1, <1>5, <3>1 DEF Undisturbed
  <2>5. ~s.full => Len(s.given) = s.i - 1 /\ \A k \in 1 .. s.i - 1 : s.given[k] = arrays'[s.arr][k]
    BY <1>1, <1>2, <1>5, <2>1 DEF Undisturbed, Within
  <2> QED
    BY <1>1, <2>2, <2>3, <2>4, <2>5 DEF Undisturbed
<1> QED
  BY <1>1, <1>4, <1>5 DEF s

LEMMA RegisterStep == ASSUME CbInv, NEW id \in CallbackIDs, RegisterCallback(id) PROVE CbInv'
<1> DEFINE a == arrays[slice.arr]
           n == slice.len + 1
<1>0. /\ arrays \in Seq(Seq(Entries)) /\ slice.arr \in 1 .. Len(arrays) /\ slice.arr = Len(arrays)
      /\ slice.len \in Nat /\ a \in Seq(Entries) /\ Len(a) \in Nat /\ slice.len <= Len(a)
      /\ Len(arrays) \in Nat /\ id \in Entries /\ "free" \in Entries /\ slice \in [arr : Nat, len : Nat]
  BY DEF CbInv, CbTypes, Entries
<1>1. OnceEach(a, slice.len) /\ \A i \in 1 .. slice.len : a[i] # id
  BY DEF CbInv, RegisterCallback, Registered
<1>2. CbTypes /\ LoopsInv /\ UNCHANGED <<firing, fnJobs, httpJobs, manager, fires>>
  BY DEF CbInv, RegisterCallback, jobVars
<1>3. CASE n <= Len(a)
  <2> DEFINE b == [a EXCEPT ![n] = id]
  <2>1. arrays' = [arrays EXCEPT ![slice.arr] = b] /\ slice' = [slice EXCEPT !.len = n]
    BY <1>3 DEF RegisterCallback
  <2>2. b \in Seq(Entries) /\ Len(b) = Len(a) /\ b[n] = id /\ \A i \in 1 .. Len(a) : i # n => b[i] = a[i]
    <3> HIDE DEF a
    <3> QED BY <1>0, <1>3
  <2> HIDE DEF b
  <2>3. /\ arrays' \in Seq(Seq(Entries)) /\ Len(arrays') = Len(arrays) /\ arrays'[slice.arr] = b
        /\ \A x \in 1 .. Len(arrays) : x # slice.arr => arrays'[x] = arrays[x]
    BY <1>0, <2>1, <2>2
  <2> HIDE DEF a
  <2>4. slice'.arr = slice.arr /\ slice'.len = n /\ slice' \in [arr : Nat, len : Nat]
    <3>1. n \in Nat /\ slice \in [arr : Nat, len : Nat]
      BY <1>0
    <3> HIDE DEF n
    <3> QED BY <2>1, <3>1
  <2>5. OnceEach(b, n)
    <3>1. \A i \in 1 .. n : i # n => i \in 1 .. slice.len /\ i \in 1 .. Len(a)
      BY <1>0, <1>3
    <3>2. \A i \in 1 .. n : i # n => b[i] = a[i] /\ b[i] # id
      BY <1>1, <2>2, <3>1
    <3> HIDE DEF n
    <3> QED
      BY <1>1, <2>2, <3>1, <3>2 DEF OnceEach
  <2>6. CbTypes'
    BY <1>0, <1>2, <1>3, <2>2, <2>3, <2>4 DEF CbTypes
  <2>7. LoopsInv'
    <3>1. \A x \in 1 .. Len(arrays) : Len(arrays'[x]) = Len(arrays[x])
      BY <1>0, <2>2, <2>3 DEF a
    <3>2. \A x \in 1 .. Len(arrays) : \A k \in 1 .. Len(arrays[x]) :
             x # slice.arr \/ k <= slice.len => arrays'[x][k] = arrays[x][k]
      BY <1>0, <2>2, <2>3 DEF a
    <3>3. slice'.len \in Nat /\ slice'.len >= slice.len
      BY <1>0, <2>4
    <3> HIDE DEF n
    <3> QED
      BY <1>0, <1>2, <2>3, <2>4, <3>1, <3>2, <3>3, LoopsKept
  <2> QED
    BY <2>3, <2>4, <2>5, <2>6, <2>7 DEF CbInv
<1>4. CASE ~(n <= Len(a))
  <2> DEFINE m == IF n = 1 THEN 1 ELSE 2 * Len(a)
             b == [i \in 1 .. m |-> IF i < n THEN a[i] ELSE IF i = n THEN id ELSE "free"]
  <2>1. arrays' = Append(arrays, b) /\ slice' = [arr |-> Len(arrays) + 1, len |-> n]
    BY <1>4 DEF RegisterCallback
  <2>2. m \in Nat /\ n <= m
    <3> HIDE DEF a
    <3> QED BY <1>0, <1>4
  <2> HIDE DEF m
  <2>3. /\ b \in Seq(Entries) /\ Len(b) = m /\ b[n] = id /\ \A i \in 1 .. slice.len : b[i] = a[i]
    <3> HIDE DEF a
    <3>1. \A i \in 1 .. m : b[i] \in Entries
      BY <1>0, <1>4
    <3>2. b \in Seq(Entries)
      BY <2>2, <3>1, IsASeq
    <3> QED
      BY <1>0, <2>2, <3>2
  <2> HIDE DEF b
  <2>4. /\ arrays' \in Seq(Seq(Entries)) /\ Len(arrays') = Len(arrays) + 1 /\ arrays'[Len(arrays) + 1] = b
        /\ \A x \in 1 .. Len(arrays) : arrays'[x] = arrays[x]
    BY <1>0, <2>1, <2>3
  <2>5. slice'.arr = Len(arrays) + 1 /\ slice'.len = n /\ slice' \in [arr : Nat, len : Nat]
    BY <1>0, <2>1
  <2> HIDE DEF a
  <2>6. OnceEach(b, n)
    <3>1. \A i \in 1 .. n : i # n => i \in 1 .. slice.len
      BY <1>0
    <3>2. \A i \in 1 .. n : i # n => b[i] = a[i] /\ b[i] # id
      BY <1>1, <2>3, <3>1
    <3> HIDE DEF n
    <3> QED
      BY <1>1, <2>3, <3>1, <3>2 DEF OnceEach
  <2>7. CbTypes'
    BY <1>0, <1>2, <2>2, <2>3, <2>4, <2>5 DEF CbTypes
  <2>8. LoopsInv'
    BY <1>0, <1>2, <2>4, <2>5, LoopsKept
  <2> QED
    BY <2>4, <2>5, <2>6, <2>7, <2>8 DEF CbInv
<1> QED
  BY <1>3, <1>4

LEMMA UnregisterStep == ASSUME CbInv, NEW id \in CallbackIDs, Unregister(id) PROVE CbInv'
<1> DEFINE a == arrays[slice.arr]
           n == slice.len
<1>0. /\ arrays \in Seq(Seq(Entries)) /\ slice.arr \in 1 .. Len(arrays) /\ slice.arr = Len(arrays)
      /\ n \in Nat /\ a \in Seq(Entries) /\ Len(a) \in Nat /\ n <= Len(a)
      /\ Len(arrays) \in Nat /\ slice \in [arr : Nat, len : Nat] /\ OnceEach(a, n)
  BY DEF CbInv, CbTypes
<1>1. PICK k \in 1 .. n :
        /\ arrays' = [arrays EXCEPT ![slice.arr] =
                        [i \in 1 .. Len(a) |-> IF k <= i /\ i < n THEN a[i + 1] ELSE a[i]]]
        /\ slice' = [slice EXCEPT !.len = n - 1]
        /\ firing' = [f \in Firers |-> [firing[f] EXCEPT !.crossed = TRUE]]
        /\ UNCHANGED <<fnJobs, httpJobs, manager, fires>>
  BY DEF Unregister, jobVars
<1> DEFINE b == [i \in 1 .. Len(a) |-> IF k <= i /\ i < n THEN a[i + 1] ELSE a[i]]
<1>2. /\ b \in Seq(Entries) /\ Len(b) = Len(a)
      /\ \A i \in 1 .. n - 1 : b[i] = IF k <= i THEN a[i + 1] ELSE a[i]
  <2> HIDE DEF a
  <2>1. \A i \in 1 .. Len(a) : b[i] \in Entries
    BY <1>0
  <2>2. b \in Seq(Entries)
    BY <1>0, <2>1, IsASeq
  <2> QED
    BY <1>0, <2>2
<1>3. arrays' = [arrays EXCEPT ![slice.arr] = b]
  BY <1>1
<1> HIDE DEF b
<1>4. /\ arrays' \in Seq(Seq(Entries)) /\ Len(arrays') = Len(arrays) /\ arrays'[slice.arr] = b
      /\ \A x \in 1 .. Len(arrays) : x # slice.arr => arrays'[x] = arrays[x]
  BY <1>0, <1>2, <1>3
<1>5. slice'.arr = slice.arr /\ slice'.len = n - 1 /\ slice' \in [arr : Nat, len : Nat] /\ n - 1 \in Nat
  BY <1>0, <1>1
<1>6. OnceEach(b, n - 1)
  <2> SUFFICES ASSUME NEW i \in 1 .. n - 1, NEW j \in 1 .. n - 1, b[i] = b[j]
               PROVE  i = j
    BY DEF OnceEach
  <2> DEFINE Source(x) == IF k <= x THEN x + 1 ELSE x
  <2>1. Source(i) \in 1 .. n /\ Source(j) \in 1 .. n /\ (Source(i) = Source(j) => i = j)
    BY <1>0
  <2>2. a[Source(i)] = a[Source(j)]
    BY <1>2
  <2> HIDE DEF Source, a, n
  <2> QED
    BY <1>0, <2>1, <2>2 DEF OnceEach
<1>7. \A f \in Firers : /\ firing[f] \in Loops /\ firing'[f] \in Loops /\ firing'[f].crossed
                        /\ firing'[f].arr = firing[f].arr /\ firing'[f].len = firing[f].len
                        /\ firing'[f].i = firing[f].i /\ firing'[f].at = firing[f].at
  BY <1>1 DEF CbInv, CbTypes, Loops
<1>8. firing' \in [Firers -> Loops]
  BY <1>1, <1>7
<1>9. CbTypes'
  BY <1>0, <1>1, <1>2, <1>4, <1>5, <1>8 DEF CbInv, CbTypes
<1>10. LoopsInv'
  <2> SUFFICES ASSUME NEW f \in Firers PROVE Within(firing[f])'
    BY <1>7 DEF LoopsInv
  <2>1. Within(firing[f])
    BY DEF CbInv, LoopsInv
  <2>2. Len(arrays'[firing[f].arr]) = Len(arrays[firing[f].arr])
    BY <1>2, <1>4, <2>1 DEF Within
  <2> QED
    BY <1>4, <1>7, <2>1, <2>2 DEF Within
<1> QED
  BY <1>4, <1>5, <1>6, <1>9, <1>10 DEF CbInv

(* One loop moves, the others and the list stay as they are.               *)
LEMMA OneLoop ==
    ASSUME CbInv, NEW f \in Firers, NEW s \in Loops, firing' = [firing EXCEPT ![f] = s],
           UNCHANGED <<arrays, slice, httpJobs, manager>>,
           fnJobs' \in Seq(Jobs), Len(fnJobs') <= CbQueue, fires' \in Nat,
           Within(s), ~s.crossed => Undisturbed(s)
    PROVE  CbInv'
<1>1. firing' \in [Firers -> Loops] /\ \A g \in Firers : firing'[g] = IF g = f THEN s ELSE firing[g]
  BY DEF CbInv, CbTypes
<1>2. CbTypes'
  BY <1>1 DEF CbInv, CbTypes
<1>3. LoopsInv'
  <2> SUFFICES ASSUME NEW g \in Firers
               PROVE  Within(firing[g])' /\ (~firing'[g].crossed => Undisturbed(firing[g])')
    BY DEF LoopsInv
  <2>1. Within(firing'[g]) /\ (~firing'[g].crossed => Undisturbed(firing'[g]))
    BY <1>1 DEF CbInv, LoopsInv
  <2> QED
    BY <2>1 DEF Within, Undisturbed
<1> QED
  BY <1>2, <1>3 DEF CbInv

LEMMA FireStep == ASSUME CbInv, NEW f \in Firers, Fire(f) PROVE CbInv'
<1> DEFINE s == [AtRest EXCEPT !.at = "loop", !.arr = slice.arr, !.len = slice.len,
                               !.fire = fires + 1, !.due = Registered]
<1>1. /\ firing' = [firing EXCEPT ![f] = s] /\ fires' = fires + 1
      /\ UNCHANGED <<arrays, slice, fnJobs, httpJobs, manager>>
  BY DEF Fire, jobVars
<1>2. /\ arrays \in Seq(Seq(Entries)) /\ slice.arr \in 1 .. Len(arrays) /\ slice.len \in Nat /\ fires \in Nat
      /\ slice.arr \in Nat /\ slice.len <= Len(arrays[slice.arr]) /\ Len(arrays[slice.arr]) \in Nat
      /\ arrays[slice.arr] \in Seq(Entries) /\ OnceEach(arrays[slice.arr], slice.len)
  BY DEF CbInv, CbTypes
<1>3. Registered \in SUBSET Entries
  <2>1. \A k \in 1 .. slice.len : arrays[slice.arr][k] \in Entries
    BY <1>2
  <2> QED
    BY <2>1 DEF Registered
<1>4. <<>> \in Seq(Entries) /\ Len(<<>>) = 0
  OBVIOUS
<1>5. /\ s.at = "loop" /\ s.arr = slice.arr /\ s.len = slice.len /\ s.i = 1 /\ s.due = Registered
      /\ s.given = <<>> /\ s \in Loops
  <2> DEFINE r == AtRest
             R == Registered
             n == fires + 1
  <2>1. r \in Loops /\ r.i = 1 /\ r.given = <<>>
    BY <1>4 DEF AtRest, Loops
  <2>2. R \in SUBSET Entries /\ n \in Nat
    BY <1>2, <1>3
  <2>3. s = [r EXCEPT !.at = "loop", !.arr = slice.arr, !.len = slice.len, !.fire = n, !.due = R]
    OBVIOUS
  <2> HIDE DEF s, r, R, n
  <2>4. /\ s.at = "loop" /\ s.arr = slice.arr /\ s.len = slice.len /\ s.i = 1 /\ s.due = R
        /\ s.given = <<>> /\ s \in Loops
    BY <1>2, <2>1, <2>2, <2>3 DEF Loops
  <2> QED
    BY <2>4 DEF R
<1> HIDE DEF s
<1>6. Within(s)
  BY <1>2, <1>5 DEF Within
<1>7. Undisturbed(s)
  BY <1>2, <1>4, <1>5 DEF Undisturbed, Registered
<1>8. fnJobs' \in Seq(Jobs) /\ Len(fnJobs') <= CbQueue /\ fires' \in Nat
  BY <1>1, <1>2 DEF CbInv, CbTypes
<1> QED
  BY <1>1, <1>5, <1>6, <1>7, <1>8, OneLoop

LEMMA FireNextStep == ASSUME CbInv, NEW f \in Firers, FireNext(f) PROVE CbInv'
<1> DEFINE s == firing[f]
           e == arrays[s.arr][s.i]
<1>0. /\ s \in Loops /\ s.at = "loop" /\ s.i <= s.len /\ Within(s) /\ (~s.crossed => Undisturbed(s))
      /\ arrays \in Seq(Seq(Entries)) /\ fnJobs \in Seq(Jobs) /\ Len(fnJobs) <= CbQueue
      /\ fires \in Nat /\ CbQueue \in Nat
      /\ UNCHANGED <<arrays, slice, httpJobs, fires>>
  BY CallbacksAssumption DEF CbInv, CbTypes, LoopsInv, FireNext, LastIndex
<1>1. CASE Panics /\ UNCHANGED <<fnJobs, firing>>
  BY <1>0, <1>1 DEF Panics, CbInv, CbTypes, LoopsInv, Within, Undisturbed
<1>2. /\ s.i \in Nat /\ s.i + 1 \in Nat \ {0} /\ s.len \in Nat /\ s.given \in Seq(Entries) /\ s.fire \in Nat
      /\ s.arr \in 1 .. Len(arrays) /\ arrays[s.arr] \in Seq(Entries)
  <2> HIDE DEF s, e
  <2>1. s.i \in Nat /\ s.len \in Nat /\ s.given \in Seq(Entries) /\ s.fire \in Nat
    BY <1>0 DEF Loops
  <2>2. s.arr \in 1 .. Len(arrays)
    BY <1>0 DEF Within
  <2>3. arrays[s.arr] \in Seq(Entries)
    BY <1>0, <2>2
  <2>. QED BY <2>1, <2>2, <2>3
<1>3. e \in Entries
  <2> HIDE DEF s
  <2>1. s.i \in Nat /\ s.i # 0 /\ s.len \in Nat
    BY <1>0 DEF Loops
  <2>2. s.len <= Len(arrays[s.arr]) /\ Len(arrays[s.arr]) \in Nat
    BY <1>0, <1>2 DEF Within
  <2>3. s.i \in 1 .. Len(arrays[s.arr])
    BY <1>0, <2>1, <2>2
  <2> QED
    BY <1>2, <2>3
<1>4. ASSUME NEW g \in Seq(Entries), NEW b \in BOOLEAN, NEW t, t = [s EXCEPT !.i = s.i + 1, !.given = g, !.full = b],
             ~b => ~s.full /\ Len(g) = Len(s.given) + 1 /\ g[Len(s.given) + 1] = e
                   /\ \A k \in 1 .. Len(s.given) : g[k] = s.given[k]
      PROVE  t \in Loops /\ Within(t) /\ (~t.crossed => Undisturbed(t))
  <2> HIDE DEF s, e
  <2>1. /\ t \in Loops /\ t.at = s.at /\ t.arr = s.arr /\ t.len = s.len /\ t.i = s.i + 1 /\ t.due = s.due
        /\ t.given = g /\ t.full = b /\ t.crossed = s.crossed
    BY <1>0, <1>2, <1>4 DEF Loops
  <2>2. Within(t)
    BY <1>0, <1>2, <2>1 DEF Within
  <2>3. ASSUME ~t.crossed PROVE Undisturbed(t)
    <3>1. Undisturbed(s)
      BY <1>0, <2>1, <2>3
    <3>2. ASSUME ~b PROVE Len(g) = t.i - 1 /\ \A k \in 1 .. t.i - 1 : g[k] = arrays[t.arr][k]
      <4>1. Len(s.given) = s.i - 1 /\ \A k \in 1 .. s.i - 1 : s.given[k] = arrays[s.arr][k]
        BY <1>4, <3>1, <3>2 DEF Undisturbed
      <4>2. Len(g) = s.i /\ g[s.i] = e /\ \A k \in 1 .. s.i - 1 : g[k] = arrays[s.arr][k]
        BY <1>2, <1>4, <3>2, <4>1
      <4> QED
        BY <1>2, <2>1, <4>2 DEF e
    <3> QED
      BY <2>1, <3>1, <3>2 DEF Undisturbed
  <2> QED
    BY <2>1, <2>2, <2>3
<1>5. CASE /\ manager = "started" /\ Len(fnJobs) < CbQueue
           /\ fnJobs' = Append(fnJobs, [id |-> e, fire |-> s.fire])
           /\ firing' = [firing EXCEPT ![f].i = @ + 1, ![f].given = Append(@, e)]
           /\ UNCHANGED manager
  <2> DEFINE g == Append(s.given, e)
             t == [s EXCEPT !.i = s.i + 1, !.given = g, !.full = s.full]
  <2>1. firing' = [firing EXCEPT ![f] = t]
    <3>1. [s EXCEPT !.i = s.i + 1, !.given = g] = t
      BY <1>0 DEF Loops
    <3> QED
      BY <1>5, <3>1 DEF CbInv, CbTypes
  <2>2. /\ g \in Seq(Entries) /\ Len(g) = Len(s.given) + 1 /\ g[Len(s.given) + 1] = e
        /\ \A k \in 1 .. Len(s.given) : g[k] = s.given[k]
    <3> HIDE DEF e
    <3> QED BY <1>2, <1>3, AppendProperties
  <2>3. s.full \in BOOLEAN
    BY <1>0 DEF Loops
  <2> HIDE DEF g
  <2>4. t \in Loops /\ Within(t) /\ (~t.crossed => Undisturbed(t))
    BY <1>4, <2>2, <2>3
  <2> HIDE DEF t
  <2>5. fnJobs' \in Seq(Jobs) /\ Len(fnJobs') <= CbQueue
    <3>1. [id |-> e, fire |-> s.fire] \in Jobs
      BY <1>2, <1>3 DEF Jobs
    <3>2. fnJobs' \in Seq(Jobs) /\ Len(fnJobs') = Len(fnJobs) + 1 /\ Len(fnJobs) \in Nat
      BY <1>0, <1>5, <3>1, AppendProperties
    <3> QED
      BY <1>0, <1>5, <3>2
  <2> QED
    BY <1>0, <1>5, <2>1, <2>4, <2>5, OneLoop
<1>6. CASE /\ manager = "started" /\ Len(fnJobs) >= CbQueue
           /\ firing' = [firing EXCEPT ![f].i = @ + 1, ![f].full = TRUE]
           /\ UNCHANGED <<fnJobs, manager>>
  <2> DEFINE t == [s EXCEPT !.i = s.i + 1, !.given = s.given, !.full = TRUE]
  <2>1. firing' = [firing EXCEPT ![f] = t]
    <3>1. [s EXCEPT !.i = s.i + 1, !.full = TRUE] = t
      BY <1>0 DEF Loops
    <3> QED
      BY <1>6, <3>1 DEF CbInv, CbTypes
  <2>2. t \in Loops /\ Within(t) /\ (~t.crossed => Undisturbed(t))
    BY <1>2, <1>4
  <2> HIDE DEF t
  <2> QED
    BY <1>0, <1>6, <2>1, <2>2, OneLoop
<1> QED
  BY <1>1, <1>5, <1>6 DEF FireNext

LEMMA FireHttpStep == ASSUME CbInv, NEW f \in Firers, FireHttp(f) PROVE CbInv'
<1> DEFINE s == firing[f]
<1>0. /\ s \in Loops /\ s.at = "loop" /\ s.i > s.len /\ Within(s) /\ (~s.crossed => Undisturbed(s))
      /\ httpJobs \in Seq(Jobs) /\ Len(httpJobs) <= CbQueue /\ CbQueue \in Nat
      /\ UNCHANGED <<arrays, slice, fnJobs, fires>>
  BY CallbacksAssumption DEF CbInv, CbTypes, LoopsInv, FireHttp, LastIndex
<1>1. CASE Panics /\ UNCHANGED <<httpJobs, firing>>
  BY <1>0, <1>1 DEF Panics, CbInv, CbTypes, LoopsInv, Within, Undisturbed
<1>2. CASE /\ manager = "started"
           /\ httpJobs' = IF Len(httpJobs) < CbQueue THEN Append(httpJobs, [id |-> "url", fire |-> s.fire]) ELSE httpJobs
           /\ firing' = [firing EXCEPT ![f].at = "fired"]
           /\ UNCHANGED manager
  <2> DEFINE t == [s EXCEPT !.at = "fired"]
  <2>1. firing' = [firing EXCEPT ![f] = t]
    BY <1>2
  <2>2. /\ t \in Loops /\ t.at = "fired" /\ t.arr = s.arr /\ t.len = s.len /\ t.i = s.i /\ t.due = s.due
        /\ t.given = s.given /\ t.full = s.full /\ t.crossed = s.crossed /\ s.i \in Nat /\ s.len \in Nat
    BY <1>0 DEF Loops
  <2>3. httpJobs' \in Seq(Jobs) /\ Len(httpJobs') <= CbQueue
    <3>1. [id |-> "url", fire |-> s.fire] \in Jobs
      BY <1>0 DEF Jobs, Loops
    <3> DEFINE q == Append(httpJobs, [id |-> "url", fire |-> s.fire])
    <3>2. q \in Seq(Jobs) /\ Len(q) = Len(httpJobs) + 1 /\ Len(httpJobs) \in Nat
      BY <1>0, <3>1, AppendProperties
    <3> HIDE DEF q
    <3>3. httpJobs' = IF Len(httpJobs) < CbQueue THEN q ELSE httpJobs
      BY <1>2 DEF q
    <3> QED
      BY <1>0, <3>2, <3>3
  <2> HIDE DEF t, s
  <2>4. Within(t) /\ (~t.crossed => Undisturbed(t))
    BY <1>0, <2>2 DEF Within, Undisturbed
  <2>5. firing' \in [Firers -> Loops] /\ \A g \in Firers : firing'[g] = IF g = f THEN t ELSE firing[g]
    BY <2>1, <2>2 DEF CbInv, CbTypes
  <2>6. CbTypes'
    BY <1>0, <1>2, <2>3, <2>5 DEF CbInv, CbTypes
  <2>7. LoopsInv'
    <3> SUFFICES ASSUME NEW g \in Firers
                 PROVE  Within(firing[g])' /\ (~firing'[g].crossed => Undisturbed(firing[g])')
      BY DEF LoopsInv
    <3>1. Within(firing'[g]) /\ (~firing'[g].crossed => Undisturbed(firing'[g]))
      BY <2>4, <2>5 DEF CbInv, LoopsInv
    <3> QED
      BY <1>0, <3>1 DEF Within, Undisturbed
  <2> QED
    BY <1>0, <2>6, <2>7 DEF CbInv
<1> QED
  BY <1>1, <1>2 DEF FireHttp

LEMMA EndFireStep == ASSUME CbInv, NEW f \in Firers, EndFire(f) PROVE CbInv'
<1>1. AtRest \in Loops
  BY DEF AtRest, Loops
<1>2. Within(AtRest) /\ Undisturbed(AtRest)
  <2>1. 1 \in 1 .. Len(arrays) /\ Len(arrays[1]) \in Nat /\ slice.len \in Nat
    BY DEF CbInv, CbTypes
  <2> QED
    BY <2>1 DEF Within, Undisturbed, OnceEach, AtRest
<1>3. /\ firing' = [firing EXCEPT ![f] = AtRest] /\ UNCHANGED <<arrays, slice, httpJobs, manager>>
      /\ fnJobs' \in Seq(Jobs) /\ Len(fnJobs') <= CbQueue /\ fires' \in Nat
  BY DEF EndFire, jobVars, CbInv, CbTypes
<1> QED
  BY <1>1, <1>2, <1>3, OneLoop

LEMMA WorkStep == ASSUME CbInv, CbWork \/ StopManager PROVE CbInv'
<1>1. ASSUME UNCHANGED <<arrays, slice, firing, fires>>, manager' \in {"started", "stopped", "panicked"},
             fnJobs' \in Seq(Jobs), Len(fnJobs') <= CbQueue, httpJobs' \in Seq(Jobs), Len(httpJobs') <= CbQueue
      PROVE  CbInv'
  BY <1>1 DEF CbInv, CbTypes, LoopsInv, Within, Undisturbed
<1>2. ASSUME NEW q \in Seq(Jobs), Len(q) <= CbQueue, q # <<>>
      PROVE  Tail(q) \in Seq(Jobs) /\ Len(Tail(q)) <= CbQueue
  <2>1. Tail(q) \in Seq(Jobs) /\ Len(Tail(q)) = Len(q) - 1 /\ Len(q) \in Nat
    BY <1>2, HeadTailProperties
  <2> QED
    BY <1>2, <2>1, CallbacksAssumption
<1>3. ASSUME NEW pool \in {"fn", "http"}, NEW w \in CbWorkers, Take(pool, w) PROVE CbInv'
  <2>1. CASE pool = "fn"
    BY <1>1, <1>2, <1>3, <2>1 DEF Take, CbInv, CbTypes
  <2>2. CASE pool = "http"
    BY <1>1, <1>2, <1>3, <2>2 DEF Take, CbInv, CbTypes
  <2> QED
    BY <2>1, <2>2
<1>4. ASSUME NEW pool \in {"fn", "http"}, NEW w \in CbWorkers, EndJob(pool, w) PROVE CbInv'
  BY <1>1, <1>4 DEF EndJob, CbInv, CbTypes
<1>5. ASSUME StopManager PROVE CbInv'
  BY <1>1, <1>5 DEF StopManager, CbInv, CbTypes
<1> QED
  BY <1>3, <1>4, <1>5 DEF CbWork

LEMMA CbStep == CbInv /\ [CbNext]_cbVars => CbInv'
<1>1. ASSUME CbInv, UNCHANGED cbVars PROVE CbInv'
  BY <1>1 DEF CbInv, CbTypes, LoopsInv, Within, Undisturbed, cbVars
<1> QED
  BY <1>1, RegisterStep, UnregisterStep, FireStep, FireNextStep, FireHttpStep, EndFireStep, WorkStep DEF CbNext

LEMMA CbInvIsSafe == CbInv => CbSafe
<1> SUFFICES ASSUME CbInv PROVE CbSafe
  OBVIOUS
<1>1. CbTypeOK
  BY DEF CbInv, CbTypes, CbTypeOK
<1>2. ASSUME NEW f \in Firers, firing[f].at = "fired", ~firing[f].full, ~firing[f].crossed, NEW id \in CallbackIDs
      PROVE  Times(id, firing[f].given) = IF id \in firing[f].due THEN 1 ELSE 0
  <2> DEFINE s == firing[f]
             g == s.given
             Places == {k \in 1 .. Len(g) : g[k] = id}
  <2>1. /\ s \in Loops /\ s.len \in Nat /\ OnceEach(arrays[s.arr], s.len)
        /\ Len(g) = s.len /\ \A k \in 1 .. s.len : g[k] = arrays[s.arr][k]
        /\ s.due = {arrays[s.arr][k] : k \in 1 .. s.len}
    <3>1. s \in Loops
      BY DEF CbInv, CbTypes
    <3>2. Within(s) /\ Undisturbed(s) /\ s.at = "fired" /\ ~s.full
      BY <1>2 DEF CbInv, LoopsInv
    <3> HIDE DEF s
    <3>3. s.len \in Nat /\ s.i = s.len + 1 /\ s.i - 1 = s.len
      BY <3>1, <3>2 DEF Within, Loops
    <3> QED
      BY <3>1, <3>2, <3>3 DEF Undisturbed
  <2>2. s.due = {g[k] : k \in 1 .. Len(g)} /\ OnceEach(g, Len(g))
    <3> HIDE DEF s
    <3> QED BY <2>1 DEF OnceEach
  <2> HIDE DEF s, g
  <2>3. CASE id \in s.due
    <3>1. PICK k \in 1 .. Len(g) : g[k] = id
      BY <2>2, <2>3
    <3>2. Places = {k}
      BY <2>2, <3>1 DEF OnceEach
    <3> QED
      BY <2>3, <3>2, FS_Singleton DEF Times, s, g
  <2>4. CASE id \notin s.due
    <3>1. Places = {}
      BY <2>2, <2>4
    <3> QED
      BY <2>4, <3>1, FS_EmptySet DEF Times, s, g
  <2> QED
    BY <2>3, <2>4 DEF s
<1> QED
  BY <1>1, <1>2 DEF CbSafe, AllRegisteredFire

(* The queues keep to their bound, and an event is given once to each      *)
(* callback that was registered when it was fired and to no other, unless  *)
(* the queue was full or a removal moved the list under the loop.          *)
THEOREM EveryCallbackIsFired == CbSpec => []CbSafe
BY CbBegins, CbStep, CbInvIsSafe, PTL DEF CbSpec

-------------------------------------------------------------------------------
(* The synchronisation gate and the fan-out budget *)

(* The channel was closed at most once, and only by a release. *)
GateInv ==
    /\ gatePolicy \in GatePolicies
    /\ agentState \in [FanAgents -> AgentStates]
    /\ waiter \in [Waiters -> {"none", "waiting", "released", "timed_out"}]
    /\ closes = 0 \/ (closes = 1 /\ released)

AgentBudgets == [max : Nat, spent : Nat, reserved : Nat, cancelled : BOOLEAN]
BudgetTypes ==
    /\ aggregate \in Nat
    /\ Allocated \subseteq FanAgents /\ late \subseteq Allocated
    /\ \A a \in Allocated : budget[a] \in AgentBudgets

(* Every cost booked while the aggregate was exceeded cancelled an agent    *)
(* that was allocated after that, and nobody else was left running.         *)
Stopped == {a \in late : budget[a].cancelled}
BudgetInv ==
    /\ BudgetTypes
    /\ \A a \in Allocated : /\ budget[a].spent <= budget[a].max + LargestCost
                            /\ ~budget[a].cancelled => budget[a].spent <= budget[a].max
    /\ aggregate <= AggregateMax => late = {}
    /\ aggregate > AggregateMax =>
         /\ \A a \in Allocated \ late : budget[a].cancelled
         /\ aggregate <= AggregateMax + LargestCost * (1 + Cardinality(Stopped))

FanInv == GateInv /\ BudgetInv

LEMMA LargestCostIsLargest ==
    LargestCost \in Nat /\ \A c \in Costs : c \in Nat /\ c <= LargestCost
<1>1. PICK m \in Costs \cup {0} : \A c \in Costs : c <= m
  BY FanOutAssumption
<1>2. \A c \in Costs \cup {0} : c \in Nat
  BY FanOutAssumption
<1>3. \A y \in Costs \cup {0} : m >= y
  BY <1>1, <1>2
<1>4. LargestCost \in Costs \cup {0} /\ \A y \in Costs \cup {0} : LargestCost >= y
  BY <1>3 DEF LargestCost, Max
<1> QED
  BY <1>2, <1>4

LEMMA FanBegins == FanInit => FanInv
<1> SUFFICES ASSUME FanInit PROVE FanInv
  OBVIOUS
<1>1. GateInv
  BY DEF FanInit, GateInv, AgentStates
<1>2. Allocated = {}
  BY DEF FanInit, Allocated
<1>3. BudgetInv
  BY <1>2, FanOutAssumption DEF FanInit, BudgetInv, BudgetTypes
<1> QED
  BY <1>1, <1>3 DEF FanInv

LEMMA GateStep == ASSUME GateInv, FanNext PROVE GateInv'
<1> USE DEF GateInv
<1>1. ASSUME NEW a \in FanAgents, NEW s \in AgentStates, UpdateState(a, s)
      PROVE  GateInv'
  <2>1. /\ agentState' = [agentState EXCEPT ![a] = s] /\ UNCHANGED <<gatePolicy, waiter>>
    BY <1>1 DEF UpdateState
  <2> DEFINE R == Releases([agentState EXCEPT ![a] = s])
  <2>2. R => ~released
    BY DEF Releases
  <2>3. released' = (released \/ R) /\ closes' = IF R THEN closes + 1 ELSE closes
    BY <1>1 DEF UpdateState
  <2> HIDE DEF R
  <2>4. CASE R
    <3>1. closes = 0 /\ closes' = closes + 1
      BY <2>2, <2>3, <2>4
    <3>2. released'
      BY <2>3, <2>4, Zenon
    <3> QED
      BY <2>1, <3>1, <3>2
  <2>5. CASE ~R
    <3>1. closes' = closes
      BY <2>3, <2>5
    <3>2. released => released'
      BY <2>3, Zenon
    <3> QED
      BY <2>1, <3>1, <3>2
  <2> QED
    BY <2>4, <2>5
<1>2. ASSUME NEW w \in Waiters, Wait(w) PROVE GateInv'
  BY <1>2 DEF Wait
<1>3. ASSUME NEW w \in Waiters, WaitReleased(w) PROVE GateInv'
  BY <1>3 DEF WaitReleased
<1>4. ASSUME NEW w \in Waiters, WaitTimesOut(w) PROVE GateInv'
  <2> DEFINE Proceeds == gatePolicy.onTimeout = "proceed"
  <2>1. /\ released' = (released \/ Proceeds) /\ UNCHANGED <<gatePolicy, closes>>
        /\ waiter' = [waiter EXCEPT ![w] = IF Proceeds THEN "released" ELSE "timed_out"]
        /\ agentState' = [a \in FanAgents |-> IF agentState[a] = "running" THEN "timed_out" ELSE agentState[a]]
    BY <1>4 DEF WaitTimesOut
  <2> HIDE DEF Proceeds
  <2>2. agentState' \in [FanAgents -> AgentStates]
    BY <2>1 DEF AgentStates
  <2>3. waiter' \in [Waiters -> {"none", "waiting", "released", "timed_out"}]
    BY <2>1
  <2>4. closes' = 0 \/ (closes' = 1 /\ released')
    BY <2>1
  <2> QED
    BY <2>1, <2>2, <2>3, <2>4
<1>5. ASSUME BudgetNext PROVE GateInv'
  BY <1>5 DEF BudgetNext, AllocateAgent, RecordCost, Reserve, gateVars
<1> QED
  BY <1>1, <1>2, <1>3, <1>4, <1>5 DEF FanNext, GateNext, EndWaiting

(* The late agents are few, and so are those among them that were stopped. *)
LEMMA LateIsFinite ==
    ASSUME BudgetTypes
    PROVE  /\ IsFiniteSet(late) /\ Cardinality(late) \in Nat
           /\ IsFiniteSet(Stopped) /\ Cardinality(Stopped) \in Nat
           /\ Cardinality(Stopped) <= Cardinality(late)
<1>1. IsFiniteSet(FanAgents) /\ late \in SUBSET FanAgents
  BY FanOutAssumption DEF BudgetTypes
<1>2. IsFiniteSet(late)
  BY <1>1, FS_Subset
<1>3. Stopped \in SUBSET late
  BY DEF Stopped
<1> QED
  BY <1>2, <1>3, FS_Subset, FS_CardinalityType

LEMMA BudgetStep == ASSUME BudgetInv, FanNext PROVE BudgetInv'
<1> DEFINE L == LargestCost
           Bound(n) == AggregateMax + L * (1 + n)
           Sound(b) == b \in AgentBudgets /\ b.spent <= b.max + L /\ (~b.cancelled => b.spent <= b.max)
<1>0. /\ BudgetTypes /\ L \in Nat /\ AggregateMax \in Nat /\ Slices \subseteq Nat
      /\ \A c \in Costs : c \in Nat /\ c <= L
      /\ aggregate \in Nat /\ Allocated \subseteq FanAgents /\ late \subseteq Allocated
      /\ \A a \in Allocated : Sound(budget[a])
  BY LargestCostIsLargest, FanOutAssumption DEF BudgetInv, BudgetTypes
<1>1. /\ aggregate <= AggregateMax => late = {}
      /\ aggregate > AggregateMax => (\A a \in Allocated \ late : budget[a].cancelled)
                                     /\ aggregate <= Bound(Cardinality(Stopped))
  BY DEF BudgetInv
<1>2. ASSUME aggregate' \in Nat, Allocated' \subseteq FanAgents, late' \subseteq Allocated',
             \A a \in Allocated' : Sound(budget'[a]),
             aggregate' <= AggregateMax => late' = {},
             aggregate' > AggregateMax => (\A a \in Allocated' \ late' : budget'[a].cancelled)
                                          /\ aggregate' <= Bound(Cardinality(Stopped'))
      PROVE  BudgetInv'
  BY <1>2 DEF BudgetInv, BudgetTypes
<1>3. ASSUME NEW a \in FanAgents, NEW m \in Slices, AllocateAgent(a, m)
      PROVE  BudgetInv'
  <2> DEFINE new == [max |-> m, spent |-> 0, reserved |-> 0, cancelled |-> FALSE]
  <2>1. /\ a \notin Allocated /\ aggregate' = aggregate
        /\ budget' = [x \in Allocated \cup {a} |-> IF x = a THEN new ELSE budget[x]]
        /\ late' = IF aggregate > AggregateMax THEN late \cup {a} ELSE late
    BY <1>3 DEF AllocateAgent
  <2>2. Sound(new) /\ ~new.cancelled
    BY <1>0 DEF AgentBudgets
  <2> HIDE DEF new, Sound
  <2>3. /\ Allocated' = Allocated \cup {a} /\ budget'[a] = new
        /\ \A x \in Allocated : budget'[x] = budget[x]
    BY <2>1 DEF Allocated
  <2>4. late' \subseteq Allocated' /\ (aggregate' <= AggregateMax => late' = {})
    BY <1>0, <1>1, <2>1, <2>3
  <2>5. Stopped' = Stopped
    BY <1>0, <2>1, <2>2, <2>3 DEF Stopped
  <2>6. aggregate' > AggregateMax => (\A x \in Allocated' \ late' : budget'[x].cancelled)
                                     /\ aggregate' <= Bound(Cardinality(Stopped'))
    <3> HIDE DEF Bound
    <3> QED
      BY <1>1, <2>1, <2>3, <2>5
  <2>7. \A x \in Allocated' : Sound(budget'[x])
    BY <1>0, <2>2, <2>3
  <2> HIDE DEF Bound
  <2> QED
    BY <1>0, <1>2, <2>1, <2>3, <2>4, <2>6, <2>7
<1>4. ASSUME NEW a \in FanAgents, NEW c \in Costs, RecordCost(a, c)
      PROVE  BudgetInv'
  <2> DEFINE C == CancelledBy(a, c)
             After(x) == [budget[x] EXCEPT !.spent = IF x = a THEN @ + c ELSE @, !.cancelled = @ \/ x \in C]
             over == aggregate + c > AggregateMax
  <2>1. /\ a \in Allocated /\ ~budget[a].cancelled /\ aggregate' = aggregate + c /\ late' = late
        /\ budget' = [x \in Allocated |-> After(x)]
    BY <1>4 DEF RecordCost
  <2>2. /\ over => C = Allocated
        /\ ~over /\ budget[a].spent + c > budget[a].max => C = {a}
        /\ ~over /\ ~(budget[a].spent + c > budget[a].max) => C = {}
    <3>1. budget[a].spent \in Nat /\ budget[a].max \in Nat /\ c \in Nat
      BY <1>0, <2>1 DEF AgentBudgets
    <3>2. CASE over
      <4>1. ~(aggregate + c <= AggregateMax)
        BY <1>0, <3>1, <3>2
      <4> QED
        BY <3>2, <4>1 DEF CancelledBy
    <3>3. CASE ~over
      <4>1. aggregate + c <= AggregateMax
        BY <1>0, <3>1, <3>3
      <4> QED
        BY <1>0, <3>1, <3>3, <4>1 DEF CancelledBy
    <3> QED
      BY <3>2, <3>3
  <2>3. \A x \in Allocated :
          /\ After(x) \in AgentBudgets
          /\ After(x).max = budget[x].max
          /\ After(x).spent = IF x = a THEN budget[x].spent + c ELSE budget[x].spent
          /\ After(x).cancelled = (budget[x].cancelled \/ x \in C)
    <3> SUFFICES ASSUME NEW x \in Allocated
                 PROVE  /\ After(x) \in AgentBudgets
                        /\ After(x).max = budget[x].max
                        /\ After(x).spent = IF x = a THEN budget[x].spent + c ELSE budget[x].spent
                        /\ After(x).cancelled = (budget[x].cancelled \/ x \in C)
      OBVIOUS
    <3> DEFINE n == IF x = a THEN budget[x].spent + c ELSE budget[x].spent
               stops == budget[x].cancelled \/ x \in C
    <3>1. budget[x] \in AgentBudgets /\ n \in Nat
      BY <1>0 DEF AgentBudgets
    <3>2. After(x) = [budget[x] EXCEPT !.spent = n, !.cancelled = stops]
      OBVIOUS
    <3>3. stops \in BOOLEAN
      OBVIOUS
    <3> HIDE DEF n, stops, After
    <3>4. After(x) \in AgentBudgets /\ After(x).max = budget[x].max /\ After(x).spent = n /\ After(x).cancelled = stops
      BY <3>1, <3>2, <3>3 DEF AgentBudgets
    <3> QED
      BY <3>4 DEF n, stops
  <2> HIDE DEF After, C
  <2>4. Allocated' = Allocated /\ \A x \in Allocated : budget'[x] = After(x)
    BY <2>1 DEF Allocated
  <2>5. \A x \in Allocated' : Sound(budget'[x])
    <3> SUFFICES ASSUME NEW x \in Allocated
                 PROVE  Sound(After(x))
      BY <2>4
    <3>1. Sound(budget[x]) /\ budget[x].spent \in Nat /\ budget[x].max \in Nat
      BY <1>0 DEF AgentBudgets
    <3>2. CASE x # a
      BY <2>3, <3>1, <3>2
    <3>3. CASE x = a
      <4>1. budget[a].spent <= budget[a].max
        BY <2>1, <3>1, <3>3
      <4>2. After(a).spent = budget[a].spent + c /\ After(a).max = budget[a].max
        BY <2>1, <2>3
      <4>3. After(a).spent <= After(a).max + L
        BY <1>0, <3>1, <3>3, <4>1, <4>2
      <4>4. ~After(a).cancelled => ~(budget[a].spent + c > budget[a].max)
        BY <2>1, <2>2, <2>3
      <4>5. ~After(a).cancelled => After(a).spent <= After(a).max
        BY <1>0, <3>1, <3>3, <4>2, <4>4
      <4> QED
        BY <2>1, <2>3, <3>3, <4>3, <4>5
    <3> QED
      BY <3>2, <3>3
  <2>6. aggregate' \in Nat /\ (aggregate' <= AggregateMax => late' = {})
    BY <1>0, <1>1, <2>1
  <2>7. ASSUME aggregate' > AggregateMax
        PROVE  (\A x \in Allocated' \ late' : budget'[x].cancelled)
               /\ aggregate' <= Bound(Cardinality(Stopped'))
    <3>1. over
      BY <2>1, <2>7
    <3>2. \A x \in Allocated : budget'[x].cancelled
      BY <2>2, <2>3, <2>4, <3>1
    <3>3. Stopped' = late
      BY <1>0, <2>1, <3>2 DEF Stopped
    <3> DEFINE s == Cardinality(Stopped)
               n == Cardinality(late)
    <3>4. s \in Nat /\ n \in Nat /\ s <= n /\ IsFiniteSet(late) /\ IsFiniteSet(Stopped)
      BY <1>0, LateIsFinite
    <3>5. CASE aggregate <= AggregateMax
      <4>1. L * (1 + n) >= L
        <5>1. 1 * L <= (1 + n) * L
          BY <1>0, <3>4
        <5> QED
          BY <1>0, <3>4, <5>1
      <4> HIDE DEF n, s, L
      <4>2. aggregate + c <= AggregateMax + L * (1 + n)
        BY <1>0, <3>4, <3>5, <4>1
      <4> QED
        BY <2>1, <2>4, <3>2, <3>3, <4>2 DEF n
    <3>6. CASE aggregate > AggregateMax
      <4>1. a \in late /\ a \notin Stopped
        BY <1>1, <2>1, <3>6 DEF Stopped
      <4>2. Stopped \cup {a} \in SUBSET late
        BY <4>1 DEF Stopped
      <4>3. Cardinality(Stopped \cup {a}) = s + 1
        BY <3>4, <4>1, FS_AddElement
      <4>4. s + 1 <= n
        BY <3>4, <4>2, <4>3, FS_Subset
      <4>5. aggregate <= AggregateMax + L * (1 + s)
        BY <1>1, <3>6
      <4> HIDE DEF n, s, L
      <4>6. L * (1 + s) \in Nat /\ L * (1 + n) \in Nat /\ L * (1 + s) + L <= L * (1 + n)
        <5>1. L * (2 + s) <= L * (1 + n) /\ L * (2 + s) = L * (1 + s) + L
          BY <1>0, <3>4, <4>4
        <5> QED
          BY <1>0, <3>4, <5>1
      <4>7. aggregate + c <= AggregateMax + L * (1 + n)
        BY <1>0, <4>5, <4>6
      <4> QED
        BY <2>1, <2>4, <3>2, <3>3, <4>7 DEF n
    <3> QED
      BY <1>0, <3>5, <3>6
  <2> HIDE DEF Bound, Sound
  <2> QED
    BY <1>0, <1>2, <2>1, <2>4, <2>5, <2>6, <2>7
<1>5. ASSUME NEW a \in FanAgents, NEW c \in Costs, Reserve(a, c)
      PROVE  BudgetInv'
  <2> DEFINE r == [budget[a] EXCEPT !.reserved = @ + c]
  <2>1. /\ a \in Allocated /\ UNCHANGED <<aggregate, late>>
        /\ budget' = [budget EXCEPT ![a] = r]
    BY <1>5 DEF Reserve
  <2>2. /\ r \in AgentBudgets /\ r.cancelled = budget[a].cancelled
        /\ r.spent = budget[a].spent /\ r.max = budget[a].max
    BY <1>0, <2>1 DEF AgentBudgets
  <2> HIDE DEF r
  <2>3. Allocated' = Allocated
    BY <2>1 DEF Allocated
  <2>4. \A x \in Allocated : /\ budget'[x].cancelled = budget[x].cancelled
                             /\ budget'[x] \in AgentBudgets
                             /\ budget'[x].spent = budget[x].spent /\ budget'[x].max = budget[x].max
    <3>1. budget'[a] = r /\ \A x \in Allocated : x # a => budget'[x] = budget[x]
      BY <1>0, <2>1 DEF Allocated
    <3> QED
      BY <1>0, <2>2, <3>1
  <2>5. Stopped' = Stopped
    BY <1>0, <2>1, <2>4 DEF Stopped
  <2>6. \A x \in Allocated' : Sound(budget'[x])
    BY <1>0, <2>3, <2>4
  <2> HIDE DEF Bound, Sound
  <2> QED
    BY <1>0, <1>1, <1>2, <2>1, <2>3, <2>4, <2>5, <2>6
<1>6. ASSUME GateNext PROVE BudgetInv'
  <2>1. UNCHANGED budgetVars
    BY <1>6 DEF GateNext, UpdateState, Wait, EndWaiting, WaitReleased, WaitTimesOut
  <2> QED
    BY <2>1 DEF budgetVars, BudgetInv, BudgetTypes, Allocated, Stopped
<1> QED
  BY <1>3, <1>4, <1>5, <1>6 DEF FanNext, BudgetNext

LEMMA FanStep == FanInv /\ [FanNext]_fanVars => FanInv'
<1>1. ASSUME FanInv, UNCHANGED fanVars PROVE FanInv'
  BY <1>1 DEF FanInv, fanVars, gateVars, budgetVars, GateInv, BudgetInv, BudgetTypes, Allocated, Stopped
<1> QED
  BY <1>1, GateStep, BudgetStep DEF FanInv

LEMMA FanInvIsSafe == FanInv => FanSafe
<1> SUFFICES ASSUME FanInv PROVE FanSafe
  OBVIOUS
<1>1. FanTypeOK /\ GateClosesOnce
  BY DEF FanInv, GateInv, BudgetInv, BudgetTypes, AgentBudgets, FanTypeOK, GateClosesOnce
<1>2. OverspendIsBounded
  <2> DEFINE s == Cardinality(Stopped)
             n == Cardinality(late)
             L == LargestCost
  <2>1. s \in Nat /\ n \in Nat /\ s <= n /\ L \in Nat /\ AggregateMax \in Nat /\ aggregate \in Nat
    BY LateIsFinite, LargestCostIsLargest, FanOutAssumption DEF FanInv, BudgetInv, BudgetTypes
  <2>2. aggregate <= AggregateMax \/ aggregate <= AggregateMax + L * (1 + s)
    BY <2>1 DEF FanInv, BudgetInv
  <2> HIDE DEF s, n, L
  <2>3. L * (1 + s) \in Nat /\ L * (1 + s) <= L * (1 + n) /\ L * (1 + n) \in Nat
    BY <2>1
  <2>4. aggregate <= AggregateMax + L * (1 + n)
    BY <2>1, <2>2, <2>3
  <2> QED
    BY <2>4 DEF OverspendIsBounded, FanInv, BudgetInv, n, L
<1> QED
  BY <1>1, <1>2 DEF FanSafe

(* The synchronisation gate closes its channel once, whatever updates and   *)
(* timeouts meet, and a fan-out overspends by one call at most, and by one  *)
(* more for each agent allocated after the aggregate was exceeded.          *)
THEOREM FanOutIsBounded == FanSpec => []FanSafe
BY FanBegins, FanStep, FanInvIsSafe, PTL DEF FanSpec

-------------------------------------------------------------------------------
(* The three together *)

LEMMA ServicesBegin == ServicesInit => SdkInv /\ CbInv /\ FanInv
BY SdkBegins, CbBegins, FanBegins DEF ServicesInit

LEMMA ServicesStep ==
    SdkInv /\ CbInv /\ FanInv /\ [ServicesNext]_<<part, stopVars, mcpVars, sdkVars, cbVars, fanVars>>
    => SdkInv' /\ CbInv' /\ FanInv'
<1> SUFFICES ASSUME SdkInv, CbInv, FanInv,
                    [ServicesNext]_<<part, stopVars, mcpVars, sdkVars, cbVars, fanVars>>
             PROVE  SdkInv' /\ CbInv' /\ FanInv'
  OBVIOUS
<1>1. [SdkNext]_sdkVars
  BY DEF ServicesNext
<1>2. [CbNext]_cbVars
  BY DEF ServicesNext
<1>3. [FanNext]_fanVars
  BY DEF ServicesNext, FanNext
<1> QED
  BY <1>1, <1>2, <1>3, SdkStep, CbStep, FanStep

(* What the three promise holds in a daemon that runs any of its parts.    *)
THEOREM FanOutsAreSafe == ServicesSpec => []FanOutsHold
<1>1. SdkInv /\ CbInv /\ FanInv => FanOutsHold
  BY SdkInvIsSafe, CbInvIsSafe, FanInvIsSafe DEF FanOutsHold
<1> QED
  BY <1>1, ServicesBegin, ServicesStep, PTL DEF ServicesSpec

-------------------------------------------------------------------------------
(* The MCP gateway: the inductive invariant *)

Forwarded == {"PERMIT", "SHADOW", "SHADOW_PERMIT"}
Excuses == {"invalid params", "denied", "pending_approval", "unexpected effect", "timeout",
            "upstream error"}

(* An answer that is the server's is the reply to the request it answers.  *)
OwnReplies == {a \in [is : {"reply"}, asked : Nat, got : Nat] : a.asked = a.got}
AnswerType == [is : Excuses] \cup OwnReplies
CallerType ==
    [at : Reached, rest : Seq(Kinds), form : {"one", "batch"}, stream : BOOLEAN, id : Nat, serial : Nat, quiet : BOOLEAN,
     effect : McpEffects \cup {"none"}, out : Seq(AnswerType)]
RequestType == [id : Nat, of : Nat]
ReplyType == [chan : Nat, of : Nat]
ReaderType == [at : {"scan", "ended"}] \cup [at : {"sending"}, chan : Nat, of : Nat]

CallerTypes == caller \in [McpCallers -> CallerType]
PipeTypes ==
    /\ nextID \in Nat /\ serial \in Nat
    /\ DOMAIN pending \subseteq 1 .. nextID /\ pending \in [DOMAIN pending -> 1 .. serial]
    /\ delivered \subseteq ReplyType
    /\ reader \in ReaderType
    /\ stdin \in {"open", "full", "broken", "gone"}
    /\ inbox \subseteq RequestType
    /\ stdout \in Seq(RequestType)

InFlight(c) == caller[c].at \in {"send", "write", "wait"}
Channels == {pending[i] : i \in DOMAIN pending}

(* The channel a caller waits on is not made before it registers.          *)
Unused(s) ==
    /\ s \notin Channels
    /\ \A d \in delivered : d.chan # s
    /\ reader.at = "sending" => reader.chan # s

(* May this effect hand the message to a server?                           *)
MayHand(c, e) == Kind(c) \in {"call", "quiet call"} => Exempt(c) \/ e \in Forwarded

(* What each caller knows of the request it has under way.                 *)
CallerInv(c) ==
    /\ InFlight(c) =>
         /\ caller[c].rest # <<>> /\ caller[c].serial \in 1 .. serial
         /\ MayHand(c, caller[c].effect)
    /\ caller[c].at = "send" => Unused(caller[c].serial)
    /\ caller[c].at \in {"write", "wait"} =>
         /\ c \in StdioCallers /\ caller[c].id \in 1 .. nextID
         /\ caller[c].id \in DOMAIN pending => pending[caller[c].id] = caller[c].serial

(* No two callers have the same request under way. *)
OneCaller == \A c, d \in McpCallers :
    InFlight(c) /\ InFlight(d) /\ caller[c].serial = caller[d].serial => c = d

(* Wherever a request or its reply is, its id is old, and if it is still   *)
(* in the table it stands for that very request.                           *)
Routed(q) == q.id <= nextID /\ (q.id \in DOMAIN pending => pending[q.id] = q.of)
RouteInv ==
    /\ \A q \in inbox : Routed(q)
    /\ \A k \in 1 .. Len(stdout) : Routed(stdout[k])
    /\ \A i, j \in DOMAIN pending : pending[i] = pending[j] => i = j

(* A reply in a channel is the reply to the request that made the channel, *)
(* which has left the table.                                               *)
Settled(d) == d.chan = d.of /\ d.chan \in (1 .. serial) \ Channels
ReplyInv == (\A d \in delivered : Settled(d)) /\ (reader.at = "sending" => Settled(reader))

(* Every id was given for a message of its own, and messages that have no  *)
(* id yet are not counted.                                                 *)
Unsent == {caller[c].serial : c \in {d \in StdioCallers : caller[d].at = "send"}}
CountInv == nextID + Cardinality(Unsent) <= serial

IInv ==
    /\ CallerTypes /\ PipeTypes
    /\ (\A c \in McpCallers : CallerInv(c)) /\ OneCaller
    /\ RouteInv /\ ReplyInv /\ CountInv /\ PendingWaits


-------------------------------------------------------------------------------
(* What the steps of a caller do to its record *)

OnlyMoves(c) ==
    /\ caller' \in [McpCallers -> CallerType]
    /\ \A d \in McpCallers \ {c} : caller'[d] = caller[d]

LEMMA AnsweredMoves ==
    ASSUME CallerTypes, NEW c \in McpCallers, caller[c].rest # <<>>,
           NEW a \in AnswerType, Answered(c, a)
    PROVE  OnlyMoves(c) /\ caller'[c].at = "next"
<1> DEFINE old == caller[c]
           rest == Tail(old.rest)
           said == IF old.quiet THEN old.out ELSE Append(old.out, a)
           r == [old EXCEPT !.at = "next", !.rest = rest, !.id = 0, !.serial = 0,
                            !.effect = "none", !.quiet = FALSE, !.out = said]
<1>1. old \in CallerType
  BY DEF CallerTypes
<1>2. rest \in Seq(Kinds) /\ said \in Seq(AnswerType)
  <2>1. old.rest \in Seq(Kinds) /\ old.out \in Seq(AnswerType)
    BY <1>1 DEF CallerType
  <2>2. Tail(old.rest) \in Seq(Kinds)
    BY <2>1, HeadTailProperties
  <2>3. Append(old.out, a) \in Seq(AnswerType)
    BY <2>1, AppendProperties
  <2> QED
    BY <2>1, <2>2, <2>3
<1>3. caller' = [caller EXCEPT ![c] = r]
  BY <1>1 DEF Answered, CallerTypes, CallerType
<1> HIDE DEF rest, said
<1>4. r \in CallerType /\ r.at = "next"
  BY <1>1, <1>2 DEF CallerType, Reached
<1> QED
  BY <1>3, <1>4 DEF OnlyMoves, CallerTypes

LEMMA HandMoves ==
    ASSUME CallerTypes, serial \in Nat, NEW c \in McpCallers,
           NEW e \in McpEffects \cup {"none"}, Hand(c, e)
    PROVE  /\ OnlyMoves(c)
           /\ caller'[c].at = "send" /\ caller'[c].serial = serial + 1
           /\ caller'[c].rest = caller[c].rest /\ caller'[c].effect = e
      /\ caller'[c].form = caller[c].form
           /\ caller'[c].form = caller[c].form
<1> DEFINE old == caller[c]
           hush == Kind(c) \in {"note", "quiet call"} /\ old.form = "batch"
           next == serial + 1
           r == [old EXCEPT !.at = "send", !.serial = next, !.effect = e, !.quiet = hush]
<1>1. old \in CallerType /\ hush \in BOOLEAN /\ next \in Nat
  BY DEF CallerTypes
<1>2. caller' = [caller EXCEPT ![c] = r]
  BY <1>1 DEF Hand, CallerTypes, CallerType
<1> HIDE DEF hush, next
<1>3. r \in CallerType
  BY <1>1 DEF CallerType, Reached
<1>4. r.at = "send" /\ r.serial = next /\ r.rest = old.rest /\ r.effect = e /\ r.form = old.form
  BY <1>1 DEF CallerType
<1> HIDE DEF r
<1> QED
  BY <1>2, <1>3, <1>4 DEF OnlyMoves, CallerTypes, next

LEMMA RegisterMoves ==
    ASSUME CallerTypes, nextID \in Nat, NEW c \in McpCallers, Register(c)
    PROVE  /\ OnlyMoves(c)
           /\ caller'[c].at = "write" /\ caller'[c].id = nextID + 1
           /\ caller'[c].serial = caller[c].serial /\ caller'[c].rest = caller[c].rest
           /\ caller'[c].effect = caller[c].effect /\ caller'[c].form = caller[c].form
<1> DEFINE old == caller[c]
           next == nextID + 1
           r == [old EXCEPT !.at = "write", !.id = next]
<1>1. old \in CallerType /\ next \in Nat
  BY DEF CallerTypes
<1>2. caller' = [caller EXCEPT ![c] = r]
  BY <1>1 DEF Register, NewID, CallerTypes, CallerType
<1> HIDE DEF next
<1>3. r \in CallerType
  BY <1>1 DEF CallerType, Reached
<1>4. /\ r.at = "write" /\ r.id = next /\ r.rest = old.rest
      /\ r.effect = old.effect /\ r.serial = old.serial /\ r.form = old.form
  BY <1>1 DEF CallerType
<1> HIDE DEF r
<1> QED
  BY <1>2, <1>3, <1>4 DEF OnlyMoves, CallerTypes, next

LEMMA WriteMoves ==
    ASSUME CallerTypes, NEW c \in McpCallers, caller' = [caller EXCEPT ![c].at = "wait"]
    PROVE  /\ OnlyMoves(c)
           /\ caller'[c].at = "wait" /\ caller'[c].id = caller[c].id
           /\ caller'[c].serial = caller[c].serial /\ caller'[c].rest = caller[c].rest
           /\ caller'[c].effect = caller[c].effect /\ caller'[c].form = caller[c].form
<1> DEFINE old == caller[c]
           r == [old EXCEPT !.at = "wait"]
<1>1. old \in CallerType
  BY DEF CallerTypes
<1>2. caller' = [caller EXCEPT ![c] = r]
  BY <1>1 DEF CallerTypes
<1>3. /\ r \in CallerType /\ r.at = "wait" /\ r.id = old.id /\ r.rest = old.rest
      /\ r.effect = old.effect /\ r.serial = old.serial /\ r.form = old.form
  BY <1>1 DEF CallerType, Reached
<1> HIDE DEF r
<1> QED
  BY <1>2, <1>3 DEF OnlyMoves, CallerTypes

LEMMA RestingType == Resting \in CallerType /\ Resting.at = "idle"
<1>1. <<>> \in Seq(Kinds) /\ <<>> \in Seq(AnswerType)
  OBVIOUS
<1> QED
  BY <1>1 DEF Resting, CallerType, Reached

LEMMA RestMoves ==
    ASSUME CallerTypes, NEW c \in McpCallers, caller' = [caller EXCEPT ![c] = Resting]
    PROVE  OnlyMoves(c) /\ caller'[c].at = "idle"
BY RestingType DEF OnlyMoves, CallerTypes

LEMMA ReadMoves ==
    ASSUME CallerTypes, NEW c \in McpCallers, ReadLine(c)
    PROVE  OnlyMoves(c) /\ caller'[c].at = "next"
<1>1. PICK l \in McpLines :
        caller' = [caller EXCEPT ![c] =
            [Resting EXCEPT !.at = "next", !.form = l.form, !.stream = c \in HttpCallers /\ l.stream,
                            !.rest = IF c \in HttpCallers /\ l.stream /\ l.form = "batch" THEN <<>> ELSE l.msgs]]
  BY DEF ReadLine
<1> DEFINE s == c \in HttpCallers /\ l.stream
           m == IF c \in HttpCallers /\ l.stream /\ l.form = "batch" THEN <<>> ELSE l.msgs
           r == [Resting EXCEPT !.at = "next", !.form = l.form, !.stream = s, !.rest = m]
<1>2. l.form \in {"one", "batch"} /\ m \in Seq(Kinds) /\ s \in BOOLEAN
  <2>1. l.form \in {"one", "batch"} /\ l.msgs \in Seq(Kinds) /\ <<>> \in Seq(Kinds)
    BY McpAssumption, EmptySeq
  <2> QED
    BY <2>1
<1>3. caller' = [caller EXCEPT ![c] = r]
  BY <1>1
<1> HIDE DEF s, m
<1>4. r \in CallerType /\ r.at = "next"
  BY <1>2, RestingType DEF CallerType, Reached
<1> QED
  BY <1>3, <1>4 DEF OnlyMoves, CallerTypes

-------------------------------------------------------------------------------
(* The steps keep the invariant, one kind of step after the other *)

(* What the records of the callers say. *)
LEMMA CallerFacts ==
    ASSUME CallerTypes, NEW c \in McpCallers
    PROVE  /\ caller[c] \in CallerType /\ caller[c].at \in Reached
           /\ caller[c].rest \in Seq(Kinds) /\ caller[c].out \in Seq(AnswerType)
           /\ caller[c].id \in Nat /\ caller[c].serial \in Nat
BY DEF CallerTypes, CallerType

LEMMA UnsentFinite ==
    ASSUME PipeTypes, \A c \in McpCallers : CallerInv(c)
    PROVE  Unsent \subseteq 1 .. serial /\ IsFiniteSet(Unsent)
<1>1. Unsent \subseteq 1 .. serial
  BY DEF Unsent, CallerInv, InFlight, McpCallers
<1>2. serial \in Nat /\ 1 \in Int /\ serial \in Int
  BY DEF PipeTypes
<1>3. IsFiniteSet(1 .. serial)
  BY <1>2, FS_Interval
<1> QED
  BY <1>1, <1>3, FS_Subset

(* A caller stops waiting, or was not: what was in the table and in the    *)
(* channels may only have gone.                                            *)
LEMMA SettleStep ==
    ASSUME IInv, NEW c \in McpCallers, OnlyMoves(c), caller'[c].at \in {"idle", "next"},
           UNCHANGED <<nextID, serial, reader, inbox, stdout>>,
           delivered' \subseteq delivered,
           DOMAIN pending' \subseteq DOMAIN pending,
           pending' = [i \in DOMAIN pending' |-> pending[i]],
           stdin' \in {"open", "full", "broken", "gone"},
           stdin' # "gone" =>
              /\ stdin # "gone"
              /\ \/ caller[c].at \notin {"write", "wait"} \/ c \notin StdioCallers
                 \/ caller[c].id \notin DOMAIN pending'
    PROVE  IInv'
<1>0. /\ CallerTypes /\ PipeTypes
      /\ \A d \in McpCallers : CallerInv(d)
  BY DEF IInv
<1>1. CallerTypes' /\ PipeTypes'
  BY <1>0 DEF OnlyMoves, CallerTypes, PipeTypes
<1>2. Channels' \subseteq Channels /\ \A s : Unused(s) => Unused(s)'
  BY DEF Channels, Unused
<1>3. \A d \in McpCallers : InFlight(d)' => d # c /\ InFlight(d) /\ caller'[d] = caller[d]
  BY DEF InFlight, OnlyMoves
<1>4. ASSUME NEW d \in McpCallers PROVE CallerInv(d)'
  <2>1. CASE ~InFlight(d)'
    BY <2>1 DEF CallerInv, InFlight
  <2>2. CASE InFlight(d)'
    <3>1. caller'[d] = caller[d] /\ CallerInv(d)
      BY <1>0, <1>3, <2>2
    <3> QED
      BY <1>2, <3>1 DEF CallerInv, InFlight, MayHand, Kind, Exempt
  <2> QED
    BY <2>1, <2>2
<1>5. OneCaller'
  BY <1>3 DEF IInv, OneCaller
<1>6. RouteInv'
  BY DEF IInv, RouteInv, Routed
<1>7. ReplyInv'
  BY <1>2 DEF IInv, ReplyInv, Settled
<1>8. CountInv'
  <2>1. Unsent' \subseteq Unsent
    BY <1>3 DEF Unsent, InFlight, McpCallers
  <2>2. IsFiniteSet(Unsent)
    BY <1>0, UnsentFinite
  <2>3. Cardinality(Unsent') <= Cardinality(Unsent) /\ Cardinality(Unsent) \in Nat /\ Cardinality(Unsent') \in Nat
    BY <2>1, <2>2, FS_Subset, FS_CardinalityType
  <2> QED
    BY <1>0, <2>3 DEF IInv, CountInv, PipeTypes
<1>9. PendingWaits'
  <2> SUFFICES ASSUME stdin' # "gone", NEW i \in DOMAIN pending'
               PROVE  \E d \in StdioCallers : caller'[d].at \in {"write", "wait"} /\ caller'[d].id = i
    BY DEF PendingWaits
  <2>1. PICK d \in StdioCallers : caller[d].at \in {"write", "wait"} /\ caller[d].id = i
    BY DEF IInv, PendingWaits
  <2>2. d # c /\ d \in McpCallers
    BY <2>1 DEF McpCallers
  <2> QED
    BY <2>1, <2>2 DEF OnlyMoves
<1> QED
  BY <1>1, <1>4, <1>5, <1>6, <1>7, <1>8, <1>9 DEF IInv

(* A message leaves for a server, with a serial number of its own.         *)
LEMMA HandStep ==
    ASSUME IInv, NEW c \in McpCallers, NEW e \in McpEffects \cup {"none"},
           caller[c].at = "next", caller[c].rest # <<>>,
           MayHand(c, e), Hand(c, e), UNCHANGED pipeVars
    PROVE  IInv'
<1>0. /\ CallerTypes /\ PipeTypes /\ serial \in Nat /\ nextID \in Nat /\ serial' = serial + 1
      /\ \A d \in McpCallers : CallerInv(d)
  BY DEF IInv, PipeTypes, Hand
<1>1. /\ OnlyMoves(c) /\ caller'[c].at = "send" /\ caller'[c].serial = serial + 1
      /\ caller'[c].rest = caller[c].rest /\ caller'[c].effect = e
      /\ caller'[c].form = caller[c].form
  BY <1>0, HandMoves
<1>2. UNCHANGED <<nextID, pending, delivered, reader, stdin, inbox, stdout>>
  BY DEF pipeVars
<1>3. serial + 1 \in 1 .. serial' /\ serial + 1 \notin 1 .. serial /\ 1 .. serial \subseteq 1 .. serial'
  BY <1>0
<1>4. CallerTypes' /\ PipeTypes'
  BY <1>0, <1>1, <1>2, <1>3 DEF OnlyMoves, CallerTypes, PipeTypes
<1>5. Channels' = Channels /\ \A s : Unused(s) => Unused(s)'
  BY <1>2 DEF Channels, Unused
<1>6. Unused(serial + 1)
  <2>1. serial + 1 \notin Channels
    BY <1>0, <1>3 DEF Channels, PipeTypes
  <2>2. \A d \in delivered : d.chan # serial + 1
    BY <1>3 DEF IInv, ReplyInv, Settled
  <2>3. reader.at = "sending" => reader.chan # serial + 1
    BY <1>3 DEF IInv, ReplyInv, Settled
  <2> QED
    BY <2>1, <2>2, <2>3 DEF Unused
<1>7. ASSUME NEW d \in McpCallers PROVE CallerInv(d)'
  <2>1. CASE d = c
    BY <1>1, <1>3, <1>5, <1>6, <2>1 DEF CallerInv, InFlight, MayHand, Kind, Exempt
  <2>2. CASE d # c
    <3>1. caller'[d] = caller[d] /\ CallerInv(d)
      BY <1>0, <1>1, <2>2 DEF OnlyMoves
    <3> QED
      BY <1>2, <1>3, <1>5, <3>1 DEF CallerInv, InFlight, MayHand, Kind, Exempt
  <2> QED
    BY <2>1, <2>2
<1>8. OneCaller'
  <2>1. \A d \in McpCallers \ {c} : InFlight(d)' => /\ InFlight(d) /\ caller'[d].serial = caller[d].serial
                                                    /\ caller'[d].serial # serial + 1
    BY <1>0, <1>1, <1>3 DEF OnlyMoves, InFlight, CallerInv
  <2> QED
    BY <1>1, <2>1 DEF IInv, OneCaller
<1>9. RouteInv'
  BY <1>2 DEF IInv, RouteInv, Routed
<1>10. ReplyInv'
  BY <1>2, <1>3, <1>5 DEF IInv, ReplyInv, Settled
<1>11. CountInv'
  <2>1. Unsent' \subseteq Unsent \cup {serial + 1}
    BY <1>1 DEF Unsent, OnlyMoves, McpCallers
  <2>2. IsFiniteSet(Unsent) /\ serial + 1 \notin Unsent
    BY <1>0, <1>3, UnsentFinite
  <2>3. /\ IsFiniteSet(Unsent \cup {serial + 1})
        /\ Cardinality(Unsent \cup {serial + 1}) = Cardinality(Unsent) + 1
    BY <2>2, FS_AddElement
  <2>4. Cardinality(Unsent') <= Cardinality(Unsent) + 1 /\ IsFiniteSet(Unsent')
    BY <2>1, <2>3, FS_Subset
  <2>5. Cardinality(Unsent) \in Nat /\ Cardinality(Unsent') \in Nat
    BY <2>2, <2>4, FS_CardinalityType
  <2>6. nextID + Cardinality(Unsent) <= serial /\ nextID' = nextID
    BY <1>2 DEF IInv, CountInv
  <2>7. nextID' + Cardinality(Unsent') <= serial'
    BY <1>0, <2>4, <2>5, <2>6
  <2> QED
    BY <2>7 DEF CountInv
<1>12. PendingWaits'
  BY <1>1, <1>2 DEF IInv, PendingWaits, OnlyMoves, McpCallers
<1> QED
  BY <1>4, <1>7, <1>8, <1>9, <1>10, <1>11, <1>12 DEF IInv

(* forwardToSubprocess takes an id that no request or reply bears, and     *)
(* makes a channel nobody has.                                             *)
LEMMA TableStep ==
    ASSUME IInv, NEW c \in McpCallers, Register(c)
    PROVE  IInv'
<1> DEFINE n == nextID + 1
           s == caller[c].serial
<1>0. /\ CallerTypes /\ PipeTypes /\ serial \in Nat /\ nextID \in Nat /\ n \in Nat
      /\ \A d \in McpCallers : CallerInv(d)
  BY DEF IInv, PipeTypes
<1>1. /\ OnlyMoves(c) /\ caller'[c].at = "write" /\ caller'[c].id = n
      /\ caller'[c].serial = s /\ caller'[c].rest = caller[c].rest /\ caller'[c].effect = caller[c].effect
      /\ caller'[c].form = caller[c].form
  BY <1>0, RegisterMoves
<1>2. /\ UNCHANGED <<serial, delivered, reader, stdin, inbox, stdout>> /\ nextID' = n
      /\ pending' = [i \in DOMAIN pending \cup {n} |-> IF i = n THEN s ELSE pending[i]]
      /\ caller[c].at = "send" /\ c \in StdioCallers
  BY DEF Register, NewID
<1>3. n \in 1 .. nextID' /\ n \notin 1 .. nextID /\ 1 .. nextID \subseteq 1 .. nextID'
      /\ \A k \in Nat : k <= nextID => k <= nextID' /\ k # n
  BY <1>0, <1>2
<1>4. /\ n \notin DOMAIN pending /\ DOMAIN pending' = DOMAIN pending \cup {n}
      /\ \A i \in DOMAIN pending : pending'[i] = pending[i]
      /\ pending'[n] = s
  BY <1>0, <1>2, <1>3 DEF PipeTypes
<1>5. InFlight(c) /\ s \in 1 .. serial /\ Unused(s)
  BY <1>0, <1>2 DEF CallerInv, InFlight
<1> HIDE DEF n
<1>6. CallerTypes' /\ PipeTypes'
  <2>1. pending' \in [DOMAIN pending' -> 1 .. serial']
    BY <1>0, <1>2, <1>4, <1>5 DEF PipeTypes
  <2> QED
    BY <1>0, <1>1, <1>2, <1>3, <1>4, <2>1 DEF OnlyMoves, CallerTypes, PipeTypes
<1> HIDE DEF s
<1>7. Channels' = Channels \cup {s}
  BY <1>4 DEF Channels
<1>8. \A u : u # s /\ Unused(u) => Unused(u)'
  BY <1>2, <1>7 DEF Unused
<1>9. \A d \in McpCallers \ {c} : caller'[d] = caller[d] /\ (InFlight(d) => caller[d].serial # s)
  BY <1>1, <1>5 DEF OnlyMoves, IInv, OneCaller, s
<1>10. ASSUME NEW d \in McpCallers PROVE CallerInv(d)'
  <2>1. CASE d = c
    <3>1. CallerInv(c) /\ InFlight(c)
      BY <1>0, <1>5
    <3> QED
      BY <1>1, <1>2, <1>3, <1>4, <1>5, <2>1, <3>1 DEF CallerInv, InFlight, MayHand, Kind, Exempt
  <2>2. CASE d # c
    <3>1. caller'[d] = caller[d] /\ CallerInv(d) /\ (InFlight(d) => caller[d].serial # s)
      BY <1>0, <1>9, <2>2
    <3>2. caller[d].id \in DOMAIN pending' /\ caller[d].id \in 1 .. nextID =>
            caller[d].id \in DOMAIN pending /\ pending'[caller[d].id] = pending[caller[d].id]
      BY <1>3, <1>4
    <3> QED
      BY <1>2, <1>3, <1>8, <3>1, <3>2 DEF CallerInv, InFlight, MayHand, Kind, Exempt
  <2> QED
    BY <2>1, <2>2
<1>11. OneCaller'
  <2>1. \A d \in McpCallers : /\ InFlight(d)' => InFlight(d)
                              /\ caller'[d].serial = caller[d].serial
    BY <1>1, <1>5, <1>9 DEF InFlight, s
  <2> QED
    BY <2>1 DEF IInv, OneCaller
<1>12. RouteInv'
  <2>1. \A q \in RequestType : Routed(q) => Routed(q)'
    BY <1>3, <1>4 DEF Routed, RequestType
  <2>2. \A q \in inbox' : Routed(q)'
    BY <1>0, <1>2, <2>1 DEF IInv, RouteInv, PipeTypes
  <2>3. \A k \in 1 .. Len(stdout') : Routed(stdout[k])'
    <3>1. \A k \in 1 .. Len(stdout) : stdout[k] \in RequestType
      BY <1>0, ElementOfSeq DEF PipeTypes
    <3>2. \A k \in 1 .. Len(stdout) : Routed(stdout[k])
      BY DEF IInv, RouteInv
    <3> QED
      BY <1>2, <2>1, <3>1, <3>2 DEF Routed
  <2>4. \A i, j \in DOMAIN pending' : pending'[i] = pending'[j] => i = j
    BY <1>4, <1>5 DEF IInv, RouteInv, Unused, Channels
  <2> QED
    BY <2>2, <2>3, <2>4 DEF RouteInv
<1>13. ReplyInv'
  BY <1>2, <1>5, <1>7 DEF IInv, ReplyInv, Settled, Unused
<1>14. CountInv'
  <2>1. IsFiniteSet(Unsent) /\ s \in Unsent
    BY <1>0, <1>2, UnsentFinite DEF Unsent, s
  <2>2. Unsent' \subseteq Unsent \ {s}
    BY <1>1, <1>9 DEF Unsent, InFlight, McpCallers
  <2>3. /\ IsFiniteSet(Unsent \ {s})
        /\ Cardinality(Unsent \ {s}) = Cardinality(Unsent) - 1
    BY <2>1, FS_RemoveElement
  <2>4. Cardinality(Unsent') <= Cardinality(Unsent) - 1 /\ IsFiniteSet(Unsent')
    BY <2>2, <2>3, FS_Subset
  <2>5. Cardinality(Unsent) \in Nat /\ Cardinality(Unsent') \in Nat
    BY <2>1, <2>4, FS_CardinalityType
  <2>6. nextID + Cardinality(Unsent) <= serial /\ nextID' = nextID + 1 /\ serial' = serial
    BY <1>2 DEF IInv, CountInv, n
  <2>7. nextID' + Cardinality(Unsent') <= serial'
    BY <1>0, <2>4, <2>5, <2>6
  <2> QED
    BY <2>7 DEF CountInv
<1>15. PendingWaits'
  <2> SUFFICES ASSUME stdin' # "gone", NEW i \in DOMAIN pending'
               PROVE  \E d \in StdioCallers : caller'[d].at \in {"write", "wait"} /\ caller'[d].id = i
    BY DEF PendingWaits
  <2>1. CASE i = n
    BY <1>1, <1>2, <2>1
  <2>2. CASE i \in DOMAIN pending
    <3>1. PICK d \in StdioCallers : caller[d].at \in {"write", "wait"} /\ caller[d].id = i
      BY <1>2, <2>2 DEF IInv, PendingWaits
    <3>2. d # c /\ d \in McpCallers
      BY <1>2, <3>1 DEF McpCallers
    <3> QED
      BY <1>9, <3>1, <3>2
  <2> QED
    BY <1>4, <2>1, <2>2
<1> QED
  BY <1>6, <1>10, <1>11, <1>12, <1>13, <1>14, <1>15 DEF IInv

(* The subprocess reads the request, under the id it was registered with.  *)
LEMMA WriteStep ==
    ASSUME IInv, NEW c \in McpCallers, caller[c].at = "write",
           caller' = [caller EXCEPT ![c].at = "wait"],
           inbox' = inbox \cup {[id |-> caller[c].id, of |-> caller[c].serial]},
           UNCHANGED <<serial, nextID, pending, delivered, reader, stdin, stdout>>
    PROVE  IInv'
<1>0. /\ CallerTypes /\ PipeTypes
      /\ \A d \in McpCallers : CallerInv(d)
  BY DEF IInv
<1>1. /\ OnlyMoves(c) /\ caller'[c].at = "wait" /\ caller'[c].id = caller[c].id
      /\ caller'[c].serial = caller[c].serial /\ caller'[c].rest = caller[c].rest
      /\ caller'[c].effect = caller[c].effect /\ caller'[c].form = caller[c].form
  BY <1>0, WriteMoves
<1> DEFINE new == [id |-> caller[c].id, of |-> caller[c].serial]
<1>2. new \in RequestType /\ Routed(new)
  <2>1. /\ caller[c].id \in Nat /\ caller[c].serial \in Nat /\ caller[c].id <= nextID
        /\ caller[c].id \in DOMAIN pending => pending[caller[c].id] = caller[c].serial
    BY <1>0, CallerFacts DEF CallerInv, PipeTypes
  <2> QED
    BY <2>1 DEF RequestType, Routed
<1> HIDE DEF new
<1>3. inbox' = inbox \cup {new}
  BY DEF new
<1>4. CallerTypes' /\ PipeTypes'
  BY <1>0, <1>1, <1>2, <1>3 DEF OnlyMoves, CallerTypes, PipeTypes
<1>5. \A s : Unused(s)' <=> Unused(s)
  BY DEF Unused, Channels
<1>6. \A d \in McpCallers :
        /\ InFlight(d)' <=> InFlight(d)
        /\ caller'[d].serial = caller[d].serial /\ caller'[d].id = caller[d].id
        /\ caller'[d].rest = caller[d].rest /\ caller'[d].effect = caller[d].effect
        /\ caller'[d].form = caller[d].form
        /\ caller'[d].at = "send" <=> caller[d].at = "send"
        /\ caller'[d].at \in {"write", "wait"} <=> caller[d].at \in {"write", "wait"}
  BY <1>1 DEF OnlyMoves, InFlight
<1>7. ASSUME NEW d \in McpCallers PROVE CallerInv(d)'
  <2>1. MayHand(d, caller[d].effect)' <=> MayHand(d, caller[d].effect)
    BY <1>6 DEF MayHand, Kind, Exempt
  <2>2. CallerInv(d)
    BY <1>0
  <2>3. Unused(caller[d].serial)' <=> Unused(caller[d].serial)
    BY <1>5, <1>6
  <2>4. /\ InFlight(d)' <=> InFlight(d)
        /\ caller'[d].serial = caller[d].serial /\ caller'[d].id = caller[d].id
        /\ caller'[d].rest = caller[d].rest
        /\ caller'[d].at = "send" <=> caller[d].at = "send"
        /\ caller'[d].at \in {"write", "wait"} <=> caller[d].at \in {"write", "wait"}
    BY <1>6
  <2> QED
    BY <2>1, <2>2, <2>3, <2>4 DEF CallerInv
<1>8. OneCaller'
  BY <1>6 DEF IInv, OneCaller
<1>9. RouteInv' /\ ReplyInv'
  BY <1>2, <1>3 DEF IInv, RouteInv, ReplyInv, Routed, Settled, Channels
<1>10. CountInv'
  <2>1. Unsent' = Unsent
    BY <1>6 DEF Unsent, McpCallers
  <2> QED
    BY <2>1 DEF IInv, CountInv
<1>11. PendingWaits'
  BY <1>6 DEF IInv, PendingWaits, McpCallers
<1> QED
  BY <1>4, <1>7, <1>8, <1>9, <1>10, <1>11 DEF IInv

(* The subprocess and the pipe: requests and replies move, and no more     *)
(* callers wait.                                                           *)
LEMMA PipeStep ==
    ASSUME IInv, UNCHANGED <<caller, serial, nextID, pending, delivered>>,
           reader' = reader \/ reader' = [at |-> "ended"],
           stdin' \in {"open", "full", "broken", "gone"}, stdin' # "gone" => stdin # "gone",
           inbox' \subseteq inbox,
           stdout' \in Seq(RequestType),
           \A k \in 1 .. Len(stdout') : Routed(stdout'[k])
    PROVE  IInv'
<1>1. CallerTypes' /\ PipeTypes'
  BY DEF IInv, CallerTypes, PipeTypes, ReaderType
<1>2. reader'.at = "sending" => reader' = reader
  OBVIOUS
<1>3. \A s : Unused(s) => Unused(s)'
  BY <1>2 DEF Unused, Channels
<1>4. \A d \in McpCallers : CallerInv(d)'
  BY <1>3 DEF IInv, CallerInv, InFlight, MayHand, Kind, Exempt
<1>5. OneCaller' /\ CountInv' /\ PendingWaits'
  BY DEF IInv, OneCaller, InFlight, CountInv, Unsent, PendingWaits
<1>6. \A q : Routed(q) <=> q.id <= nextID' /\ (q.id \in DOMAIN pending' => pending'[q.id] = q.of)
  BY DEF Routed
<1>7. RouteInv'
  BY <1>6 DEF IInv, RouteInv, Routed
<1>8. ReplyInv'
  BY <1>2 DEF IInv, ReplyInv, Settled, Channels
<1> QED
  BY <1>1, <1>4, <1>5, <1>7, <1>8 DEF IInv

(* The reader sends what it took out of the table. *)
LEMMA SendStep ==
    ASSUME IInv, SendReply
    PROVE  IInv'
<1> DEFINE new == [chan |-> reader.chan, of |-> reader.of]
<1>1. /\ reader.at = "sending" /\ delivered' = delivered \cup {new} /\ reader' = [at |-> "scan"]
      /\ UNCHANGED <<caller, serial, nextID, pending, stdin, inbox, stdout>>
  BY DEF SendReply
<1>2. new \in ReplyType /\ new.chan = reader.chan /\ Settled(new)
  <2>1. reader.chan \in Nat /\ reader.of \in Nat
    BY <1>1 DEF IInv, PipeTypes, ReaderType
  <2> QED
    BY <1>1, <2>1 DEF IInv, ReplyInv, Settled, ReplyType
<1> HIDE DEF new
<1>3. CallerTypes' /\ PipeTypes'
  BY <1>1, <1>2 DEF IInv, CallerTypes, PipeTypes, ReaderType
<1>4. \A s : Unused(s) => Unused(s)'
  BY <1>1, <1>2 DEF Unused, Channels
<1>5. \A d \in McpCallers : CallerInv(d)'
  BY <1>1, <1>4 DEF IInv, CallerInv, InFlight, MayHand, Kind, Exempt
<1>6. OneCaller' /\ CountInv' /\ PendingWaits' /\ RouteInv'
  BY <1>1 DEF IInv, OneCaller, InFlight, CountInv, Unsent, PendingWaits, RouteInv, Routed
<1>7. ReplyInv'
  BY <1>1, <1>2 DEF IInv, ReplyInv, Settled, Channels
<1> QED
  BY <1>3, <1>5, <1>6, <1>7 DEF IInv

LEMMA HeadAndTail ==
    ASSUME stdout \in Seq(RequestType), stdout # <<>>,
           \A k \in 1 .. Len(stdout) : Routed(stdout[k])
    PROVE  /\ Head(stdout) \in RequestType /\ Routed(Head(stdout))
           /\ Tail(stdout) \in Seq(RequestType)
           /\ \A k \in 1 .. Len(Tail(stdout)) : Routed(Tail(stdout)[k])
<1>1. /\ Len(stdout) \in Nat \ {0} /\ Head(stdout) = stdout[1]
      /\ Tail(stdout) \in Seq(RequestType) /\ Len(Tail(stdout)) = Len(stdout) - 1
      /\ \A k \in 1 .. Len(Tail(stdout)) : Tail(stdout)[k] = stdout[k + 1]
  BY EmptySeq, HeadTailProperties
<1>2. 1 \in 1 .. Len(stdout) /\ \A k \in 1 .. Len(Tail(stdout)) : k + 1 \in 1 .. Len(stdout)
  BY <1>1
<1>3. stdout[1] \in RequestType
  BY <1>2, ElementOfSeq
<1> QED
  BY <1>1, <1>2, <1>3

(* readSubprocessResponses finds the channel of a reply: it is the channel *)
(* of the request the reply answers, and no longer in the table.           *)
LEMMA RouteStep ==
    ASSUME IInv, RouteReply, Head(stdout).id \in DOMAIN pending
    PROVE  IInv'
<1> DEFINE q == Head(stdout)
           chan == pending[q.id]
<1>0. CallerTypes /\ PipeTypes /\ \A d \in McpCallers : CallerInv(d)
  BY DEF IInv
<1>1. /\ stdout # <<>> /\ reader.at = "scan" /\ stdout' = Tail(stdout)
      /\ pending' = [i \in DOMAIN pending \ {q.id} |-> pending[i]]
      /\ reader' = [at |-> "sending", chan |-> chan, of |-> q.of]
      /\ UNCHANGED <<caller, serial, nextID, delivered, stdin, inbox>>
  BY DEF RouteReply, Without
<1>2. /\ q \in RequestType /\ Routed(q) /\ stdout' \in Seq(RequestType)
      /\ \A k \in 1 .. Len(stdout') : Routed(stdout'[k])
  BY <1>0, <1>1, HeadAndTail DEF IInv, RouteInv, PipeTypes
<1>3. q.id \in DOMAIN pending /\ chan = q.of /\ chan \in 1 .. serial /\ chan \in Nat /\ q.of \in Nat
  BY <1>0, <1>2 DEF Routed, PipeTypes, RequestType
<1>4. /\ DOMAIN pending' \subseteq DOMAIN pending
      /\ \A i \in DOMAIN pending' : pending'[i] = pending[i]
      /\ q.id \notin DOMAIN pending'
  BY <1>1
<1>5. Channels' \subseteq Channels /\ chan \in Channels /\ chan \notin Channels'
  <2>1. Channels' \subseteq Channels /\ chan \in Channels
    BY <1>3, <1>4 DEF Channels
  <2>2. \A i \in DOMAIN pending' : pending'[i] # chan
    BY <1>3, <1>4 DEF IInv, RouteInv
  <2> QED
    BY <2>1, <2>2 DEF Channels
<1>6. reader'.at = "sending" /\ reader'.chan = chan /\ reader'.of = q.of /\ reader' \in ReaderType
  BY <1>1, <1>3 DEF ReaderType
<1> HIDE DEF q, chan
<1>7. CallerTypes' /\ PipeTypes'
  BY <1>0, <1>1, <1>2, <1>4, <1>6 DEF CallerTypes, PipeTypes
<1>8. \A s : Unused(s) => Unused(s)'
  BY <1>1, <1>5, <1>6 DEF Unused
<1>9. \A d \in McpCallers : CallerInv(d)'
  BY <1>0, <1>1, <1>4, <1>8 DEF CallerInv, InFlight, MayHand, Kind, Exempt
<1>10. OneCaller' /\ CountInv' /\ PendingWaits'
  BY <1>1, <1>4 DEF IInv, OneCaller, InFlight, CountInv, Unsent, PendingWaits
<1>11. RouteInv'
  <2>1. \A r : Routed(r) => r.id <= nextID' /\ (r.id \in DOMAIN pending' => pending'[r.id] = r.of)
    BY <1>1, <1>4 DEF Routed
  <2>2. \A i, j \in DOMAIN pending' : pending'[i] = pending'[j] => i = j
    BY <1>4 DEF IInv, RouteInv
  <2> QED
    BY <1>1, <1>2, <2>1, <2>2 DEF IInv, RouteInv, Routed
<1>12. ReplyInv'
  BY <1>1, <1>3, <1>5, <1>6 DEF IInv, ReplyInv, Settled
<1> QED
  BY <1>7, <1>9, <1>10, <1>11, <1>12 DEF IInv

-------------------------------------------------------------------------------
(* The invariant holds *)

LEMMA InvInit == McpInit => IInv
<1> SUFFICES ASSUME McpInit PROVE IInv
  OBVIOUS
<1>1. /\ lines = 0 /\ nextID = 0 /\ serial = 0 /\ pending = <<>> /\ delivered = {}
      /\ reader = [at |-> "scan"] /\ stdin = "open" /\ inbox = {} /\ stdout = <<>>
      /\ \A c \in McpCallers : caller[c].at = "idle"
  BY RestingType DEF McpInit
<1>2. CallerTypes
  BY RestingType DEF McpInit, CallerTypes
<1>3. PipeTypes
  BY <1>1 DEF PipeTypes, ReaderType
<1>4. (\A c \in McpCallers : CallerInv(c)) /\ OneCaller
  BY <1>1 DEF CallerInv, OneCaller, InFlight
<1>5. DOMAIN pending = {} /\ Len(stdout) = 0
  BY <1>1
<1>6. RouteInv /\ ReplyInv /\ PendingWaits
  BY <1>1, <1>5 DEF RouteInv, ReplyInv, PendingWaits
<1>7. CountInv
  <2>1. Unsent = {}
    BY <1>1 DEF Unsent, McpCallers
  <2>2. Cardinality(Unsent) = 0
    BY <2>1, FS_EmptySet
  <2> QED
    BY <1>1, <2>2 DEF CountInv
<1> QED
  BY <1>2, <1>3, <1>4, <1>6, <1>7 DEF IInv

(* A message that was answered without its reply from the server.          *)
LEMMA ExcuseStep ==
    ASSUME IInv, NEW c \in McpCallers, NEW e \in Excuses, Answered(c, Says(e)),
           caller[c].rest # <<>>, caller[c].at \notin {"write", "wait"},
           UNCHANGED <<serial, pipeVars>>
    PROVE  IInv'
<1>1. Says(e) \in AnswerType
  BY DEF Says, AnswerType
<1>2. OnlyMoves(c) /\ caller'[c].at = "next"
  BY <1>1, AnsweredMoves DEF IInv
<1>3. pending = [i \in DOMAIN pending |-> pending[i]]
  BY DEF IInv, PipeTypes
<1> QED
  BY <1>2, <1>3, SettleStep DEF pipeVars, IInv, PipeTypes

(* A line that ends, answered or not. *)
LEMMA RestStep ==
    ASSUME IInv, NEW c \in McpCallers, caller' = [caller EXCEPT ![c] = Resting],
           caller[c].at \notin {"write", "wait"} \/ stdin' = "gone",
           stdin' = stdin \/ stdin' = "gone",
           UNCHANGED <<serial, nextID, pending, delivered, reader, inbox, stdout>>
    PROVE  IInv'
<1>1. OnlyMoves(c) /\ caller'[c].at = "idle"
  BY RestMoves DEF IInv
<1>2. pending = [i \in DOMAIN pending |-> pending[i]]
  BY DEF IInv, PipeTypes
<1> QED
  BY <1>1, <1>2, SettleStep DEF IInv, PipeTypes

(* The upstream's answer, its failure, or the end of its event stream.      *)
LEMMA UpstreamKeeps ==
    ASSUME IInv, NEW c \in McpCallers, UpstreamEnds(c)
    PROVE  IInv'
<1>0. CallerTypes /\ PipeTypes /\ CallerInv(c)
  BY DEF IInv
<1>1. caller[c].rest # <<>> /\ caller[c].at = "send" /\ caller[c].serial \in Nat
  BY <1>0, CallerFacts DEF UpstreamEnds, CallerInv, InFlight
<1>2. CASE Abort(c)
  BY <1>1, <1>2, RestStep DEF UpstreamEnds, Abort
<1>3. CASE Answered(c, Says("upstream error")) /\ UNCHANGED stdin
  BY <1>1, <1>3, ExcuseStep DEF UpstreamEnds, Excuses, pipeVars
<1>4. CASE Answered(c, ReplyTo(c, caller[c].serial)) /\ UNCHANGED stdin
  <2>1. ReplyTo(c, caller[c].serial) \in AnswerType
    BY <1>1 DEF ReplyTo, AnswerType, OwnReplies
  <2>2. OnlyMoves(c) /\ caller'[c].at = "next"
    BY <1>0, <1>1, <1>4, <2>1, AnsweredMoves
  <2>3. pending = [i \in DOMAIN pending |-> pending[i]]
    BY <1>0 DEF PipeTypes
  <2> QED
    BY <1>0, <1>1, <1>4, <2>2, <2>3, SettleStep DEF UpstreamEnds, PipeTypes
<1> QED
  BY <1>2, <1>3, <1>4 DEF UpstreamEnds

LEMMA HandleKeeps ==
    ASSUME IInv, NEW c \in McpCallers, Handle(c)
    PROVE  IInv'
<1>0. CallerTypes /\ PipeTypes /\ CallerInv(c)
  BY DEF IInv
<1>1. ASSUME Respond(c) PROVE IInv'
  BY <1>1, RestStep DEF Respond, pipeVars
<1>2. ASSUME Malformed(c) PROVE IInv'
  <2>1. ASSUME Abort(c) PROVE IInv'
    BY <1>2, <2>1, RestStep DEF Malformed, Abort
  <2>2. ASSUME Answered(c, Says("invalid params")) /\ UNCHANGED stdin PROVE IInv'
    BY <1>2, <2>2, ExcuseStep DEF Malformed, Excuses, pipeVars
  <2> QED
    BY <1>2, <2>1, <2>2 DEF Malformed
<1>3. ASSUME PassThrough(c) PROVE IInv'
  BY <1>3, HandStep DEF PassThrough, IsGoverned, MayHand
<1>4. ASSUME GovernCall(c) PROVE IInv'
  <2>1. PICK e \in McpEffects :
          IF e \in LetsThrough(c)
            THEN Hand(c, e)
            ELSE /\ Answered(c, Says(CASE e = "DENY" -> "denied" [] e = "DEFER" -> "pending_approval"
                                       [] OTHER -> "unexpected effect"))
                 /\ UNCHANGED serial
    BY <1>4 DEF GovernCall
  <2>2. CASE e \in LetsThrough(c)
    <3>1. e \in Forwarded
      BY <2>2, McpAssumption DEF LetsThrough, Forwarded
    <3> QED
      BY <1>4, <2>1, <2>2, <3>1, HandStep DEF GovernCall, MayHand
  <2>3. CASE e \notin LetsThrough(c)
    <3>1. PICK x \in Excuses : Answered(c, Says(x)) /\ UNCHANGED serial
      BY <2>1, <2>3 DEF Excuses
    <3> QED
      BY <1>4, <3>1, ExcuseStep DEF GovernCall
  <2> QED
    BY <2>2, <2>3
<1>5. ASSUME Register(c) PROVE IInv'
  BY <1>5, TableStep
<1>6. ASSUME Write(c) PROVE IInv'
  <2>1. CASE Abort(c)
    <3>1. c \in StdioCallers
      BY <1>0, <1>6 DEF Write, CallerInv
    <3> QED
      BY <1>6, <2>1, <3>1, RestStep DEF Write, Abort
  <2>2. CASE ~Abort(c)
    BY <1>6, <2>2, WriteStep DEF Write
  <2> QED
    BY <2>1, <2>2
<1>7. ASSUME Upstream(c) PROVE IInv'
  BY <1>7, UpstreamKeeps DEF Upstream
<1> QED
  BY <1>1, <1>2, <1>3, <1>4, <1>5, <1>6, <1>7 DEF Handle

LEMMA InvStep ==
    ASSUME IInv, McpNext
    PROVE  IInv'
<1>0. CallerTypes /\ PipeTypes /\ (\A c \in McpCallers : CallerInv(c)) /\ ReplyInv /\ RouteInv
  BY DEF IInv
<1>1. ASSUME NEW c \in McpCallers, ReadLine(c) PROVE IInv'
  <2>1. OnlyMoves(c) /\ caller'[c].at = "next"
    BY <1>0, <1>1, ReadMoves
  <2>2. pending = [i \in DOMAIN pending |-> pending[i]]
    BY <1>0 DEF PipeTypes
  <2> QED
    BY <1>0, <1>1, <2>1, <2>2, SettleStep DEF ReadLine, pipeVars, PipeTypes
<1>2. ASSUME NEW c \in McpCallers, TakeReply(c) PROVE IInv'
  <2>0. /\ caller[c].at = "wait" /\ caller[c].rest # <<>> /\ caller[c].serial \in Nat
        /\ caller[c].id \in DOMAIN pending => pending[caller[c].id] = caller[c].serial
        /\ UNCHANGED <<serial, nextID, pending, reader, stdin, inbox, stdout>>
    BY <1>0, <1>2, CallerFacts DEF TakeReply, CallerInv, InFlight
  <2>1. PICK d \in delivered :
          /\ d.chan = caller[c].serial /\ delivered' = delivered \ {d}
          /\ Answered(c, ReplyTo(c, d.of))
    BY <1>2 DEF TakeReply
  <2>2. d.of = caller[c].serial /\ caller[c].id \notin DOMAIN pending
    BY <1>0, <2>0, <2>1 DEF ReplyInv, Settled, Channels
  <2>3. ReplyTo(c, d.of) \in AnswerType
    BY <2>0, <2>2 DEF ReplyTo, AnswerType, OwnReplies
  <2>4. OnlyMoves(c) /\ caller'[c].at = "next"
    BY <1>0, <2>0, <2>1, <2>3, AnsweredMoves
  <2>5. pending = [i \in DOMAIN pending |-> pending[i]]
    BY <1>0 DEF PipeTypes
  <2> QED
    BY <1>0, <2>0, <2>1, <2>2, <2>4, <2>5, SettleStep DEF PipeTypes
<1>3. ASSUME NEW c \in McpCallers, TimeOut(c) PROVE IInv'
  <2>1. /\ pending' = [i \in DOMAIN pending \ {caller[c].id} |-> pending[i]]
        /\ Answered(c, Says("timeout")) /\ caller[c].rest # <<>>
        /\ UNCHANGED <<serial, nextID, delivered, reader, stdin, inbox, stdout>>
    BY <1>0, <1>3 DEF TimeOut, Without, CallerInv, InFlight
  <2>2. Says("timeout") \in AnswerType
    BY DEF Says, AnswerType, Excuses
  <2>3. OnlyMoves(c) /\ caller'[c].at = "next"
    BY <1>0, <2>1, <2>2, AnsweredMoves
  <2>4. DOMAIN pending' = DOMAIN pending \ {caller[c].id}
    BY <2>1
  <2> QED
    BY <1>0, <2>1, <2>3, <2>4, SettleStep DEF PipeTypes
<1>4. ASSUME RouteReply PROVE IInv'
  <2>1. CASE Head(stdout).id \in DOMAIN pending
    BY <1>4, <2>1, RouteStep
  <2>2. CASE Head(stdout).id \notin DOMAIN pending
    <3>1. /\ UNCHANGED <<caller, serial, nextID, pending, delivered, reader, stdin, inbox>>
          /\ stdout' = Tail(stdout) /\ stdout # <<>>
      BY <1>4, <2>2 DEF RouteReply
    <3>2. stdout' \in Seq(RequestType) /\ \A k \in 1 .. Len(stdout') : Routed(stdout'[k])
      BY <1>0, <3>1, HeadAndTail DEF RouteInv, PipeTypes
    <3> QED
      BY <1>0, <3>1, <3>2, PipeStep DEF PipeTypes
  <2> QED
    BY <2>1, <2>2
<1>5. ASSUME SendReply PROVE IInv'
  BY <1>5, SendStep
<1>6. ASSUME EndReader \/ SubprocessStalls \/ SubprocessDies PROVE IInv'
  BY <1>0, <1>6, PipeStep DEF EndReader, SubprocessStalls, SubprocessDies, PipeTypes, RouteInv
<1>8. ASSUME NEW c \in McpCallers, EventStream(c) PROVE IInv'
  BY <1>8, UpstreamKeeps DEF EventStream
<1>7. ASSUME Reply PROVE IInv'
  <2>1. PICK q \in inbox :
          /\ stdout' = Append(stdout, q) /\ inbox' \subseteq inbox
          /\ UNCHANGED <<caller, serial, nextID, pending, delivered, reader, stdin>>
    BY <1>7 DEF Reply
  <2>2. q \in RequestType /\ Routed(q) /\ stdout \in Seq(RequestType)
    BY <1>0 DEF RouteInv, PipeTypes
  <2>3. /\ stdout' \in Seq(RequestType) /\ Len(stdout') = Len(stdout) + 1
        /\ stdout'[Len(stdout) + 1] = q
        /\ \A k \in 1 .. Len(stdout) : stdout'[k] = stdout[k]
    BY <2>1, <2>2, AppendProperties
  <2>4. \A k \in 1 .. Len(stdout') : Routed(stdout'[k])
    BY <1>0, <2>2, <2>3 DEF RouteInv
  <2> QED
    BY <1>0, <2>1, <2>3, <2>4, PipeStep DEF PipeTypes
<1> QED
  BY <1>1, <1>2, <1>3, <1>4, <1>5, <1>6, <1>7, <1>8, HandleKeeps DEF McpNext

LEMMA Invariance == McpSpec => []IInv
<1>1. IInv /\ [McpNext]_mcpVars => IInv'
  <2> SUFFICES ASSUME IInv, UNCHANGED mcpVars PROVE IInv'
    BY InvStep
  <2>1. /\ UNCHANGED <<caller, serial, nextID, pending, delivered, reader, stdin, inbox, stdout>>
    BY DEF mcpVars
  <2> QED
    BY <2>1, PipeStep DEF IInv, PipeTypes, RouteInv
<1> QED
  BY <1>1, InvInit, PTL DEF McpSpec

(* However late, twice or out of order the subprocess replies, and however *)
(* many requests have timed out: every reply a client gets is the reply to *)
(* its own request, only calls that were let through are handed to a       *)
(* server, and the table of waiting requests holds nobody who is answered. *)
THEOREM GatewayIsSafe == McpSpec => []McpSafe
<1>1. IInv => McpTypeOK
  <2> SUFFICES ASSUME IInv PROVE McpTypeOK
    OBVIOUS
  <2>1. nextID <= serial
    <3>1. Cardinality(Unsent) \in Nat
      BY UnsentFinite, FS_CardinalityType DEF IInv
    <3> QED
      BY <3>1 DEF IInv, CountInv, PipeTypes
  <2> QED
    BY <2>1, CallerFacts DEF IInv, McpTypeOK, PipeTypes
<1>2. IInv => RepliesAreOwn
  <2> SUFFICES ASSUME IInv, NEW c \in McpCallers, NEW i \in 1 .. Len(caller[c].out),
                      caller[c].out[i].is = "reply"
               PROVE  caller[c].out[i].asked = caller[c].out[i].got
    BY DEF RepliesAreOwn
  <2>1. caller[c].out \in Seq(AnswerType)
    BY CallerFacts DEF IInv
  <2>2. caller[c].out[i] \in AnswerType
    BY <2>1, ElementOfSeq
  <2> QED
    BY <2>2 DEF AnswerType, OwnReplies, Excuses
<1>3. IInv => CallsAreGoverned
  BY DEF IInv, CallsAreGoverned, CallerInv, InFlight, MayHand, Forwarded
<1>4. IInv => PendingWaits
  BY DEF IInv
<1> QED
  BY <1>1, <1>2, <1>3, <1>4, Invariance, PTL DEF McpSafe
===============================================================================
