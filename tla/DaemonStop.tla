------------------------------ MODULE DaemonStop ------------------------------
(***************************************************************************)
(* The end of the daemon: Daemon.stop (daemon/daemon.go) closes the        *)
(* adapters and then, one after the other, everything an evaluation hands  *)
(* its decision to, while evaluations, and the goroutines they started,    *)
(* may still be under way.                                                 *)
(*                                                                         *)
(* A decision is a number.  After the log accepted it, it goes to the      *)
(* record queue (jobs/dpr_queue.go) or a goroutine that saves it, to the   *)
(* webhook sender (webhook/sender.go) and to the Horizon syncer            *)
(* (cloud/sync.go); the last two by goroutines nobody waits for.           *)
(***************************************************************************)
EXTENDS Naturals, Sequences, FiniteSets

CONSTANTS
    Handlers,       \* goroutines of the adapters that serve a client
    SdkHandlers,    \* those of the SDK socket, one per connection
    GrpcHandlers,   \* those of the gRPC adapter; the others serve HTTP
    HealthWatches,  \* streams of the gRPC health service that clients may open
    MaxDecisions,   \* bound on the calls clients make
    ChannelCap      \* buffer of the record queue, and of the other two

ASSUME DaemonStopAssumption ==
    /\ SdkHandlers \subseteq Handlers /\ GrpcHandlers \subseteq Handlers
    /\ SdkHandlers \cap GrpcHandlers = {}
    /\ IsFiniteSet(Handlers)
    /\ MaxDecisions \in Nat
    /\ ChannelCap \in Nat \ {0}

VARIABLES
    stopStep,   \* where stop() is, "running" before it and "stopped" after
    decisions,  \* number of decisions made
    handler,    \* what each handler does, and for which decision
    waited,     \* gRPC handlers whose call was deferred already
    watches,    \* streams of Health.Watch under way
    walOpen,    \* is the log's file open?
    walLogged,  \* decisions the log accepted
    dpr,        \* the record queue: channel, closed?, the worker and its record
    saves,      \* decisions that fallback goroutines are to save
    storeOpen,
    lateSaves,  \* decisions the queue's worker tried to save in a closed store
    emits,      \* decisions that emitWebhook goroutines are to send
    hooks,      \* the webhook sender: channel, closed?, has its loop ended?
    attempted,  \* webhook events whose delivery was tried
    accepted,   \* webhook events the sender took
    syncs,      \* decisions that goroutines are to hand to the syncer
    horizon     \* the syncer: channel, closed?, batch

stopVars == <<stopStep, decisions, handler, waited, watches, walOpen, walLogged, dpr, saves,
              storeOpen, lateSaves, emits, hooks, attempted, accepted, syncs, horizon>>
servingVars == <<decisions, handler, waited, watches, walLogged>>
dprVars     == <<dpr, saves, lateSaves>>
hookVars    == <<emits, hooks, attempted, accepted>>
syncVars    == <<syncs, horizon>>

StopOrder == <<"running", "sdk", "http", "grpc", "mcp", "wal", "queue", "store",
               "webhooks", "syncer", "stopped">>
Alive == stopStep \notin {"stopped", "crashed"}

(* Has stop() already passed the step that closes this part? *)
Position(s) == CHOOSE i \in 1 .. Len(StopOrder) : StopOrder[i] = s
Closing(part) == stopStep # "crashed" /\ Position(stopStep) >= Position(part)

Decisions == 1 .. MaxDecisions + Cardinality(Handlers)
At(s, d) == [at |-> s, dec |-> d]

StopInit ==
    /\ stopStep = "running" /\ decisions = 0
    /\ handler = [h \in Handlers |-> At("idle", 0)]
    /\ waited = {} /\ watches = {}
    /\ walOpen = TRUE /\ walLogged = {}
    /\ dpr = [ch |-> <<>>, closed |-> FALSE, hand |-> 0, worker |-> TRUE]
    /\ saves = {} /\ storeOpen = TRUE /\ lateSaves = {}
    /\ emits = {} /\ attempted = {} /\ accepted = {}
    /\ hooks = [ch |-> <<>>, closed |-> FALSE, done |-> FALSE]
    /\ syncs = {}
    /\ horizon = [ch |-> <<>>, closed |-> FALSE, batch |-> {}]

-------------------------------------------------------------------------------
(* Serving *)

(* A connection the SDK server accepted is served as long as the client    *)
(* keeps it; GracefulStop and http.Server.Close let no new call in.        *)
Accepts(h) ==
    \/ h \in SdkHandlers
    \/ h \in GrpcHandlers /\ ~Closing("grpc")
    \/ h \notin SdkHandlers \cup GrpcHandlers /\ ~Closing("mcp")

Serve(h) ==
    /\ Alive /\ handler[h].at = "idle" /\ Accepts(h)
    /\ decisions < MaxDecisions
    /\ decisions' = decisions + 1
    /\ handler' = [handler EXCEPT ![h] = At("evaluating", decisions + 1)]
    /\ waited' = waited \ {h}
    /\ UNCHANGED <<stopStep, watches, walOpen, walLogged, dprVars, storeOpen, hookVars, syncVars>>

(* WAL.Write: a closed file makes decide answer DENY and hand on nothing. *)
Log(h) ==
    /\ Alive /\ handler[h].at = "evaluating"
    /\ IF walOpen
         THEN /\ walLogged' = walLogged \cup {handler[h].dec}
              /\ handler' = [handler EXCEPT ![h].at = "logged"]
         ELSE /\ handler' = [handler EXCEPT ![h] = At("idle", 0)]
              /\ UNCHANGED walLogged
    /\ UNCHANGED <<stopStep, decisions, waited, watches, walOpen, dprVars, storeOpen, hookVars, syncVars>>

(* What the handler does with the decision: it answers, or the gRPC        *)
(* handler waits for an approval when the call was deferred.               *)
AfterDecision(h) ==
    \/ handler' = [handler EXCEPT ![h] = At("idle", 0)]
    \/ /\ h \in GrpcHandlers \ waited
       /\ handler' = [handler EXCEPT ![h].at = "waiting"]

(* decide after the log: the record goes to the queue, or to a goroutine   *)
(* when the queue is full; then the syncer's and the sender's goroutines.  *)
HandOn(h) ==
    LET d == handler[h].dec IN
    /\ Alive /\ handler[h].at = "logged"
    /\ ~dpr.closed
    /\ IF Len(dpr.ch) < ChannelCap
         THEN dpr' = [dpr EXCEPT !.ch = Append(@, d)] /\ UNCHANGED saves
         ELSE saves' = saves \cup {d} /\ UNCHANGED dpr
    /\ syncs' = syncs \cup {d}
    /\ emits' = emits \cup {d}
    /\ AfterDecision(h)
    /\ UNCHANGED <<stopStep, decisions, waited, watches, walOpen, walLogged, storeOpen, lateSaves,
                   hooks, attempted, accepted, horizon>>

(* EnqueueDPR sends on a closed channel and panics: net/http recovers and  *)
(* drops the connection, on the SDK socket the process dies.               *)
HandOnToClosedQueue(h) ==
    /\ Alive /\ handler[h].at = "logged" /\ dpr.closed
    /\ IF h \in SdkHandlers \cup GrpcHandlers THEN stopStep' = "crashed" ELSE UNCHANGED stopStep
    /\ handler' = [handler EXCEPT ![h] = At("idle", 0)]
    /\ UNCHANGED <<decisions, waited, watches, walOpen, walLogged, dprVars, storeOpen, hookVars, syncVars>>

(* Mutant of EndWait: nothing decides the handle. *)
EndWaitIfServing(h) ==
    /\ Alive /\ handler[h].at = "waiting" /\ stopStep = "running"
    /\ handler' = [handler EXCEPT ![h] = At("idle", 0)]
    /\ waited' = waited \cup {h}
    /\ UNCHANGED <<stopStep, decisions, watches, walOpen, walLogged, dprVars, storeOpen, hookVars, syncVars>>

(* The handle is decided or expires, or the client goes away: the call     *)
(* ends, or is evaluated once more.                                        *)
EndWait(h) ==
    /\ Alive /\ handler[h].at = "waiting"
    /\ waited' = waited \cup {h}
    /\ \/ /\ handler' = [handler EXCEPT ![h] = At("idle", 0)]
          /\ UNCHANGED decisions
       \/ /\ handler' = [handler EXCEPT ![h] = At("evaluating", decisions + 1)]
          /\ decisions' = decisions + 1
    /\ UNCHANGED <<stopStep, watches, walOpen, walLogged, dprVars, storeOpen, hookVars, syncVars>>

(* A client watches the health service, which the gRPC adapter registers   *)
(* beside its own: the stream lasts until the client ends it or is gone.   *)
Watch(k) ==
    /\ Alive /\ k \notin watches /\ ~Closing("grpc")
    /\ watches' = watches \cup {k}
    /\ UNCHANGED <<stopStep, decisions, handler, waited, walOpen, walLogged, dprVars, storeOpen,
                   hookVars, syncVars>>

EndWatch(k) ==
    /\ Alive /\ k \in watches
    /\ watches' = watches \ {k}
    /\ UNCHANGED <<stopStep, decisions, handler, waited, walOpen, walLogged, dprVars, storeOpen,
                   hookVars, syncVars>>

-------------------------------------------------------------------------------
(* The goroutines and workers behind a decision *)

(* Store.Save of a closed database returns an error, which is dropped. *)
FallbackSaves(d) ==
    /\ Alive /\ d \in saves
    /\ saves' = saves \ {d}
    /\ UNCHANGED <<stopStep, servingVars, walOpen, dpr, storeOpen, lateSaves, hookVars, syncVars>>

(* The queue's worker selects between a record and stopCh. Close closes    *)
(* both channels, so it may still take what is left, or end at once.       *)
TakeRecord ==
    /\ Alive /\ dpr.worker /\ dpr.hand = 0 /\ dpr.ch # <<>>
    /\ dpr' = [dpr EXCEPT !.hand = Head(dpr.ch), !.ch = Tail(dpr.ch)]
    /\ UNCHANGED <<stopStep, servingVars, walOpen, saves, storeOpen, lateSaves, hookVars, syncVars>>

SaveRecord ==
    /\ Alive /\ dpr.hand # 0
    /\ lateSaves' = IF storeOpen THEN lateSaves ELSE lateSaves \cup {dpr.hand}
    /\ dpr' = [dpr EXCEPT !.hand = 0]
    /\ UNCHANGED <<stopStep, servingVars, walOpen, saves, storeOpen, hookVars, syncVars>>

EndWorker ==
    /\ Alive /\ dpr.worker /\ dpr.hand = 0 /\ dpr.closed
    /\ dpr' = [dpr EXCEPT !.worker = FALSE]
    /\ UNCHANGED <<stopStep, servingVars, walOpen, saves, storeOpen, lateSaves, hookVars, syncVars>>

(* Sender.Send: a full queue drops the event, a closed one panics in a     *)
(* goroutine of its own, which ends the process.                           *)
EmitWebhook(d) ==
    /\ Alive /\ d \in emits
    /\ emits' = emits \ {d}
    /\ \/ /\ hooks.closed /\ stopStep' = "crashed"
          /\ UNCHANGED <<hooks, accepted>>
       \/ /\ ~hooks.closed /\ Len(hooks.ch) < ChannelCap
          /\ hooks' = [hooks EXCEPT !.ch = Append(@, d)]
          /\ accepted' = accepted \cup {d}
          /\ UNCHANGED stopStep
       \/ /\ ~hooks.closed /\ Len(hooks.ch) >= ChannelCap
          /\ UNCHANGED <<stopStep, hooks, accepted>>
    /\ UNCHANGED <<servingVars, walOpen, dprVars, storeOpen, attempted, syncVars>>

(* deliverLoop: up to three attempts, then the next event. *)
DeliverEvent ==
    /\ Alive /\ hooks.ch # <<>>
    /\ attempted' = attempted \cup {Head(hooks.ch)}
    /\ hooks' = [hooks EXCEPT !.ch = Tail(@)]
    /\ UNCHANGED <<stopStep, servingVars, walOpen, dprVars, storeOpen, emits, accepted, syncVars>>

(* Mutant of EndDelivery: the loop ends as soon as the channel is closed. *)
EndDeliveryAtOnce ==
    /\ Alive /\ ~hooks.done /\ hooks.closed
    /\ hooks' = [hooks EXCEPT !.done = TRUE]
    /\ UNCHANGED <<stopStep, servingVars, walOpen, dprVars, storeOpen, emits, attempted, accepted, syncVars>>

EndDelivery ==
    /\ Alive /\ ~hooks.done /\ hooks.closed /\ hooks.ch = <<>>
    /\ hooks' = [hooks EXCEPT !.done = TRUE]
    /\ UNCHANGED <<stopStep, servingVars, walOpen, dprVars, storeOpen, emits, attempted, accepted, syncVars>>

(* Syncer.SendDecision, and the same for its channel. *)
SendDecision(d) ==
    /\ Alive /\ d \in syncs
    /\ syncs' = syncs \ {d}
    /\ \/ /\ horizon.closed /\ stopStep' = "crashed"
          /\ UNCHANGED horizon
       \/ /\ ~horizon.closed /\ Len(horizon.ch) < ChannelCap
          /\ horizon' = [horizon EXCEPT !.ch = Append(@, d)]
          /\ UNCHANGED stopStep
       \/ /\ ~horizon.closed /\ Len(horizon.ch) >= ChannelCap
          /\ UNCHANGED <<stopStep, horizon>>
    /\ UNCHANGED <<servingVars, walOpen, dprVars, storeOpen, hookVars>>

(* Syncer.Run: events are collected, and posted when the ticker fires, the *)
(* batch is full or the channel is closed; what a post returns is dropped. *)
Collect ==
    /\ Alive /\ horizon.ch # <<>>
    /\ horizon' = [horizon EXCEPT !.batch = @ \cup {Head(horizon.ch)}, !.ch = Tail(@)]
    /\ UNCHANGED <<stopStep, servingVars, walOpen, dprVars, storeOpen, hookVars, syncs>>

Flush ==
    /\ Alive /\ horizon.batch # {}
    /\ horizon' = [horizon EXCEPT !.batch = {}]
    /\ UNCHANGED <<stopStep, servingVars, walOpen, dprVars, storeOpen, hookVars, syncs>>

-------------------------------------------------------------------------------
(* Daemon.stop *)

Goto(s, t) == stopStep = s /\ stopStep' = t

BeginStop == Goto("running", "sdk") /\ UNCHANGED <<servingVars, walOpen, dprVars, storeOpen, hookVars, syncVars>>

(* The SDK server drains for five seconds at most, and goes on: its        *)
(* connections may outlive it. http.Server.Close waits for no handler.     *)
CloseSdk == Goto("sdk", "http") /\ UNCHANGED <<servingVars, walOpen, dprVars, storeOpen, hookVars, syncVars>>
CloseProxy == Goto("http", "grpc") /\ UNCHANGED <<servingVars, walOpen, dprVars, storeOpen, hookVars, syncVars>>

(* GracefulStop returns when every RPC under way has, the watches too, and *)
(* has no timeout.                                                         *)
StopGrpc ==
    /\ \A h \in GrpcHandlers : handler[h].at = "idle"
    /\ watches = {}
    /\ Goto("grpc", "mcp")
    /\ UNCHANGED <<servingVars, walOpen, dprVars, storeOpen, hookVars, syncVars>>

CloseMcp == Goto("mcp", "wal") /\ UNCHANGED <<servingVars, walOpen, dprVars, storeOpen, hookVars, syncVars>>

CloseWal ==
    /\ Goto("wal", "queue")
    /\ walOpen' = FALSE
    /\ UNCHANGED <<servingVars, dprVars, storeOpen, hookVars, syncVars>>

(* Mutant of CloseQueue: the worker is not waited for. *)
CloseQueueAtOnce ==
    /\ Goto("queue", "store")
    /\ dpr' = [dpr EXCEPT !.closed = TRUE]
    /\ UNCHANGED <<servingVars, walOpen, saves, lateSaves, storeOpen, hookVars, syncVars>>

(* InprocDPRQueue.Close closes both channels, then waits for the worker. *)
CloseQueue ==
    \/ /\ stopStep = "queue" /\ ~dpr.closed
       /\ dpr' = [dpr EXCEPT !.closed = TRUE]
       /\ UNCHANGED <<stopStep, servingVars, walOpen, saves, lateSaves, storeOpen, hookVars, syncVars>>
    \/ /\ dpr.closed /\ ~dpr.worker
       /\ Goto("queue", "store")
       /\ UNCHANGED <<servingVars, walOpen, dprVars, storeOpen, hookVars, syncVars>>

CloseStore ==
    /\ Goto("store", "webhooks")
    /\ storeOpen' = FALSE
    /\ UNCHANGED <<servingVars, walOpen, dprVars, hookVars, syncVars>>

(* Sender.Close closes the channel, then waits for the delivery loop. *)
CloseWebhooks ==
    \/ /\ stopStep = "webhooks" /\ ~hooks.closed
       /\ hooks' = [hooks EXCEPT !.closed = TRUE]
       /\ UNCHANGED <<stopStep, servingVars, walOpen, dprVars, storeOpen, emits, attempted, accepted, syncVars>>
    \/ /\ hooks.done
       /\ Goto("webhooks", "syncer")
       /\ UNCHANGED <<servingVars, walOpen, dprVars, storeOpen, hookVars, syncVars>>

(* Syncer.Close closes the channel and returns; then stop does, and with   *)
(* it the process ends.                                                    *)
CloseSyncer ==
    \/ /\ stopStep = "syncer" /\ ~horizon.closed
       /\ horizon' = [horizon EXCEPT !.closed = TRUE]
       /\ UNCHANGED <<stopStep, servingVars, walOpen, dprVars, storeOpen, hookVars, syncs>>
    \/ /\ horizon.closed
       /\ Goto("syncer", "stopped")
       /\ UNCHANGED <<servingVars, walOpen, dprVars, storeOpen, hookVars, syncVars>>

StopOn ==
    \/ CloseSdk \/ CloseProxy \/ StopGrpc \/ CloseMcp \/ CloseWal
    \/ CloseQueue \/ CloseStore \/ CloseWebhooks \/ CloseSyncer

Evaluation(h) == Log(h) \/ HandOn(h) \/ HandOnToClosedQueue(h)

StopNext ==
    \/ \E h \in Handlers : Serve(h) \/ Evaluation(h) \/ EndWait(h)
    \/ \E k \in HealthWatches : Watch(k) \/ EndWatch(k)
    \/ \E d \in Decisions : FallbackSaves(d) \/ EmitWebhook(d) \/ SendDecision(d)
    \/ TakeRecord \/ SaveRecord \/ EndWorker
    \/ DeliverEvent \/ EndDelivery \/ Collect \/ Flush
    \/ BeginStop \/ StopOn

StopSpec == StopInit /\ [][StopNext]_stopVars

(* stop() runs, its workers are scheduled, an evaluation goes on, and the  *)
(* handle a gRPC call waits for expires at the latest.  Nothing makes a    *)
(* client end its watch.                                                   *)
StopFairness ==
    /\ WF_stopVars(StopOn)
    /\ WF_stopVars(TakeRecord \/ SaveRecord) /\ WF_stopVars(EndWorker)
    /\ WF_stopVars(DeliverEvent) /\ WF_stopVars(EndDelivery)
    /\ \A h \in Handlers : WF_stopVars(Evaluation(h)) /\ WF_stopVars(EndWait(h))

StopFairSpec == StopSpec /\ StopFairness

-------------------------------------------------------------------------------
(* Properties *)

StopTypeOK ==
    /\ stopStep \in {StopOrder[i] : i \in 1 .. Len(StopOrder)} \cup {"crashed"}
    /\ decisions \in 0 .. MaxDecisions + Cardinality(Handlers)
    /\ handler \in [Handlers -> [at : {"idle", "evaluating", "logged", "waiting"},
                                 dec : Decisions \cup {0}]]
    /\ waited \subseteq GrpcHandlers /\ watches \subseteq HealthWatches
    /\ walOpen \in BOOLEAN /\ storeOpen \in BOOLEAN
    /\ dpr \in [ch : Seq(walLogged), closed : BOOLEAN, hand : walLogged \cup {0}, worker : BOOLEAN]
    /\ hooks \in [ch : Seq(walLogged), closed : BOOLEAN, done : BOOLEAN]
    /\ horizon \in [ch : Seq(walLogged), closed : BOOLEAN, batch : SUBSET walLogged]
    /\ saves \cup emits \cup syncs \cup accepted \cup attempted \cup lateSaves \subseteq walLogged

(* A stop that began ends, whatever calls wait for an approval and         *)
(* whatever is queued, or the process has died of a panic on the way; only *)
(* one thing may hold it: clients that watch the health service            *)
(* (daemon.go:924 has no timeout), and then it ends once they have left.   *)
HeldByWatches ==
    /\ stopStep = "grpc" /\ watches # {}
    /\ \A h \in GrpcHandlers : handler[h].at = "idle"
StopEnds ==
    /\ stopStep = "sdk" ~> ~Alive \/ HeldByWatches
    /\ stopStep = "grpc" /\ watches = {} ~> ~Alive

(* webhook/sender.go:115, "drains remaining events": when the daemon has   *)
(* stopped, the delivery of every event the sender took was tried.         *)
WebhooksDrained == stopStep = "stopped" => attempted = accepted

(* The store is closed only once the record queue's worker has gone: it    *)
(* never writes to a closed database, however late it is scheduled.        *)
QueueStopsFirst == lateSaves = {}

(* What a stop keeps: types, the events a sender took, and the order in    *)
(* which the record queue and its store go.                                *)
StopSafe == StopTypeOK /\ WebhooksDrained /\ QueueStopsFirst

(* daemon.go:954, "flushes remaining records": when the daemon has         *)
(* stopped, the syncer has posted everything it took.                      *)
SyncerFlushed == stopStep = "stopped" => horizon.ch = <<>> /\ horizon.batch = {}

(* sender.go:81, "It is safe for concurrent use": no goroutine sends on a  *)
(* channel that was closed.                                                *)
NoSendOnClosed == stopStep # "crashed"
===============================================================================
