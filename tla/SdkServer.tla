------------------------------- MODULE SdkServer -------------------------------
(***************************************************************************)
(* The SDK socket (adapter/sdk/server.go): one goroutine per connection,   *)
(* which answers one request line after the other, and the two kinds of    *)
(* subscription, to decisions and to callback events, into which every     *)
(* connection's goroutine writes what it did.                              *)
(*                                                                         *)
(* One agent calls, and one call was deferred before: deferStatus is what  *)
(* the defer workflow says of it.                                          *)
(***************************************************************************)
EXTENDS Naturals, Sequences, FiniteSets

CONSTANTS
    SdkConns,       \* connections clients may open
    SdkTokens,      \* capacity of connTokens (256)
    SubBuffer,      \* buffer of a subscription's channel (64)
    RateBurst,      \* burst of an agent's limiter (40)
    MaxRequests     \* bound on the lines clients send

Requests == {"govern", "poll_defer", "approve_defer", "deny_defer", "kill", "scan_output",
             "audit_subscribe", "callback_subscribe", "invalid"}

ASSUME SdkAssumption ==
    SdkTokens \in Nat /\ SubBuffer \in Nat \ {0} /\ RateBurst \in Nat \ {0} /\ MaxRequests \in Nat

VARIABLES
    client,         \* the peer of each connection: "none", "open", "stalled", "left"
    handling,       \* the goroutine of each connection, and the request it has
    subs,           \* channels by connection and kind: sequences of events
    requests,       \* lines sent
    bucket,         \* tokens of the agent's rate limiter
    deferStatus

sdkVars == <<client, handling, subs, requests, bucket, deferStatus>>
peerVars == <<client, requests>>
wfVars == <<bucket, deferStatus>>

Streams == {"audit", "callback"}
Does(s, r) == [at |-> s, req |-> r]

SdkInit ==
    /\ client = [c \in SdkConns |-> "none"]
    /\ handling = [c \in SdkConns |-> Does("none", "none")]
    /\ subs = [s \in Streams |-> <<>>]
    /\ requests = 0 /\ bucket = RateBurst
    /\ deferStatus = "pending"

Serving == {c \in SdkConns : handling[c].at \notin {"none", "backlog", "ended"}}
Goes(c, s) == handling' = [handling EXCEPT ![c].at = s]

-------------------------------------------------------------------------------
(* Clients *)

Connect(c) ==
    /\ client[c] = "none"
    /\ client' = [client EXCEPT ![c] = "open"]
    /\ Goes(c, "backlog")
    /\ UNCHANGED <<requests, subs, wfVars>>

SendLine(c) ==
    /\ client[c] = "open" /\ handling[c].at = "reading" /\ requests < MaxRequests
    /\ requests' = requests + 1
    /\ \E r \in Requests : handling' = [handling EXCEPT ![c] = Does("asked", r)]
    /\ UNCHANGED <<client, subs, wfVars>>

(* A client may stop to read what it is sent, and it may leave. *)
StopReading(c) ==
    /\ client[c] = "open"
    /\ client' = [client EXCEPT ![c] = "stalled"]
    /\ UNCHANGED <<handling, subs, requests, wfVars>>

Leave(c) ==
    /\ client[c] \in {"open", "stalled"}
    /\ client' = [client EXCEPT ![c] = "left"]
    /\ UNCHANGED <<handling, subs, requests, wfVars>>

(* Beyond the limit a connection is closed unanswered. *)
Accept(c) ==
    /\ handling[c].at = "backlog"
    /\ IF Cardinality(Serving) < SdkTokens
         THEN Goes(c, "reading") /\ UNCHANGED client
         ELSE Goes(c, "ended") /\ client' = [client EXCEPT ![c] = "left"]
    /\ UNCHANGED <<requests, subs, wfVars>>

EndOfInput(c) ==
    /\ handling[c].at = "reading" /\ client[c] = "left"
    /\ Goes(c, "ended")
    /\ UNCHANGED <<peerVars, subs, wfVars>>

-------------------------------------------------------------------------------
(* Requests *)

(* writeJSON: a write to a peer that does not read blocks, one to a peer   *)
(* that left fails, and the error is dropped.                              *)
CanWrite(c) == client[c] # "stalled"

(* Mutant of Offer: a full channel makes the sender wait, with subsMu held. *)
OfferOrWait(s, e) ==
    /\ \A c \in DOMAIN subs[s] : Len(subs[s][c]) < SubBuffer
    /\ subs' = [subs EXCEPT ![s] = [c \in DOMAIN @ |-> Append(@[c], e)]]

(* broadcast, broadcastCallback: a channel that is full loses the event. *)
Offer(s, e) ==
    subs' = [subs EXCEPT ![s] = [c \in DOMAIN @ |-> IF Len(@[c]) < SubBuffer THEN Append(@[c], e) ELSE @[c]]]

Asked(c, kinds) == handling[c].at = "asked" /\ handling[c].req \in kinds

(* allowAgent: twenty a second, in a burst of forty. *)
AllowAgent == bucket > 0 /\ bucket' = bucket - 1
RateLimited == bucket = 0 /\ UNCHANGED bucket

Refill ==
    /\ bucket < RateBurst /\ bucket' = bucket + 1
    /\ UNCHANGED <<peerVars, handling, subs, deferStatus>>

(* The decision is written to the caller first, then broadcast twice. *)
Govern(c) ==
    /\ Asked(c, {"govern"})
    /\ \/ RateLimited /\ Goes(c, "replying")
       \/ AllowAgent /\ Goes(c, "decided")
    /\ UNCHANGED <<peerVars, subs, deferStatus>>

WriteDecision(c) ==
    /\ handling[c].at = "decided" /\ CanWrite(c)
    /\ Goes(c, "audit")
    /\ UNCHANGED <<peerVars, subs, wfVars>>

Broadcast(c) ==
    /\ handling[c].at = "audit"
    /\ Offer("audit", "decision")
    /\ Goes(c, "callback")
    /\ UNCHANGED <<peerVars, wfVars>>

BroadcastCallback(c) ==
    /\ handling[c].at = "callback"
    /\ Offer("callback", "decision")
    /\ Goes(c, "reading")
    /\ UNCHANGED <<peerVars, wfVars>>

(* Every poll of a token that is decided announces the decision again. *)
PollDefer(c) ==
    /\ Asked(c, {"poll_defer"})
    /\ IF deferStatus = "pending" THEN UNCHANGED subs ELSE Offer("callback", deferStatus)
    /\ Goes(c, "replying")
    /\ UNCHANGED <<peerVars, wfVars>>

(* Mutant of ApproveDefer: the error of Resolve is dropped. *)
ApproveDeferAnyway(c) ==
    /\ Asked(c, {"approve_defer", "deny_defer"})
    /\ LET s == IF handling[c].req = "approve_defer" THEN "approved" ELSE "denied" IN
         /\ deferStatus' = IF deferStatus = "pending" THEN s ELSE deferStatus
         /\ handling' = [handling EXCEPT ![c] = Does("announce", s)]
    /\ UNCHANGED <<peerVars, subs, bucket>>

(* Resolve fails on a handle that is decided; else the outcome is          *)
(* announced, in a step of its own, and acknowledged.                      *)
ApproveDefer(c) ==
    /\ Asked(c, {"approve_defer", "deny_defer"})
    /\ LET s == IF handling[c].req = "approve_defer" THEN "approved" ELSE "denied" IN
         IF deferStatus = "pending"
           THEN deferStatus' = s /\ handling' = [handling EXCEPT ![c] = Does("announce", s)]
           ELSE Goes(c, "replying") /\ UNCHANGED deferStatus
    /\ UNCHANGED <<peerVars, subs, bucket>>

Announce(c) ==
    /\ handling[c].at = "announce"
    /\ Offer("callback", handling[c].req)
    /\ Goes(c, "replying")
    /\ UNCHANGED <<peerVars, wfVars>>

(* scan_output has the limiter of govern; what does not parse has none,    *)
(* and neither has kill, which is SessionState's Kill.                     *)
ReplyOnly(c) ==
    /\ \/ Asked(c, {"scan_output"}) /\ (AllowAgent \/ RateLimited)
       \/ Asked(c, {"kill", "invalid"}) /\ UNCHANGED bucket
    /\ Goes(c, "replying")
    /\ UNCHANGED <<peerVars, subs, deferStatus>>

AnswerClient(c) ==
    /\ handling[c].at = "replying" /\ CanWrite(c)
    /\ Goes(c, "reading")
    /\ UNCHANGED <<peerVars, subs, wfVars>>

(* Subscribe: from here on the connection is written to and never read.    *)
Subscribe(c) ==
    /\ Asked(c, {"audit_subscribe", "callback_subscribe"})
    /\ LET s == IF handling[c].req = "audit_subscribe" THEN "audit" ELSE "callback" IN
         /\ subs' = [subs EXCEPT ![s] = [d \in DOMAIN @ \cup {c} |-> IF d = c THEN <<>> ELSE @[d]]]
         /\ handling' = [handling EXCEPT ![c] = Does("streaming", s)]
    /\ UNCHANGED <<peerVars, wfVars>>

(* The loop over the channel: it ends when the channel is closed, which    *)
(* only the deferred Unsubscribe behind the loop does.                     *)
Stream(c) ==
    /\ handling[c].at = "streaming" /\ CanWrite(c)
    /\ subs[handling[c].req][c] # <<>>
    /\ subs' = [subs EXCEPT ![handling[c].req][c] = Tail(@)]
    /\ UNCHANGED <<peerVars, handling, wfVars>>

(* The deferred call's deadline. *)
ExpireDefer ==
    /\ deferStatus = "pending" /\ deferStatus' = "expired"
    /\ UNCHANGED <<peerVars, handling, subs, bucket>>

SdkHandle(c) ==
    \/ Govern(c) \/ WriteDecision(c) \/ Broadcast(c) \/ BroadcastCallback(c)
    \/ PollDefer(c) \/ ApproveDefer(c) \/ Announce(c) \/ ReplyOnly(c)
    \/ AnswerClient(c) \/ Subscribe(c) \/ Stream(c) \/ EndOfInput(c)

SdkNext ==
    \/ \E c \in SdkConns : Connect(c) \/ SendLine(c) \/ StopReading(c) \/ Leave(c) \/ Accept(c) \/ SdkHandle(c)
    \/ Refill \/ ExpireDefer

SdkSpec == SdkInit /\ [][SdkNext]_sdkVars

(* The goroutines run.  Clients owe nothing. *)
SdkFairness == \A c \in SdkConns : WF_sdkVars(SdkHandle(c)) /\ WF_sdkVars(Accept(c))

SdkFairSpec == SdkSpec /\ SdkFairness

-------------------------------------------------------------------------------
(* Properties *)

SdkTypeOK ==
    /\ client \in [SdkConns -> {"none", "open", "stalled", "left"}]
    /\ requests \in 0 .. MaxRequests /\ bucket \in 0 .. RateBurst
    /\ Cardinality(Serving) <= SdkTokens
    /\ \A s \in Streams : DOMAIN subs[s] \subseteq SdkConns /\ \A c \in DOMAIN subs[s] : Len(subs[s][c]) <= SubBuffer

(* A subscriber that stops reading costs only itself events: every request *)
(* of every other connection is answered, unless its own client stopped    *)
(* reading.                                                                *)
SlowSubscriberHurtsNobody ==
    \A c \in SdkConns :
       handling[c].at = "asked" ~> handling[c].at \in {"reading", "streaming", "ended"} \/ client[c] = "stalled"

(* What subscribers are told of a deferred call, by the approver's         *)
(* connection, by polls, after a race with the deadline, is what became    *)
(* of it.                                                                  *)
AnnouncementsAgree ==
    \A c \in DOMAIN subs["callback"] : \A i \in 1 .. Len(subs["callback"][c]) :
       subs["callback"][c][i] \in {"decision", deferStatus}

(* The sockets' invariants. *)
SdkSafe == SdkTypeOK /\ AnnouncementsAgree

(* server.go:21, "until connection closes": a subscriber's goroutine, its   *)
(* channel and its connection's place are given back once the client left. *)
StreamsEnd ==
    \A c \in SdkConns : handling[c].at = "streaming" /\ client[c] = "left" ~> handling[c].at = "ended"
===============================================================================
