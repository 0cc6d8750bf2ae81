-------------------------------- MODULE HttpEdges --------------------------------
(***************************************************************************)
(* The HTTP doors of the pipeline: the external authorization server with  *)
(* its optional CONNECT and forward proxy (adapter/proxy) and the handler  *)
(* and the guard for functions (adapter/serverless). What each takes from  *)
(* a request, what it asks the pipeline, and what it does with the answer. *)
(*                                                                         *)
(* The pipeline and the defer workflow are as their callers see them: a    *)
(* call is decided and recorded; a deferral waits on a handle of the token *)
(* its call id and its tool make, which is decided once, or expires.       *)
(***************************************************************************)
EXTENDS Integers, Sequences, FiniteSets

CONSTANTS
    IPs,                \* remote addresses
    EdgeRequests,       \* requests that may arrive: see EdgeFields
    EdgeEffects,        \* effects the pipeline may decide
    ConnectProxy, ForwardHTTP,      \* options of the proxy server
    TokenHash,          \* <<call id, tool>> -> eight hex digits of their hash
    Redirects,          \* where the answers of a target may lead: lists of targets
    MostRequests,       \* requests http.Client makes for one: 10
    BucketRate, BucketBurst,        \* 30 tokens a second, at most 60
    MaxEdgeTime, MaxEdgeRequests

(* via: the kind of request; agent, header: the agent id in the body and   *)
(* in X-Faramesh-Agent-Id ("" is none); tool: the tool, or the target;     *)
(* call: the call id in the body.                                          *)
EdgeFields == {"via", "agent", "header", "tool", "session", "call"}
ASSUME EdgesAssumption ==
    /\ \A r \in EdgeRequests : DOMAIN r = EdgeFields
    /\ \A r \in EdgeRequests : r.via \in {"authorize", "connect", "absolute", "function", "guard"}
    /\ BucketRate \in Nat /\ BucketBurst \in Nat
    /\ Redirects \subseteq Seq({r.tool : r \in EdgeRequests}) /\ <<>> \in Redirects
    /\ MostRequests \in Nat \ {0}

VARIABLES
    edgeTime,       \* seconds
    bucket,         \* Server.rl: tokens of each address seen, and when they were counted
    decided,        \* calls the pipeline decided and recorded
    upstream,       \* what was let through to a target
    replies,        \* what each requester was told
    doorHandles,    \* handles of deferrals, as they were registered
    approvals,      \* approvals and denials that were told "ok"
    admitted        \* <<address, time>> of the requests the limiter let through

edgeVars == <<edgeTime, bucket, decided, upstream, replies, doorHandles, approvals, admitted>>

NoBucket == [left |-> BucketBurst, at |-> -1]

EdgesInit ==
    /\ edgeTime = 0 /\ bucket = [ip \in IPs |-> NoBucket]
    /\ decided = <<>> /\ upstream = <<>> /\ replies = <<>>
    /\ doorHandles = <<>> /\ approvals = <<>> /\ admitted = <<>>

Least(a, b) == IF a < b THEN a ELSE b

-------------------------------------------------------------------------------
(* The limiter all doors of the proxy share *)

(* rate.Limiter: what has trickled in since the bucket was last looked at. *)
Filled(ip) ==
    IF bucket[ip].at = -1 THEN BucketBurst
    ELSE Least(BucketBurst, bucket[ip].left + BucketRate * (edgeTime - bucket[ip].at))

(* Mutant of Take: the request let through is not taken from the bucket.   *)
TakeUncounted(ip) ==
    /\ bucket' = [bucket EXCEPT ![ip] = [left |-> Filled(ip), at |-> edgeTime]]
    /\ admitted' = Append(admitted, <<ip, edgeTime>>)

(* allowIP, when it allows.                                                *)
Take(ip) ==
    /\ bucket' = [bucket EXCEPT ![ip] = [left |-> Filled(ip) - 1, at |-> edgeTime]]
    /\ admitted' = Append(admitted, <<ip, edgeTime>>)

-------------------------------------------------------------------------------
(* Requests *)

Told(r, code, token) == replies' = Append(replies, [request |-> r, code |-> code, token |-> token])
NothingDecided == UNCHANGED <<decided, upstream, doorHandles>>
EdgeRefused(r, code) == Told(r, code, <<>>) /\ NothingDecided

(* wrapHandler: what is not for a proxy that is switched on goes to the    *)
(* mux, which has no such path.                                            *)
Served(r) ==
    CASE r.via = "connect" -> ConnectProxy
      [] r.via = "absolute" -> ForwardHTTP
      [] OTHER -> TRUE

(* The proxy's limiter stands before the body is read; the target of a     *)
(* CONNECT is looked at even before. Functions have no limiter.            *)
Limited(r) == r.via \in {"authorize", "connect", "absolute"}

(* Whose call it is.                                                       *)
AgentOf(r) ==
    CASE r.via \in {"authorize", "function"} -> IF r.agent # "" THEN r.agent ELSE r.header
      [] r.via \in {"connect", "absolute"} -> IF r.header # "" THEN r.header ELSE "proxy-forward"
      [] r.via = "guard" -> r.agent
EdgeMalformed(r) ==
    \/ r.via \in {"authorize", "function"} /\ (AgentOf(r) = "" \/ r.tool = "")
    \/ r.via = "connect" /\ r.tool = ""

(* The session a call without one is booked on, and its tool.              *)
SessionOf(r) ==
    IF r.via \in {"authorize", "function"} /\ r.session # "" THEN <<r.session>> ELSE
    CASE r.via = "authorize" -> <<AgentOf(r), "proxy-session">>
      [] r.via = "function" -> <<AgentOf(r), "serverless-session">>
      [] r.via = "connect" -> <<AgentOf(r), "proxy-connect">>
      [] r.via = "absolute" -> <<AgentOf(r), "proxy-http">>
      [] r.via = "guard" -> <<r.session>>
ToolOf(r) ==
    CASE r.via = "connect" -> "proxy/connect" [] r.via = "absolute" -> "proxy/http" [] OTHER -> r.tool

Proxies(r) == r.via \in {"connect", "absolute"}

(* Mutant of Lets: everything that is not denied passes.                   *)
LetsUndenied(r, e) == Proxies(r) /\ e # "DENY"

(* The switch of handleConnect and handleHTTPForward.                      *)
Lets(r, e) == Proxies(r) /\ e \in {"PERMIT", "SHADOW"}

(* The id of the call: the caller's own, where there is a body to name it; *)
(* a new one otherwise.                                                    *)
CallOf(r) ==
    IF r.via \in {"authorize", "function"} /\ r.call # "" THEN <<r.call, 0>> ELSE <<"", Len(decided) + 1>>

(* DeferWithToken: a pending handle of the token is taken again, one that  *)
(* was decided is not.                                                     *)
PendingWith(token) == {h \in DOMAIN doorHandles : doorHandles[h] = [token |-> token, status |-> "pending"]}
HandleOf(token) ==
    IF PendingWith(token) # {} THEN CHOOSE h \in PendingWith(token) : TRUE ELSE Len(doorHandles) + 1
HandlesWith(token) ==
    IF PendingWith(token) # {} THEN doorHandles ELSE Append(doorHandles, [token |-> token, status |-> "pending"])

(* Where the forwarding client is led on to by what it is answered; a      *)
(* tunnel leads nowhere else.                                              *)
Ways(r, e) == IF r.via = "absolute" /\ Lets(r, e) THEN Redirects ELSE {<<>>}
Led(way) == SubSeq(way, 1, Least(Len(way), MostRequests - 1))
Codes(r, e, way) ==
    IF ~Lets(r, e) THEN {403} ELSE IF Len(way) < MostRequests THEN {200, 502} ELSE {502}

(* The pipeline decides; a deferral of a rule registers its handle, one of *)
(* a context guard registers none. handleAuthorize hands the token to the  *)
(* caller, the proxies answer 403 and keep it.                             *)
Govern(r) ==
    \E e \in EdgeEffects : \E way \in Ways(r, e), waits \in IF e = "DEFER" THEN BOOLEAN ELSE {FALSE} :
      LET token == TokenHash[<<CallOf(r), ToolOf(r)>>] IN
      /\ decided' = Append(decided, [via |-> r.via, agent |-> AgentOf(r), session |-> SessionOf(r),
                                     tool |-> ToolOf(r), target |-> r.tool, effect |-> e, call |-> CallOf(r),
                                     handle |-> IF waits THEN HandleOf(token) ELSE 0])
      /\ doorHandles' = IF waits THEN HandlesWith(token) ELSE doorHandles
      /\ upstream' = IF Lets(r, e)
                       THEN Append(upstream, [via |-> r.via, agent |-> AgentOf(r), target |-> r.tool, led |-> Led(way)])
                       ELSE upstream
      /\ IF ~Proxies(r) THEN Told(r, 200, IF waits THEN <<token>> ELSE <<>>)
         ELSE \E code \in Codes(r, e, way) : Told(r, code, <<>>)

Arrive(ip, r) ==
    /\ Len(replies) < MaxEdgeRequests
    /\ IF ~Served(r) THEN EdgeRefused(r, 404) /\ UNCHANGED <<bucket, admitted>>
       ELSE IF r.via = "connect" /\ EdgeMalformed(r) THEN EdgeRefused(r, 400) /\ UNCHANGED <<bucket, admitted>>
       ELSE IF ~Limited(r)
         THEN /\ IF EdgeMalformed(r) THEN EdgeRefused(r, 400) ELSE Govern(r)
              /\ UNCHANGED <<bucket, admitted>>
       ELSE IF Filled(ip) < 1 THEN EdgeRefused(r, 429) /\ UNCHANGED <<bucket, admitted>>
       ELSE /\ Take(ip)
            /\ IF EdgeMalformed(r) THEN EdgeRefused(r, 400) ELSE Govern(r)
    /\ UNCHANGED <<edgeTime, approvals>>

EdgeTick == edgeTime < MaxEdgeTime /\ edgeTime' = edgeTime + 1
          /\ UNCHANGED <<bucket, decided, upstream, replies, doorHandles, approvals, admitted>>

-------------------------------------------------------------------------------
(* Approvals over HTTP *)

(* handleApprove: the pending handle of the token that is named; when there *)
(* is none, the error of Resolve is a 404.                                 *)
Approve(h, verdict) ==
    /\ Len(approvals) < MaxEdgeRequests
    /\ doorHandles[h].status = "pending"
    /\ doorHandles' = [doorHandles EXCEPT ![h].status = verdict]
    /\ approvals' = Append(approvals, [handle |-> h, verdict |-> verdict, after |-> Len(decided)])
    /\ UNCHANGED <<edgeTime, bucket, decided, upstream, replies, admitted>>

ExpireToken(h) ==
    /\ doorHandles[h].status = "pending" /\ doorHandles' = [doorHandles EXCEPT ![h].status = "expired"]
    /\ UNCHANGED <<edgeTime, bucket, decided, upstream, replies, approvals, admitted>>

EdgesNext ==
    \/ \E ip \in IPs, r \in EdgeRequests : Arrive(ip, r)
    \/ EdgeTick
    \/ \E h \in DOMAIN doorHandles : \/ \E verdict \in {"approved", "denied"} : Approve(h, verdict)
                                 \/ ExpireToken(h)

EdgesSpec == EdgesInit /\ [][EdgesNext]_edgeVars

-------------------------------------------------------------------------------
(* Properties *)

(* The proxies begin no transfer to a target that was not decided for that *)
(* agent and target first, once for each transfer. What a target answers   *)
(* may lead a forwarded request on, to at most nine targets more, which    *)
(* nobody decided; a tunnel is led nowhere.                                *)
Transfers == [agent : {AgentOf(r) : r \in EdgeRequests}, target : {r.tool : r \in EdgeRequests}]
Carried(e) == {i \in DOMAIN upstream : upstream[i].agent = e.agent /\ upstream[i].target = e.target}
LetPass(e) ==
    {i \in DOMAIN decided :
       /\ decided[i].via \in {"connect", "absolute"} /\ decided[i].effect \in {"PERMIT", "SHADOW"}
       /\ decided[i].agent = e.agent /\ decided[i].target = e.target}
TransfersAreDecided ==
    /\ \A e \in Transfers : Cardinality(Carried(e)) <= Cardinality(LetPass(e))
    /\ \A i \in DOMAIN upstream : /\ Len(upstream[i].led) < MostRequests
                                  /\ upstream[i].via = "connect" => upstream[i].led = <<>>

(* No address gets more requests past the limiter, over all doors of the   *)
(* proxy, than a full bucket and what trickled in.                         *)
Admissions(ip, i, j) == {k \in i .. j : admitted[k][1] = ip}
AddressesAreLimited ==
    \A i, j \in DOMAIN admitted : i <= j /\ admitted[i][1] = admitted[j][1] =>
        Cardinality(Admissions(admitted[i][1], i, j))
            <= BucketBurst + BucketRate * (admitted[j][2] - admitted[i][2])

(* An approval that was acknowledged stands: it is not denied, expired or  *)
(* acknowledged a second time, and it covers no call that is made after    *)
(* it, be it with the same call id.                                        *)
ApprovalsStand ==
    /\ \A a \in DOMAIN approvals : doorHandles[approvals[a].handle].status = approvals[a].verdict
    /\ \A a, b \in DOMAIN approvals : approvals[a].handle = approvals[b].handle => a = b
    /\ \A a \in DOMAIN approvals, n \in DOMAIN decided :
         decided[n].handle = approvals[a].handle => n <= approvals[a].after

(* Calls wait on one handle only when their call ids and tools make the    *)
(* same token, of which one handle at most is pending; and a caller is     *)
(* told a token only when a call of that agent and tool waits on a handle  *)
(* of it.                                                                  *)
TokenOf(d) == TokenHash[<<d.call, d.tool>>]
TokensAreTheirs ==
    /\ \A h, k \in DOMAIN doorHandles : doorHandles[h] = doorHandles[k] /\ doorHandles[h].status = "pending" => h = k
    /\ \A m, n \in DOMAIN decided :
         decided[m].handle # 0 /\ decided[m].handle = decided[n].handle => TokenOf(decided[m]) = TokenOf(decided[n])
    /\ \A i \in DOMAIN replies : replies[i].token # <<>> =>
         \E n \in DOMAIN decided :
            /\ decided[n].agent = AgentOf(replies[i].request) /\ decided[n].tool = ToolOf(replies[i].request)
            /\ decided[n].handle # 0 /\ replies[i].token = <<doorHandles[decided[n].handle].token>>

(* A call by CONNECT and one by forwarding never share a session, whoever  *)
(* the agent is.                                                           *)
SessionsAreApart ==
    \A i, j \in DOMAIN decided :
        decided[i].via = "connect" /\ decided[j].via = "absolute" =>
            decided[i].session # decided[j].session

EdgesHold == TransfersAreDecided /\ AddressesAreLimited /\ ApprovalsStand /\ TokensAreTheirs /\ SessionsAreApart

(* Every deferral can be asked about by whoever caused it. The proxies     *)
(* tell nobody the token.                                                  *)
DeferralsAreKnown ==
    \A h \in DOMAIN doorHandles : \E i \in DOMAIN replies : replies[i].token = <<doorHandles[h].token>>
(* Every call is decided for an agent. The guard forgets its default id.   *)
CallsHaveAnAgent == \A i \in DOMAIN decided : decided[i].agent # ""
===============================================================================
