------------------------------ MODULE McpGateway ------------------------------
(***************************************************************************)
(* The MCP gateway (adapter/mcp): it stands between MCP clients and a tool *)
(* server, which is a subprocess on a pipe (StdioGateway, cmd mcp wrap) or *)
(* an HTTP upstream (HTTPGateway).  A client sends lines: one JSON-RPC     *)
(* message, or a batch of them that is handled in order.                   *)
(*                                                                         *)
(* A message is known by its kind: "call" is tools/call, "bad" one whose   *)
(* params do not parse, "note" a notification (no id), "quiet call" a      *)
(* tools/call without an id, "other" any other request, and "junk" does    *)
(* not parse at all.  Every message handed to the server is given a serial *)
(* number here, which the code does not have: it tells which request a     *)
(* reply was the reply to.                                                 *)
(***************************************************************************)
EXTENDS Naturals, Sequences, FiniteSets

CONSTANTS
    StdioCallers,   \* goroutines in StdioGateway.ProcessStdioLine
    HttpCallers,    \* handlers of the HTTP gateway
    McpLines,       \* lines clients send; over HTTP they may ask for an event stream
    McpEffects,     \* effects Pipeline.Evaluate gives
    MaxLines,       \* bound on the lines sent
    MaxEcho         \* bound on the replies the subprocess sends twice

McpCallers == StdioCallers \cup HttpCallers
Kinds == {"call", "quiet call", "bad", "note", "other", "junk"}

ASSUME McpAssumption ==
    /\ StdioCallers \cap HttpCallers = {}
    /\ McpLines \subseteq [form : {"one", "batch"}, stream : BOOLEAN, msgs : Seq(Kinds)]
    /\ McpEffects \subseteq {"PERMIT", "SHADOW", "SHADOW_PERMIT", "DENY", "DEFER"}
    /\ MaxLines \in Nat /\ MaxEcho \in Nat

VARIABLES
    lines,      \* number of lines read
    caller,     \* each caller: control point, rest of its line, answers so far
    nextID,     \* ids given to the subprocess
    serial,     \* messages handed to either server
    pending,    \* subprocess id -> the channel of the request that waits
    delivered,  \* replies in the channels: [chan, reply]
    reader,     \* what readSubprocessResponses does: "scan", a send, or "ended"
    stdin,      \* the pipe to the subprocess: "open", "full" while nobody reads
                \* it, "broken", or "gone" with the gateway's own process
    inbox,      \* requests the subprocess has read and not answered
    stdout,     \* its replies on their way back
    echoes      \* replies sent twice so far

mcpVars == <<lines, caller, nextID, serial, pending, delivered, reader, stdin,
             inbox, stdout, echoes>>
pipeVars == <<nextID, pending, delivered, reader, stdin, inbox, stdout, echoes>>

Resting == [at |-> "idle", rest |-> <<>>, form |-> "one", stream |-> FALSE, id |-> 0, serial |-> 0,
            quiet |-> FALSE, effect |-> "none", out |-> <<>>]

McpInit ==
    /\ lines = 0 /\ nextID = 0 /\ serial = 0 /\ echoes = 0
    /\ caller = [c \in McpCallers |-> Resting]
    /\ pending = <<>> /\ delivered = {} /\ reader = [at |-> "scan"]
    /\ stdin = "open" /\ inbox = {} /\ stdout = <<>>

(* An error return of ProcessStdioLine ends the process of mcp wrap. *)
Running(c) == c \in HttpCallers \/ stdin # "gone"

(* A batch that asks for an event stream is refused as it is. *)
ReadLine(c) ==
    /\ caller[c].at = "idle" /\ Running(c) /\ lines < MaxLines
    /\ lines' = lines + 1
    /\ \E l \in McpLines :
         caller' = [caller EXCEPT ![c] =
             [Resting EXCEPT !.at = "next", !.form = l.form, !.stream = c \in HttpCallers /\ l.stream,
                             !.rest = IF c \in HttpCallers /\ l.stream /\ l.form = "batch" THEN <<>> ELSE l.msgs]]
    /\ UNCHANGED <<serial, pipeVars>>

(* The answers so far are the response; every line is answered whole. *)
Respond(c) ==
    /\ caller[c].at = "next" /\ caller[c].rest = <<>>
    /\ caller' = [caller EXCEPT ![c] = Resting]
    /\ UNCHANGED <<lines, serial, pipeVars>>

-------------------------------------------------------------------------------
(* One message of a line *)

Kind(c) == Head(caller[c].rest)

Says(s) == [is |-> s]
ReplyTo(c, q) == [is |-> "reply", asked |-> caller[c].serial, got |-> q]

Answered(c, a) ==
    caller' = [caller EXCEPT ![c].at = "next", ![c].rest = Tail(@), ![c].id = 0, ![c].serial = 0,
                             ![c].effect = "none", ![c].quiet = FALSE,
                             ![c].out = IF caller[c].quiet THEN @ ELSE Append(@, a)]

(* The line fails, with the messages before this one forwarded already.    *)
Abort(c) ==
    /\ caller' = [caller EXCEPT ![c] = Resting]
    /\ stdin' = IF c \in StdioCallers THEN "gone" ELSE stdin

(* A message of no shape, and params of no shape: over the pipe these are  *)
(* answered with an error of their own, over HTTP they fail the line.      *)
Malformed(c) ==
    /\ caller[c].at = "next" /\ caller[c].rest # <<>>
    /\ \/ Kind(c) = "junk" /\ Abort(c)
       \/ Kind(c) = "bad" /\ c \in HttpCallers /\ Abort(c)
       \/ Kind(c) = "bad" /\ c \in StdioCallers /\ Answered(c, Says("invalid params")) /\ UNCHANGED stdin
    /\ UNCHANGED <<lines, serial, nextID, pending, delivered, reader, inbox, stdout, echoes>>

(* The message is on its way to the server; quiet if its reply is dropped. *)
Hand(c, effect) ==
    /\ caller' = [caller EXCEPT ![c].at = "send", ![c].serial = serial + 1, ![c].effect = effect,
                                ![c].quiet = Kind(c) \in {"note", "quiet call"} /\ caller[c].form = "batch"]
    /\ serial' = serial + 1

(* A batch's notifications are sorted out before the method is looked at,  *)
(* so that one which is a call is not governed.                            *)
Exempt(c) == Kind(c) = "quiet call" /\ caller[c].form = "batch"
IsGoverned(c) == Kind(c) \in {"call", "quiet call"} /\ ~Exempt(c)

(* Everything else is passed through as it is.                             *)
PassThrough(c) ==
    /\ caller[c].at = "next" /\ caller[c].rest # <<>>
    /\ Kind(c) \notin {"bad", "junk"} /\ ~IsGoverned(c)
    /\ Hand(c, "none")
    /\ UNCHANGED <<lines, pipeVars>>

(* Mutant of LetsThrough: DEFER falls to the default case. *)
LetsDeferThrough(c) == IF c \in StdioCallers THEN {"PERMIT", "SHADOW"} ELSE McpEffects \ {"DENY"}

(* Effects with which a call is forwarded: over HTTP, all but two. *)
LetsThrough(c) == IF c \in StdioCallers THEN {"PERMIT", "SHADOW"} ELSE McpEffects \ {"DENY", "DEFER"}

(* handleToolCall and interceptToolsCall. *)
GovernCall(c) ==
    /\ caller[c].at = "next" /\ caller[c].rest # <<>> /\ IsGoverned(c)
    /\ \E e \in McpEffects :
         IF e \in LetsThrough(c)
           THEN Hand(c, e)
           ELSE /\ Answered(c, Says(CASE e = "DENY" -> "denied" [] e = "DEFER" -> "pending_approval"
                                      [] OTHER -> "unexpected effect"))
                /\ UNCHANGED serial
    /\ UNCHANGED <<lines, pipeVars>>

-------------------------------------------------------------------------------
(* forwardToSubprocess *)

(* Mutant of NewID: ids are handed out again once nobody waits on them. *)
LowestFreeID == CHOOSE n \in 1 .. nextID + 1 :
                   n \notin DOMAIN pending /\ \A k \in 1 .. n - 1 : k \in DOMAIN pending

NewID == nextID + 1

Register(c) ==
    LET id == NewID IN
    /\ caller[c].at = "send" /\ c \in StdioCallers
    /\ nextID' = nextID + 1
    /\ pending' = [i \in DOMAIN pending \cup {id} |-> IF i = id THEN caller[c].serial ELSE pending[i]]
    /\ caller' = [caller EXCEPT ![c].at = "write", ![c].id = id]
    /\ UNCHANGED <<lines, serial, delivered, reader, stdin, inbox, stdout, echoes>>

(* A write to a subprocess that is gone fails; the request stays pending.  *)
(* One to a full pipe waits, without a timeout: the timer comes after it.  *)
Write(c) ==
    /\ caller[c].at = "write"
    /\ \/ /\ stdin = "open"
          /\ inbox' = inbox \cup {[id |-> caller[c].id, of |-> caller[c].serial]}
          /\ caller' = [caller EXCEPT ![c].at = "wait"]
          /\ UNCHANGED stdin
       \/ stdin \in {"broken", "gone"} /\ Abort(c) /\ UNCHANGED inbox
    /\ UNCHANGED <<lines, serial, nextID, pending, delivered, reader, stdout, echoes>>

TakeReply(c) ==
    /\ caller[c].at = "wait" /\ c \in StdioCallers
    /\ \E d \in delivered :
         /\ d.chan = caller[c].serial
         /\ delivered' = delivered \ {d}
         /\ Answered(c, ReplyTo(c, d.of))
    /\ UNCHANGED <<lines, serial, nextID, pending, reader, stdin, inbox, stdout, echoes>>

Without(f, x) == [i \in DOMAIN f \ {x} |-> f[i]]

(* Mutant of TimeOut: the wait is bounded only while the subprocess lives. *)
TimeOutIfAlive(c) ==
    /\ caller[c].at = "wait" /\ c \in StdioCallers /\ stdin = "open"
    /\ pending' = Without(pending, caller[c].id)
    /\ Answered(c, Says("timeout"))
    /\ UNCHANGED <<lines, serial, nextID, delivered, reader, stdin, inbox, stdout, echoes>>

(* Thirty seconds: the request is forgotten, wherever its reply is. *)
TimeOut(c) ==
    /\ caller[c].at = "wait" /\ c \in StdioCallers
    /\ pending' = Without(pending, caller[c].id)
    /\ Answered(c, Says("timeout"))
    /\ UNCHANGED <<lines, serial, nextID, delivered, reader, stdin, inbox, stdout, echoes>>

(* readSubprocessResponses takes the channel out of the table, then sends. *)
RouteReply ==
    /\ reader.at = "scan" /\ stdout # <<>>
    /\ stdout' = Tail(stdout)
    /\ IF Head(stdout).id \in DOMAIN pending
         THEN /\ pending' = Without(pending, Head(stdout).id)
              /\ reader' = [at |-> "sending", chan |-> pending[Head(stdout).id], of |-> Head(stdout).of]
         ELSE UNCHANGED <<pending, reader>>
    /\ UNCHANGED <<lines, caller, serial, nextID, delivered, stdin, inbox, echoes>>

SendReply ==
    /\ reader.at = "sending"
    /\ delivered' = delivered \cup {[chan |-> reader.chan, of |-> reader.of]}
    /\ reader' = [at |-> "scan"]
    /\ UNCHANGED <<lines, caller, serial, nextID, pending, stdin, inbox, stdout, echoes>>

(* The scanner's lines hold 64 KB: a longer reply ends the loop. *)
EndReader ==
    /\ reader.at = "scan" /\ stdout # <<>>
    /\ reader' = [at |-> "ended"]
    /\ UNCHANGED <<lines, caller, serial, nextID, pending, delivered, stdin, inbox, stdout, echoes>>

-------------------------------------------------------------------------------
(* The servers *)

(* The subprocess answers in any order, now and then twice, or not at all. *)
Reply ==
    \E q \in inbox :
       /\ stdout' = Append(stdout, q)
       /\ \/ inbox' = inbox \ {q} /\ UNCHANGED echoes
          \/ echoes < MaxEcho /\ echoes' = echoes + 1 /\ UNCHANGED inbox
       /\ UNCHANGED <<lines, caller, serial, nextID, pending, delivered, reader, stdin>>

(* It stops reading and its pipe fills, or it reads on. *)
SubprocessStalls ==
    /\ \/ stdin = "open" /\ stdin' = "full"
       \/ stdin = "full" /\ stdin' = "open"
    /\ UNCHANGED <<lines, caller, serial, nextID, pending, delivered, reader, inbox, stdout, echoes>>

SubprocessDies ==
    /\ stdin \in {"open", "full"} /\ stdin' = "broken" /\ inbox' = {}
    /\ UNCHANGED <<lines, caller, serial, nextID, pending, delivered, reader, stdout, echoes>>

(* The upstream's message, an error made of a status that is not 200, or a *)
(* failed request, which fails the line.                                   *)
UpstreamEnds(c) ==
    /\ caller[c].at = "send" /\ c \in HttpCallers
    /\ \/ Answered(c, ReplyTo(c, caller[c].serial)) /\ UNCHANGED stdin
       \/ Answered(c, Says("upstream error")) /\ UNCHANGED stdin
       \/ Abort(c)
    /\ UNCHANGED <<lines, serial, nextID, pending, delivered, reader, inbox, stdout, echoes>>

(* doUpstreamRequest, whose client gives up after thirty seconds, and      *)
(* forwardMCPStream, which ends when the upstream or the client ends it.   *)
Upstream(c) == ~caller[c].stream /\ UpstreamEnds(c)
EventStream(c) == caller[c].stream /\ UpstreamEnds(c)

Handle(c) ==
    \/ Respond(c) \/ Malformed(c) \/ PassThrough(c) \/ GovernCall(c)
    \/ Register(c) \/ Write(c) \/ Upstream(c)

McpNext ==
    \/ \E c \in McpCallers : ReadLine(c) \/ Handle(c) \/ EventStream(c) \/ TakeReply(c) \/ TimeOut(c)
    \/ RouteReply \/ SendReply \/ EndReader \/ Reply \/ SubprocessStalls \/ SubprocessDies

McpSpec == McpInit /\ [][McpNext]_mcpVars

(* A caller goes on, a write goes on when the subprocess reads again, and  *)
(* the timers fire: that of the wait, and the upstream client's.  Neither  *)
(* server owes an answer, and nothing ends a full pipe or a stream.        *)
McpFairness ==
    \A c \in McpCallers : WF_mcpVars(Handle(c)) /\ SF_mcpVars(Write(c)) /\ WF_mcpVars(TimeOut(c))

-------------------------------------------------------------------------------
(* Properties *)

Reached == {"idle", "next", "send", "write", "wait"}
McpTypeOK ==
    /\ \A c \in McpCallers : caller[c].at \in Reached /\ caller[c].rest \in Seq(Kinds)
    /\ nextID <= serial /\ DOMAIN pending \subseteq 1 .. nextID
    /\ stdin \in {"open", "full", "broken", "gone"}

(* forwardToSubprocess, "assign a new ID ... to avoid collision": what a    *)
(* caller returns as the server's reply is the reply to its own request,   *)
(* though an earlier one timed out and is answered late, or twice.         *)
RepliesAreOwn ==
    \A c \in McpCallers : \A i \in 1 .. Len(caller[c].out) :
       caller[c].out[i].is = "reply" => caller[c].out[i].asked = caller[c].out[i].got

(* A call is handed to a server only when the pipeline let it through,     *)
(* whichever transport, alone or in a batch, after whatever came before it *)
(* in the line.  gateway.go:5-6 says so of every call; the code makes one  *)
(* exception, a call without an id in a batch (gateway.go:175 and 495).    *)
CallsAreGoverned ==
    \A c \in McpCallers :
       caller[c].at \in {"send", "write", "wait"} /\ Kind(c) \in {"call", "quiet call"}
          => Exempt(c) \/ caller[c].effect \in {"PERMIT", "SHADOW", "SHADOW_PERMIT"}

(* The table of waiting requests holds no request that was answered or     *)
(* timed out: only callers that wait, and writes that ended the process.   *)
PendingWaits ==
    stdin # "gone" =>
       \A i \in DOMAIN pending : \E c \in StdioCallers : caller[c].at \in {"write", "wait"} /\ caller[c].id = i

(* Every line is answered, whatever the server does with its messages, but *)
(* for two that have no timeout: a write to a pipe that stays full         *)
(* (gateway.go:262), and an event stream that stays open (gateway.go:580). *)
Held(c) == \/ caller[c].at = "write" /\ stdin = "full"
           \/ caller[c].at = "send" /\ caller[c].stream
EveryLineIsAnswered ==
    \A c \in McpCallers : []<>(caller[c].at = "idle") \/ <>[]Held(c)

(* What holds of the gateway at every moment: types, replies, governance   *)
(* and the table of waiting requests.                                      *)
McpSafe == McpTypeOK /\ RepliesAreOwn /\ CallsAreGoverned /\ PendingWaits
===============================================================================
