----------------------------- MODULE DeferWorkflow -----------------------------
(***************************************************************************)
(* The DEFER workflow (core/defer/workflow.go) and the gRPC adapter that   *)
(* waits for an approval (adapter/daemon/server.go): requesters whose call *)
(* a rule defers, humans who approve or deny by token, one expiry          *)
(* goroutine per handle, and the second evaluation after an approval.      *)
(*                                                                         *)
(* The token of a call is a hash of its call id and tool (taken to be      *)
(* injective), so it is named here by the call; the second evaluation adds *)
(* "-resume" to the call id and so has a token of its own. No triage is    *)
(* configured (DeferTriage has that case). A requester makes one call; a   *)
(* retry of a call is another requester with the same call.                *)
(***************************************************************************)
EXTENDS Naturals, Sequences, FiniteSets

CONSTANTS
    Requesters,     \* requests being served by Govern
    Calls,          \* call ids
    None,
    Timeout,        \* DefaultTimeout
    MaxTime,        \* bound on the clock
    MaxRuleChanges, \* bound on policy changes
    MaxRestarts,    \* bound on restarts of the daemon
    SingleUse       \* is every call id sent once?

ASSUME DeferAssumption ==
    /\ Timeout \in Nat \ {0} /\ MaxTime \in Nat
    /\ MaxRuleChanges \in Nat /\ MaxRestarts \in Nat
    /\ SingleUse \in BOOLEAN
    /\ None \notin {"approved", "denied", "expired", "permit", "refused", "error"}

VARIABLES
    now,        \* the clock
    rules,      \* effects that the calls' rule had, one per policy version
    restarts,
    handles,    \* every Handle made, in order; a handle is named by its index
    pending,    \* Workflow.pending, 0 when the token is not in it
    resolved,   \* Workflow.resolved, None when the token is not in it
    timers,     \* handles whose expiry goroutine is waiting
    sends,      \* resolvers between the unlock and the channel send
    ch,         \* what each handle's channel holds
    won,        \* resolutions that were accepted
    asked,      \* call ids ever sent
    pc, call, mine,     \* per requester: step, call, handle it was given
    seen,               \* policy version its evaluation works with
    answer              \* what Govern returned

flowVars == <<handles, pending, resolved, timers, sends, ch, won>>
reqVars  == <<asked, pc, call, mine, seen, answer>>
envVars  == <<now, rules, restarts>>
vars == <<envVars, flowVars, reqVars>>

Decisions == {"approved", "denied", "expired"}
Effects == {"permit", "deny", "defer"}
Token == [call : Calls, resume : BOOLEAN]
First(k) == [call |-> k, resume |-> FALSE]
Resumed(k) == [call |-> k, resume |-> TRUE]

Init ==
    /\ now = 0 /\ rules = <<"defer">> /\ restarts = 0
    /\ handles = <<>>
    /\ pending = [t \in Token |-> 0]
    /\ resolved = [t \in Token |-> None]
    /\ timers = {} /\ sends = {} /\ ch = <<>> /\ won = {}
    /\ asked = {}
    /\ pc = [r \in Requesters |-> "idle"]
    /\ call = [r \in Requesters |-> None]
    /\ mine = [r \in Requesters |-> 0]
    /\ seen = [r \in Requesters |-> 0]
    /\ answer = [r \in Requesters |-> None]

-------------------------------------------------------------------------------
(* Registering a handle *)

(* Is Evaluate working on this call id? enterCallChain refuses others.     *)
InChain(t) ==
    \E r \in Requesters :
        /\ call[r] = t.call
        /\ pc[r] \in (IF t.resume THEN {"reevaluating", "reregistered"}
                       ELSE {"evaluating", "registered"})

(* DeferWithToken, under the workflow's lock. *)
Register(t) ==
    IF pending[t] # 0 THEN UNCHANGED <<handles, pending, ch>>
    ELSE /\ handles' = Append(handles, [token |-> t, made |-> now, deadline |-> now + Timeout])
         /\ pending' = [pending EXCEPT ![t] = Len(handles) + 1]
         /\ ch' = Append(ch, None)

Finish(r, a) ==
    /\ pc' = [pc EXCEPT ![r] = "done"]
    /\ answer' = [answer EXCEPT ![r] = a]

(* Evaluate takes the artifacts in force and enters the call chain.        *)
Enter(r, t, step) ==
    IF InChain(t) THEN Finish(r, "deny") /\ UNCHANGED seen
    ELSE /\ seen' = [seen EXCEPT ![r] = Len(rules)]
         /\ pc' = [pc EXCEPT ![r] = step]
         /\ UNCHANGED answer

(* Govern evaluates the call for the first time. *)
Govern(r, k) ==
    /\ pc[r] = "idle"
    /\ now <= MaxTime
    /\ SingleUse => k \notin asked
    /\ asked' = asked \cup {k}
    /\ call' = [call EXCEPT ![r] = k]
    /\ Enter(r, First(k), "evaluating")
    /\ UNCHANGED <<envVars, flowVars, mine>>

(* Evaluate applies the rule; one that defers registers the token.         *)
Evaluate(r) ==
    /\ pc[r] = "evaluating"
    /\ LET t == First(call[r]) IN
       IF rules[seen[r]] # "defer"
         THEN Finish(r, rules[seen[r]]) /\ UNCHANGED <<handles, pending, ch, mine>>
         ELSE /\ Register(t)
              /\ mine' = [mine EXCEPT ![r] = pending'[t]]
              /\ pc' = [pc EXCEPT ![r] = IF pending[t] = 0 THEN "registered" ELSE "waiting"]
              /\ UNCHANGED answer
    /\ UNCHANGED <<envVars, resolved, timers, sends, won, asked, call, seen>>

(* The second evaluation does the same; deferred again, it is a refusal.   *)
EvaluateAgain(r) ==
    /\ pc[r] = "reevaluating"
    /\ LET t == Resumed(call[r]) IN
       IF rules[seen[r]] # "defer"
         THEN Finish(r, rules[seen[r]]) /\ UNCHANGED <<handles, pending, ch, mine>>
         ELSE /\ Register(t)
              /\ mine' = [mine EXCEPT ![r] = pending'[t]]
              /\ IF pending[t] = 0
                   THEN pc' = [pc EXCEPT ![r] = "reregistered"] /\ UNCHANGED answer
                   ELSE Finish(r, "deny")
    /\ UNCHANGED <<envVars, resolved, timers, sends, won, asked, call, seen>>

(* Mutant of StartTimer: the handle never expires. *)
StartTimerNever(r) ==
    /\ \/ pc[r] = "registered" /\ pc' = [pc EXCEPT ![r] = "waiting"] /\ UNCHANGED answer
       \/ pc[r] = "reregistered" /\ Finish(r, "deny")
    /\ UNCHANGED <<envVars, flowVars, asked, call, mine, seen>>

(* Mutant of StartTimer: started also when there is no handle.            *)
StartTimerAny(r) ==
    /\ timers' = timers \cup {mine[r]}
    /\ \/ pc[r] = "evaluating" /\ pc' = [pc EXCEPT ![r] = "waiting"] /\ UNCHANGED answer
       \/ pc[r] = "reregistered" /\ Finish(r, "deny")
    /\ UNCHANGED <<envVars, handles, pending, resolved, sends, ch, won, asked, call, mine, seen>>

(* DeferWithToken starts the expiry goroutine and Evaluate returns: Govern *)
(* waits for the approval, or refuses a call that is deferred again.       *)
StartTimer(r) ==
    /\ timers' = timers \cup {mine[r]}
    /\ \/ pc[r] = "registered" /\ pc' = [pc EXCEPT ![r] = "waiting"] /\ UNCHANGED answer
       \/ pc[r] = "reregistered" /\ Finish(r, "deny")
    /\ UNCHANGED <<envVars, handles, pending, resolved, sends, ch, won, asked, call, mine, seen>>

-------------------------------------------------------------------------------
(* Resolving a handle *)

(* Mutant of Win: the handle is left in the pending map. *)
WinKept(t, d) ==
    /\ pending[t] # 0
    /\ resolved' = [resolved EXCEPT ![t] = d]
    /\ sends' = sends \cup {[h |-> pending[t], status |-> d]}
    /\ won' = won \cup {[h |-> pending[t], status |-> d, version |-> Len(rules)]}
    /\ UNCHANGED pending

(* resolveInternal, up to the unlock, for the resolver the token waits for. *)
(* Any other resolver only gets an error back.                              *)
Win(t, d) ==
    /\ pending[t] # 0
    /\ pending' = [pending EXCEPT ![t] = 0]
    /\ resolved' = [resolved EXCEPT ![t] = d]
    /\ sends' = sends \cup {[h |-> pending[t], status |-> d]}
    /\ won' = won \cup {[h |-> pending[t], status |-> d, version |-> Len(rules)]}

(* A human answers, through any adapter. *)
Resolve(t, d) ==
    /\ d \in {"approved", "denied"}
    /\ Win(t, d)
    /\ UNCHANGED <<envVars, handles, timers, ch, reqVars>>

(* Mutant of Expire: the timer is not set to the deadline. *)
ExpireAtOnce(h) ==
    /\ h \in timers
    /\ timers' = timers \ {h}
    /\ IF pending[handles[h].token] # 0
         THEN Win(handles[h].token, "expired")
         ELSE UNCHANGED <<pending, resolved, sends, won>>
    /\ UNCHANGED <<envVars, handles, ch, reqVars>>

(* The expiry goroutine of h wakes up; it resolves the token, not h. *)
Expire(h) ==
    /\ h \in timers
    /\ now >= handles[h].deadline
    /\ timers' = timers \ {h}
    /\ IF pending[handles[h].token] # 0
         THEN Win(handles[h].token, "expired")
         ELSE UNCHANGED <<pending, resolved, sends, won>>
    /\ UNCHANGED <<envVars, handles, ch, reqVars>>

(* resolveInternal sends on the handle's channel, which holds one value. *)
Send(s) ==
    /\ s \in sends
    /\ sends' = sends \ {s}
    /\ ch' = IF ch[s.h] = None THEN [ch EXCEPT ![s.h] = s.status] ELSE ch
    /\ UNCHANGED <<envVars, handles, pending, resolved, timers, won, reqVars>>

-------------------------------------------------------------------------------
(* Waiting for the approval *)

(* Workflow.Status; a token it does not know is said to have expired. *)
Status(t) ==
    IF pending[t] # 0 THEN "pending"
    ELSE IF resolved[t] # None THEN resolved[t] ELSE "expired"

(* Mutant of Poll: anything that is no longer pending is an approval. *)
PollNotPending(r) ==
    /\ pc[r] = "waiting"
    /\ Status(First(call[r])) # "pending"
    /\ pc' = [pc EXCEPT ![r] = "approved"]
    /\ UNCHANGED <<answer, envVars, flowVars, asked, call, mine, seen>>

(* waitForApproval polls the status. *)
Poll(r) ==
    /\ pc[r] = "waiting"
    /\ LET st == Status(First(call[r])) IN
         /\ st # "pending"
         /\ IF st = "approved" THEN pc' = [pc EXCEPT ![r] = "approved"] /\ UNCHANGED answer
            ELSE Finish(r, "refused")
    /\ UNCHANGED <<envVars, flowVars, asked, call, mine, seen>>

(* The requester's context ends while Govern waits. *)
GiveUp(r) ==
    /\ pc[r] = "waiting"
    /\ Finish(r, "error")
    /\ UNCHANGED <<envVars, flowVars, asked, call, mine, seen>>

(* Govern evaluates the approved call again, as call "k-resume": only a    *)
(* rule that now permits it lets it run.                                   *)
Reevaluate(r) ==
    /\ pc[r] = "approved"
    /\ Enter(r, Resumed(call[r]), "reevaluating")
    /\ UNCHANGED <<envVars, flowVars, asked, call, mine>>

(* The clock runs on while a timer waits; calls stop arriving at MaxTime.  *)
Tick ==
    /\ now < MaxTime \/ \E h \in timers : now < handles[h].deadline
    /\ now' = now + 1
    /\ UNCHANGED <<rules, restarts, flowVars, reqVars>>

ChangeRule ==
    /\ Len(rules) <= MaxRuleChanges
    /\ \E e \in Effects \ {rules[Len(rules)]} : rules' = Append(rules, e)
    /\ UNCHANGED <<now, restarts, flowVars, reqVars>>

(* The daemon dies and starts again: the workflow is in its memory only.   *)
Restart ==
    /\ restarts < MaxRestarts
    /\ restarts' = restarts + 1
    /\ pending' = [t \in Token |-> 0]
    /\ resolved' = [t \in Token |-> None]
    /\ timers' = {} /\ sends' = {}
    /\ pc' = [r \in Requesters |-> IF pc[r] = "idle" THEN "idle" ELSE "done"]
    /\ answer' = [r \in Requesters |->
                    IF pc[r] \in {"idle", "done"} THEN answer[r] ELSE "error"]
    /\ UNCHANGED <<now, rules, handles, ch, won, asked, call, mine, seen>>

-------------------------------------------------------------------------------

Request(r) ==
    Evaluate(r) \/ StartTimer(r) \/ Poll(r) \/ Reevaluate(r) \/ EvaluateAgain(r)

Next ==
    \/ \E r \in Requesters :
         \/ \E k \in Calls : Govern(r, k)
         \/ Request(r) \/ GiveUp(r)
    \/ \E t \in Token, d \in Decisions : Resolve(t, d)
    \/ \E h \in timers : Expire(h)
    \/ \E s \in sends : Send(s)
    \/ Tick \/ ChangeRule \/ Restart

Spec == Init /\ [][Next]_vars

(* A requester makes at most two handles. *)
HandleNames == 1 .. 2 * Cardinality(Requesters)

(* Goroutines run, timers fire and the poll ticker ticks. Humans, calls,   *)
(* policy changes and restarts are not fair.                               *)
Fairness ==
    /\ \A r \in Requesters : WF_vars(Request(r))
    /\ \A h \in HandleNames : WF_vars(Expire(h))
    /\ WF_vars(Tick)

FairSpec == Spec /\ Fairness

-------------------------------------------------------------------------------
(* Properties *)

Handles == 1 .. Len(handles)
Steps == {"idle", "evaluating", "registered", "waiting", "approved", "reevaluating",
          "reregistered", "done"}
Answers == Effects \cup {"refused", "error", None}

EnvTypes ==
    /\ now \in Nat /\ restarts \in Nat
    /\ rules \in Seq(Effects) /\ rules # <<>>
FlowTypes ==
    /\ handles \in Seq([token : Token, made : Nat, deadline : Nat])
    /\ pending \in [Token -> 0 .. Len(handles)]
    /\ resolved \in [Token -> Decisions \cup {None}]
    /\ timers \subseteq Handles
    /\ sends \subseteq [h : Handles, status : Decisions]
    /\ ch \in Seq(Decisions \cup {None}) /\ Len(ch) = Len(handles)
    /\ won \subseteq [h : Handles, status : Decisions, version : 1 .. Len(rules)]
ReqTypes ==
    /\ asked \subseteq Calls
    /\ pc \in [Requesters -> Steps]
    /\ call \in [Requesters -> Calls \cup {None}]
    /\ mine \in [Requesters -> 0 .. Len(handles)]
    /\ seen \in [Requesters -> 0 .. Len(rules)]
    /\ answer \in [Requesters -> Answers]

(* The types of the variables. *)
TypeOK == EnvTypes /\ FlowTypes /\ ReqTypes

(* A pending token names the handle that was made for it. *)
OneWinner ==
    /\ \A x, y \in won : x.h = y.h => x = y
    /\ \A t \in Token : pending[t] # 0 =>
         /\ handles[pending[t]].token = t
         /\ \A x \in won : x.h # pending[t]

(* The TOCTOU guard (adapter/daemon/server.go:174): a call that was        *)
(* deferred runs only if, after it was deferred, a human approved that     *)
(* very call, whatever was decided about it before, and a policy that was  *)
(* in force after that approval permits it.                                *)
Cleared(r) ==
    \E x \in won :
        /\ x.status = "approved" /\ x.h >= mine[r]
        /\ handles[x.h].token = First(call[r])
        /\ \E v \in x.version .. Len(rules) : rules[v] = "permit"
NoRunWithoutApproval ==
    \A r \in Requesters : answer[r] = "permit" /\ mine[r] # 0 => Cleared(r)

(* What the channel delivers is what the status says, for the last handle  *)
(* of a token.                                                             *)
WaitAgreesWithStatus ==
    \A h \in Handles :
        LET t == handles[h].token IN
        ch[h] # None /\ resolved[t] # None
            /\ (\A g \in Handles : handles[g].token = t => g <= h)
            => ch[h] = resolved[t]

(* Every deferred call is decided, by a human or by its deadline.          *)
EveryDeferIsDecided == \A t \in Token : pending[t] # 0 ~> pending[t] = 0

(* Every requester that waits for an approval gets an answer. *)
EveryWaitEnds == \A r \in Requesters : pc[r] = "waiting" ~> pc[r] = "done"

(* docs/simple/08_TROUBLESHOOTING.md:27: a deferred call that a human      *)
(* approved executes, unless the policy was changed or its requester left. *)
ApprovedCallRuns ==
    \A r \in Requesters :
        answer[r] = "deny" /\ mine[r] # 0 /\ Len(rules) = 1 =>
            ~\E x \in won : x.status = "approved" /\ handles[x.h].token = First(call[r])

(* The workflow implements the one-shot deferral. *)
Last(t) ==
    IF \E h \in Handles : handles[h].token = t
    THEN handles[CHOOSE h \in Handles :
            handles[h].token = t /\ \A g \in Handles : handles[g].token = t => g <= h].made
    ELSE 0
Abstract == INSTANCE DeferOnce WITH
    opened <- [t \in Token |-> Last(t)],
    status <- [t \in Token |->
                 IF pending[t] = 0 /\ resolved[t] = None THEN "unknown" ELSE Status(t)]
ImplementsDeferOnce == Abstract!OnceSpec
===============================================================================
