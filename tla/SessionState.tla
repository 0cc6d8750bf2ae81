----------------------------- MODULE SessionState -----------------------------
(***************************************************************************)
(* The session state of one agent (core/session/state.go) and the steps of *)
(* Pipeline.Evaluate that read and write it: kill switch, call count, USD  *)
(* budgets, history, and the cost that is booked after the answer. Several *)
(* daemons may share a Redis backend; each falls back to its own counters, *)
(* and to its SQLite store of daily costs, when the backend fails.         *)
(*                                                                         *)
(* Agents do not share state, so there is one. Every call has the same     *)
(* declared cost. The rules are any that permit or deny; a deferral ends   *)
(* like a denial here. The time to live of the backend's keys (a day, kept *)
(* up by every write) is longer than the behaviours that are checked.      *)
(***************************************************************************)
EXTENDS Naturals, Sequences, FiniteSets

CONSTANTS
    Daemons,        \* daemons of the fleet
    Calls,          \* evaluations
    None,
    Faults,         \* subset of {"outage", "lost_reply", "store", "wal"}
    Budgets,        \* budgets a policy may set; a limit of 0 is none
    CostUSD,        \* Tool.CostUSD
    MaxHistory,     \* entries kept in the history
    MaxDays,        \* bound on the calendar
    MaxFaults,      \* bound on the faults
    MaxRestarts,    \* bound on the restarts, of all daemons together
    MaxKills        \* bound on the kills

ASSUME SessionAssumption ==
    /\ Faults \subseteq {"outage", "lost_reply", "store", "wal"}
    /\ Budgets \subseteq [calls : Nat, session : Nat, daily : Nat]
    /\ {CostUSD, MaxHistory, MaxDays} \subseteq Nat \ {0}
    /\ MaxFaults \in Nat /\ MaxRestarts \in Nat /\ MaxKills \in Nat
    /\ None \notin Daemons \cup {"permit", "deny"} /\ IsFiniteSet(Calls)

VARIABLES
    budget,     \* the policy's
    shared,     \* is a Redis backend configured?
    reachable,  \* does it answer?
    today,
    faults,     \* the faults there were
    restarts,
    epoch,      \* the restart each daemon runs since
    redis,      \* what the backend holds
    local,      \* the fallback fields of each daemon's State
    store,      \* each daemon's SQLite store of daily costs
    kills,      \* each daemon's last Kill: "no", "setting", "unstored", "stored"
    pc, at, ticket, effect, saw, \* per call: step, daemon, number drawn, effect, history read
    booked,     \* per call: the day its cost was booked on, or 0
    before      \* per call: what had happened when it began

configVars == <<budget, shared, reachable, today, restarts, epoch>>
dataVars == <<redis, local, store, kills>>
callVars == <<pc, at, ticket, effect, saw, booked>>
vars == <<configVars, dataVars, callVars, faults, before>>

Days == 1 .. MaxDays
Redis == <<None, 0>>
Instance(d) == <<d, epoch[d]>>
NoTicket == [from |-> Redis, n |-> 0]
FreshBackend ==
    [calls |-> 0, cost |-> 0, day |-> [y \in Days |-> 0], killed |-> FALSE, history |-> <<>>]
(* NewState: the daily cost belongs to the day it was last added on. *)
FreshState ==
    [calls |-> 0, cost |-> 0, daily |-> 0, on |-> 0, killed |-> FALSE, history |-> <<>>]
Nothing == [over |-> {}, paid |-> {}, kill |-> "no", day |-> 0]

Init ==
    /\ budget \in Budgets
    /\ shared \in BOOLEAN /\ reachable = shared
    /\ today = 1 /\ faults = <<>>
    /\ restarts = 0 /\ epoch = [d \in Daemons |-> 0]
    /\ redis = FreshBackend
    /\ local = [d \in Daemons |-> FreshState]
    /\ store = [d \in Daemons |-> [y \in Days |-> 0]]
    /\ kills = [d \in Daemons |-> "no"]
    /\ pc = [c \in Calls |-> "idle"]
    /\ at = [c \in Calls |-> <<None, 0>>]
    /\ ticket = [c \in Calls |-> NoTicket]
    /\ effect = [c \in Calls |-> None]
    /\ saw = [c \in Calls |-> <<>>]
    /\ booked = [c \in Calls |-> 0]
    /\ before = [c \in Calls |-> Nothing]

-------------------------------------------------------------------------------
(* The methods of State *)

CanFail(f) == f \in Faults /\ Len(faults) < MaxFaults

(* Requests to the backend: not sent or refused, answered, or carried out  *)
(* without the answer coming back.                                         *)
Replies ==
    IF ~shared \/ ~reachable THEN {"error"}
    ELSE {"ok"} \cup (IF CanFail("lost_reply") THEN {"lost_reply"} ELSE {})
Applied(reply) == reply # "error"
FallsBack(reply) == reply # "ok"
Noted(reply) == faults' = IF reply = "lost_reply" THEN Append(faults, reply) ELSE faults

IsKilled(d) == IF shared /\ reachable THEN redis.killed ELSE local[d].killed

(* Mutant of IncrCallCount: the number is read before it is incremented. *)
ReadCallCount(c, d) ==
    /\ ticket' = [ticket EXCEPT ![c] =
          IF shared /\ reachable THEN [from |-> Redis, n |-> redis.calls]
                                 ELSE [from |-> Instance(d), n |-> local[d].calls]]
    /\ redis' = IF shared /\ reachable THEN [redis EXCEPT !.calls = @ + 1] ELSE redis
    /\ local' = IF shared /\ reachable THEN local ELSE [local EXCEPT ![d].calls = @ + 1]
    /\ UNCHANGED faults

IncrCallCount(c, d) ==
    \E reply \in Replies :
        /\ Noted(reply)
        /\ redis' = IF Applied(reply) THEN [redis EXCEPT !.calls = @ + 1] ELSE redis
        /\ local' = IF FallsBack(reply) THEN [local EXCEPT ![d].calls = @ + 1] ELSE local
        /\ ticket' = [ticket EXCEPT ![c] =
              IF FallsBack(reply) THEN [from |-> Instance(d), n |-> local[d].calls + 1]
                                  ELSE [from |-> Redis, n |-> redis.calls + 1]]

CurrentCostUSD(d) == IF shared /\ reachable THEN redis.cost ELSE local[d].cost

(* The SQLite store comes before the field, unless reading it fails. *)
DailyCostUSD(d) == IF shared /\ reachable THEN redis.day[today] ELSE store[d][today]
DailyCostField(d) == IF local[d].on = today THEN local[d].daily ELSE 0

History(d) == IF shared /\ reachable THEN redis.history ELSE local[d].history

(* Mutant of Push: nothing is cut off. *)
PushUncut(h, c) == <<c>> \o h

(* Newest first, MaxHistory entries. *)
Push(h, c) == SubSeq(<<c>> \o h, 1, IF Len(h) < MaxHistory THEN Len(h) + 1 ELSE MaxHistory)

RecordHistory(c, d) ==
    \E reply \in Replies :
        /\ Noted(reply)
        /\ redis' = IF Applied(reply) THEN [redis EXCEPT !.history = Push(@, c)] ELSE redis
        /\ local' = IF FallsBack(reply) THEN [local EXCEPT ![d].history = Push(@, c)] ELSE local

AddCostLocally(d) ==
    LET s == local[d] IN
    local' = [local EXCEPT ![d] =
        [s EXCEPT
            !.cost = @ + CostUSD,
            !.daily = (IF s.on = today THEN @ ELSE 0) + CostUSD,
            !.on = today]]

Costlier == [redis EXCEPT !.cost = @ + CostUSD, !.day[today] = @ + CostUSD]

(* The SQLite store, whose error is dropped. *)
AddDailyCost(d) == store' = [store EXCEPT ![d][today] = @ + CostUSD]

AddCost(d) ==
    \E reply \in Replies :
        /\ redis' = IF Applied(reply) THEN Costlier ELSE redis
        /\ IF ~FallsBack(reply) THEN UNCHANGED <<local, store, faults>>
           ELSE /\ AddCostLocally(d)
                /\ \/ AddDailyCost(d) /\ Noted(reply)
                   \/ CanFail("store") /\ faults' = Append(faults, "store") /\ UNCHANGED store

-------------------------------------------------------------------------------
(* Pipeline.Evaluate *)

Deny(c) ==
    /\ effect' = [effect EXCEPT ![c] = "deny"]
    /\ pc' = [pc EXCEPT ![c] = "deciding"]
Go(c, step) == pc' = [pc EXCEPT ![c] = step] /\ UNCHANGED effect

(* [1] The kill switch. *)
Begin(c, d) ==
    /\ pc[c] = "idle"
    /\ IF IsKilled(d) THEN Deny(c) ELSE Go(c, "counting")
    /\ at' = [at EXCEPT ![c] = Instance(d)]
    /\ before' = [before EXCEPT ![c] =
          [over |-> {b \in Calls : pc[b] \in {"booking", "done"}},
           paid |-> {b \in Calls : booked[b] # 0},
           kill |-> kills[d], day |-> 0]]
    /\ UNCHANGED <<configVars, dataVars, ticket, saw, booked, faults>>

(* [4] The call is counted, and [5] checkBudget compares the number drawn. *)
Count(c) ==
    /\ pc[c] = "counting"
    /\ IncrCallCount(c, at[c][1])
    /\ IF budget.calls > 0 /\ ticket'[c].n > budget.calls THEN Deny(c) ELSE Go(c, "session budget")
    /\ UNCHANGED <<configVars, store, kills, at, saw, booked, before>>

(* Mutant of Reached: the limit itself may still be spent. *)
Above(cost, limit) == limit > 0 /\ cost > limit

Reached(cost, limit) == limit > 0 /\ cost >= limit

CheckSession(c) ==
    /\ pc[c] = "session budget"
    /\ IF Reached(CurrentCostUSD(at[c][1]), budget.session) THEN Deny(c) ELSE Go(c, "daily budget")
    /\ UNCHANGED <<configVars, dataVars, at, ticket, saw, booked, faults, before>>

CheckDaily(c) ==
    /\ pc[c] = "daily budget"
    /\ \/ /\ IF Reached(DailyCostUSD(at[c][1]), budget.daily) THEN Deny(c) ELSE Go(c, "rules")
          /\ UNCHANGED faults
       \/ /\ ~(shared /\ reachable) /\ CanFail("store")
          /\ IF Reached(DailyCostField(at[c][1]), budget.daily) THEN Deny(c) ELSE Go(c, "rules")
          /\ faults' = Append(faults, "store")
    /\ before' = [before EXCEPT ![c].day = today]
    /\ UNCHANGED <<configVars, dataVars, at, ticket, saw, booked>>

(* [6] The history is read and [8] the rules decide. *)
ApplyRules(c) ==
    /\ pc[c] = "rules"
    /\ saw' = [saw EXCEPT ![c] = History(at[c][1])]
    /\ \E e \in {"permit", "deny"} : effect' = [effect EXCEPT ![c] = e]
    /\ pc' = [pc EXCEPT ![c] = "deciding"]
    /\ UNCHANGED <<configVars, dataVars, at, ticket, booked, faults, before>>

(* Mutant of Decide: the history is left to a goroutine that never runs.  *)
DecideForgotten(c) ==
    /\ pc[c] = "deciding"
    /\ pc' = [pc EXCEPT ![c] = IF effect[c] = "permit" THEN "booking" ELSE "done"]
    /\ UNCHANGED <<configVars, dataVars, at, ticket, effect, saw, booked, faults, before>>

(* decide: the record is written, then the history, and the answer goes    *)
(* out; accountCost runs behind it.                                        *)
Decide(c) ==
    /\ pc[c] = "deciding"
    /\ RecordHistory(c, at[c][1])
    /\ pc' = [pc EXCEPT ![c] = IF effect[c] = "permit" THEN "booking" ELSE "done"]
    /\ UNCHANGED <<configVars, store, kills, at, ticket, effect, saw, booked, before>>

(* decide: a record that cannot be written denies, and leaves no trace.    *)
DecideUnaudited(c) ==
    /\ CanFail("wal") /\ faults' = Append(faults, "wal")
    /\ pc[c] = "deciding"
    /\ effect' = [effect EXCEPT ![c] = "deny"]
    /\ pc' = [pc EXCEPT ![c] = "refused"]
    /\ UNCHANGED <<configVars, dataVars, at, ticket, saw, booked, before>>

(* accountCost *)
Book(c) ==
    /\ pc[c] = "booking"
    /\ AddCost(at[c][1])
    /\ pc' = [pc EXCEPT ![c] = "done"]
    /\ booked' = [booked EXCEPT ![c] = today]
    /\ UNCHANGED <<configVars, kills, at, ticket, effect, saw, before>>

-------------------------------------------------------------------------------
(* Kill, and the environment *)

(* Mutant of Kill: only the backend is told. *)
KillShared(d) ==
    /\ kills[d] \in {"no", "unstored"}
    /\ Cardinality({e \in Daemons : kills[e] # "no"}) < MaxKills
    /\ kills' = [kills EXCEPT ![d] = IF shared THEN "setting" ELSE "stored"]
    /\ UNCHANGED <<configVars, redis, local, store, callVars, faults, before>>

(* Kill sets the field first *)
Kill(d) ==
    /\ kills[d] \in {"no", "unstored"}
    /\ Cardinality({e \in Daemons : kills[e] # "no"}) < MaxKills
    /\ local' = [local EXCEPT ![d].killed = TRUE]
    /\ kills' = [kills EXCEPT ![d] = IF shared THEN "setting" ELSE "stored"]
    /\ UNCHANGED <<configVars, redis, store, callVars, faults, before>>

(* and then the backend, whose error is dropped. *)
SetKillSwitch(d) ==
    /\ kills[d] = "setting"
    /\ \E reply \in Replies :
          /\ Noted(reply)
          /\ redis' = IF Applied(reply) THEN [redis EXCEPT !.killed = TRUE] ELSE redis
          /\ kills' = [kills EXCEPT ![d] = IF Applied(reply) THEN "stored" ELSE "unstored"]
    /\ UNCHANGED <<configVars, local, store, callVars, before>>

Outage ==
    /\ shared /\ reachable /\ CanFail("outage")
    /\ reachable' = FALSE /\ faults' = Append(faults, "outage")
    /\ UNCHANGED <<budget, shared, today, restarts, epoch, dataVars, callVars, before>>

Recovery ==
    /\ shared /\ ~reachable
    /\ reachable' = TRUE
    /\ UNCHANGED <<budget, shared, today, restarts, epoch, dataVars, callVars, faults, before>>

Midnight ==
    /\ today < MaxDays
    /\ today' = today + 1
    /\ UNCHANGED <<budget, shared, reachable, restarts, epoch, dataVars, callVars, faults, before>>

(* The daemon dies and starts again, which takes an answer to its ping. The *)
(* calls it was serving, and the costs it had not booked, are lost with it. *)
Restart(d) ==
    /\ shared => reachable
    /\ restarts < MaxRestarts
    /\ restarts' = restarts + 1
    /\ epoch' = [epoch EXCEPT ![d] = restarts + 1]
    /\ local' = [local EXCEPT ![d] = FreshState]
    /\ kills' = [kills EXCEPT ![d] = "no"]
    /\ pc' = [c \in Calls |->
                IF at[c] = Instance(d) /\ pc[c] \notin {"done", "refused"} THEN "lost" ELSE pc[c]]
    /\ UNCHANGED <<budget, shared, reachable, today, redis, store, at, ticket, effect, saw,
                   booked, faults, before>>

-------------------------------------------------------------------------------

Next ==
    \/ \E c \in Calls :
         \/ \E d \in Daemons : Begin(c, d)
         \/ Count(c) \/ CheckSession(c) \/ CheckDaily(c) \/ ApplyRules(c)
         \/ Decide(c) \/ DecideUnaudited(c) \/ Book(c)
    \/ \E d \in Daemons : Kill(d) \/ SetKillSwitch(d) \/ Restart(d)
    \/ Outage \/ Recovery \/ Midnight

Spec == Init /\ [][Next]_vars

-------------------------------------------------------------------------------
(* Properties *)

Steps == {"idle", "counting", "session budget", "daily budget", "rules", "deciding",
          "booking", "done", "refused", "lost"}
Instances == (Daemons \X Nat) \cup {Redis}

Kills == {"no", "setting", "unstored", "stored"}
Histories == {h \in Seq(Calls) : Len(h) <= MaxHistory}
Backend == [calls : Nat, cost : Nat, day : [Days -> Nat], killed : BOOLEAN, history : Histories]
State == [calls : Nat, cost : Nat, daily : Nat, on : {0} \cup Days, killed : BOOLEAN,
          history : Histories]

ConfigTypes ==
    /\ budget \in Budgets /\ shared \in BOOLEAN /\ reachable \in BOOLEAN
    /\ today \in Days /\ restarts \in Nat /\ faults \in Seq(Faults)
    /\ epoch \in [Daemons -> Nat]
DataTypes ==
    /\ redis \in Backend
    /\ local \in [Daemons -> State]
    /\ store \in [Daemons -> [Days -> Nat]]
    /\ kills \in [Daemons -> Kills]
CallTypes ==
    /\ pc \in [Calls -> Steps]
    /\ at \in [Calls -> Instances]
    /\ ticket \in [Calls -> [from : Instances, n : Nat]]
    /\ effect \in [Calls -> {"permit", "deny", None}]
    /\ saw \in [Calls -> Histories]
    /\ booked \in [Calls -> {0} \cup Days]
    /\ before \in [Calls -> [over : SUBSET Calls, paid : SUBSET Calls,
                            kill : Kills, day : {0} \cup Days]]

(* The types of the variables; no history is longer than it may be. *)
TypeOK == ConfigTypes /\ DataTypes /\ CallTypes

(* Has the backend or a store failed? *)
Trouble == \E i \in DOMAIN faults : faults[i] # "wal"

Permitted == {c \in Calls : effect[c] = "permit"}

(* Budget.MaxCalls: whatever fails and however calls interleave, each      *)
(* counter that ever served a call (the backend's, or one of a daemon that *)
(* fell back to its own) lets at most MaxCalls calls through, and with a   *)
(* backend that never failed there is only that one.                       *)
CallsAreBounded ==
    /\ budget.calls > 0 =>
         Cardinality(Permitted) <= budget.calls * Cardinality({ticket[c].from : c \in Permitted})
    /\ shared /\ ~Trouble => \A c \in Permitted : ticket[c].from = Redis

(* checkBudget, and accountCost behind the answer: a call is not permitted *)
(* when the costs booked before it began reach a limit, the daily ones     *)
(* also across a restart of the daemon.                                    *)
SameSession(b, c) == shared \/ at[b] = at[c]
SameLedger(b, c) == shared \/ at[b][1] = at[c][1]
Spent(set) == CostUSD * Cardinality(set)
BudgetsHold ==
    ~Trouble => \A c \in Permitted :
        /\ budget.session > 0 =>
             Spent({b \in before[c].paid : SameSession(b, c)}) < budget.session
        /\ budget.daily > 0 =>
             Spent({b \in before[c].paid : SameLedger(b, c) /\ booked[b] = before[c].day})
                 < budget.daily

(* "History must be updated synchronously" (pipeline.go:976): a call sees  *)
(* every decision of its session that was out before it began, unless      *)
(* newer ones have pushed it out.                                          *)
HistoryIsFresh ==
    ~Trouble => \A c \in Permitted :
        \/ {b \in before[c].over : SameSession(b, c)} \subseteq {saw[c][i] : i \in DOMAIN saw[c]}
        \/ Len(saw[c]) = MaxHistory

(* A kill that the daemon and its backend both have taken stops every call *)
(* that the daemon begins afterwards, whether the backend answers or not.  *)
StoredKillHolds == \A c \in Permitted : before[c].kill # "stored"

(* state.go:226: all Evaluate calls after a Kill are denied. *)
KillHolds == \A c \in Permitted : before[c].kill \notin {"stored", "unstored"}
===============================================================================
