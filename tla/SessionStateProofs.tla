--------------------------- MODULE SessionStateProofs ---------------------------
(***************************************************************************)
(* Proofs about SessionState for any number of daemons, calls, faults,     *)
(* restarts and kills, and any budgets.                                    *)
(***************************************************************************)
EXTENDS SessionState, FiniteSetTheorems, SequenceTheorems, TLAPS

-------------------------------------------------------------------------------
(* The inductive invariant *)

(* A call that has begun is served by a daemon.                            *)
ServedInv == \A c \in Calls : pc[c] # "idle" => at[c] \in Daemons \X Nat

(* A kill is in the daemon's field, and once stored in the backend; a call *)
(* that began after a stored one was denied at once.                       *)
KillInv ==
    /\ \A d \in Daemons : kills[d] # "no" => local[d].killed
    /\ \A d \in Daemons : kills[d] = "stored" /\ shared => redis.killed
    /\ \A c \in Calls : before[c].kill = "stored" =>
          effect[c] = "deny" /\ pc[c] \in {"deciding", "booking", "done", "refused", "lost"}

(* The number drawn was counted by the counter it was drawn from, if that  *)
(* one still exists.                                                       *)
Drawn == {c \in Calls : ticket[c].n > 0}
CountedBy(c) ==
    \/ ticket[c].from = Redis /\ ticket[c].n <= redis.calls
    \/ \E d \in Daemons : \E e \in 0 .. epoch[d] :
          /\ ticket[c].from = <<d, e>>
          /\ e = epoch[d] => ticket[c].n <= local[d].calls

(* No two calls draw the same number from the same counter, and what is    *)
(* permitted has drawn one within the limit.                               *)
TicketInv ==
    /\ \A d \in Daemons : epoch[d] <= restarts
    /\ \A c \in Drawn : CountedBy(c)
    /\ \A b, c \in Drawn : ticket[b] = ticket[c] => b = c
    /\ \A c \in Calls : pc[c] \in {"idle", "counting"} => effect[c] = None
    /\ \A c \in Calls : pc[c] \in {"session budget", "daily budget", "rules"} \/ effect[c] = "permit" =>
          c \in Drawn /\ (budget.calls > 0 => ticket[c].n <= budget.calls)

(* Without trouble the backend is there, and numbers come from it only.    *)
SoundInv == shared /\ ~Trouble => reachable /\ \A c \in Calls : ticket[c].from = Redis

IInv == TypeOK /\ ServedInv /\ KillInv /\ TicketInv /\ SoundInv

-------------------------------------------------------------------------------
(* Types *)

LEMMA Fresh ==
    /\ FreshBackend \in Backend /\ FreshState \in State /\ <<>> \in Histories
    /\ 1 \in Days /\ Redis \in Instances /\ NoTicket \in [from : Instances, n : Nat]
<1>1. <<>> \in Histories
  BY SessionAssumption DEF Histories
<1>2. 1 \in Days
  BY SessionAssumption DEF Days
<1>3. Redis \in Instances
  BY DEF Instances
<1> QED
  BY <1>1, <1>2, <1>3 DEF FreshBackend, FreshState, Backend, State, NoTicket

LEMMA TypeInit == Init => TypeOK
<1> SUFFICES ASSUME Init PROVE TypeOK
  OBVIOUS
<1>1. ConfigTypes
  BY Fresh DEF Init, ConfigTypes
<1>2. DataTypes
  BY Fresh DEF Init, DataTypes, Kills
<1>3. CallTypes
  <2>1. Nothing \in [over : SUBSET Calls, paid : SUBSET Calls, kill : Kills, day : {0} \cup Days]
    BY DEF Nothing, Kills
  <2> QED
    BY Fresh, <2>1 DEF Init, CallTypes, Steps, Redis
<1> QED
  BY <1>1, <1>2, <1>3 DEF TypeOK

(* A history stays as short as it must be. *)
LEMMA PushType ==
    ASSUME NEW h \in Histories, NEW c \in Calls
    PROVE  Push(h, c) \in Histories
<1> DEFINE g == <<c>> \o h
           k == IF Len(h) < MaxHistory THEN Len(h) + 1 ELSE MaxHistory
<1>1. h \in Seq(Calls) /\ Len(h) \in Nat /\ Len(h) <= MaxHistory /\ MaxHistory \in Nat
  BY SessionAssumption DEF Histories
<1>2. g \in Seq(Calls) /\ Len(g) = Len(h) + 1
  BY <1>1
<1>3. k \in 0 .. Len(g) /\ k <= MaxHistory
  BY <1>1, <1>2
<1> HIDE DEF g, k
<1>4. SubSeq(g, 1, k) \in Seq(Calls) /\ Len(SubSeq(g, 1, k)) = k
  BY <1>2, <1>3, SubSeqProperties
<1>5. SubSeq(g, 1, k) \in Histories
  BY <1>3, <1>4 DEF Histories
<1> QED
  BY <1>5 DEF Push, g, k

(* Faults are only added. *)
Grown == \/ faults' = faults
         \/ \E f \in Faults : faults' = Append(faults, f)
LEMMA FaultsGrow ==
    ASSUME faults \in Seq(Faults), Grown
    PROVE  /\ faults' \in Seq(Faults)
           /\ Trouble => Trouble'
           /\ \A f \in Faults : f # "wal" /\ faults' = Append(faults, f) => Trouble'
<1>1. CASE faults' = faults
  <2>1. \A f \in Faults : faults' # Append(faults, f)
    BY <1>1, AppendProperties
  <2> QED
    BY <1>1, <2>1 DEF Trouble
<1>2. ASSUME NEW f \in Faults, faults' = Append(faults, f)
      PROVE  /\ faults' \in Seq(Faults)
             /\ Trouble => Trouble'
             /\ f # "wal" => Trouble'
  <2>1. /\ faults' \in Seq(Faults) /\ Len(faults') = Len(faults) + 1
        /\ \A i \in 1 .. Len(faults) : faults'[i] = faults[i]
        /\ faults'[Len(faults) + 1] = f
    BY <1>2, AppendProperties
  <2>2. /\ DOMAIN faults = 1 .. Len(faults) /\ Len(faults) \in Nat
        /\ DOMAIN faults' = 1 .. Len(faults) + 1
    BY <2>1
  <2> QED
    BY <2>1, <2>2 DEF Trouble
<1> QED
  BY <1>1, <1>2 DEF Grown

LEMMA NotedGrows ==
    ASSUME NEW reply \in Replies, Noted(reply)
    PROVE  Grown
<1>1. reply = "lost_reply" => "lost_reply" \in Faults
  BY DEF Replies, CanFail
<1> QED
  BY <1>1 DEF Noted, Grown

(* What the methods of State leave behind is of the right type. *)
LEMMA CountType ==
    ASSUME TypeOK, NEW c \in Calls, NEW d \in Daemons, IncrCallCount(c, d)
    PROVE  /\ redis' \in Backend /\ local' \in [Daemons -> State]
           /\ ticket' \in [Calls -> [from : Instances, n : Nat]]
           /\ Grown
<1>1. PICK reply \in Replies :
        /\ Noted(reply)
        /\ redis' = IF Applied(reply) THEN [redis EXCEPT !.calls = @ + 1] ELSE redis
        /\ local' = IF FallsBack(reply) THEN [local EXCEPT ![d].calls = @ + 1] ELSE local
        /\ ticket' = [ticket EXCEPT ![c] =
              IF FallsBack(reply) THEN [from |-> Instance(d), n |-> local[d].calls + 1]
                                  ELSE [from |-> Redis, n |-> redis.calls + 1]]
  BY DEF IncrCallCount
<1>2. redis' \in Backend
  BY <1>1 DEF TypeOK, DataTypes, Backend
<1>3. local' \in [Daemons -> State]
  <2> DEFINE more == [local[d] EXCEPT !.calls = local[d].calls + 1]
  <2>1. local \in [Daemons -> State]
    BY DEF TypeOK, DataTypes
  <2>2. more \in State
    BY <2>1 DEF State
  <2>3. local' = IF FallsBack(reply) THEN [local EXCEPT ![d] = more] ELSE local
    BY <1>1
  <2> HIDE DEF more
  <2> QED
    BY <2>1, <2>2, <2>3
<1>4. ticket' \in [Calls -> [from : Instances, n : Nat]]
  <2>1. Instance(d) \in Instances /\ Redis \in Instances
    BY DEF TypeOK, ConfigTypes, Instance, Instances
  <2>2. local[d].calls + 1 \in Nat /\ redis.calls + 1 \in Nat
    BY DEF TypeOK, DataTypes, Backend, State
  <2> QED
    BY <1>1, <2>1, <2>2 DEF TypeOK, CallTypes
<1> QED
  BY <1>1, <1>2, <1>3, <1>4, NotedGrows

LEMMA HistoryType ==
    ASSUME TypeOK, NEW c \in Calls, NEW d \in Daemons, RecordHistory(c, d)
    PROVE  redis' \in Backend /\ local' \in [Daemons -> State] /\ Grown
<1>1. PICK reply \in Replies :
        /\ Noted(reply)
        /\ redis' = IF Applied(reply) THEN [redis EXCEPT !.history = Push(@, c)] ELSE redis
        /\ local' = IF FallsBack(reply) THEN [local EXCEPT ![d].history = Push(@, c)] ELSE local
  BY DEF RecordHistory
<1>2. redis' \in Backend
  <2> DEFINE new == Push(redis.history, c)
  <2>1. new \in Histories
    BY PushType DEF TypeOK, DataTypes, Backend
  <2>2. redis' = IF Applied(reply) THEN [redis EXCEPT !.history = new] ELSE redis
    BY <1>1
  <2> HIDE DEF new
  <2> QED
    BY <2>1, <2>2 DEF TypeOK, DataTypes, Backend
<1>3. local' \in [Daemons -> State]
  <2> DEFINE new == Push(local[d].history, c)
  <2>1. new \in Histories
    BY PushType DEF TypeOK, DataTypes, State
  <2>2. local' = IF FallsBack(reply) THEN [local EXCEPT ![d].history = new] ELSE local
    BY <1>1
  <2> HIDE DEF new
  <2> QED
    BY <2>1, <2>2 DEF TypeOK, DataTypes, State
<1> QED
  BY <1>1, <1>2, <1>3, NotedGrows

LEMMA CostType ==
    ASSUME TypeOK, NEW d \in Daemons, AddCost(d)
    PROVE  /\ redis' \in Backend /\ local' \in [Daemons -> State]
           /\ store' \in [Daemons -> [Days -> Nat]]
           /\ Grown
<1>0. CostUSD \in Nat /\ today \in Days
  BY SessionAssumption DEF TypeOK, ConfigTypes
<1>1. PICK reply \in Replies :
        /\ redis' = IF Applied(reply) THEN Costlier ELSE redis
        /\ \/ UNCHANGED <<local, store, faults>>
           \/ AddCostLocally(d) /\ AddDailyCost(d) /\ Noted(reply)
           \/ /\ AddCostLocally(d) /\ UNCHANGED store
              /\ CanFail("store") /\ faults' = Append(faults, "store")
  BY DEF AddCost
<1>2. redis' \in Backend
  <2> DEFINE days == [redis.day EXCEPT ![today] = redis.day[today] + CostUSD]
  <2>1. Costlier \in Backend
    <3>1. redis \in Backend
      BY DEF TypeOK, DataTypes
    <3>2. days \in [Days -> Nat] /\ redis.cost + CostUSD \in Nat
      BY <1>0, <3>1 DEF Backend
    <3>3. Costlier = [redis EXCEPT !.cost = redis.cost + CostUSD, !.day = days]
      BY <3>1 DEF Costlier, Backend
    <3> HIDE DEF days
    <3> QED
      BY <3>1, <3>2, <3>3 DEF Backend
  <2> QED
    BY <1>1, <2>1 DEF TypeOK, DataTypes
<1>3. local' \in [Daemons -> State]
  <2>1. CASE AddCostLocally(d)
    <3> DEFINE costlier ==
          [local[d] EXCEPT
             !.cost = local[d].cost + CostUSD,
             !.daily = (IF local[d].on = today THEN local[d].daily ELSE 0) + CostUSD,
             !.on = today]
    <3>1. local \in [Daemons -> State]
      BY DEF TypeOK, DataTypes
    <3>2. costlier \in State
      <4> DEFINE cost == local[d].cost + CostUSD
                 daily == (IF local[d].on = today THEN local[d].daily ELSE 0) + CostUSD
      <4>1. local[d] \in State
        BY <3>1
      <4>2. cost \in Nat /\ daily \in Nat
        BY <1>0, <4>1 DEF State
      <4>3. costlier = [local[d] EXCEPT !.cost = cost, !.daily = daily, !.on = today]
        OBVIOUS
      <4> HIDE DEF cost, daily, costlier
      <4> QED
        BY <1>0, <4>1, <4>2, <4>3 DEF State
    <3>3. local' = [local EXCEPT ![d] = costlier]
      BY <2>1 DEF AddCostLocally
    <3> HIDE DEF costlier
    <3> QED
      BY <3>1, <3>2, <3>3
  <2> QED
    BY <1>1, <2>1 DEF TypeOK, DataTypes
<1>4. store' \in [Daemons -> [Days -> Nat]]
  <2>1. CASE AddDailyCost(d)
    BY <1>0, <2>1 DEF AddDailyCost, TypeOK, DataTypes
  <2> QED
    BY <1>1, <2>1 DEF TypeOK, DataTypes
<1>5. Grown
  BY <1>1, NotedGrows DEF Grown, CanFail
<1> QED
  BY <1>2, <1>3, <1>4, <1>5

LEMMA GrownType ==
    ASSUME TypeOK, Grown
    PROVE  faults' \in Seq(Faults)
BY FaultsGrow DEF TypeOK, ConfigTypes

LEMMA DenyOrGo ==
    ASSUME TypeOK, NEW c \in Calls, NEW step \in Steps, Deny(c) \/ Go(c, step)
    PROVE  pc' \in [Calls -> Steps] /\ effect' \in [Calls -> {"permit", "deny", None}]
BY DEF TypeOK, CallTypes, Deny, Go, Steps

LEMMA TypeStep == TypeOK /\ ServedInv /\ [Next]_vars => TypeOK'
<1> SUFFICES ASSUME TypeOK, ServedInv, [Next]_vars PROVE TypeOK'
  OBVIOUS
<1>1. ASSUME NEW c \in Calls, NEW d \in Daemons, Begin(c, d) PROVE TypeOK'
  <2>1. pc' \in [Calls -> Steps] /\ effect' \in [Calls -> {"permit", "deny", None}]
    BY <1>1, DenyOrGo DEF Begin, Steps
  <2>2. Instance(d) \in Instances
    BY DEF TypeOK, ConfigTypes, Instance, Instances
  <2>3. ConfigTypes' /\ DataTypes'
    BY <1>1 DEF Begin, TypeOK, ConfigTypes, DataTypes, configVars, dataVars
  <2>4. before' \in [Calls -> [over : SUBSET Calls, paid : SUBSET Calls,
                              kill : Kills, day : {0} \cup Days]]
    <3> DEFINE now == [over |-> {b \in Calls : pc[b] \in {"booking", "done"}},
                       paid |-> {b \in Calls : booked[b] # 0},
                       kill |-> kills[d], day |-> 0]
    <3>1. now \in [over : SUBSET Calls, paid : SUBSET Calls, kill : Kills, day : {0} \cup Days]
      BY DEF TypeOK, DataTypes
    <3>2. before' = [before EXCEPT ![c] = now]
      BY <1>1 DEF Begin
    <3> HIDE DEF now
    <3> QED
      BY <3>1, <3>2 DEF TypeOK, CallTypes
  <2>5. at' \in [Calls -> Instances] /\ UNCHANGED <<ticket, saw, booked>>
    BY <1>1, <2>2 DEF Begin, TypeOK, CallTypes
  <2> QED
    BY <2>1, <2>3, <2>4, <2>5 DEF TypeOK, CallTypes
<1>2. ASSUME NEW c \in Calls, Count(c) PROVE TypeOK'
  <2>1. at[c][1] \in Daemons
    BY <1>2 DEF Count, ServedInv
  <2>2. /\ redis' \in Backend /\ local' \in [Daemons -> State]
        /\ ticket' \in [Calls -> [from : Instances, n : Nat]]
        /\ Grown
    BY <1>2, <2>1, CountType DEF Count
  <2>3. pc' \in [Calls -> Steps] /\ effect' \in [Calls -> {"permit", "deny", None}]
    BY <1>2, DenyOrGo DEF Count, Steps
  <2>4. ConfigTypes' /\ DataTypes'
    BY <1>2, <2>2, GrownType DEF Count, TypeOK, ConfigTypes, DataTypes, configVars
  <2>5. UNCHANGED <<at, saw, booked, before>>
    BY <1>2 DEF Count
  <2> QED
    BY <2>2, <2>3, <2>4, <2>5 DEF TypeOK, CallTypes
<1>3. ASSUME NEW c \in Calls, CheckSession(c) PROVE TypeOK'
  <2>1. pc' \in [Calls -> Steps] /\ effect' \in [Calls -> {"permit", "deny", None}]
    BY <1>3, DenyOrGo DEF CheckSession, Steps
  <2>2. ConfigTypes' /\ DataTypes'
    BY <1>3 DEF CheckSession, TypeOK, ConfigTypes, DataTypes, configVars, dataVars
  <2>3. UNCHANGED <<at, ticket, saw, booked, before>>
    BY <1>3 DEF CheckSession
  <2> QED
    BY <2>1, <2>2, <2>3 DEF TypeOK, CallTypes
<1>4. ASSUME NEW c \in Calls, CheckDaily(c) PROVE TypeOK'
  <2>1. pc' \in [Calls -> Steps] /\ effect' \in [Calls -> {"permit", "deny", None}]
    BY <1>4, DenyOrGo DEF CheckDaily, Steps
  <2>2. Grown
    BY <1>4 DEF CheckDaily, CanFail, Grown
  <2>3. ConfigTypes' /\ DataTypes'
    BY <1>4, <2>2, GrownType
    DEF CheckDaily, TypeOK, ConfigTypes, DataTypes, configVars, dataVars
  <2>4. UNCHANGED <<at, ticket, saw, booked>> /\ before' = [before EXCEPT ![c].day = today]
    BY <1>4 DEF CheckDaily
  <2>5. before' \in [Calls -> [over : SUBSET Calls, paid : SUBSET Calls,
                              kill : Kills, day : {0} \cup Days]]
    <3> DEFINE new == [before[c] EXCEPT !.day = today]
    <3>1. new \in [over : SUBSET Calls, paid : SUBSET Calls, kill : Kills, day : {0} \cup Days]
      <4>1. before[c] \in [over : SUBSET Calls, paid : SUBSET Calls, kill : Kills,
                           day : {0} \cup Days]
        BY DEF TypeOK, CallTypes
      <4>2. today \in {0} \cup Days
        BY DEF TypeOK, ConfigTypes
      <4> DEFINE none == {0} \cup Days
      <4> HIDE DEF none
      <4> QED
        BY <4>1, <4>2
    <3>2. before' = [before EXCEPT ![c] = new]
      BY <2>4
    <3> HIDE DEF new
    <3> QED
      BY <3>1, <3>2 DEF TypeOK, CallTypes
  <2> QED
    BY <2>1, <2>3, <2>4, <2>5 DEF TypeOK, CallTypes
<1>5. ASSUME NEW c \in Calls, ApplyRules(c) PROVE TypeOK'
  <2>1. at[c][1] \in Daemons
    BY <1>5 DEF ApplyRules, ServedInv
  <2>2. History(at[c][1]) \in Histories
    BY <2>1 DEF History, TypeOK, DataTypes, Backend, State
  <2>3. saw' \in [Calls -> Histories]
    BY <1>5, <2>2 DEF ApplyRules, TypeOK, CallTypes
  <2>4. pc' \in [Calls -> Steps] /\ effect' \in [Calls -> {"permit", "deny", None}]
    BY <1>5 DEF ApplyRules, TypeOK, CallTypes, Steps
  <2>5. ConfigTypes' /\ DataTypes'
    BY <1>5 DEF ApplyRules, TypeOK, ConfigTypes, DataTypes, configVars, dataVars
  <2>6. UNCHANGED <<at, ticket, booked, before>>
    BY <1>5 DEF ApplyRules
  <2> QED
    BY <2>3, <2>4, <2>5, <2>6 DEF TypeOK, CallTypes
<1>6. ASSUME NEW c \in Calls, Decide(c) PROVE TypeOK'
  <2>1. at[c][1] \in Daemons
    BY <1>6 DEF Decide, ServedInv
  <2>2. redis' \in Backend /\ local' \in [Daemons -> State] /\ Grown
    BY <1>6, <2>1, HistoryType DEF Decide
  <2>3. pc' \in [Calls -> Steps]
    BY <1>6 DEF Decide, TypeOK, CallTypes, Steps
  <2>4. ConfigTypes' /\ DataTypes'
    BY <1>6, <2>2, GrownType DEF Decide, TypeOK, ConfigTypes, DataTypes, configVars
  <2>5. UNCHANGED <<at, ticket, effect, saw, booked, before>>
    BY <1>6 DEF Decide
  <2> QED
    BY <2>3, <2>4, <2>5 DEF TypeOK, CallTypes
<1>7. ASSUME NEW c \in Calls, DecideUnaudited(c) PROVE TypeOK'
  <2>1. Grown
    BY <1>7 DEF DecideUnaudited, CanFail, Grown
  <2>2. pc' \in [Calls -> Steps] /\ effect' \in [Calls -> {"permit", "deny", None}]
    BY <1>7 DEF DecideUnaudited, TypeOK, CallTypes, Steps
  <2>3. ConfigTypes' /\ DataTypes'
    BY <1>7, <2>1, GrownType
    DEF DecideUnaudited, TypeOK, ConfigTypes, DataTypes, configVars, dataVars
  <2>4. UNCHANGED <<at, ticket, saw, booked, before>>
    BY <1>7 DEF DecideUnaudited
  <2> QED
    BY <2>2, <2>3, <2>4 DEF TypeOK, CallTypes
<1>8. ASSUME NEW c \in Calls, Book(c) PROVE TypeOK'
  <2>1. at[c][1] \in Daemons
    BY <1>8 DEF Book, ServedInv
  <2>2. /\ redis' \in Backend /\ local' \in [Daemons -> State]
        /\ store' \in [Daemons -> [Days -> Nat]] /\ Grown
    BY <1>8, <2>1, CostType DEF Book
  <2>3. pc' \in [Calls -> Steps] /\ booked' \in [Calls -> {0} \cup Days]
    BY <1>8 DEF Book, TypeOK, ConfigTypes, CallTypes, Steps
  <2>4. ConfigTypes' /\ DataTypes'
    BY <1>8, <2>2, GrownType DEF Book, TypeOK, ConfigTypes, DataTypes, configVars
  <2>5. UNCHANGED <<at, ticket, effect, saw, before>>
    BY <1>8 DEF Book
  <2> QED
    BY <2>3, <2>4, <2>5 DEF TypeOK, CallTypes
<1>9. ASSUME NEW d \in Daemons, Kill(d) PROVE TypeOK'
  <2>1. local' \in [Daemons -> State]
    BY <1>9 DEF Kill, TypeOK, DataTypes, State
  <2>2. kills' \in [Daemons -> Kills]
    BY <1>9 DEF Kill, TypeOK, DataTypes, Kills
  <2> QED
    BY <1>9, <2>1, <2>2
    DEF Kill, TypeOK, ConfigTypes, DataTypes, CallTypes, configVars, callVars
<1>10. ASSUME NEW d \in Daemons, SetKillSwitch(d) PROVE TypeOK'
  <2>1. PICK reply \in Replies :
          /\ Noted(reply)
          /\ redis' = IF Applied(reply) THEN [redis EXCEPT !.killed = TRUE] ELSE redis
          /\ kills' = [kills EXCEPT ![d] = IF Applied(reply) THEN "stored" ELSE "unstored"]
    BY <1>10 DEF SetKillSwitch
  <2>2. redis' \in Backend
    BY <2>1 DEF TypeOK, DataTypes, Backend
  <2>3. kills' \in [Daemons -> Kills]
    BY <2>1 DEF TypeOK, DataTypes, Kills
  <2>4. faults' \in Seq(Faults)
    BY <2>1, NotedGrows, GrownType
  <2> QED
    BY <1>10, <2>2, <2>3, <2>4
    DEF SetKillSwitch, TypeOK, ConfigTypes, DataTypes, CallTypes, configVars, callVars
<1>11. ASSUME NEW d \in Daemons, Restart(d) PROVE TypeOK'
  <2>1. local' \in [Daemons -> State]
    BY <1>11, Fresh DEF Restart, TypeOK, DataTypes
  <2>2. kills' \in [Daemons -> Kills]
    BY <1>11 DEF Restart, TypeOK, DataTypes, Kills
  <2>3. pc' \in [Calls -> Steps]
    BY <1>11 DEF Restart, TypeOK, CallTypes, Steps
  <2>4. ConfigTypes'
    BY <1>11 DEF Restart, TypeOK, ConfigTypes
  <2> QED
    BY <1>11, <2>1, <2>2, <2>3, <2>4 DEF Restart, TypeOK, DataTypes, CallTypes
<1>12. CASE Outage \/ Recovery \/ Midnight
  <2>1. today' \in Days
    BY <1>12, SessionAssumption DEF Outage, Recovery, Midnight, TypeOK, ConfigTypes, Days
  <2>2. Grown
    BY <1>12 DEF Outage, Recovery, Midnight, CanFail, Grown
  <2>3. DataTypes' /\ CallTypes'
    BY <1>12
    DEF Outage, Recovery, Midnight, TypeOK, DataTypes, CallTypes, dataVars, callVars
  <2>4. ConfigTypes'
    BY <1>12, <2>1, <2>2, GrownType
    DEF Outage, Recovery, Midnight, TypeOK, ConfigTypes
  <2> QED
    BY <2>3, <2>4 DEF TypeOK
<1>13. CASE UNCHANGED vars
  BY <1>13
  DEF vars, configVars, dataVars, callVars, TypeOK, ConfigTypes, DataTypes, CallTypes
<1> QED
  BY <1>1, <1>2, <1>3, <1>4, <1>5, <1>6, <1>7, <1>8, <1>9, <1>10, <1>11, <1>12, <1>13 DEF Next

-------------------------------------------------------------------------------
(* What one step may change *)

(* A call begins, or serves its daemon until the end.                      *)
LEMMA ServedStep == TypeOK /\ ServedInv /\ [Next]_vars => ServedInv'
<1> SUFFICES ASSUME TypeOK, ServedInv, [Next]_vars, NEW b \in Calls, pc'[b] # "idle"
             PROVE  at'[b] \in Daemons \X Nat
  BY DEF ServedInv
<1>1. ASSUME NEW c \in Calls, NEW d \in Daemons, Begin(c, d) PROVE at'[b] \in Daemons \X Nat
  <2>1. Instance(d) \in Daemons \X Nat
    BY DEF TypeOK, ConfigTypes, Instance
  <2>2. at' = [at EXCEPT ![c] = Instance(d)]
    BY <1>1 DEF Begin
  <2>3. b # c => pc'[b] = pc[b]
    BY <1>1 DEF Begin, Deny, Go, TypeOK, CallTypes
  <2> QED
    BY <2>1, <2>2, <2>3 DEF TypeOK, CallTypes, ServedInv
<1>2. ASSUME NEW c \in Calls,
             \/ Count(c) \/ CheckSession(c) \/ CheckDaily(c) \/ ApplyRules(c)
             \/ Decide(c) \/ DecideUnaudited(c) \/ Book(c)
      PROVE  at'[b] \in Daemons \X Nat
  <2>1. at' = at /\ pc[c] # "idle"
    BY <1>2 DEF Count, CheckSession, CheckDaily, ApplyRules, Decide, DecideUnaudited, Book
  <2>2. b # c => pc'[b] = pc[b]
    BY <1>2
    DEF Count, CheckSession, CheckDaily, ApplyRules, Decide, DecideUnaudited, Book,
        Deny, Go, TypeOK, CallTypes
  <2> QED
    BY <2>1, <2>2 DEF ServedInv
<1>3. ASSUME NEW d \in Daemons, Kill(d) \/ SetKillSwitch(d) PROVE at'[b] \in Daemons \X Nat
  BY <1>3 DEF Kill, SetKillSwitch, callVars, ServedInv
<1>4. ASSUME NEW d \in Daemons, Restart(d) PROVE at'[b] \in Daemons \X Nat
  <2>1. at' = at
    BY <1>4 DEF Restart
  <2>2. CASE at[b] = Instance(d)
    BY <2>1, <2>2 DEF TypeOK, ConfigTypes, Instance
  <2>3. CASE at[b] # Instance(d)
    <3>1. pc'[b] = pc[b]
      BY <1>4, <2>3 DEF Restart
    <3> QED
      BY <2>1, <3>1 DEF ServedInv
  <2> QED
    BY <2>2, <2>3
<1>5. CASE Outage \/ Recovery \/ Midnight \/ UNCHANGED vars
  BY <1>5 DEF Outage, Recovery, Midnight, vars, callVars, ServedInv
<1> QED
  BY <1>1, <1>2, <1>3, <1>4, <1>5 DEF Next

LEMMA CountKeeps ==
    ASSUME TypeOK, NEW c \in Calls, NEW d \in Daemons, IncrCallCount(c, d)
    PROVE  /\ redis'.killed = redis.killed
           /\ \A e \in Daemons : local'[e].killed = local[e].killed
<1> DEFINE more == [local[d] EXCEPT !.calls = local[d].calls + 1]
<1>1. redis' = redis \/ redis' = [redis EXCEPT !.calls = redis.calls + 1]
  BY DEF IncrCallCount
<1>2. local' = local \/ local' = [local EXCEPT ![d] = more]
  BY DEF IncrCallCount
<1>3. more.killed = local[d].killed
  BY DEF TypeOK, DataTypes, State
<1> HIDE DEF more
<1> QED
  BY <1>1, <1>2, <1>3 DEF TypeOK, DataTypes, Backend

(* Neither the history nor the costs touch the counters and the switches.  *)
Kept == /\ redis'.killed = redis.killed /\ redis'.calls = redis.calls
        /\ \A e \in Daemons :
              local'[e].killed = local[e].killed /\ local'[e].calls = local[e].calls

LEMMA HistoryKeeps ==
    ASSUME TypeOK, NEW c \in Calls, NEW d \in Daemons, RecordHistory(c, d)
    PROVE  Kept
<1> DEFINE shorter == Push(redis.history, c)
           short == Push(local[d].history, c)
           new == [local[d] EXCEPT !.history = short]
<1>1. redis' = redis \/ redis' = [redis EXCEPT !.history = shorter]
  BY DEF RecordHistory
<1>2. local' = local \/ local' = [local EXCEPT ![d] = new]
  BY DEF RecordHistory
<1> HIDE DEF short, shorter
<1>3. new.killed = local[d].killed /\ new.calls = local[d].calls
  BY DEF TypeOK, DataTypes, State
<1> HIDE DEF new
<1> QED
  BY <1>1, <1>2, <1>3 DEF TypeOK, DataTypes, Backend, Kept

LEMMA CostKeeps ==
    ASSUME TypeOK, NEW d \in Daemons, AddCost(d)
    PROVE  Kept
<1> DEFINE cost == local[d].cost + CostUSD
           daily == (IF local[d].on = today THEN local[d].daily ELSE 0) + CostUSD
           new == [local[d] EXCEPT !.cost = cost, !.daily = daily, !.on = today]
<1>1. redis' = redis \/ redis' = Costlier
  BY DEF AddCost
<1>2. local' = local \/ local' = [local EXCEPT ![d] = new]
  BY DEF AddCost, AddCostLocally
<1> HIDE DEF cost, daily
<1>3. new.killed = local[d].killed /\ new.calls = local[d].calls
  BY DEF TypeOK, DataTypes, State
<1>4. Costlier.killed = redis.killed /\ Costlier.calls = redis.calls
  BY DEF Costlier, TypeOK, DataTypes, Backend
<1> HIDE DEF new
<1> QED
  BY <1>1, <1>2, <1>3, <1>4 DEF TypeOK, DataTypes, Kept

(* The kill switch of the backend stays on, and that of a daemon as long   *)
(* as it runs.                                                             *)
LEMMA KillInit == Init => KillInv
BY DEF Init, KillInv, FreshState, Nothing

LEMMA KillStep == TypeOK /\ ServedInv /\ KillInv /\ [Next]_vars => KillInv'
<1> SUFFICES ASSUME TypeOK, ServedInv, KillInv, [Next]_vars PROVE KillInv'
  OBVIOUS
<1> DEFINE Switches ==
        /\ UNCHANGED <<kills, shared>>
        /\ \A d \in Daemons : local'[d].killed = local[d].killed
        /\ redis'.killed = redis.killed
    Late(c) == pc[c] \in {"deciding", "booking", "done", "refused", "lost"}
<1>0. ASSUME Switches,
             \A c \in Calls : before'[c].kill = "stored" => effect'[c] = "deny" /\ Late(c)'
      PROVE  KillInv'
  BY <1>0 DEF KillInv
<1> HIDE DEF Switches
<1>1. ASSUME NEW c \in Calls, NEW d \in Daemons, Begin(c, d) PROVE KillInv'
  <2>1. Switches
    BY <1>1 DEF Begin, dataVars, configVars, Switches
  <2>2. ASSUME NEW b \in Calls, before'[b].kill = "stored"
        PROVE  effect'[b] = "deny" /\ Late(b)'
    <3>1. CASE b = c
      <4>1. before'[c].kill = kills[d]
        BY <1>1 DEF Begin, TypeOK, CallTypes
      <4>2. IsKilled(d)
        BY <2>2, <3>1, <4>1 DEF KillInv, IsKilled
      <4> QED
        BY <1>1, <3>1, <4>2 DEF Begin, Deny, TypeOK, CallTypes
    <3>2. CASE b # c
      BY <1>1, <2>2, <3>2 DEF Begin, Deny, Go, TypeOK, CallTypes, KillInv
    <3> QED
      BY <3>1, <3>2
  <2> QED
    BY <2>1, <2>2, <1>0
<1>2. ASSUME NEW c \in Calls, Count(c) \/ CheckSession(c) \/ CheckDaily(c) \/ ApplyRules(c)
      PROVE KillInv'
  <2>1. Switches
    <3>1. CASE Count(c)
      <4>1. at[c][1] \in Daemons
        BY <3>1 DEF Count, ServedInv
      <4> QED
        BY <3>1, <4>1, CountKeeps DEF Count, configVars, Switches
    <3>2. CASE CheckSession(c) \/ CheckDaily(c) \/ ApplyRules(c)
      BY <3>2 DEF CheckSession, CheckDaily, ApplyRules, configVars, dataVars, Switches
    <3> QED
      BY <1>2, <3>1, <3>2
  <2>2. before[c].kill # "stored"
    BY <1>2 DEF Count, CheckSession, CheckDaily, ApplyRules, KillInv
  <2>3. \A b \in Calls : before'[b].kill = before[b].kill
    <3>1. CASE CheckDaily(c)
      <4> DEFINE new == [before[c] EXCEPT !.day = today]
      <4>1. before' = [before EXCEPT ![c] = new]
        BY <3>1 DEF CheckDaily
      <4>2. new.kill = before[c].kill
        BY DEF TypeOK, CallTypes
      <4> HIDE DEF new
      <4> QED
        BY <4>1, <4>2 DEF TypeOK, CallTypes
    <3>2. CASE Count(c) \/ CheckSession(c) \/ ApplyRules(c)
      BY <3>2 DEF Count, CheckSession, ApplyRules
    <3> QED
      BY <1>2, <3>1, <3>2
  <2>4. \A b \in Calls : b # c => pc'[b] = pc[b] /\ effect'[b] = effect[b]
    BY <1>2 DEF Count, CheckSession, CheckDaily, ApplyRules, Deny, Go, TypeOK, CallTypes
  <2>5. ASSUME NEW b \in Calls, before'[b].kill = "stored"
        PROVE  effect'[b] = "deny" /\ Late(b)'
    BY <2>2, <2>3, <2>4, <2>5 DEF KillInv
  <2> QED
    BY <2>1, <2>5, <1>0
<1>3. ASSUME NEW c \in Calls, Decide(c) \/ DecideUnaudited(c) \/ Book(c) PROVE KillInv'
  <2>1. Switches
    <3>1. CASE DecideUnaudited(c)
      BY <3>1 DEF DecideUnaudited, configVars, dataVars, Switches
    <3>2. CASE Decide(c) \/ Book(c)
      <4>1. at[c][1] \in Daemons
        BY <3>2 DEF Decide, Book, ServedInv
      <4> QED
        BY <3>2, <4>1, HistoryKeeps, CostKeeps DEF Decide, Book, configVars, Kept, Switches
    <3> QED
      BY <1>3, <3>1, <3>2
  <2>2. \A b \in Calls : before'[b] = before[b] /\ (b # c => pc'[b] = pc[b])
    BY <1>3 DEF Decide, DecideUnaudited, Book, TypeOK, CallTypes
  <2>3. Late(c)'
    BY <1>3 DEF Decide, DecideUnaudited, Book, TypeOK, CallTypes
  <2>4. \A b \in Calls : effect[b] = "deny" => effect'[b] = "deny"
    BY <1>3 DEF Decide, DecideUnaudited, Book, TypeOK, CallTypes
  <2>5. ASSUME NEW b \in Calls, before'[b].kill = "stored"
        PROVE  effect'[b] = "deny" /\ Late(b)'
    BY <2>2, <2>3, <2>4, <2>5 DEF KillInv
  <2> QED
    BY <2>1, <2>5, <1>0
<1>4. ASSUME NEW d \in Daemons, Kill(d) PROVE KillInv'
  <2>1. \A e \in Daemons : local'[e].killed = (local[e].killed \/ e = d)
    BY <1>4 DEF Kill, TypeOK, DataTypes, State
  <2>2. \A e \in Daemons : kills'[e] # "no" => kills[e] # "no" \/ e = d
    BY <1>4 DEF Kill, TypeOK, DataTypes
  <2>3. \A e \in Daemons : kills'[e] = "stored" /\ shared => kills[e] = "stored"
    BY <1>4 DEF Kill, TypeOK, DataTypes
  <2>4. UNCHANGED <<shared, redis, before, effect, pc>>
    BY <1>4 DEF Kill, configVars, callVars
  <2> QED
    BY <2>1, <2>2, <2>3, <2>4 DEF KillInv
<1>5. ASSUME NEW d \in Daemons, SetKillSwitch(d) PROVE KillInv'
  <2>1. PICK reply \in Replies :
          /\ redis' = IF Applied(reply) THEN [redis EXCEPT !.killed = TRUE] ELSE redis
          /\ kills' = [kills EXCEPT ![d] = IF Applied(reply) THEN "stored" ELSE "unstored"]
    BY <1>5 DEF SetKillSwitch
  <2>2. kills[d] = "setting" /\ UNCHANGED <<shared, local, before, effect, pc>>
    BY <1>5 DEF SetKillSwitch, configVars, callVars
  <2>3. redis.killed => redis'.killed
    BY <2>1 DEF TypeOK, DataTypes, Backend
  <2>4. \A e \in Daemons : kills'[e] # "no" => kills[e] # "no"
    BY <2>1, <2>2 DEF TypeOK, DataTypes
  <2>5. \A e \in Daemons : kills'[e] = "stored" => kills[e] = "stored" \/ redis'.killed
    BY <2>1 DEF TypeOK, DataTypes, Backend
  <2> QED
    BY <2>2, <2>3, <2>4, <2>5 DEF KillInv
<1>6. ASSUME NEW d \in Daemons, Restart(d) PROVE KillInv'
  <2>1. \A e \in Daemons : e # d => local'[e] = local[e] /\ kills'[e] = kills[e]
    BY <1>6 DEF Restart, TypeOK, DataTypes
  <2>2. kills'[d] = "no"
    BY <1>6 DEF Restart, TypeOK, DataTypes
  <2>3. UNCHANGED <<shared, redis, before, effect>>
    BY <1>6 DEF Restart
  <2>4. \A b \in Calls : Late(b) => Late(b)'
    BY <1>6 DEF Restart
  <2> QED
    BY <2>1, <2>2, <2>3, <2>4 DEF KillInv
<1>7. CASE Outage \/ Recovery \/ Midnight \/ UNCHANGED vars
  BY <1>7 DEF Outage, Recovery, Midnight, vars, configVars, dataVars, callVars, KillInv
<1> QED
  BY <1>1, <1>2, <1>3, <1>4, <1>5, <1>6, <1>7 DEF Next

(* The numbers that were drawn stay, and what is decided rests on them.    *)
LEMMA TicketInit == Init => TicketInv
<1> SUFFICES ASSUME Init PROVE TicketInv
  OBVIOUS
<1>1. Drawn = {} /\ \A d \in Daemons : epoch[d] <= restarts
  BY DEF Init, Drawn, NoTicket
<1>2. \A c \in Calls : pc[c] = "idle" /\ effect[c] = None /\ effect[c] # "permit"
  BY SessionAssumption DEF Init
<1> QED
  BY <1>1, <1>2 DEF TicketInv

LEMMA TicketStep == TypeOK /\ ServedInv /\ TicketInv /\ [Next]_vars => TicketInv'
<1> SUFFICES ASSUME TypeOK, ServedInv, TicketInv, [Next]_vars PROVE TicketInv'
  OBVIOUS
<1> DEFINE Early == {"idle", "counting"}
           Gates == {"session budget", "daily budget", "rules"}
           Counters == /\ UNCHANGED <<budget, epoch, restarts, ticket>>
                       /\ redis'.calls = redis.calls
                       /\ \A d \in Daemons : local'[d].calls = local[d].calls
           Moves(b) == /\ pc'[b] \in Early => pc[b] \in Early /\ effect'[b] = effect[b]
                       /\ pc'[b] \in Gates \/ effect'[b] = "permit" =>
                             pc[b] \in Gates \/ effect[b] = "permit"
<1>0. ASSUME Counters, \A b \in Calls : Moves(b)
      PROVE  TicketInv'
  <2>1. Drawn' = Drawn
    BY <1>0 DEF Drawn
  <2>2. ASSUME NEW b \in Drawn PROVE CountedBy(b)'
    <3>1. CountedBy(b)
      BY DEF TicketInv
    <3> QED
      BY <1>0, <3>1 DEF CountedBy
  <2>3. \A d \in Daemons : epoch'[d] <= restarts'
    BY <1>0 DEF TicketInv
  <2>4. \A a, b \in Drawn : ticket'[a] = ticket'[b] => a = b
    BY <1>0 DEF TicketInv
  <2>5. \A b \in Calls : pc'[b] \in Early => effect'[b] = None
    BY <1>0 DEF TicketInv
  <2>6. ASSUME NEW b \in Calls, pc'[b] \in Gates \/ effect'[b] = "permit"
        PROVE  b \in Drawn /\ (budget'.calls > 0 => ticket'[b].n <= budget'.calls)
    <3>1. pc[b] \in Gates \/ effect[b] = "permit"
      BY <1>0, <2>6
    <3> QED
      BY <1>0, <3>1 DEF TicketInv
  <2> QED
    BY <2>1, <2>2, <2>3, <2>4, <2>5, <2>6 DEF TicketInv
<1> HIDE DEF Counters
<1>1. ASSUME NEW c \in Calls, NEW d \in Daemons, Begin(c, d) PROVE TicketInv'
  <2>1. Counters
    BY <1>1 DEF Begin, configVars, dataVars, Counters
  <2>2. ASSUME NEW b \in Calls PROVE Moves(b)
    BY <1>1 DEF Begin, Deny, Go, TypeOK, CallTypes
  <2> QED
    BY <2>1, <2>2, <1>0
<1>2. ASSUME NEW c \in Calls, Count(c) PROVE TicketInv'
  <2> DEFINE d == at[c][1]
             own == [from |-> Instance(d), n |-> local[d].calls + 1]
             common == [from |-> Redis, n |-> redis.calls + 1]
  <2>1. d \in Daemons
    BY <1>2 DEF Count, ServedInv
  <2>2. PICK reply \in Replies :
          /\ redis' = IF Applied(reply) THEN [redis EXCEPT !.calls = redis.calls + 1] ELSE redis
          /\ local' = IF FallsBack(reply)
                        THEN [local EXCEPT ![d].calls = local[d].calls + 1] ELSE local
          /\ ticket' = [ticket EXCEPT ![c] = IF FallsBack(reply) THEN own ELSE common]
    BY <1>2 DEF Count, IncrCallCount
  <2>3. /\ redis.calls \in Nat /\ redis'.calls >= redis.calls
        /\ ~FallsBack(reply) => redis'.calls = redis.calls + 1
        /\ redis'.calls \in Nat
    BY <2>2 DEF TypeOK, DataTypes, Backend, Applied, FallsBack
  <2>4. /\ \A e \in Daemons : /\ local[e].calls \in Nat /\ local'[e].calls \in Nat
                              /\ local'[e].calls >= local[e].calls
        /\ FallsBack(reply) => local'[d].calls = local[d].calls + 1
    <3> DEFINE more == [local[d] EXCEPT !.calls = local[d].calls + 1]
    <3>1. \A e \in Daemons : local[e].calls \in Nat
      BY DEF TypeOK, DataTypes, State
    <3>2. local' = IF FallsBack(reply) THEN [local EXCEPT ![d] = more] ELSE local
      BY <2>2
    <3>3. more.calls = local[d].calls + 1
      BY <2>1 DEF TypeOK, DataTypes, State
    <3> HIDE DEF more, d
    <3> QED
      BY <2>1, <3>1, <3>2, <3>3 DEF TypeOK, DataTypes
  <2>5. UNCHANGED <<budget, epoch, restarts>>
    BY <1>2 DEF Count, configVars
  <2>6. ticket'[c] = (IF FallsBack(reply) THEN own ELSE common)
        /\ \A b \in Calls : b # c => ticket'[b] = ticket[b]
    <3> HIDE DEF own, common
    <3> QED
      BY <2>2 DEF TypeOK, CallTypes
  <2>7. \A x \in Daemons : \A e \in Nat : <<x, e>> # Redis
    BY SessionAssumption DEF Redis
  <2>8. \A x \in Daemons : epoch[x] \in Nat
    BY DEF TypeOK, ConfigTypes
  <2> HIDE DEF d
  <2>9. ASSUME NEW b \in Drawn, b # c PROVE b \in Drawn' /\ CountedBy(b)'
    <3>1. ticket'[b] = ticket[b] /\ ticket[b].n \in Nat /\ CountedBy(b)
      BY <2>6, <2>9 DEF Drawn, TicketInv, TypeOK, CallTypes
    <3>2. b \in Drawn'
      BY <3>1 DEF Drawn
    <3>3. CASE ticket[b].from = Redis /\ ticket[b].n <= redis.calls
      <4>1. ticket'[b].n <= redis'.calls
        BY <2>2, <2>3, <3>1, <3>3
      <4> QED
        BY <3>1, <3>2, <3>3, <4>1 DEF CountedBy
    <3>4. ASSUME NEW x \in Daemons, NEW e \in 0 .. epoch[x],
                 ticket[b].from = <<x, e>>, e = epoch[x] => ticket[b].n <= local[x].calls
          PROVE  CountedBy(b)'
      <4>1. e = epoch'[x] => ticket'[b].n <= local'[x].calls
        <5> SUFFICES ASSUME e = epoch'[x] PROVE ticket'[b].n <= local'[x].calls
          OBVIOUS
        <5>1. /\ ticket[b].n <= local[x].calls /\ local[x].calls <= local'[x].calls
              /\ local[x].calls \in Nat /\ local'[x].calls \in Nat
          BY <2>4, <2>5, <3>4
        <5> QED
          BY <3>1, <5>1
      <4> QED
        BY <2>5, <3>1, <3>4, <4>1 DEF CountedBy
    <3> QED
      BY <3>1, <3>2, <3>3, <3>4 DEF CountedBy
  <2>10. c \in Drawn' /\ CountedBy(c)'
    <3>1. CASE FallsBack(reply)
      <4>1. ticket'[c].from = <<d, epoch[d]>> /\ ticket'[c].n = local'[d].calls
        BY <2>4, <2>6, <3>1 DEF Instance
      <4>2. ticket'[c].n \in Nat /\ ticket'[c].n > 0
        BY <2>1, <2>4, <3>1, <4>1
      <4>3. epoch'[d] \in 0 .. epoch'[d]
        BY <2>1, <2>5, <2>8
      <4> QED
        BY <2>1, <2>5, <4>1, <4>2, <4>3 DEF Drawn, CountedBy
    <3>2. CASE ~FallsBack(reply)
      BY <2>3, <2>6, <3>2 DEF Drawn, CountedBy
    <3> QED
      BY <3>1, <3>2
  <2>11. ASSUME NEW b \in Drawn, b # c PROVE ticket'[b] # ticket'[c]
    <3>1. ticket'[b] = ticket[b] /\ CountedBy(b) /\ ticket[b].n \in Nat
      BY <2>6, <2>11 DEF Drawn, TicketInv, TypeOK, CallTypes
    <3>2. CASE FallsBack(reply)
      <4>1. SUFFICES ASSUME ticket[b] = own PROVE FALSE
        BY <2>6, <3>1, <3>2
      <4>2. ticket[b].from = <<d, epoch[d]>> /\ ticket[b].n = local[d].calls + 1
        BY <4>1 DEF Instance
      <4>3. ticket[b].from # Redis
        BY <2>1, <2>7, <2>8, <4>2
      <4>4. ticket[b].n <= local[d].calls
        BY <3>1, <4>2, <4>3 DEF CountedBy
      <4> QED
        BY <2>1, <2>4, <4>2, <4>4
    <3>3. CASE ~FallsBack(reply)
      <4>1. SUFFICES ASSUME ticket[b] = common PROVE FALSE
        BY <2>6, <3>1, <3>3
      <4>2. ticket[b].from = Redis /\ ticket[b].n = redis.calls + 1
        BY <4>1
      <4>3. ticket[b].n <= redis.calls
        BY <2>7, <2>8, <3>1, <4>2 DEF CountedBy
      <4> QED
        BY <2>3, <4>2, <4>3
    <3> QED
      BY <3>2, <3>3
  <2>12. Drawn' \subseteq Drawn \cup {c}
    BY <2>6 DEF Drawn
  <2>13. \A b \in Calls : b # c => pc'[b] = pc[b] /\ effect'[b] = effect[b]
    BY <1>2 DEF Count, Deny, Go, TypeOK, CallTypes
  <2>14. pc[c] = "counting" /\ effect[c] = None /\ None \notin {"permit", "deny"}
    BY <1>2, SessionAssumption DEF Count, TicketInv
  <2>15. /\ pc'[c] \notin Early /\ effect'[c] # "permit"
         /\ pc'[c] \in Gates => (budget.calls > 0 => ~ (ticket'[c].n > budget.calls))
    BY <1>2, <2>14 DEF Count, Deny, Go, TypeOK, CallTypes
  <2>16. budget.calls \in Nat /\ ticket'[c].n \in Nat
    <3>1. budget.calls \in Nat
      BY SessionAssumption DEF TypeOK, ConfigTypes
    <3>2. ticket'[c].n \in Nat
      BY <2>1, <2>3, <2>4, <2>6
    <3> QED
      BY <3>1, <3>2
  <2>17. \A b \in Calls : pc'[b] \in Early => effect'[b] = None
    BY <2>13, <2>15 DEF TicketInv
  <2>18. ASSUME NEW b \in Calls, pc'[b] \in Gates \/ effect'[b] = "permit"
         PROVE  b \in Drawn' /\ (budget'.calls > 0 => ticket'[b].n <= budget'.calls)
    <3>1. CASE b = c
      <4>1. pc'[c] \in Gates
        BY <2>15, <2>18, <3>1
      <4>2. budget.calls > 0 => ticket'[c].n <= budget.calls
        <5> DEFINE n == ticket'[c].n
                   limit == budget.calls
        <5>1. n \in Nat /\ limit \in Nat /\ (limit > 0 => ~ (n > limit))
          BY <2>15, <2>16, <4>1
        <5> HIDE DEF n, limit
        <5>2. limit > 0 => n <= limit
          BY <5>1
        <5> QED
          BY <5>2 DEF n, limit
      <4> QED
        BY <2>5, <2>10, <3>1, <4>2
    <3>2. CASE b # c
      BY <2>5, <2>6, <2>9, <2>13, <2>18, <3>2 DEF TicketInv
    <3> QED
      BY <3>1, <3>2
  <2>19. \A a, b \in Drawn' : ticket'[a] = ticket'[b] => a = b
    BY <2>6, <2>11, <2>12 DEF TicketInv, Drawn
  <2> QED
    BY <2>5, <2>9, <2>10, <2>12, <2>17, <2>18, <2>19 DEF TicketInv
<1>3. ASSUME NEW c \in Calls, CheckSession(c) \/ CheckDaily(c) \/ ApplyRules(c) PROVE TicketInv'
  <2>1. Counters
    BY <1>3 DEF CheckSession, CheckDaily, ApplyRules, configVars, dataVars, Counters
  <2>2. ASSUME NEW b \in Calls PROVE Moves(b)
    BY <1>3 DEF CheckSession, CheckDaily, ApplyRules, Deny, Go, TypeOK, CallTypes
  <2> QED
    BY <2>1, <2>2, <1>0
<1>4. ASSUME NEW c \in Calls, Decide(c) \/ DecideUnaudited(c) \/ Book(c) PROVE TicketInv'
  <2>1. Counters
    <3>1. CASE DecideUnaudited(c)
      BY <3>1 DEF DecideUnaudited, configVars, dataVars, Counters
    <3>2. CASE Decide(c) \/ Book(c)
      <4>1. at[c][1] \in Daemons
        BY <3>2 DEF Decide, Book, ServedInv
      <4> QED
        BY <3>2, <4>1, HistoryKeeps, CostKeeps DEF Decide, Book, configVars, Kept, Counters
    <3> QED
      BY <1>4, <3>1, <3>2
  <2>2. ASSUME NEW b \in Calls PROVE Moves(b)
    BY <1>4 DEF Decide, DecideUnaudited, Book, TypeOK, CallTypes
  <2> QED
    BY <2>1, <2>2, <1>0
<1>5. ASSUME NEW d \in Daemons, Kill(d) \/ SetKillSwitch(d) PROVE TicketInv'
  <2>1. Counters
    <3>1. CASE Kill(d)
      BY <3>1 DEF Kill, configVars, callVars, TypeOK, DataTypes, State, Counters
    <3>2. CASE SetKillSwitch(d)
      BY <3>2 DEF SetKillSwitch, configVars, callVars, TypeOK, DataTypes, Backend, Counters
    <3> QED
      BY <1>5, <3>1, <3>2
  <2>2. ASSUME NEW b \in Calls PROVE Moves(b)
    BY <1>5 DEF Kill, SetKillSwitch, callVars
  <2> QED
    BY <2>1, <2>2, <1>0
<1>6. ASSUME NEW d \in Daemons, Restart(d) PROVE TicketInv'
  <2>1. UNCHANGED <<budget, redis, ticket, effect>> /\ restarts' = restarts + 1
    BY <1>6 DEF Restart
  <2>2. /\ epoch'[d] = restarts + 1
        /\ \A e \in Daemons : e # d => epoch'[e] = epoch[e] /\ local'[e] = local[e]
    BY <1>6 DEF Restart, TypeOK, ConfigTypes, DataTypes
  <2>3. restarts \in Nat /\ \A e \in Daemons : epoch[e] \in Nat
    BY DEF TypeOK, ConfigTypes
  <2>4. \A e \in Daemons : epoch'[e] <= restarts'
    <3> TAKE e \in Daemons
    <3>1. epoch[e] <= restarts /\ epoch[e] \in Nat
      BY <2>3 DEF TicketInv
    <3>2. epoch'[e] = restarts + 1 \/ epoch'[e] = epoch[e]
      BY <2>2
    <3> QED
      BY <2>1, <2>3, <3>1, <3>2
  <2>5. ASSUME NEW b \in Drawn PROVE CountedBy(b)'
    <3>1. CASE ticket[b].from = Redis /\ ticket[b].n <= redis.calls
      BY <2>1, <3>1 DEF CountedBy
    <3>2. ASSUME NEW x \in Daemons, NEW e \in 0 .. epoch[x],
                 ticket[b].from = <<x, e>>, e = epoch[x] => ticket[b].n <= local[x].calls
          PROVE  CountedBy(b)'
      <4>1. CASE x = d
        <5>1. e \in 0 .. epoch'[d] /\ e # epoch'[d]
          <6>1. epoch[d] <= restarts /\ epoch[d] \in Nat /\ e \in 0 .. epoch[d]
            BY <2>3, <4>1 DEF TicketInv
          <6> QED
            BY <2>2, <2>3, <6>1
        <5> QED
          BY <2>1, <3>2, <4>1, <5>1 DEF CountedBy
      <4>2. CASE x # d
        BY <2>1, <2>2, <3>2, <4>2 DEF CountedBy
      <4> QED
        BY <4>1, <4>2
    <3> QED
      BY <3>1, <3>2 DEF TicketInv, CountedBy
  <2>6. \A b \in Calls : pc'[b] \in Early \cup Gates => pc[b] = pc'[b]
    BY <1>6 DEF Restart
  <2>7. Drawn' = Drawn
    BY <2>1 DEF Drawn
  <2> QED
    BY <2>1, <2>4, <2>5, <2>6, <2>7 DEF TicketInv
<1>7. CASE Outage \/ Recovery \/ Midnight \/ UNCHANGED vars
  <2>1. Counters
    BY <1>7 DEF Outage, Recovery, Midnight, vars, configVars, dataVars, callVars, Counters
  <2>2. ASSUME NEW b \in Calls PROVE Moves(b)
    BY <1>7 DEF Outage, Recovery, Midnight, vars, callVars
  <2> QED
    BY <2>1, <2>2, <1>0
<1> QED
  BY <1>1, <1>2, <1>3, <1>4, <1>5, <1>6, <1>7 DEF Next

(* A step leaves the policy and the kind of backend, and adds a fault at   *)
(* most.                                                                   *)
LEMMA StepGrows ==
    ASSUME TypeOK, [Next]_vars
    PROVE  shared' = shared /\ budget' = budget /\ Grown
<1>1. CASE \E c \in Calls : \E d \in Daemons : Begin(c, d)
  BY <1>1 DEF Begin, configVars, Grown
<1>2. ASSUME NEW c \in Calls, Count(c) \/ Decide(c) \/ Book(c)
      PROVE  shared' = shared /\ budget' = budget /\ Grown
  <2>1. shared' = shared /\ budget' = budget
    BY <1>2 DEF Count, Decide, Book, configVars
  <2>2. Grown
    BY <1>2, NotedGrows
    DEF Count, IncrCallCount, Decide, RecordHistory, Book, AddCost, CanFail, Grown
  <2> QED
    BY <2>1, <2>2
<1>3. ASSUME NEW c \in Calls,
             CheckSession(c) \/ CheckDaily(c) \/ ApplyRules(c) \/ DecideUnaudited(c)
      PROVE  shared' = shared /\ budget' = budget /\ Grown
  BY <1>3 DEF CheckSession, CheckDaily, ApplyRules, DecideUnaudited, configVars, CanFail, Grown
<1>4. ASSUME NEW d \in Daemons, Kill(d) \/ SetKillSwitch(d) \/ Restart(d)
      PROVE  shared' = shared /\ budget' = budget /\ Grown
  BY <1>4, NotedGrows DEF Kill, SetKillSwitch, Restart, configVars, Grown
<1>5. CASE Outage \/ Recovery \/ Midnight \/ UNCHANGED vars
  BY <1>5 DEF Outage, Recovery, Midnight, vars, configVars, CanFail, Grown
<1> QED
  BY <1>1, <1>2, <1>3, <1>4, <1>5 DEF Next

(* Trouble stays, and the backend is lost, or a daemon's own number drawn, *)
(* only in trouble.                                                        *)
LEMMA SoundStep == TypeOK /\ SoundInv /\ [Next]_vars => SoundInv'
<1> SUFFICES ASSUME TypeOK, SoundInv, [Next]_vars, shared', ~Trouble'
             PROVE  reachable' /\ \A c \in Calls : ticket'[c].from = Redis
  BY DEF SoundInv
<1>1. shared' = shared /\ Grown
  BY StepGrows
<1>2. /\ shared /\ ~Trouble /\ reachable
      /\ \A c \in Calls : ticket[c].from = Redis
      /\ \A f \in Faults : f # "wal" => faults' # Append(faults, f)
  BY <1>1, FaultsGrow DEF SoundInv, TypeOK, ConfigTypes
<1>3. reachable'
  <2>1. ~Outage
    BY <1>2 DEF Outage, CanFail
  <2> QED
    BY <1>2, <2>1
    DEF Next, Begin, Count, CheckSession, CheckDaily, ApplyRules, Decide, DecideUnaudited, Book,
        Kill, SetKillSwitch, Restart, Recovery, Midnight, vars, configVars
<1>4. ASSUME NEW c \in Calls, NEW b \in Calls, Count(b) PROVE ticket'[c].from = Redis
  <2>1. PICK reply \in Replies :
          /\ Noted(reply)
          /\ ticket' = [ticket EXCEPT ![b] =
                IF FallsBack(reply)
                  THEN [from |-> Instance(at[b][1]), n |-> local[at[b][1]].calls + 1]
                  ELSE [from |-> Redis, n |-> redis.calls + 1]]
    BY <1>4 DEF Count, IncrCallCount
  <2>2. ~FallsBack(reply)
    BY <1>2, <2>1 DEF Replies, CanFail, Noted, FallsBack
  <2> QED
    BY <1>2, <2>1, <2>2 DEF TypeOK, CallTypes
<1>5. ticket' = ticket \/ \E b \in Calls : Count(b)
  BY DEF Next, Begin, CheckSession, CheckDaily, ApplyRules, Decide, DecideUnaudited, Book,
         Kill, SetKillSwitch, Restart, Outage, Recovery, Midnight, vars, callVars
<1> QED
  BY <1>2, <1>3, <1>4, <1>5

-------------------------------------------------------------------------------
(* The theorems *)

LEMMA IInvInit == Init => IInv
<1> SUFFICES ASSUME Init PROVE IInv
  OBVIOUS
<1>1. ServedInv /\ SoundInv
  BY DEF Init, ServedInv, SoundInv, NoTicket
<1> QED
  BY <1>1, TypeInit, KillInit, TicketInit DEF IInv

LEMMA IInvStep == IInv /\ [Next]_vars => IInv'
BY TypeStep, ServedStep, KillStep, TicketStep, SoundStep DEF IInv

LEMMA Inductive == Spec => []IInv
BY IInvInit, IInvStep, PTL DEF Spec

(* The variables keep their types, and no history outgrows its limit.      *)
THEOREM TypeCorrect == Spec => []TypeOK
<1>1. IInv => TypeOK
  BY DEF IInv
<1> QED
  BY <1>1, Inductive, PTL

(* A call that begins after a kill was stored is never permitted, whatever *)
(* fails in between.                                                       *)
THEOREM KillsHold == Spec => []StoredKillHolds
<1>1. IInv => StoredKillHolds
  BY DEF IInv, KillInv, StoredKillHolds, Permitted
<1> QED
  BY <1>1, Inductive, PTL

(* As many calls as the numbers up to n that counters can have given out.  *)
LEMMA NumbersBound ==
    ASSUME NEW P, IsFiniteSet(P), NEW n \in Nat, NEW from, NEW number,
           \A c \in P : number[c] \in 1 .. n,
           \A b, c \in P : from[b] = from[c] /\ number[b] = number[c] => b = c
    PROVE  Cardinality(P) <= n * Cardinality({from[c] : c \in P})
<1> DEFINE F == {from[c] : c \in P}
           f == [c \in P |-> from[c]]
           G == F \X (1 .. n)
           g == [c \in P |-> <<from[c], number[c]>>]
<1>1. IsFiniteSet(F)
  <2>1. f \in Surjection(P, F)
    BY DEF Surjection
  <2> QED
    BY <2>1, FS_Surjection
<1>2. IsFiniteSet(1 .. n) /\ Cardinality(1 .. n) = n
  BY FS_Interval
<1>3. IsFiniteSet(G) /\ Cardinality(G) = Cardinality(F) * n
  BY <1>1, <1>2, FS_Product
<1>4. g \in Injection(P, G)
  BY DEF Injection, IsInjective
<1>5. Cardinality(P) <= Cardinality(G)
  BY <1>3, <1>4, FS_Injection
<1>6. Cardinality(F) \in Nat
  BY <1>1, FS_CardinalityType
<1>7. Cardinality(F) * n = n * Cardinality(F)
  BY <1>6
<1> QED
  BY <1>3, <1>5, <1>7

(* No counter lets more than MaxCalls calls through, for any number of     *)
(* daemons that fall back to their own; without trouble there is only one. *)
THEOREM CallsBounded == Spec => []CallsAreBounded
<1>1. ASSUME IInv PROVE CallsAreBounded
  <2>1. ASSUME budget.calls > 0
        PROVE  Cardinality(Permitted)
                 <= budget.calls * Cardinality({ticket[c].from : c \in Permitted})
    <3> DEFINE from == [c \in Permitted |-> ticket[c].from]
               number == [c \in Permitted |-> ticket[c].n]
    <3>1. IsFiniteSet(Permitted)
      BY SessionAssumption, FS_Subset DEF Permitted
    <3>2. budget.calls \in Nat
      BY <1>1, SessionAssumption DEF IInv, TypeOK, ConfigTypes
    <3>3. \A c \in Permitted : c \in Drawn /\ ticket[c].n <= budget.calls
      BY <1>1, <2>1 DEF IInv, TicketInv, Permitted
    <3>4. \A c \in Permitted : ticket[c] \in [from : Instances, n : Nat]
      BY <1>1 DEF IInv, TypeOK, CallTypes, Permitted
    <3>5. \A c \in Permitted : number[c] \in 1 .. budget.calls
      BY <3>2, <3>3, <3>4 DEF Drawn
    <3>6. \A b, c \in Permitted : from[b] = from[c] /\ number[b] = number[c] => ticket[b] = ticket[c]
      BY <3>4
    <3>7. \A b, c \in Permitted : from[b] = from[c] /\ number[b] = number[c] => b = c
      BY <1>1, <3>3, <3>6 DEF IInv, TicketInv
    <3>8. {from[c] : c \in Permitted} = {ticket[c].from : c \in Permitted}
      OBVIOUS
    <3> HIDE DEF from, number
    <3>9. Cardinality(Permitted) <= budget.calls * Cardinality({from[c] : c \in Permitted})
      BY <3>1, <3>2, <3>5, <3>7, NumbersBound
    <3> QED
      BY <3>8, <3>9
  <2>2. shared /\ ~Trouble => \A c \in Permitted : ticket[c].from = Redis
    BY <1>1 DEF IInv, SoundInv, Permitted
  <2> QED
    BY <2>1, <2>2 DEF CallsAreBounded
<1> QED
  BY <1>1, Inductive, PTL

-------------------------------------------------------------------------------
(* Budgets and history *)

(* A daemon serves a call as long as it runs, what is booked is done, and  *)
(* what a call found booked or decided when it began stays so.             *)
Live == {"counting", "session budget", "daily budget", "rules", "deciding", "booking"}
Decided == {"booking", "done", "lost"}
LiveInv ==
    /\ \A c \in Calls : pc[c] = "idle" => at[c] = <<None, 0>>
    /\ \A c \in Calls : pc[c] # "idle" => at[c][2] <= epoch[at[c][1]]
    /\ \A c \in Calls : pc[c] \in Live => at[c][2] = epoch[at[c][1]]
    /\ \A c \in Calls : booked[c] # 0 => pc[c] = "done"
    /\ \A c \in Calls : \A b \in before[c].paid : booked[b] # 0
    /\ \A c \in Calls : \A b \in before[c].over : pc[b] \in Decided

(* What a step does to a call that has begun. *)
Goes(b) ==
    /\ at'[b] = at[b]
    /\ before'[b].paid = before[b].paid /\ before'[b].over = before[b].over
    /\ pc'[b] # "idle"
    /\ pc[b] \in Decided => pc'[b] \in Decided
    /\ pc'[b] \in Live => pc[b] \in Live
    /\ pc'[b] \in {"booking", "done"} => pc[b] \in {"deciding", "booking", "done"}
    /\ \/ booked'[b] = booked[b] /\ (pc[b] = "done" => pc'[b] = "done")
       \/ booked'[b] = today /\ pc[b] = "booking" /\ pc'[b] = "done"

(* What a step does to a call that waits. *)
Waits(b) ==
    \/ UNCHANGED <<pc[b], at[b], effect[b], saw[b], booked[b], before[b]>>
    \/ \E d \in Daemons : Begin(b, d)

LEMMA GoesStep ==
    ASSUME TypeOK, [Next]_vars, NEW b \in Calls, pc[b] # "idle"
    PROVE  Goes(b)
<1>1. ASSUME NEW c \in Calls, NEW d \in Daemons, Begin(c, d) PROVE Goes(b)
  <2>1. b # c
    BY <1>1 DEF Begin
  <2> QED
    BY <1>1, <2>1 DEF Begin, Deny, Go, TypeOK, CallTypes, Goes, Decided, Live
<1>2. ASSUME NEW c \in Calls, Count(c) \/ CheckSession(c) PROVE Goes(b)
  BY <1>2 DEF Count, CheckSession, Deny, Go, TypeOK, CallTypes, Goes, Decided, Live
<1>3. ASSUME NEW c \in Calls, CheckDaily(c) PROVE Goes(b)
  <2>1. before'[b].paid = before[b].paid /\ before'[b].over = before[b].over
    <3> DEFINE new == [before[c] EXCEPT !.day = today]
    <3>1. before' = [before EXCEPT ![c] = new]
      BY <1>3 DEF CheckDaily
    <3>2. new.paid = before[c].paid /\ new.over = before[c].over
      BY DEF TypeOK, CallTypes
    <3> HIDE DEF new
    <3> QED
      BY <3>1, <3>2 DEF TypeOK, CallTypes
  <2> QED
    BY <1>3, <2>1 DEF CheckDaily, Deny, Go, TypeOK, CallTypes, Goes, Decided, Live
<1>4. ASSUME NEW c \in Calls, ApplyRules(c) \/ Decide(c) \/ DecideUnaudited(c) PROVE Goes(b)
  BY <1>4
  DEF ApplyRules, Decide, DecideUnaudited, TypeOK, CallTypes, Goes, Decided, Live
<1>5. ASSUME NEW c \in Calls, Book(c) PROVE Goes(b)
  BY <1>5 DEF Book, TypeOK, CallTypes, Goes, Decided, Live
<1>6. ASSUME NEW d \in Daemons, Restart(d) PROVE Goes(b)
  BY <1>6 DEF Restart, TypeOK, CallTypes, Goes, Decided, Live
<1>7. CASE \/ \E d \in Daemons : Kill(d) \/ SetKillSwitch(d)
           \/ Outage \/ Recovery \/ Midnight \/ UNCHANGED vars
  BY <1>7
  DEF Kill, SetKillSwitch, Outage, Recovery, Midnight, vars, callVars, Goes, Decided, Live
<1> QED
  BY <1>1, <1>2, <1>3, <1>4, <1>5, <1>6, <1>7 DEF Next

LEMMA WaitsStep ==
    ASSUME TypeOK, LiveInv, [Next]_vars, NEW b \in Calls, pc[b] = "idle"
    PROVE  Waits(b)
<1>1. ASSUME NEW c \in Calls, NEW d \in Daemons, Begin(c, d) PROVE Waits(b)
  BY <1>1 DEF Begin, Deny, Go, TypeOK, CallTypes, Waits
<1>2. ASSUME NEW c \in Calls,
             \/ Count(c) \/ CheckSession(c) \/ CheckDaily(c) \/ ApplyRules(c)
             \/ Decide(c) \/ DecideUnaudited(c) \/ Book(c)
      PROVE  Waits(b)
  <2>1. b # c
    BY <1>2 DEF Count, CheckSession, CheckDaily, ApplyRules, Decide, DecideUnaudited, Book
  <2> QED
    BY <1>2, <2>1
    DEF Count, CheckSession, CheckDaily, ApplyRules, Decide, DecideUnaudited, Book,
        Deny, Go, TypeOK, CallTypes, Waits
<1>3. ASSUME NEW d \in Daemons, Restart(d) PROVE Waits(b)
  <2>1. at[b] # Instance(d)
    BY SessionAssumption DEF LiveInv, Instance
  <2> QED
    BY <1>3, <2>1 DEF Restart, Waits
<1>4. CASE \/ \E d \in Daemons : Kill(d) \/ SetKillSwitch(d)
           \/ Outage \/ Recovery \/ Midnight \/ UNCHANGED vars
  BY <1>4
  DEF Kill, SetKillSwitch, Outage, Recovery, Midnight, vars, callVars, Waits
<1> QED
  BY <1>1, <1>2, <1>3, <1>4 DEF Next

(* The daemons' restarts: each instance that ever ran is told apart. *)
LEMMA EpochStep ==
    ASSUME TypeOK, TicketInv, [Next]_vars
    PROVE  \/ epoch' = epoch
           \/ \E d \in Daemons :
                /\ Restart(d) /\ epoch' = [epoch EXCEPT ![d] = restarts + 1]
                /\ epoch[d] < restarts + 1
<1>1. ASSUME NEW d \in Daemons PROVE epoch[d] < restarts + 1
  <2>1. epoch[d] <= restarts /\ epoch[d] \in Nat /\ restarts \in Nat
    BY DEF TicketInv, TypeOK, ConfigTypes
  <2> QED
    BY <2>1
<1> QED
  BY <1>1
  DEF Next, Begin, Count, CheckSession, CheckDaily, ApplyRules, Decide, DecideUnaudited, Book,
      Kill, SetKillSwitch, Restart, Outage, Recovery, Midnight, vars, configVars

(* A call that runs belongs to the daemon as it runs now. *)
LEMMA AtHome ==
    ASSUME ServedInv, LiveInv, NEW c \in Calls, pc[c] \in Live
    PROVE  at[c][1] \in Daemons /\ at[c] = Instance(at[c][1])
<1>1. at[c] \in Daemons \X Nat /\ at[c][2] = epoch[at[c][1]]
  BY DEF ServedInv, LiveInv, Live
<1> QED
  BY <1>1 DEF Instance

LEMMA LiveInit == Init => LiveInv
<1> SUFFICES ASSUME Init PROVE LiveInv
  OBVIOUS
<1>1. \A c \in Calls : /\ pc[c] = "idle" /\ at[c] = <<None, 0>> /\ booked[c] = 0
                       /\ before[c].paid = {} /\ before[c].over = {}
  BY DEF Init, Nothing
<1> QED
  BY <1>1 DEF LiveInv, Live

LEMMA LiveStep ==
    ASSUME TypeOK, ServedInv, TicketInv, LiveInv, [Next]_vars
    PROVE  LiveInv'
<1> USE DEF Live
<1>1. ASSUME NEW c \in Calls, pc[c] # "idle"
      PROVE  /\ pc'[c] # "idle" /\ at'[c] = at[c] /\ at[c] \in Daemons \X Nat
             /\ at[c][2] <= epoch'[at[c][1]]
             /\ pc'[c] \in Live => at[c][2] = epoch'[at[c][1]]
  <2>1. pc'[c] # "idle" /\ at'[c] = at[c] /\ (pc'[c] \in Live => pc[c] \in Live)
    BY <1>1, GoesStep DEF Goes
  <2>2. /\ at[c] \in Daemons \X Nat /\ at[c][2] <= epoch[at[c][1]]
        /\ pc'[c] \in Live => at[c][2] = epoch[at[c][1]]
        /\ epoch \in [Daemons -> Nat] /\ restarts \in Nat
    BY <1>1, <2>1 DEF ServedInv, LiveInv, TypeOK, ConfigTypes
  <2>3. CASE epoch' = epoch
    BY <2>1, <2>2, <2>3 DEF Instance
  <2>4. ASSUME NEW d \in Daemons, Restart(d), epoch' = [epoch EXCEPT ![d] = restarts + 1],
               epoch[d] < restarts + 1
        PROVE  /\ at[c][2] <= epoch'[at[c][1]]
               /\ pc'[c] \in Live => at[c][2] = epoch'[at[c][1]]
    <3>1. CASE at[c][1] = d
      <4>1. /\ epoch'[d] = restarts + 1 /\ at[c][2] \in Nat /\ epoch[d] \in Nat
            /\ at[c][2] <= epoch[d] /\ epoch[d] < restarts + 1 /\ restarts \in Nat
        BY <2>2, <2>4, <3>1
      <4>2. at[c][2] <= epoch'[d]
        BY <4>1
      <4>3. at[c] = Instance(d) => pc'[c] \notin Live
        BY <2>4 DEF Restart
      <4>4. at[c][2] = epoch[d] => at[c] = Instance(d)
        BY <2>2, <3>1 DEF Instance
      <4> QED
        BY <2>2, <3>1, <4>2, <4>3, <4>4
    <3>2. CASE at[c][1] # d
      BY <2>2, <2>4, <3>2 DEF Instance
    <3> QED
      BY <3>1, <3>2
  <2> QED
    BY <2>1, <2>2, <2>3, <2>4, EpochStep
<1>2. ASSUME NEW c \in Calls, pc[c] = "idle"
      PROVE  /\ pc'[c] = "idle" => at'[c] = <<None, 0>>
             /\ pc'[c] # "idle" =>
                   /\ at'[c][2] = epoch'[at'[c][1]] /\ at'[c][2] <= epoch'[at'[c][1]]
             /\ booked'[c] = 0
             /\ \A b \in before'[c].paid : booked[b] # 0 /\ b \in Calls
             /\ \A b \in before'[c].over : pc[b] \in Decided /\ b \in Calls
  <2>0. booked[c] = 0 /\ at[c] = <<None, 0>> /\ before[c].paid \subseteq Calls
        /\ before[c].over \subseteq Calls
    BY <1>2 DEF LiveInv, TypeOK, CallTypes
  <2>1. CASE UNCHANGED <<pc[c], at[c], effect[c], saw[c], booked[c], before[c]>>
    BY <1>2, <2>0, <2>1 DEF LiveInv
  <2>2. ASSUME NEW d \in Daemons, Begin(c, d)
        PROVE  /\ at'[c] = <<d, epoch'[d]>> /\ booked'[c] = 0 /\ pc'[c] # "idle"
               /\ \A b \in before'[c].paid : booked[b] # 0 /\ b \in Calls
               /\ \A b \in before'[c].over : pc[b] \in Decided /\ b \in Calls
    BY <2>0, <2>2
    DEF Begin, configVars, Deny, Go, Instance, Decided, TypeOK, CallTypes
  <2>3. ASSUME NEW d \in Daemons, at'[c] = <<d, epoch'[d]>>
        PROVE  at'[c][2] = epoch'[at'[c][1]] /\ at'[c][2] <= epoch'[at'[c][1]]
    <3>1. epoch'[d] \in Nat
      BY TypeStep DEF TypeOK, ConfigTypes
    <3> QED
      BY <2>3, <3>1 DEF Instance
  <2> QED
    BY <1>2, <2>1, <2>2, <2>3, WaitsStep DEF Waits
<1>3. ASSUME NEW b \in Calls, booked[b] # 0 PROVE booked'[b] # 0 /\ pc'[b] = "done"
  <2>1. pc[b] = "done"
    BY <1>3 DEF LiveInv
  <2> QED
    BY <1>3, <2>1, GoesStep DEF Goes
<1>4. ASSUME NEW b \in Calls, pc[b] \in Decided PROVE pc'[b] \in Decided
  BY <1>4, GoesStep DEF Goes, Decided
<1>5. ASSUME NEW c \in Calls, booked'[c] # 0 PROVE pc'[c] = "done"
  BY <1>2, <1>3, <1>5, GoesStep DEF Goes
<1>6. ASSUME NEW c \in Calls
      PROVE  /\ \A b \in before'[c].paid : booked[b] # 0 /\ b \in Calls
             /\ \A b \in before'[c].over : pc[b] \in Decided /\ b \in Calls
  <2>1. CASE pc[c] # "idle"
    BY <2>1, GoesStep DEF Goes, LiveInv, TypeOK, CallTypes
  <2> QED
    BY <1>2, <2>1
<1> QED
  BY <1>1, <1>2, <1>3, <1>4, <1>5, <1>6 DEF LiveInv

(* Where there is no trouble there was none before, nor a fault now.       *)
LEMMA QuietStep ==
    ASSUME TypeOK, [Next]_vars, ~Trouble'
    PROVE  /\ ~Trouble
           /\ \A f \in Faults : f # "wal" => faults' # Append(faults, f)
BY StepGrows, FaultsGrow DEF TypeOK, ConfigTypes

(* Without trouble a request is answered by the backend that is shared, or *)
(* sent to none.                                                           *)
LEMMA QuietReply ==
    ASSUME TypeOK, SoundInv, [Next]_vars, ~Trouble', NEW reply \in Replies, Noted(reply)
    PROVE  /\ Applied(reply) <=> shared
           /\ FallsBack(reply) <=> ~shared
<1>1. /\ ~Trouble /\ (shared => reachable)
      /\ \A f \in Faults : f # "wal" => faults' # Append(faults, f)
  BY QuietStep DEF SoundInv
<1>2. reply # "lost_reply"
  BY <1>1 DEF Noted, Replies, CanFail
<1> QED
  BY <1>1, <1>2 DEF Replies, Applied, FallsBack

(* Counting what was spent *)
LEMMA SpentProps ==
    /\ Spent({}) = 0
    /\ \A S \in SUBSET Calls : Spent(S) \in Nat
    /\ \A S \in SUBSET Calls : \A T \in SUBSET S : Spent(T) <= Spent(S)
    /\ \A S \in SUBSET Calls : \A c \in Calls \ S : Spent(S \cup {c}) = Spent(S) + CostUSD
<1>0. IsFiniteSet(Calls) /\ CostUSD \in Nat
  BY SessionAssumption
<1>1. Spent({}) = 0
  BY <1>0, FS_EmptySet DEF Spent
<1>2. ASSUME NEW S \in SUBSET Calls PROVE IsFiniteSet(S) /\ Cardinality(S) \in Nat /\ Spent(S) \in Nat
  <2>1. IsFiniteSet(S)
    BY <1>0, FS_Subset
  <2>2. Cardinality(S) \in Nat
    BY <2>1, FS_CardinalityType
  <2>3. \A n \in Nat : CostUSD * n \in Nat
    BY <1>0
  <2> QED
    BY <2>1, <2>2, <2>3 DEF Spent
<1>3. ASSUME NEW S \in SUBSET Calls, NEW T \in SUBSET S PROVE Spent(T) <= Spent(S)
  <2>1. Cardinality(T) <= Cardinality(S)
    BY <1>2, FS_Subset
  <2>2. Cardinality(T) \in Nat /\ Cardinality(S) \in Nat
    BY <1>2
  <2>3. \A m, n \in Nat : m <= n => CostUSD * m <= CostUSD * n
    BY <1>0
  <2> QED
    BY <2>1, <2>2, <2>3 DEF Spent
<1>4. ASSUME NEW S \in SUBSET Calls, NEW c \in Calls \ S
      PROVE  Spent(S \cup {c}) = Spent(S) + CostUSD
  <2>1. Cardinality(S \cup {c}) = Cardinality(S) + 1
    BY <1>2, FS_AddElement
  <2>2. \A n \in Nat : CostUSD * (n + 1) = CostUSD * n + CostUSD
    BY <1>0
  <2> QED
    BY <1>2, <2>1, <2>2 DEF Spent
<1> QED
  BY <1>1, <1>2, <1>3, <1>4

(* The books hold what was booked, per backend and day, or per daemon: its *)
(* session as long as it runs, its days across restarts.                   *)
Booked == {b \in Calls : booked[b] # 0}
BookedOn(y) == {b \in Calls : booked[b] = y}
CostInv == ~Trouble =>
    /\ shared =>
         /\ redis.cost = Spent(Booked)
         /\ \A y \in Days : redis.day[y] = Spent(BookedOn(y))
    /\ ~shared => \A d \in Daemons :
         /\ local[d].cost = Spent({b \in Booked : at[b] = Instance(d)})
         /\ \A y \in Days : store[d][y] = Spent({b \in BookedOn(y) : at[b][1] = d})

LEMMA CostInit == Init => CostInv
<1> SUFFICES ASSUME Init PROVE CostInv
  OBVIOUS
<1>1. Booked = {} /\ \A y \in Days : BookedOn(y) = {}
  BY SessionAssumption DEF Init, Booked, BookedOn, Days
<1>2. /\ redis.cost = 0 /\ \A y \in Days : redis.day[y] = 0
      /\ \A d \in Daemons : local[d].cost = 0 /\ \A y \in Days : store[d][y] = 0
  BY DEF Init, FreshBackend, FreshState
<1>3. \A d \in Daemons : /\ {b \in Booked : at[b] = Instance(d)} = {}
                         /\ \A y \in Days : {b \in BookedOn(y) : at[b][1] = d} = {}
  BY <1>1
<1> QED
  BY <1>1, <1>2, <1>3, SpentProps DEF CostInv

(* What booking adds, without trouble. *)
LEMMA BookQuiet ==
    ASSUME TypeOK, ServedInv, SoundInv, [Next]_vars, ~Trouble', NEW c \in Calls, Book(c)
    PROVE  LET d == at[c][1] IN
           /\ d \in Daemons
           /\ shared => /\ redis'.cost = redis.cost + CostUSD
                        /\ redis'.day = [redis.day EXCEPT ![today] = redis.day[today] + CostUSD]
           /\ ~shared =>
                /\ local'[d].cost = local[d].cost + CostUSD
                /\ \A e \in Daemons : e # d => local'[e] = local[e]
                /\ store' = [store EXCEPT ![d][today] = store[d][today] + CostUSD]
<1> DEFINE d == at[c][1]
           cost == local[d].cost + CostUSD
           daily == (IF local[d].on = today THEN local[d].daily ELSE 0) + CostUSD
           new == [local[d] EXCEPT !.cost = cost, !.daily = daily, !.on = today]
<1>1. d \in Daemons
  BY DEF Book, ServedInv
<1>2. PICK reply \in Replies :
        /\ redis' = IF Applied(reply) THEN Costlier ELSE redis
        /\ \/ ~FallsBack(reply) /\ UNCHANGED <<local, store, faults>>
           \/ FallsBack(reply) /\ AddCostLocally(d) /\ AddDailyCost(d) /\ Noted(reply)
           \/ CanFail("store") /\ faults' = Append(faults, "store")
  BY DEF Book, AddCost
<1>3. ~ (CanFail("store") /\ faults' = Append(faults, "store"))
  BY QuietStep DEF CanFail
<1>4. ~FallsBack(reply) => Noted(reply)
  BY <1>2, <1>3 DEF FallsBack, Noted
<1>5. Noted(reply)
  BY <1>2, <1>3, <1>4
<1>6. (Applied(reply) <=> shared) /\ (FallsBack(reply) <=> ~shared)
  BY <1>5, QuietReply
<1>7. CASE shared
  <2>1. redis' = Costlier
    BY <1>2, <1>6, <1>7
  <2> QED
    BY <1>1, <1>7, <2>1 DEF Costlier, TypeOK, DataTypes, Backend
<1>8. CASE ~shared
  <2>1. AddCostLocally(d) /\ AddDailyCost(d)
    BY <1>2, <1>3, <1>6, <1>8
  <2>2. local' = [local EXCEPT ![d] = new] /\ local \in [Daemons -> State]
    BY <2>1 DEF AddCostLocally, TypeOK, DataTypes
  <2>3. new.cost = cost
    <3> HIDE DEF cost, daily
    <3> QED
      BY <1>1, <2>2 DEF State
  <2>4. store' = [store EXCEPT ![d][today] = store[d][today] + CostUSD]
    BY <2>1 DEF AddDailyCost
  <2> HIDE DEF new
  <2> QED
    BY <1>1, <1>8, <2>2, <2>3, <2>4
<1> QED
  BY <1>1, <1>7, <1>8

(* Nothing else books. *)
LEMMA BooksKeep ==
    ASSUME TypeOK, ServedInv, [Next]_vars, ~ \E c \in Calls : Book(c)
    PROVE  /\ redis'.cost = redis.cost /\ redis'.day = redis.day
           /\ UNCHANGED <<store, booked>>
           /\ \A d \in Daemons :
                \/ local'[d].cost = local[d].cost
                \/ Restart(d) /\ local'[d].cost = 0
<1> DEFINE Keeps ==
        /\ redis'.cost = redis.cost /\ redis'.day = redis.day
        /\ UNCHANGED <<store, booked>>
        /\ \A d \in Daemons :
             \/ local'[d].cost = local[d].cost
             \/ Restart(d) /\ local'[d].cost = 0
<1>1. ASSUME NEW c \in Calls, Count(c)
      PROVE  Keeps
  <2> DEFINE d == at[c][1]
             more == [local[d] EXCEPT !.calls = local[d].calls + 1]
  <2>1. redis' = redis \/ redis' = [redis EXCEPT !.calls = redis.calls + 1]
    BY <1>1 DEF Count, IncrCallCount
  <2>2. local' = local \/ local' = [local EXCEPT ![d] = more]
    BY <1>1 DEF Count, IncrCallCount
  <2>3. d \in Daemons /\ UNCHANGED <<store, booked>>
    BY <1>1 DEF Count, ServedInv
  <2>4. more.cost = local[d].cost
    BY <2>3 DEF TypeOK, DataTypes, State
  <2> HIDE DEF more, d
  <2> QED
    BY <2>1, <2>2, <2>3, <2>4 DEF TypeOK, DataTypes, Backend
<1>2. ASSUME NEW c \in Calls, Decide(c)
      PROVE  Keeps
  <2> DEFINE d == at[c][1]
             newer == Push(redis.history, c)
             new == Push(local[d].history, c)
             more == [local[d] EXCEPT !.history = new]
  <2>1. redis' = redis \/ redis' = [redis EXCEPT !.history = newer]
    BY <1>2 DEF Decide, RecordHistory
  <2>2. local' = local \/ local' = [local EXCEPT ![d] = more]
    BY <1>2 DEF Decide, RecordHistory
  <2>3. d \in Daemons /\ UNCHANGED <<store, booked>>
    BY <1>2 DEF Decide, ServedInv
  <2> HIDE DEF new, newer
  <2>4. more.cost = local[d].cost
    BY <2>3 DEF TypeOK, DataTypes, State
  <2> HIDE DEF more, d
  <2> QED
    BY <2>1, <2>2, <2>3, <2>4 DEF TypeOK, DataTypes, Backend
<1>3. ASSUME NEW e \in Daemons, Kill(e) \/ SetKillSwitch(e)
      PROVE  Keeps
  <2>1. CASE Kill(e)
    BY <2>1 DEF Kill, callVars, TypeOK, DataTypes, State
  <2>2. CASE SetKillSwitch(e)
    BY <2>2 DEF SetKillSwitch, callVars, TypeOK, DataTypes, Backend
  <2> QED
    BY <1>3, <2>1, <2>2
<1>4. ASSUME NEW e \in Daemons, Restart(e)
      PROVE  Keeps
  BY <1>4 DEF Restart, FreshState, TypeOK, DataTypes
<1>5. ASSUME \/ \E c \in Calls :
                  \/ \E d \in Daemons : Begin(c, d)
                  \/ CheckSession(c) \/ CheckDaily(c) \/ ApplyRules(c) \/ DecideUnaudited(c)
             \/ Outage \/ Recovery \/ Midnight \/ UNCHANGED vars
      PROVE  Keeps
  BY <1>5
  DEF Begin, CheckSession, CheckDaily, ApplyRules, DecideUnaudited,
      Outage, Recovery, Midnight, vars, dataVars, callVars
<1> HIDE DEF Keeps
<1>6. Keeps
  BY <1>1, <1>2, <1>3, <1>4, <1>5 DEF Next
<1> QED
  BY <1>6 DEF Keeps

LEMMA CostStep ==
    ASSUME TypeOK, ServedInv, TicketInv, SoundInv, LiveInv, CostInv, [Next]_vars
    PROVE  CostInv'
<1> SUFFICES ASSUME ~Trouble' PROVE CostInv'
  BY DEF CostInv
<1>0. ~Trouble /\ shared' = shared
  BY QuietStep, StepGrows
<1>1. ASSUME NEW c \in Calls, Book(c) PROVE CostInv'
  <2> DEFINE d == at[c][1]
  <2>1. /\ d \in Daemons /\ at[c] = Instance(d) /\ c \notin Booked
        /\ \A y \in Days : c \notin BookedOn(y)
    <3>1. pc[c] = "booking" /\ booked[c] = 0
      BY <1>1 DEF Book, LiveInv
    <3>2. \A y \in Days : y # 0
      BY DEF Days
    <3> QED
      BY <3>1, <3>2, AtHome DEF Booked, BookedOn, Live
  <2>2. today \in Days /\ UNCHANGED <<today, epoch, at>> /\ booked' = [booked EXCEPT ![c] = today]
    BY <1>1 DEF Book, configVars, TypeOK, ConfigTypes
  <2>3. /\ Booked' = Booked \cup {c} /\ BookedOn(today)' = BookedOn(today) \cup {c}
        /\ \A y \in Days : y # today => BookedOn(y)' = BookedOn(y)
    BY <2>1, <2>2 DEF Booked, BookedOn, Days, TypeOK, CallTypes
  <2>4. Booked \in SUBSET Calls /\ \A y \in Days : BookedOn(y) \in SUBSET Calls
    BY DEF Booked, BookedOn
  <2>5. CASE shared
    <3>1. redis'.cost = Spent(Booked')
      BY <1>0, <1>1, <2>1, <2>3, <2>4, <2>5, BookQuiet, SpentProps DEF CostInv
    <3>2. ASSUME NEW y \in Days PROVE redis'.day[y] = Spent(BookedOn(y)')
      <4>1. /\ redis'.day = [redis.day EXCEPT ![today] = redis.day[today] + CostUSD]
            /\ redis.day \in [Days -> Nat]
        BY <1>1, <2>5, BookQuiet DEF TypeOK, DataTypes, Backend
      <4>2. redis.day[y] = Spent(BookedOn(y))
        BY <1>0, <2>5 DEF CostInv
      <4>3. CASE y = today
        BY <2>1, <2>2, <2>3, <2>4, <4>1, <4>2, <4>3, SpentProps
      <4>4. CASE y # today
        BY <2>2, <2>3, <4>1, <4>2, <4>4
      <4> QED
        BY <4>3, <4>4
    <3> QED
      BY <1>0, <2>5, <3>1, <3>2 DEF CostInv, Spent
  <2>6. CASE ~shared
    <3> DEFINE Mine(e) == {b \in Booked : at[b] = Instance(e)}
               MineOn(e, y) == {b \in BookedOn(y) : at[b][1] = e}
    <3>1. /\ \A e \in Daemons : Mine(e)' = IF e = d THEN Mine(d) \cup {c} ELSE Mine(e)
          /\ \A e \in Daemons : \A y \in Days :
                MineOn(e, y)' = IF e = d /\ y = today THEN MineOn(d, y) \cup {c} ELSE MineOn(e, y)
      BY <2>1, <2>2, <2>3 DEF Instance
    <3>2. /\ \A e \in Daemons : Mine(e) \in SUBSET Calls
          /\ \A e \in Daemons : \A y \in Days : MineOn(e, y) \in SUBSET Calls
          /\ c \notin Mine(d) /\ \A y \in Days : c \notin MineOn(d, y)
      BY <2>1, <2>4
    <3>3. \A e \in Daemons : /\ local[e].cost = Spent(Mine(e))
                            /\ \A y \in Days : store[e][y] = Spent(MineOn(e, y))
      BY <1>0, <2>6 DEF CostInv
    <3>4. /\ local'[d].cost = local[d].cost + CostUSD
          /\ \A e \in Daemons : e # d => local'[e] = local[e]
          /\ store' = [store EXCEPT ![d][today] = store[d][today] + CostUSD]
          /\ store \in [Daemons -> [Days -> Nat]]
      BY <1>1, <2>6, BookQuiet DEF TypeOK, DataTypes
    <3> HIDE DEF Mine, MineOn, d
    <3>5. ASSUME NEW e \in Daemons PROVE local'[e].cost = Spent(Mine(e)')
      BY <2>1, <3>1, <3>2, <3>3, <3>4, SpentProps
    <3>6. ASSUME NEW e \in Daemons, NEW y \in Days PROVE store'[e][y] = Spent(MineOn(e, y)')
      <4>1. CASE e = d /\ y = today
        BY <2>1, <2>2, <3>1, <3>2, <3>3, <3>4, <4>1, SpentProps
      <4>2. CASE ~ (e = d /\ y = today)
        BY <2>1, <2>2, <3>1, <3>3, <3>4, <4>2
      <4> QED
        BY <4>1, <4>2
    <3> QED
      BY <1>0, <2>6, <3>5, <3>6 DEF CostInv, Spent, Mine, MineOn
  <2> QED
    BY <2>5, <2>6
<1>2. CASE ~ \E c \in Calls : Book(c)
  <2>1. /\ redis'.cost = redis.cost /\ redis'.day = redis.day
        /\ UNCHANGED <<store, booked>>
        /\ \A d \in Daemons :
             \/ local'[d].cost = local[d].cost
             \/ Restart(d) /\ local'[d].cost = 0
    BY <1>2, BooksKeep
  <2>2. Booked' = Booked /\ \A y \in Days : BookedOn(y)' = BookedOn(y)
    BY <2>1 DEF Booked, BookedOn
  <2>3. ASSUME NEW b \in Booked
        PROVE  at'[b] = at[b] /\ at[b] \in Daemons \X Nat /\ at[b][2] <= epoch[at[b][1]]
    <3>1. b \in Calls /\ pc[b] # "idle"
      BY DEF Booked, LiveInv
    <3> QED
      BY <3>1, GoesStep DEF Goes, ServedInv, LiveInv
  <2>4. ASSUME NEW d \in Daemons, NEW y \in Days
        PROVE  {b \in BookedOn(y)' : at'[b][1] = d} = {b \in BookedOn(y) : at[b][1] = d}
    <3>1. BookedOn(y) \subseteq Booked
      BY DEF BookedOn, Booked, Days
    <3> QED
      BY <2>2, <2>3, <3>1
  <2>5. ASSUME NEW d \in Daemons, ~shared
        PROVE  local'[d].cost = Spent({b \in Booked' : at'[b] = Instance(d)'})
    <3> DEFINE Mine(e) == {b \in Booked : at[b] = Instance(e)}
    <3>1. local[d].cost = Spent(Mine(d))
      BY <1>0, <2>5 DEF CostInv
    <3>2. CASE epoch' = epoch
      <4>1. Mine(d)' = Mine(d)
        BY <2>2, <2>3, <3>2 DEF Instance
      <4>2. local'[d].cost = local[d].cost
        <5>1. ~Restart(d)
          <6>1. epoch[d] <= restarts /\ epoch[d] \in Nat /\ restarts \in Nat
            BY DEF TicketInv, TypeOK, ConfigTypes
          <6>2. epoch[d] # restarts + 1
            BY <6>1
          <6>3. Restart(d) => epoch'[d] = restarts + 1
            BY DEF Restart, TypeOK, ConfigTypes
          <6> QED
            BY <3>2, <6>2, <6>3
        <5> QED
          BY <2>1, <5>1
      <4> QED
        BY <3>1, <4>1, <4>2
    <3>3. ASSUME NEW e \in Daemons, Restart(e), epoch' = [epoch EXCEPT ![e] = restarts + 1],
                 epoch[e] < restarts + 1
          PROVE  local'[d].cost = Spent(Mine(d)')
      <4>1. CASE d = e
        <5>1. local'[d].cost = 0
          BY <3>3, <4>1 DEF Restart, FreshState, TypeOK, DataTypes
        <5>2. Mine(d)' = {}
          <6> SUFFICES ASSUME NEW b \in Booked, at[b] = <<d, restarts + 1>> PROVE FALSE
            BY <2>2, <2>3, <3>3, <4>1 DEF Instance, TypeOK, ConfigTypes
          <6>1. restarts + 1 <= epoch[d] /\ epoch[d] < restarts + 1 /\ epoch[d] \in Nat
                /\ restarts \in Nat
            BY <2>3, <3>3, <4>1 DEF TypeOK, ConfigTypes
          <6> QED
            BY <6>1
        <5> QED
          BY <5>1, <5>2, SpentProps
      <4>2. CASE d # e
        <5>1. Instance(d)' = Instance(d)
          BY <3>3, <4>2 DEF Instance, TypeOK, ConfigTypes
        <5>2. Mine(d)' = Mine(d)
          BY <2>2, <2>3, <5>1
        <5>3. local'[d].cost = local[d].cost
          BY <3>3, <4>2 DEF Restart, TypeOK, DataTypes
        <5> QED
          BY <3>1, <5>2, <5>3
      <4> QED
        BY <4>1, <4>2
    <3> QED
      BY <3>2, <3>3, EpochStep
  <2> QED
    BY <1>0, <2>1, <2>2, <2>4, <2>5 DEF CostInv, Spent
<1> QED
  BY <1>1, <1>2

(* A call that is past a budget's check began below its limit.             *)
PaidInSession(c) == {b \in before[c].paid : SameSession(b, c)}
PaidOnDay(c) == {b \in before[c].paid : SameLedger(b, c) /\ booked[b] = before[c].day}
SessionRoom(c) == budget.session > 0 => Spent(PaidInSession(c)) < budget.session
DailyRoom(c) == budget.daily > 0 => Spent(PaidOnDay(c)) < budget.daily
RoomInv == ~Trouble => \A c \in Calls :
    /\ pc[c] \in {"daily budget", "rules"} \/ effect[c] = "permit" => SessionRoom(c)
    /\ pc[c] = "rules" \/ effect[c] = "permit" => DailyRoom(c)

(* What a call found booked stays booked where and when it was. *)
LEMMA PaidStays ==
    ASSUME TypeOK, LiveInv, [Next]_vars, NEW c \in Calls, pc[c] # "idle"
    PROVE  /\ PaidInSession(c)' = PaidInSession(c)
           /\ before'[c].day = before[c].day => PaidOnDay(c)' = PaidOnDay(c)
<1>1. shared' = shared
  BY StepGrows
<1>2. before'[c].paid = before[c].paid /\ at'[c] = at[c] /\ before[c].paid \subseteq Calls
  BY GoesStep DEF Goes, TypeOK, CallTypes
<1>3. ASSUME NEW b \in before[c].paid PROVE at'[b] = at[b] /\ booked'[b] = booked[b]
  <2>1. b \in Calls /\ pc[b] = "done"
    BY <1>2 DEF LiveInv
  <2> QED
    BY <2>1, GoesStep DEF Goes
<1> QED
  BY <1>1, <1>2, <1>3 DEF PaidInSession, PaidOnDay, SameSession, SameLedger

LEMMA RoomStep ==
    ASSUME TypeOK, ServedInv, TicketInv, SoundInv, LiveInv, CostInv, RoomInv, [Next]_vars
    PROVE  RoomInv'
<1> SUFFICES ASSUME ~Trouble', NEW c \in Calls
             PROVE  /\ pc'[c] \in {"daily budget", "rules"} \/ effect'[c] = "permit" => SessionRoom(c)'
                    /\ pc'[c] = "rules" \/ effect'[c] = "permit" => DailyRoom(c)'
  BY DEF RoomInv
<1>0. /\ ~Trouble /\ shared' = shared /\ budget' = budget /\ (shared => reachable)
      /\ budget \in [calls : Nat, session : Nat, daily : Nat]
  BY QuietStep, StepGrows, SessionAssumption DEF SoundInv, TypeOK, ConfigTypes
<1>1. CASE pc[c] = "idle"
  <2>1. effect[c] # "permit"
    BY <1>1, SessionAssumption DEF TicketInv
  <2>2. CASE UNCHANGED <<pc[c], at[c], effect[c], saw[c], booked[c], before[c]>>
    BY <1>1, <2>1, <2>2
  <2>3. ASSUME NEW d \in Daemons, Begin(c, d)
        PROVE  pc'[c] \in {"counting", "deciding"} /\ effect'[c] # "permit"
    BY <2>1, <2>3 DEF Begin, Deny, Go, TypeOK, CallTypes
  <2> QED
    BY <1>1, <2>2, <2>3, WaitsStep DEF Waits
<1>2. ASSUME CheckSession(c)
      PROVE  /\ pc'[c] \in {"daily budget", "rules"} \/ effect'[c] = "permit" => SessionRoom(c)'
             /\ pc'[c] = "rules" \/ effect'[c] = "permit" => DailyRoom(c)'
  <2> DEFINE d == at[c][1]
  <2>1. d \in Daemons /\ at[c] = Instance(d)
    BY <1>2, AtHome DEF CheckSession, Live
  <2>2. pc[c] = "session budget" /\ UNCHANGED <<before, at, booked>>
    BY <1>2 DEF CheckSession
  <2>3. CASE Reached(CurrentCostUSD(d), budget.session)
    BY <1>2, <2>3 DEF CheckSession, Deny, TypeOK, CallTypes
  <2>4. CASE ~Reached(CurrentCostUSD(d), budget.session)
    <3>1. pc'[c] = "daily budget" /\ effect' = effect
      BY <1>2, <2>4 DEF CheckSession, Go, TypeOK, CallTypes
    <3>2. before[c].paid \in SUBSET Booked
      BY DEF LiveInv, Booked, TypeOK, CallTypes
    <3> DEFINE All == IF shared THEN Booked ELSE {b \in Booked : at[b] = Instance(d)}
    <3>3. CurrentCostUSD(d) = Spent(All)
      BY <1>0, <2>1 DEF CostInv, CurrentCostUSD
    <3>4. PaidInSession(c) \subseteq All /\ All \in SUBSET Calls
      BY <2>1, <3>2 DEF PaidInSession, SameSession, Booked
    <3>5. Spent(PaidInSession(c)) <= Spent(All)
          /\ Spent(All) \in Nat /\ Spent(PaidInSession(c)) \in Nat
      BY <3>4, SpentProps
    <3>6. SessionRoom(c)
      BY <1>0, <2>4, <3>3, <3>5 DEF SessionRoom, Reached
    <3>7. SessionRoom(c)'
      BY <1>0, <2>2, <3>6, PaidStays DEF SessionRoom, Spent
    <3>8. effect[c] = "permit" => DailyRoom(c)'
      BY <1>0, <2>2, PaidStays DEF RoomInv, DailyRoom, Spent
    <3> QED
      BY <3>1, <3>7, <3>8
  <2> QED
    BY <2>3, <2>4
<1>3. ASSUME CheckDaily(c)
      PROVE  /\ pc'[c] \in {"daily budget", "rules"} \/ effect'[c] = "permit" => SessionRoom(c)'
             /\ pc'[c] = "rules" \/ effect'[c] = "permit" => DailyRoom(c)'
  <2> DEFINE d == at[c][1]
  <2>1. d \in Daemons /\ today \in Days
    BY <1>3 DEF CheckDaily, ServedInv, TypeOK, ConfigTypes
  <2>2. pc[c] = "daily budget" /\ UNCHANGED <<at, booked>>
    BY <1>3 DEF CheckDaily
  <2>3. SessionRoom(c)'
    <3>1. SessionRoom(c)
      BY <1>0, <2>2 DEF RoomInv
    <3> QED
      BY <1>0, <2>2, <3>1, PaidStays DEF SessionRoom, Spent
  <2>4. before'[c].day = today /\ before'[c].paid = before[c].paid
    <3> DEFINE new == [before[c] EXCEPT !.day = today]
    <3>1. before' = [before EXCEPT ![c] = new]
      BY <1>3 DEF CheckDaily
    <3>2. new.day = today /\ new.paid = before[c].paid
      BY DEF TypeOK, CallTypes
    <3> HIDE DEF new
    <3> QED
      BY <3>1, <3>2 DEF TypeOK, CallTypes
  <2>5. IF Reached(DailyCostUSD(d), budget.daily) THEN Deny(c) ELSE Go(c, "rules")
    BY <1>0, <1>3, QuietStep DEF CheckDaily, CanFail
  <2>6. CASE Reached(DailyCostUSD(d), budget.daily)
    BY <2>5, <2>6 DEF Deny, TypeOK, CallTypes
  <2>7. CASE ~Reached(DailyCostUSD(d), budget.daily)
    <3> DEFINE All == IF shared THEN BookedOn(today) ELSE {b \in BookedOn(today) : at[b][1] = d}
               Paid == {b \in before[c].paid : SameLedger(b, c) /\ booked[b] = today}
    <3>1. before[c].paid \subseteq Calls
      BY DEF TypeOK, CallTypes
    <3>2. DailyCostUSD(d) = Spent(All)
      BY <1>0, <2>1 DEF CostInv, DailyCostUSD
    <3>3. Paid \subseteq All /\ All \in SUBSET Calls
      BY <3>1 DEF SameLedger, BookedOn
    <3>4. Spent(Paid) <= Spent(All) /\ Spent(All) \in Nat /\ Spent(Paid) \in Nat
      BY <3>3, SpentProps
    <3>5. PaidOnDay(c)' = Paid
      BY <1>0, <2>2, <2>4 DEF PaidOnDay, SameLedger
    <3>6. budget.daily > 0 => Spent(Paid) < budget.daily
      BY <1>0, <2>7, <3>2, <3>4 DEF Reached
    <3>7. DailyRoom(c)'
      BY <1>0, <3>5, <3>6 DEF DailyRoom, Spent
    <3> QED
      BY <2>3, <3>7
  <2> QED
    BY <2>6, <2>7
<1>4. ASSUME pc[c] # "idle", ~CheckSession(c), ~CheckDaily(c)
      PROVE  /\ before'[c].day = before[c].day
             /\ pc'[c] \in {"daily budget", "rules"} => pc'[c] = pc[c]
             /\ effect'[c] = "permit" => effect[c] = "permit" \/ pc[c] = "rules"
  <2> DEFINE Rest ==
        /\ before'[c].day = before[c].day
        /\ pc'[c] \in {"daily budget", "rules"} => pc'[c] = pc[c]
        /\ effect'[c] = "permit" => effect[c] = "permit" \/ pc[c] = "rules"
  <2>1. ASSUME NEW b \in Calls, NEW d \in Daemons, Begin(b, d) PROVE Rest
    <3>1. b # c
      BY <1>4, <2>1 DEF Begin
    <3> QED
      BY <2>1, <3>1 DEF Begin, Deny, Go, TypeOK, CallTypes
  <2>2. ASSUME NEW b \in Calls, CheckSession(b) \/ CheckDaily(b) PROVE Rest
    <3>1. b # c
      BY <1>4, <2>2
    <3> QED
      BY <2>2, <3>1 DEF CheckSession, CheckDaily, Deny, Go, TypeOK, CallTypes
  <2>3. ASSUME NEW b \in Calls,
               Count(b) \/ ApplyRules(b) \/ Decide(b) \/ DecideUnaudited(b) \/ Book(b)
        PROVE  Rest
    BY <2>3 DEF Count, ApplyRules, Decide, DecideUnaudited, Book, Deny, Go, TypeOK, CallTypes
  <2>4. CASE \/ \E d \in Daemons : Kill(d) \/ SetKillSwitch(d) \/ Restart(d)
             \/ Outage \/ Recovery \/ Midnight \/ UNCHANGED vars
    BY <2>4
    DEF Kill, SetKillSwitch, Restart, Outage, Recovery, Midnight, vars, callVars,
        TypeOK, CallTypes
  <2> QED
    BY <2>1, <2>2, <2>3, <2>4 DEF Next
<1>5. CASE pc[c] # "idle" /\ ~CheckSession(c) /\ ~CheckDaily(c)
  <2>1. PaidInSession(c)' = PaidInSession(c) /\ PaidOnDay(c)' = PaidOnDay(c)
    BY <1>4, <1>5, PaidStays
  <2>2. (SessionRoom(c) => SessionRoom(c)') /\ (DailyRoom(c) => DailyRoom(c)')
    BY <1>0, <2>1 DEF SessionRoom, DailyRoom, Spent
  <2> QED
    BY <1>0, <1>4, <1>5, <2>2 DEF RoomInv
<1> QED
  BY <1>1, <1>2, <1>3, <1>5

(* A history covers what was decided, or newer decisions have filled it.   *)
Covers(h, S) == S \subseteq {h[i] : i \in DOMAIN h} \/ Len(h) = MaxHistory

LEMMA PushCovers ==
    ASSUME NEW h \in Histories, NEW c \in Calls, NEW S, Covers(h, S)
    PROVE  Covers(Push(h, c), S \cup {c})
<1> DEFINE g == <<c>> \o h
<1>1. /\ h \in Seq(Calls) /\ Len(h) \in Nat /\ Len(h) <= MaxHistory /\ MaxHistory \in Nat \ {0}
  BY SessionAssumption DEF Histories
<1>2. /\ g \in Seq(Calls) /\ Len(g) = Len(h) + 1 /\ g[1] = c
      /\ \A i \in 1 .. Len(h) : g[i + 1] = h[i]
  BY <1>1
<1> HIDE DEF g
<1>3. CASE Len(h) < MaxHistory
  <2> DEFINE p == SubSeq(g, 1, Len(h) + 1)
  <2>1. Push(h, c) = p
    BY <1>3 DEF Push, g
  <2>2. DOMAIN p = 1 .. Len(h) + 1 /\ \A i \in 1 .. Len(h) + 1 : p[i] = g[i]
    BY <1>1, <1>2, SubSeqProperties
  <2> HIDE DEF p
  <2>3. c \in {p[i] : i \in DOMAIN p}
    BY <1>1, <1>2, <2>2
  <2>4. \A i \in DOMAIN h : h[i] \in {p[j] : j \in DOMAIN p}
    <3> TAKE i \in DOMAIN h
    <3>1. i \in 1 .. Len(h) /\ i + 1 \in 1 .. Len(h) + 1
      BY <1>1
    <3> QED
      BY <1>2, <2>2, <3>1
  <2>5. S \subseteq {h[i] : i \in DOMAIN h}
    BY <1>1, <1>3 DEF Covers
  <2> QED
    BY <2>1, <2>3, <2>4, <2>5 DEF Covers
<1>4. CASE Len(h) = MaxHistory
  <2>1. Push(h, c) = SubSeq(g, 1, MaxHistory)
    BY <1>1, <1>4 DEF Push, g
  <2>2. Len(SubSeq(g, 1, MaxHistory)) = MaxHistory
    BY <1>1, <1>2, <1>4, SubSeqProperties
  <2> QED
    BY <2>1, <2>2 DEF Covers
<1> QED
  BY <1>1, <1>3, <1>4

(* The histories cover every decision that is out: those that were, when   *)
(* some call began, and those since. A call that is permitted has read one *)
(* that covered what was out when it began.                                *)
Out == {b \in Calls : pc[b] \in {"booking", "done"} \/ \E c \in Calls : b \in before[c].over}
SeenBy(c) == {b \in before[c].over : SameSession(b, c)}
HistoryInv == ~Trouble =>
    /\ shared => Covers(redis.history, Out)
    /\ ~shared => \A d \in Daemons : Covers(local[d].history, {b \in Out : at[b] = Instance(d)})
    /\ \A c \in Permitted : Covers(saw[c], SeenBy(c))

LEMMA HistoryInit == Init => HistoryInv
<1> SUFFICES ASSUME Init PROVE HistoryInv
  OBVIOUS
<1>1. Out = {} /\ Permitted = {}
  BY SessionAssumption DEF Init, Out, Permitted, Nothing
<1> QED
  BY <1>1 DEF HistoryInv, Covers

(* What comes out. *)
LEMMA OutStep ==
    ASSUME TypeOK, LiveInv, [Next]_vars, NEW b \in Out'
    PROVE  /\ b \in Calls /\ pc[b] # "idle" /\ at'[b] = at[b]
           /\ b \in Out \/ Decide(b)
<1>1. b \in Calls
  BY DEF Out
<1>2. \A c \in Calls : b \in before[c].over => b \in Out /\ pc[b] # "idle"
  BY <1>1 DEF Out, LiveInv, Decided
<1>3. ASSUME NEW c \in Calls, b \in before'[c].over PROVE b \in Out /\ pc[b] # "idle"
  <2>1. CASE pc[c] # "idle"
    BY <1>2, <1>3, <2>1, GoesStep DEF Goes
  <2>2. CASE before'[c] = before[c]
    BY <1>2, <1>3, <2>2
  <2>3. ASSUME NEW d \in Daemons, Begin(c, d) PROVE b \in Out /\ pc[b] # "idle"
    <3>1. before'[c].over = {x \in Calls : pc[x] \in {"booking", "done"}}
      BY <2>3 DEF Begin, TypeOK, CallTypes
    <3> QED
      BY <1>1, <1>3, <3>1 DEF Out
  <2> QED
    BY <2>1, <2>2, <2>3, WaitsStep DEF Waits
<1>4. ASSUME pc'[b] \in {"booking", "done"}, pc[b] \notin {"booking", "done"}
      PROVE  Decide(b)
  <2>1. ASSUME NEW c \in Calls, NEW d \in Daemons, Begin(c, d) PROVE FALSE
    BY <1>1, <1>4, <2>1 DEF Begin, Deny, Go, TypeOK, CallTypes
  <2>2. ASSUME NEW c \in Calls, Decide(c) PROVE Decide(b)
    BY <1>1, <1>4, <2>2 DEF Decide, TypeOK, CallTypes
  <2>3. ASSUME NEW c \in Calls,
               \/ Count(c) \/ CheckSession(c) \/ CheckDaily(c) \/ ApplyRules(c)
               \/ DecideUnaudited(c) \/ Book(c)
        PROVE  FALSE
    BY <1>1, <1>4, <2>3
    DEF Count, CheckSession, CheckDaily, ApplyRules, DecideUnaudited, Book, Deny, Go,
        TypeOK, CallTypes
  <2>4. CASE \/ \E d \in Daemons : Kill(d) \/ SetKillSwitch(d) \/ Restart(d)
             \/ Outage \/ Recovery \/ Midnight \/ UNCHANGED vars
    BY <1>1, <1>4, <2>4
    DEF Kill, SetKillSwitch, Restart, Outage, Recovery, Midnight, vars, callVars
  <2> QED
    BY <2>1, <2>2, <2>3, <2>4 DEF Next
<1>5. b \in Out \/ Decide(b)
  BY <1>1, <1>3, <1>4 DEF Out
<1>6. pc[b] # "idle"
  BY <1>2, <1>5 DEF Decide, Out
<1> QED
  BY <1>1, <1>5, <1>6, GoesStep DEF Goes

LEMMA DecideQuiet ==
    ASSUME TypeOK, ServedInv, SoundInv, [Next]_vars, ~Trouble', NEW c \in Calls, Decide(c)
    PROVE  LET d == at[c][1] IN
           /\ shared => redis'.history = Push(redis.history, c)
           /\ ~shared => /\ local'[d].history = Push(local[d].history, c)
                         /\ \A e \in Daemons : e # d => local'[e] = local[e]
<1> DEFINE d == at[c][1]
           newer == Push(redis.history, c)
           new == Push(local[d].history, c)
           more == [local[d] EXCEPT !.history = new]
<1>1. d \in Daemons /\ local \in [Daemons -> State] /\ redis \in Backend
  BY DEF Decide, ServedInv, TypeOK, DataTypes
<1>2. PICK reply \in Replies :
        /\ Noted(reply)
        /\ redis' = IF Applied(reply) THEN [redis EXCEPT !.history = newer] ELSE redis
        /\ local' = IF FallsBack(reply) THEN [local EXCEPT ![d] = more] ELSE local
  BY DEF Decide, RecordHistory
<1>3. (Applied(reply) <=> shared) /\ (FallsBack(reply) <=> ~shared)
  BY <1>2, QuietReply
<1> HIDE DEF new, newer
<1>4. more.history = new
  BY <1>1 DEF State
<1> HIDE DEF more
<1>5. shared => redis'.history = newer
  BY <1>1, <1>2, <1>3 DEF Backend
<1>6. ~shared => local'[d].history = new /\ \A e \in Daemons : e # d => local'[e] = local[e]
  BY <1>1, <1>2, <1>3, <1>4
<1> QED
  BY <1>5, <1>6 DEF new, newer

(* Nothing else writes a history. *)
LEMMA HistoriesKeep ==
    ASSUME TypeOK, ServedInv, [Next]_vars, ~ \E c \in Calls : Decide(c)
    PROVE  /\ redis'.history = redis.history
           /\ \A d \in Daemons : local'[d].history = local[d].history \/ Restart(d)
<1> DEFINE Keeps ==
        /\ redis'.history = redis.history
        /\ \A d \in Daemons : local'[d].history = local[d].history \/ Restart(d)
<1>1. ASSUME NEW c \in Calls, Count(c) PROVE Keeps
  <2> DEFINE d == at[c][1]
             more == [local[d] EXCEPT !.calls = local[d].calls + 1]
  <2>1. redis' = redis \/ redis' = [redis EXCEPT !.calls = redis.calls + 1]
    BY <1>1 DEF Count, IncrCallCount
  <2>2. local' = local \/ local' = [local EXCEPT ![d] = more]
    BY <1>1 DEF Count, IncrCallCount
  <2>3. d \in Daemons
    BY <1>1 DEF Count, ServedInv
  <2>4. more.history = local[d].history
    BY <2>3 DEF TypeOK, DataTypes, State
  <2> HIDE DEF more, d
  <2> QED
    BY <2>1, <2>2, <2>3, <2>4 DEF TypeOK, DataTypes, Backend
<1>2. ASSUME NEW c \in Calls, Book(c) PROVE Keeps
  <2> DEFINE d == at[c][1]
             cost == local[d].cost + CostUSD
             daily == (IF local[d].on = today THEN local[d].daily ELSE 0) + CostUSD
             new == [local[d] EXCEPT !.cost = cost, !.daily = daily, !.on = today]
  <2>1. redis' = redis \/ redis' = Costlier
    BY <1>2 DEF Book, AddCost
  <2>2. local' = local \/ local' = [local EXCEPT ![d] = new]
    BY <1>2 DEF Book, AddCost, AddCostLocally
  <2>3. d \in Daemons
    BY <1>2 DEF Book, ServedInv
  <2> HIDE DEF cost, daily, d
  <2>4. new.history = local[d].history
    BY <2>3 DEF TypeOK, DataTypes, State
  <2>5. Costlier.history = redis.history
    BY DEF Costlier, TypeOK, DataTypes, Backend
  <2> HIDE DEF new
  <2> QED
    BY <2>1, <2>2, <2>3, <2>4, <2>5 DEF TypeOK, DataTypes
<1>3. ASSUME NEW e \in Daemons, Kill(e) \/ SetKillSwitch(e) PROVE Keeps
  <2>1. CASE Kill(e)
    BY <2>1 DEF Kill, TypeOK, DataTypes, State
  <2>2. CASE SetKillSwitch(e)
    BY <2>2 DEF SetKillSwitch, TypeOK, DataTypes, Backend
  <2> QED
    BY <1>3, <2>1, <2>2
<1>4. ASSUME NEW e \in Daemons, Restart(e) PROVE Keeps
  <2>1. redis' = redis /\ \A d \in Daemons : d # e => local'[d] = local[d]
    BY <1>4 DEF Restart, TypeOK, DataTypes
  <2> QED
    BY <1>4, <2>1
<1>5. ASSUME \/ \E c \in Calls :
                  \/ \E d \in Daemons : Begin(c, d)
                  \/ CheckSession(c) \/ CheckDaily(c) \/ ApplyRules(c) \/ DecideUnaudited(c)
             \/ Outage \/ Recovery \/ Midnight \/ UNCHANGED vars
      PROVE  Keeps
  BY <1>5
  DEF Begin, CheckSession, CheckDaily, ApplyRules, DecideUnaudited,
      Outage, Recovery, Midnight, vars, dataVars
<1> HIDE DEF Keeps
<1>6. Keeps
  BY <1>1, <1>2, <1>3, <1>4, <1>5 DEF Next
<1> QED
  BY <1>6 DEF Keeps

LEMMA HistoryStep ==
    ASSUME TypeOK, ServedInv, TicketInv, SoundInv, LiveInv, HistoryInv, [Next]_vars
    PROVE  HistoryInv'
<1> SUFFICES ASSUME ~Trouble' PROVE HistoryInv'
  BY DEF HistoryInv
<1>0. ~Trouble /\ shared' = shared /\ (shared => reachable)
  BY QuietStep, StepGrows DEF SoundInv
<1> DEFINE Ours(d) == {b \in Out : at[b] = Instance(d)}
<1>1. shared => Covers(redis'.history, Out')
  <2> SUFFICES ASSUME shared PROVE Covers(redis'.history, Out')
    OBVIOUS
  <2>1. Covers(redis.history, Out) /\ redis.history \in Histories
    BY <1>0 DEF HistoryInv, TypeOK, DataTypes, Backend
  <2>2. ASSUME NEW c \in Calls, Decide(c) PROVE Covers(redis'.history, Out')
    <3>1. Covers(redis'.history, Out \cup {c})
      BY <2>1, <2>2, DecideQuiet, PushCovers
    <3>2. Out' \subseteq Out \cup {c}
      <4> SUFFICES ASSUME NEW b \in Out', b # c PROVE b \in Out
        OBVIOUS
      <4>1. pc'[b] = pc[b] /\ UNCHANGED before /\ b \in Calls
        BY <2>2 DEF Decide, Out, TypeOK, CallTypes
      <4> QED
        BY <4>1 DEF Out
    <3> QED
      BY <3>1, <3>2 DEF Covers
  <2>3. CASE ~ \E c \in Calls : Decide(c)
    <3>1. Out' \subseteq Out
      BY <2>3, OutStep
    <3> QED
      BY <2>1, <2>3, <3>1, HistoriesKeep DEF Covers
  <2> QED
    BY <2>2, <2>3
<1>2. ASSUME ~shared, NEW d \in Daemons PROVE Covers(local'[d].history, Ours(d)')
  <2>1. Covers(local[d].history, Ours(d)) /\ local[d].history \in Histories
    BY <1>0, <1>2 DEF HistoryInv, TypeOK, DataTypes, State
  <2>2. ASSUME NEW c \in Calls, Decide(c) PROVE Covers(local'[d].history, Ours(d)')
    <3>1. UNCHANGED <<at, epoch, before>>
      BY <2>2 DEF Decide, configVars
    <3>2. \A b \in Out' : b # c => b \in Out
      <4> SUFFICES ASSUME NEW b \in Out', b # c PROVE b \in Out
        OBVIOUS
      <4>1. pc'[b] = pc[b] /\ b \in Calls
        BY <2>2 DEF Decide, Out, TypeOK, CallTypes
      <4> QED
        BY <3>1, <4>1 DEF Out
    <3>3. at[c] = Instance(at[c][1]) /\ at[c][1] \in Daemons
      BY <2>2, AtHome DEF Decide, Live
    <3>4. CASE at[c][1] = d
      <4>1. Covers(local'[d].history, Ours(d) \cup {c})
        BY <1>2, <2>1, <2>2, <3>4, DecideQuiet, PushCovers
      <4>2. Ours(d)' \subseteq Ours(d) \cup {c}
        BY <3>1, <3>2 DEF Instance
      <4> QED
        BY <4>1, <4>2 DEF Covers
    <3>5. CASE at[c][1] # d
      <4>1. local'[d] = local[d]
        BY <1>2, <2>2, <3>5, DecideQuiet
      <4>2. at[c] # Instance(d)
        BY <3>5 DEF Instance
      <4>3. Ours(d)' \subseteq Ours(d)
        BY <3>1, <3>2, <4>2 DEF Instance
      <4> QED
        BY <2>1, <4>1, <4>3 DEF Covers
    <3> QED
      BY <3>4, <3>5
  <2>3. CASE ~ \E c \in Calls : Decide(c)
    <3>1. \A b \in Out' : b \in Out /\ at'[b] = at[b] /\ pc[b] # "idle" /\ b \in Calls
      BY <2>3, OutStep
    <3>2. CASE Instance(d)' = Instance(d) /\ ~Restart(d)
      <4>1. Ours(d)' \subseteq Ours(d)
        BY <3>1, <3>2
      <4>2. local'[d].history = local[d].history
        BY <2>3, <3>2, HistoriesKeep
      <4> QED
        BY <2>1, <4>1, <4>2 DEF Covers
    <3>3. CASE Restart(d)
      <4>1. Ours(d)' = {}
        <5> SUFFICES ASSUME NEW b \in Out', at'[b] = Instance(d)' PROVE FALSE
          OBVIOUS
        <5>1. /\ at[b] = <<d, restarts + 1>> /\ at[b][2] <= epoch[at[b][1]]
              /\ epoch[d] <= restarts /\ epoch[d] \in Nat /\ restarts \in Nat
          BY <3>1, <3>3 DEF Restart, Instance, LiveInv, TicketInv, TypeOK, ConfigTypes
        <5>2. restarts + 1 <= epoch[d]
          BY <5>1
        <5> QED
          BY <5>1, <5>2
      <4> QED
        BY <4>1 DEF Covers
    <3>4. Instance(d)' = Instance(d) \/ Restart(d)
      BY EpochStep DEF Instance, TypeOK, ConfigTypes
    <3> QED
      BY <3>2, <3>3, <3>4
  <2> QED
    BY <2>2, <2>3
<1>3. ASSUME NEW c \in Calls, effect'[c] = "permit" PROVE Covers(saw'[c], SeenBy(c)')
  <2>1. pc[c] # "idle"
    <3> SUFFICES ASSUME pc[c] = "idle" PROVE FALSE
      OBVIOUS
    <3>1. effect[c] # "permit"
      BY SessionAssumption DEF TicketInv
    <3>2. ASSUME NEW d \in Daemons, Begin(c, d) PROVE effect'[c] # "permit"
      BY <3>1, <3>2 DEF Begin, Deny, Go, TypeOK, CallTypes
    <3> QED
      BY <1>3, <3>1, <3>2, WaitsStep DEF Waits
  <2>2. SeenBy(c)' = SeenBy(c) /\ SeenBy(c) \subseteq Out
    <3>1. /\ before'[c].over = before[c].over /\ at'[c] = at[c]
          /\ before[c].over \subseteq Calls
      BY <2>1, GoesStep DEF Goes, TypeOK, CallTypes
    <3>2. ASSUME NEW b \in before[c].over PROVE at'[b] = at[b]
      <4>1. b \in Calls /\ pc[b] # "idle"
        BY <3>1 DEF LiveInv, Decided
      <4> QED
        BY <4>1, GoesStep DEF Goes
    <3> QED
      BY <1>0, <3>1, <3>2 DEF SeenBy, SameSession, Out
  <2>3. CASE ApplyRules(c)
    <3> DEFINE d == at[c][1]
    <3>1. saw'[c] = History(d)
      BY <2>3 DEF ApplyRules, TypeOK, CallTypes
    <3>2. d \in Daemons /\ at[c] = Instance(d)
      BY <2>3, AtHome DEF ApplyRules, Live
    <3>3. CASE shared
      BY <1>0, <2>2, <3>1, <3>3 DEF History, HistoryInv, Covers
    <3>4. CASE ~shared
      <4>1. SeenBy(c) \subseteq Ours(d)
        BY <2>2, <3>2, <3>4 DEF SeenBy, SameSession
      <4>2. saw'[c] = local[d].history /\ Covers(local[d].history, Ours(d))
        BY <1>0, <3>1, <3>2, <3>4 DEF History, HistoryInv
      <4> QED
        BY <2>2, <4>1, <4>2 DEF Covers
    <3> QED
      BY <3>3, <3>4
  <2>4. CASE ~ApplyRules(c)
    <3> DEFINE Same == saw'[c] = saw[c] /\ effect[c] = "permit"
    <3>1. ASSUME NEW b \in Calls, NEW d \in Daemons, Begin(b, d) PROVE Same
      BY <1>3, <3>1 DEF Begin, Deny, Go, TypeOK, CallTypes
    <3>2. ASSUME NEW b \in Calls, ApplyRules(b) PROVE Same
      <4>1. b # c
        BY <2>4, <3>2
      <4> QED
        BY <1>3, <3>2, <4>1 DEF ApplyRules, TypeOK, CallTypes
    <3>3. ASSUME NEW b \in Calls,
                 \/ Count(b) \/ CheckSession(b) \/ CheckDaily(b)
                 \/ Decide(b) \/ DecideUnaudited(b) \/ Book(b)
          PROVE  Same
      BY <1>3, <3>3
      DEF Count, CheckSession, CheckDaily, Decide, DecideUnaudited, Book, Deny, Go,
          TypeOK, CallTypes
    <3>4. ASSUME \/ \E d \in Daemons : Kill(d) \/ SetKillSwitch(d) \/ Restart(d)
                 \/ Outage \/ Recovery \/ Midnight \/ UNCHANGED vars
          PROVE  Same
      BY <1>3, <3>4
      DEF Kill, SetKillSwitch, Restart, Outage, Recovery, Midnight, vars, callVars
    <3> HIDE DEF Same
    <3>5. Same
      BY <3>1, <3>2, <3>3, <3>4 DEF Next
    <3> QED
      BY <1>0, <2>2, <3>5 DEF Same, HistoryInv, Permitted
  <2> QED
    BY <2>3, <2>4
<1> QED
  BY <1>0, <1>1, <1>2, <1>3 DEF HistoryInv, Permitted, Covers

-------------------------------------------------------------------------------
(* Their theorems *)

BooksInv == IInv /\ LiveInv /\ CostInv /\ RoomInv /\ HistoryInv

LEMMA BooksInductive == Spec => []BooksInv
<1>1. Init => BooksInv
  <2> SUFFICES ASSUME Init PROVE BooksInv
    OBVIOUS
  <2>1. RoomInv
    BY SessionAssumption DEF Init, RoomInv
  <2> QED
    BY <2>1, IInvInit, LiveInit, CostInit, HistoryInit DEF BooksInv
<1>2. BooksInv /\ [Next]_vars => BooksInv'
  BY IInvStep, LiveStep, CostStep, RoomStep, HistoryStep DEF BooksInv, IInv
<1> QED
  BY <1>1, <1>2, PTL DEF Spec

(* checkBudget: without trouble, for any number of daemons, restarts and   *)
(* days, no call is permitted when what was booked before it began had     *)
(* reached a limit of its session or of its day.                           *)
THEOREM BudgetsRespected == Spec => []BudgetsHold
<1>1. BooksInv => BudgetsHold
  BY DEF BooksInv, RoomInv, SessionRoom, DailyRoom, PaidInSession, PaidOnDay, Permitted, BudgetsHold
<1> QED
  BY <1>1, BooksInductive, PTL

(* "History must be updated synchronously" (pipeline.go:976): without      *)
(* trouble, whatever runs at the same time, a permitted call saw every     *)
(* decision of its session that was out when it began, or a full history.  *)
THEOREM HistoryFresh == Spec => []HistoryIsFresh
<1>1. BooksInv => HistoryIsFresh
  BY DEF BooksInv, HistoryInv, SeenBy, Covers, HistoryIsFresh
<1> QED
  BY <1>1, BooksInductive, PTL
===============================================================================
