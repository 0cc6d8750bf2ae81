-------------------------- MODULE DeferWorkflowProofs --------------------------
(***************************************************************************)
(* Proofs about DeferWorkflow for any number of requesters, calls, policy  *)
(* changes and restarts, with call ids that may be sent again; the last    *)
(* part is about calls sent once to a daemon that does not restart.        *)
(***************************************************************************)
EXTENDS DeferWorkflow, SequenceTheorems, TLAPS

-------------------------------------------------------------------------------
(* The inductive invariant *)

(* A human approved the requester's call after it was deferred, when at    *)
(* most v policy versions had been seen.                                   *)
ApprovedBy(r, v) ==
    \E x \in won :
        /\ x.status = "approved" /\ x.h >= mine[r]
        /\ handles[x.h].token = First(call[r])
        /\ x.version <= v

(* While the token of r is pending it is so for the handle r was given or  *)
(* a later one; once it reads approved, somebody approved one of those.    *)
WaitInv(r) ==
    LET t == First(call[r]) IN
    /\ pending[t] # 0 => mine[r] <= pending[t]
    /\ pending[t] = 0 /\ resolved[t] = "approved" => ApprovedBy(r, Len(rules))

(* What each step of a requester knows. *)
StepInv(r) ==
    /\ pc[r] # "idle" => call[r] \in Calls
    /\ pc[r] # "done" => answer[r] = None
    /\ pc[r] \in {"idle", "evaluating"} => mine[r] = 0
    /\ pc[r] \in {"registered", "waiting", "approved", "reregistered"} => mine[r] # 0
    /\ pc[r] \in {"evaluating", "reevaluating"} => seen[r] # 0
    /\ pc[r] \in {"registered", "waiting"} => WaitInv(r)
    /\ pc[r] = "approved" => ApprovedBy(r, Len(rules))
    /\ pc[r] = "reevaluating" => ApprovedBy(r, seen[r])

RequestInv == \A r \in Requesters : StepInv(r)

IInv == TypeOK /\ OneWinner /\ RequestInv /\ NoRunWithoutApproval

-------------------------------------------------------------------------------
(* What the helpers do *)

HandleType == [token : Token, made : Nat, deadline : Nat]
ChanType == Decisions \cup {None}
Kept(f, g) == Len(f) <= Len(g) /\ \A i \in 1 .. Len(f) : g[i] = f[i]

LEMMA TokenType ==
    ASSUME NEW k \in Calls
    PROVE  First(k) \in Token /\ Resumed(k) \in Token
BY DEF First, Resumed, Token

(* Registering a token leaves it pending, and touches no other token and   *)
(* no earlier handle.                                                      *)
LEMMA RegisterEffect ==
    ASSUME EnvTypes, FlowTypes, NEW t \in Token, Register(t)
    PROVE  /\ handles' \in Seq(HandleType) /\ Kept(handles, handles')
           /\ pending' \in [Token -> 0 .. Len(handles')]
           /\ ch' \in Seq(ChanType) /\ Len(ch') = Len(handles')
           /\ \A u \in Token \ {t} : pending'[u] = pending[u]
           /\ pending'[t] # 0
           /\ pending[t] # 0 => pending'[t] = pending[t]
           /\ pending[t] = 0 =>
                /\ pending'[t] = Len(handles) + 1
                /\ handles'[Len(handles) + 1].token = t
<1> DEFINE h == [token |-> t, made |-> now, deadline |-> now + Timeout]
<1>1. /\ handles \in Seq(HandleType) /\ ch \in Seq(ChanType)
      /\ Len(ch) = Len(handles) /\ Len(handles) \in Nat
      /\ pending \in [Token -> 0 .. Len(handles)]
  BY DEF FlowTypes, HandleType, ChanType
<1>2. CASE pending[t] # 0
  BY <1>1, <1>2 DEF Register, Kept
<1>3. CASE pending[t] = 0
  <2>1. h \in HandleType /\ h.token = t
    BY DeferAssumption DEF EnvTypes, HandleType
  <2>2. /\ handles' = Append(handles, h) /\ ch' = Append(ch, None)
        /\ pending' = [pending EXCEPT ![t] = Len(handles) + 1]
    BY <1>3 DEF Register
  <2>3. None \in ChanType
    BY DEF ChanType
  <2> HIDE DEF h
  <2>4. /\ handles' \in Seq(HandleType) /\ Len(handles') = Len(handles) + 1
        /\ \A i \in 1 .. Len(handles) : handles'[i] = handles[i]
        /\ handles'[Len(handles) + 1] = h
    BY <1>1, <2>1, <2>2, AppendProperties
  <2>5. ch' \in Seq(ChanType) /\ Len(ch') = Len(ch) + 1
    BY <1>1, <2>2, <2>3, AppendProperties
  <2> QED
    BY <1>1, <1>3, <2>1, <2>2, <2>4, <2>5 DEF Kept
<1> QED
  BY <1>2, <1>3

(* Winning a token takes it out of the pending map.                        *)
LEMMA WinEffect ==
    ASSUME EnvTypes, FlowTypes, NEW t \in Token, NEW d \in Decisions, Win(t, d),
           UNCHANGED <<handles, rules>>
    PROVE  /\ pending[t] \in Handles
           /\ pending' = [pending EXCEPT ![t] = 0]
           /\ pending' \in [Token -> 0 .. Len(handles)]
           /\ resolved' = [resolved EXCEPT ![t] = d]
           /\ resolved' \in [Token -> Decisions \cup {None}]
           /\ won' = won \cup {[h |-> pending[t], status |-> d, version |-> Len(rules)]}
           /\ won' \subseteq [h : Handles, status : Decisions, version : 1 .. Len(rules)]
           /\ sends' \subseteq [h : Handles, status : Decisions]
<1>1. /\ Len(handles) \in Nat /\ Len(rules) \in 1 .. Len(rules)
      /\ pending[t] \in 0 .. Len(handles)
  <2>1. rules \in Seq(Effects) /\ rules # <<>>
    BY DEF EnvTypes
  <2>2. Len(rules) \in Nat /\ Len(rules) # 0
    BY <2>1, EmptySeq
  <2> QED BY <2>2 DEF FlowTypes
<1>2. pending[t] \in Handles
  BY <1>1 DEF Win, Handles
<1>3. /\ [h |-> pending[t], status |-> d] \in [h : Handles, status : Decisions]
      /\ [h |-> pending[t], status |-> d, version |-> Len(rules)] \in
            [h : Handles, status : Decisions, version : 1 .. Len(rules)]
  BY <1>1, <1>2
<1>4. pending' \in [Token -> 0 .. Len(handles)] /\ resolved' \in [Token -> Decisions \cup {None}]
  BY <1>1 DEF Win, FlowTypes
<1>5. /\ won' \subseteq [h : Handles, status : Decisions, version : 1 .. Len(rules)]
      /\ sends' \subseteq [h : Handles, status : Decisions]
  BY <1>3 DEF Win, FlowTypes
<1> QED
  BY <1>2, <1>4, <1>5 DEF Win

(* What an evaluation that has its artifacts may do.                       *)
LEMMA EvaluateEffect ==
    ASSUME TypeOK, RequestInv, NEW r \in Requesters, Evaluate(r) \/ EvaluateAgain(r)
    PROVE  /\ call[r] \in Calls
           /\ rules[seen[r]] \in Effects
           /\ \/ UNCHANGED <<handles, pending, ch, mine>>
              \/ \E t \in Token : Register(t) /\ mine' = [mine EXCEPT ![r] = pending'[t]]
<1>1. call[r] \in Calls /\ seen[r] # 0
  BY DEF RequestInv, StepInv, Evaluate, EvaluateAgain
<1>2. rules[seen[r]] \in Effects
  <2>1. rules \in Seq(Effects) /\ seen[r] \in 1 .. Len(rules)
    BY <1>1 DEF TypeOK, EnvTypes, ReqTypes
  <2> HIDE DEF Effects
  <2> QED BY <2>1, ElementOfSeq
<1>3. First(call[r]) \in Token /\ Resumed(call[r]) \in Token
  BY <1>1, TokenType
<1>4. CASE Evaluate(r)
  BY <1>1, <1>2, <1>3, <1>4 DEF Evaluate
<1>5. CASE EvaluateAgain(r)
  BY <1>1, <1>2, <1>3, <1>5 DEF EvaluateAgain
<1> QED
  BY <1>1, <1>2, <1>4, <1>5

-------------------------------------------------------------------------------
(* Types *)

LEMMA TypeInit == Init => TypeOK
<1> SUFFICES ASSUME Init PROVE TypeOK
  OBVIOUS
<1> USE DeferAssumption DEF Init
<1>1. EnvTypes
  BY DEF EnvTypes, Effects
<1>2. FlowTypes
  BY DEF FlowTypes
<1>3. ReqTypes
  BY DEF ReqTypes, Steps, Answers
<1> QED
  BY <1>1, <1>2, <1>3 DEF TypeOK

(* The clock, the policy and the restarts; policy versions only add up.    *)
LEMMA EnvTypesStep ==
    ASSUME EnvTypes, Next
    PROVE  EnvTypes' /\ Kept(rules, rules')
<1>0. /\ rules \in Seq(Effects) /\ rules # <<>> /\ Len(rules) \in Nat
      /\ now \in Nat /\ restarts \in Nat
  BY DEF EnvTypes
<1>1. CASE UNCHANGED envVars
  BY <1>0, <1>1 DEF envVars, EnvTypes, Kept
<1>2. CASE Tick
  BY <1>0, <1>2 DEF Tick, EnvTypes, Kept
<1>3. CASE ChangeRule
  <2>1. PICK e \in Effects : rules' = Append(rules, e)
    BY <1>3 DEF ChangeRule
  <2>2. /\ rules' \in Seq(Effects) /\ Len(rules') = Len(rules) + 1
        /\ \A i \in 1 .. Len(rules) : rules'[i] = rules[i]
    <3> HIDE DEF Effects
    <3> QED BY <1>0, <2>1, AppendProperties
  <2>3. rules' # <<>>
    BY <1>0, <2>2
  <2> QED
    BY <1>0, <1>3, <2>2, <2>3 DEF ChangeRule, EnvTypes, Kept
<1>4. CASE Restart
  BY <1>0, <1>4 DEF Restart, EnvTypes, Kept
<1>5. ASSUME NEW r \in Requesters, NEW k \in Calls, Govern(r, k)
      PROVE  UNCHANGED envVars
  BY <1>5 DEF Govern
<1>6. ASSUME NEW r \in Requesters, Request(r) \/ GiveUp(r)
      PROVE  UNCHANGED envVars
  BY <1>6 DEF Request, GiveUp, Evaluate, EvaluateAgain, StartTimer, Poll, Reevaluate
<1>7. ASSUME NEW t \in Token, NEW d \in Decisions, Resolve(t, d)
      PROVE  UNCHANGED envVars
  BY <1>7 DEF Resolve
<1>8. ASSUME NEW h \in timers, Expire(h)
      PROVE  UNCHANGED envVars
  BY <1>8 DEF Expire
<1>9. ASSUME NEW x \in sends, Send(x)
      PROVE  UNCHANGED envVars
  BY <1>9 DEF Send
<1> QED
  BY <1>1, <1>2, <1>3, <1>4, <1>5, <1>6, <1>7, <1>8, <1>9 DEF Next

(* The workflow's maps, timers and channels; handles only add up.          *)
LEMMA FlowTypesStep ==
    ASSUME TypeOK, RequestInv, Next
    PROVE  FlowTypes' /\ Kept(handles, handles') /\ won \subseteq won'
<1>0. /\ EnvTypes /\ FlowTypes /\ Kept(rules, rules')
      /\ Len(handles) \in Nat /\ Len(rules) \in Nat /\ Len(rules') \in Nat
  BY EnvTypesStep DEF TypeOK, EnvTypes, FlowTypes
<1>1. CASE UNCHANGED flowVars
  <2>1. 1 .. Len(rules) \subseteq 1 .. Len(rules')
    BY <1>0 DEF Kept
  <2>2. won \subseteq [h : Handles, status : Decisions, version : 1 .. Len(rules')]
    BY <1>0, <2>1 DEF FlowTypes
  <2> QED
    BY <1>0, <1>1, <2>2 DEF flowVars, FlowTypes, Handles, Kept
<1>2. ASSUME NEW r \in Requesters, Evaluate(r) \/ EvaluateAgain(r)
      PROVE  FlowTypes' /\ Kept(handles, handles') /\ won \subseteq won'
  <2>1. UNCHANGED <<envVars, resolved, timers, sends, won>>
    BY <1>2 DEF Evaluate, EvaluateAgain
  <2>2. CASE UNCHANGED <<handles, pending, ch, mine>>
    BY <1>1, <2>1, <2>2 DEF flowVars
  <2>3. ASSUME NEW t \in Token, Register(t)
        PROVE  FlowTypes' /\ Kept(handles, handles') /\ won \subseteq won'
    <3>1. /\ handles' \in Seq(HandleType) /\ Kept(handles, handles')
          /\ pending' \in [Token -> 0 .. Len(handles')]
          /\ ch' \in Seq(ChanType) /\ Len(ch') = Len(handles')
      BY <1>0, <2>3, RegisterEffect
    <3>2. Len(handles) <= Len(handles') /\ Len(handles') \in Nat
      BY <3>1 DEF Kept
    <3>3. Handles \subseteq Handles'
      BY <1>0, <3>2 DEF Handles
    <3>4. /\ won' \subseteq [h : Handles', status : Decisions, version : 1 .. Len(rules')]
          /\ sends' \subseteq [h : Handles', status : Decisions]
          /\ timers' \subseteq Handles' /\ won \subseteq won'
          /\ resolved' \in [Token -> Decisions \cup {None}]
      BY <1>0, <2>1, <3>3 DEF FlowTypes, envVars
    <3> QED
      BY <3>1, <3>4 DEF FlowTypes, HandleType, ChanType
  <2> QED
    BY <1>2, <2>2, <2>3, EvaluateEffect
<1>3. ASSUME NEW r \in Requesters, StartTimer(r)
      PROVE  FlowTypes' /\ Kept(handles, handles') /\ won \subseteq won'
  <2>1. mine[r] \in Handles
    <3>1. mine[r] \in 0 .. Len(handles)
      BY DEF TypeOK, ReqTypes
    <3>2. mine[r] # 0
      BY <1>3 DEF StartTimer, RequestInv, StepInv
    <3> QED BY <1>0, <3>1, <3>2 DEF Handles
  <2>2. timers' \subseteq Handles
    BY <1>0, <1>3, <2>1 DEF StartTimer, FlowTypes
  <2>3. UNCHANGED <<envVars, handles, pending, resolved, sends, ch, won>>
    BY <1>3 DEF StartTimer
  <2> QED
    BY <1>0, <2>2, <2>3 DEF FlowTypes, Handles, Kept, envVars
<1>4. ASSUME NEW t \in Token, NEW d \in Decisions, Win(t, d),
             UNCHANGED <<handles, rules, ch>>, timers' \subseteq timers
      PROVE  FlowTypes' /\ Kept(handles, handles') /\ won \subseteq won'
  <2>1. /\ pending' \in [Token -> 0 .. Len(handles)]
        /\ resolved' \in [Token -> Decisions \cup {None}]
        /\ won' \subseteq [h : Handles, status : Decisions, version : 1 .. Len(rules)]
        /\ sends' \subseteq [h : Handles, status : Decisions]
    BY <1>0, <1>4, WinEffect
  <2>2. won \subseteq won'
    BY <1>4 DEF Win
  <2>3. Handles' = Handles /\ Kept(handles, handles')
    BY <1>0, <1>4 DEF Handles, Kept
  <2>4. FlowTypes'
    BY <1>0, <1>4, <2>1, <2>3 DEF FlowTypes
  <2> QED
    BY <2>2, <2>3, <2>4
<1>5. ASSUME NEW t \in Token, NEW d \in Decisions, Resolve(t, d)
      PROVE  FlowTypes' /\ Kept(handles, handles') /\ won \subseteq won'
  BY <1>4, <1>5 DEF Resolve, envVars
<1>6. ASSUME NEW h \in timers, Expire(h)
      PROVE  FlowTypes' /\ Kept(handles, handles') /\ won \subseteq won'
  <2>1. handles[h].token \in Token
    <3>1. handles \in Seq(HandleType) /\ h \in 1 .. Len(handles)
      BY <1>0 DEF FlowTypes, HandleType, Handles
    <3>2. handles[h] \in HandleType
      BY <3>1, ElementOfSeq
    <3> QED BY <3>2 DEF HandleType
  <2>2. CASE Win(handles[h].token, "expired")
    BY <1>4, <1>6, <2>1, <2>2 DEF Expire, envVars, Decisions
  <2>3. CASE UNCHANGED <<pending, resolved, sends, won>>
    BY <1>0, <1>6, <2>3 DEF Expire, FlowTypes, Handles, Kept, envVars
  <2> QED
    BY <1>6, <2>2, <2>3 DEF Expire
<1>7. ASSUME NEW x \in sends, Send(x)
      PROVE  FlowTypes' /\ Kept(handles, handles') /\ won \subseteq won'
  <2>1. /\ ch \in Seq(ChanType) /\ x.h \in 1 .. Len(ch) /\ x.status \in ChanType
    BY <1>0 DEF FlowTypes, ChanType, Handles
  <2>2. [ch EXCEPT ![x.h] = x.status] \in Seq(ChanType)
        /\ Len([ch EXCEPT ![x.h] = x.status]) = Len(ch)
    BY <2>1, ExceptSeq
  <2>3. ch' \in Seq(ChanType) /\ Len(ch') = Len(ch)
    BY <1>7, <2>1, <2>2 DEF Send
  <2> QED
    BY <1>0, <1>7, <2>3 DEF Send, FlowTypes, Handles, Kept, envVars, ChanType
<1>8. CASE Restart
  BY <1>0, <1>8 DEF Restart, FlowTypes, Handles, Kept
<1>9. ASSUME NEW r \in Requesters, \/ \E k \in Calls : Govern(r, k)
                                  \/ Poll(r) \/ Reevaluate(r) \/ GiveUp(r)
      PROVE  UNCHANGED flowVars
  BY <1>9 DEF Govern, Poll, Reevaluate, GiveUp
<1>10. Tick \/ ChangeRule => UNCHANGED flowVars
  BY DEF Tick, ChangeRule
<1> QED
  BY <1>1, <1>2, <1>3, <1>5, <1>6, <1>7, <1>8, <1>9, <1>10 DEF Next, Request

LEMMA ReqTypesStep ==
    ASSUME TypeOK, RequestInv, Next
    PROVE  ReqTypes'
<1>0. /\ ReqTypes /\ Len(handles) \in Nat /\ Len(handles') \in Nat
      /\ Len(rules) \in Nat /\ Len(rules') \in Nat /\ Len(rules) # 0
      /\ Len(handles) <= Len(handles') /\ Len(rules) <= Len(rules')
  <2>1. /\ EnvTypes /\ EnvTypes' /\ FlowTypes /\ FlowTypes'
        /\ Kept(handles, handles') /\ Kept(rules, rules')
    BY EnvTypesStep, FlowTypesStep DEF TypeOK
  <2>2. Len(rules) # 0
    BY <2>1, EmptySeq DEF EnvTypes
  <2> QED
    BY <2>1, <2>2 DEF TypeOK, EnvTypes, FlowTypes, Kept
<1>1. ASSUME mine' = mine, seen' = seen
      PROVE  /\ mine' \in [Requesters -> 0 .. Len(handles')]
             /\ seen' \in [Requesters -> 0 .. Len(rules')]
  BY <1>0, <1>1 DEF ReqTypes
<1>2. CASE UNCHANGED reqVars
  BY <1>0, <1>1, <1>2 DEF reqVars, ReqTypes
<1>3. ASSUME NEW r \in Requesters, NEW t \in Token, NEW step \in Steps, Enter(r, t, step)
      PROVE  /\ pc' \in [Requesters -> Steps] /\ answer' \in [Requesters -> Answers]
             /\ seen' \in [Requesters -> 0 .. Len(rules')]
  <2>1. /\ pc' \in [Requesters -> Steps] /\ answer' \in [Requesters -> Answers]
    BY <1>0, <1>3 DEF Enter, Finish, ReqTypes, Steps, Answers, Effects
  <2>2. seen' = seen \/ seen' = [seen EXCEPT ![r] = Len(rules)]
    BY <1>3 DEF Enter
  <2> QED
    BY <1>0, <2>1, <2>2 DEF ReqTypes
<1>4. ASSUME NEW r \in Requesters, NEW k \in Calls, Govern(r, k)
      PROVE  ReqTypes'
  <2>1. First(k) \in Token /\ "evaluating" \in Steps
    BY TokenType DEF Steps
  <2>2. Enter(r, First(k), "evaluating") /\ mine' = mine
        /\ asked' = asked \cup {k} /\ call' = [call EXCEPT ![r] = k]
    BY <1>4 DEF Govern
  <2>3. /\ pc' \in [Requesters -> Steps] /\ answer' \in [Requesters -> Answers]
        /\ seen' \in [Requesters -> 0 .. Len(rules')]
    BY <1>3, <2>1, <2>2
  <2>4. asked' \subseteq Calls /\ call' \in [Requesters -> Calls \cup {None}]
    BY <1>0, <2>2 DEF ReqTypes
  <2>5. mine' \in [Requesters -> 0 .. Len(handles')]
    BY <1>0, <2>2 DEF ReqTypes
  <2> QED
    BY <2>3, <2>4, <2>5 DEF ReqTypes
<1>5. ASSUME NEW r \in Requesters, Reevaluate(r)
      PROVE  ReqTypes'
  <2>1. call[r] \in Calls
    BY <1>5 DEF Reevaluate, RequestInv, StepInv
  <2>2. Resumed(call[r]) \in Token /\ "reevaluating" \in Steps
    BY <2>1, TokenType DEF Steps
  <2>3. Enter(r, Resumed(call[r]), "reevaluating") /\ UNCHANGED <<mine, asked, call>>
    BY <1>5 DEF Reevaluate, flowVars
  <2>4. /\ pc' \in [Requesters -> Steps] /\ answer' \in [Requesters -> Answers]
        /\ seen' \in [Requesters -> 0 .. Len(rules')]
    BY <1>3, <2>2, <2>3
  <2> QED
    BY <1>0, <2>3, <2>4 DEF ReqTypes
<1>6. ASSUME NEW r \in Requesters, Evaluate(r) \/ EvaluateAgain(r)
      PROVE  ReqTypes'
  <2>1. rules[seen[r]] \in Effects
    BY <1>6, EvaluateEffect
  <2>2. /\ pc' \in [Requesters -> Steps] /\ answer' \in [Requesters -> Answers]
    BY <1>0, <1>6, <2>1 DEF Evaluate, EvaluateAgain, Finish, ReqTypes, Steps, Answers, Effects
  <2>3. UNCHANGED <<asked, call, seen>>
    BY <1>6 DEF Evaluate, EvaluateAgain
  <2>4. mine' \in [Requesters -> 0 .. Len(handles')]
    <3>1. CASE mine' = mine
      BY <1>0, <3>1 DEF ReqTypes
    <3>2. ASSUME NEW t \in Token, Register(t), mine' = [mine EXCEPT ![r] = pending'[t]]
          PROVE  mine' \in [Requesters -> 0 .. Len(handles')]
      <4>1. pending'[t] \in 0 .. Len(handles')
        BY <3>2, RegisterEffect DEF TypeOK
      <4> QED BY <1>0, <3>2, <4>1 DEF ReqTypes
    <3> QED BY <1>6, <3>1, <3>2, EvaluateEffect
  <2> QED
    BY <1>0, <2>2, <2>3, <2>4 DEF ReqTypes
<1>7. ASSUME NEW r \in Requesters, StartTimer(r) \/ Poll(r) \/ GiveUp(r)
      PROVE  ReqTypes'
  <2>1. UNCHANGED <<asked, call, mine, seen>>
    BY <1>7 DEF StartTimer, Poll, GiveUp
  <2>2. pc' \in [Requesters -> Steps] /\ answer' \in [Requesters -> Answers]
    BY <1>0, <1>7 DEF StartTimer, Poll, GiveUp, Finish, ReqTypes, Steps, Answers, Effects
  <2> QED
    BY <1>0, <1>1, <2>1, <2>2 DEF ReqTypes
<1>8. CASE Restart
  <2>1. UNCHANGED <<asked, call, mine, seen>>
    BY <1>8 DEF Restart
  <2>2. pc' \in [Requesters -> Steps] /\ answer' \in [Requesters -> Answers]
    BY <1>0, <1>8 DEF Restart, ReqTypes, Steps, Answers, Effects
  <2> QED
    BY <1>0, <1>1, <2>1, <2>2 DEF ReqTypes
<1>9. \/ Tick \/ ChangeRule
      \/ \E t \in Token, d \in Decisions : Resolve(t, d)
      \/ \E h \in timers : Expire(h)
      \/ \E x \in sends : Send(x)
      => UNCHANGED reqVars
  BY DEF Tick, ChangeRule, Resolve, Expire, Send
<1> QED
  BY <1>2, <1>4, <1>5, <1>6, <1>7, <1>8, <1>9 DEF Next, Request

-------------------------------------------------------------------------------
(* Winners *)

(* What a step does to a token while the daemon lives: nothing, register   *)
(* it, or decide the handle it was pending for.                            *)
TokenStep(t) ==
    \/ pending'[t] = pending[t] /\ resolved'[t] = resolved[t]
    \/ /\ pending[t] = 0 /\ pending'[t] = Len(handles) + 1
       /\ resolved'[t] = resolved[t]
    \/ /\ pending[t] \in Handles /\ pending'[t] = 0
       /\ [h |-> pending[t], status |-> resolved'[t], version |-> Len(rules)] \in won'

LEMMA TokenSteps ==
    ASSUME TypeOK, RequestInv, Next, ~Restart, NEW t \in Token
    PROVE  TokenStep(t)
<1>0. /\ EnvTypes /\ FlowTypes
      /\ pending \in [Token -> 0 .. Len(handles)]
      /\ resolved \in [Token -> Decisions \cup {None}]
  BY DEF TypeOK, FlowTypes
<1>1. ASSUME NEW r \in Requesters, Evaluate(r) \/ EvaluateAgain(r)
      PROVE  TokenStep(t)
  <2>1. resolved' = resolved
    BY <1>1 DEF Evaluate, EvaluateAgain
  <2>2. ASSUME NEW u \in Token, Register(u)
        PROVE  TokenStep(t)
    <3>1. /\ \A v \in Token \ {u} : pending'[v] = pending[v]
          /\ pending[u] # 0 => pending'[u] = pending[u]
          /\ pending[u] = 0 => pending'[u] = Len(handles) + 1
      BY <1>0, <2>2, RegisterEffect
    <3> QED BY <2>1, <3>1 DEF TokenStep
  <2> QED
    BY <1>1, <2>1, <2>2, EvaluateEffect DEF TokenStep
<1>2. ASSUME NEW u \in Token, NEW d \in Decisions, Win(u, d), UNCHANGED <<handles, rules>>
      PROVE  TokenStep(t)
  <2>1. /\ pending[u] \in Handles
        /\ pending' = [pending EXCEPT ![u] = 0] /\ resolved' = [resolved EXCEPT ![u] = d]
        /\ won' = won \cup {[h |-> pending[u], status |-> d, version |-> Len(rules)]}
    BY <1>0, <1>2, WinEffect
  <2> QED
    BY <1>0, <2>1 DEF TokenStep
<1>3. ASSUME NEW u \in Token, NEW d \in Decisions, Resolve(u, d)
      PROVE  TokenStep(t)
  BY <1>2, <1>3 DEF Resolve, envVars
<1>4. ASSUME NEW h \in timers, Expire(h)
      PROVE  TokenStep(t)
  <2>1. handles[h].token \in Token
    <3>1. handles \in Seq(HandleType) /\ h \in 1 .. Len(handles)
      BY <1>0 DEF FlowTypes, HandleType, Handles
    <3>2. handles[h] \in HandleType
      BY <3>1, ElementOfSeq
    <3> QED BY <3>2 DEF HandleType
  <2>2. CASE Win(handles[h].token, "expired")
    BY <1>2, <1>4, <2>1, <2>2 DEF Expire, envVars, Decisions
  <2>3. CASE UNCHANGED <<pending, resolved, sends, won>>
    BY <2>3 DEF TokenStep
  <2> QED
    BY <1>4, <2>2, <2>3 DEF Expire
<1>5. ASSUME UNCHANGED <<pending, resolved>> PROVE TokenStep(t)
  BY <1>5 DEF TokenStep
<1>6. ASSUME NEW r \in Requesters, \/ \E k \in Calls : Govern(r, k)
                                  \/ StartTimer(r) \/ Poll(r)
                                  \/ Reevaluate(r) \/ GiveUp(r)
      PROVE  UNCHANGED <<pending, resolved>>
  BY <1>6 DEF Govern, StartTimer, Poll, Reevaluate, GiveUp, flowVars
<1>7. ASSUME NEW x \in sends, Send(x) PROVE UNCHANGED <<pending, resolved>>
  BY <1>7 DEF Send
<1>8. Tick \/ ChangeRule => UNCHANGED <<pending, resolved>>
  BY DEF Tick, ChangeRule, flowVars
<1> QED
  BY <1>1, <1>3, <1>4, <1>5, <1>6, <1>7, <1>8 DEF Next, Request

(* A handle is decided once: what is pending was not decided yet.          *)
LEMMA OneWinnerStep ==
    ASSUME TypeOK, RequestInv, OneWinner, Next
    PROVE  OneWinner'
<1>0. /\ EnvTypes /\ FlowTypes
      /\ Len(handles) \in Nat
      /\ pending \in [Token -> 0 .. Len(handles)]
      /\ \A x \in won : x.h \in Handles
      /\ Kept(handles, handles')
  BY FlowTypesStep DEF TypeOK, FlowTypes
<1>1. ASSUME UNCHANGED <<pending, won>>
      PROVE  OneWinner'
  <2>1. \A t \in Token : pending[t] # 0 => handles'[pending[t]] = handles[pending[t]]
    BY <1>0 DEF Kept
  <2> QED
    BY <1>1, <2>1 DEF OneWinner
<1>2. ASSUME NEW r \in Requesters, Evaluate(r) \/ EvaluateAgain(r)
      PROVE  OneWinner'
  <2>1. won' = won
    BY <1>2 DEF Evaluate, EvaluateAgain
  <2>2. ASSUME NEW u \in Token, Register(u)
        PROVE  OneWinner'
    <3>1. /\ \A v \in Token \ {u} : pending'[v] = pending[v]
          /\ pending[u] # 0 => pending'[u] = pending[u]
          /\ pending[u] = 0 =>
               pending'[u] = Len(handles) + 1 /\ handles'[Len(handles) + 1].token = u
      BY <1>0, <2>2, RegisterEffect
    <3>2. ASSUME NEW t \in Token, pending'[t] # 0
          PROVE  handles'[pending'[t]].token = t /\ \A x \in won' : x.h # pending'[t]
      <4>1. CASE pending'[t] = pending[t]
        BY <1>0, <2>1, <3>2, <4>1 DEF OneWinner, Kept
      <4>2. CASE pending'[t] # pending[t]
        <5>1. t = u /\ pending[u] = 0
          BY <3>1, <4>2
        <5>2. \A x \in won : x.h # Len(handles) + 1
          BY <1>0 DEF Handles
        <5> QED BY <2>1, <3>1, <5>1, <5>2
      <4> QED BY <4>1, <4>2
    <3> QED BY <2>1, <3>2 DEF OneWinner
  <2> QED
    BY <1>1, <1>2, <2>1, <2>2, EvaluateEffect
<1>3. ASSUME NEW u \in Token, NEW d \in Decisions, Win(u, d), UNCHANGED <<handles, rules>>
      PROVE  OneWinner'
  <2> DEFINE y == [h |-> pending[u], status |-> d, version |-> Len(rules)]
  <2>1. /\ pending[u] # 0 /\ y.h = pending[u]
        /\ pending' = [pending EXCEPT ![u] = 0] /\ won' = won \cup {y}
    BY <1>0, <1>3 DEF Win
  <2> HIDE DEF y
  <2>2. \A x \in won : x.h # y.h
    BY <2>1 DEF OneWinner
  <2>3. ASSUME NEW t \in Token, pending'[t] # 0
        PROVE  /\ handles'[pending'[t]].token = t
               /\ \A x \in won' : x.h # pending'[t]
    <3>1. t # u /\ pending'[t] = pending[t]
      BY <1>0, <2>1, <2>3
    <3>2. pending[t] # pending[u]
      BY <2>1, <2>3, <3>1 DEF OneWinner
    <3> QED
      BY <1>3, <2>1, <2>3, <3>1, <3>2 DEF OneWinner
  <2>4. \A x, z \in won' : x.h = z.h => x = z
    BY <2>1, <2>2 DEF OneWinner
  <2> QED
    BY <2>3, <2>4 DEF OneWinner
<1>4. ASSUME NEW u \in Token, NEW d \in Decisions, Resolve(u, d)
      PROVE  OneWinner'
  BY <1>3, <1>4 DEF Resolve, envVars
<1>5. ASSUME NEW h \in timers, Expire(h)
      PROVE  OneWinner'
  <2>1. handles[h].token \in Token
    <3>1. handles \in Seq(HandleType) /\ h \in 1 .. Len(handles)
      BY <1>0 DEF FlowTypes, HandleType, Handles
    <3>2. handles[h] \in HandleType
      BY <3>1, ElementOfSeq
    <3> QED BY <3>2 DEF HandleType
  <2>2. CASE Win(handles[h].token, "expired")
    BY <1>3, <1>5, <2>1, <2>2 DEF Expire, envVars, Decisions
  <2>3. CASE UNCHANGED <<pending, resolved, sends, won>>
    BY <1>1, <2>3
  <2> QED
    BY <1>5, <2>2, <2>3 DEF Expire
<1>6. CASE Restart
  BY <1>6 DEF Restart, OneWinner
<1>7. ASSUME NEW r \in Requesters, \/ \E k \in Calls : Govern(r, k)
                                  \/ StartTimer(r) \/ Poll(r)
                                  \/ Reevaluate(r) \/ GiveUp(r)
      PROVE  UNCHANGED <<pending, won>>
  BY <1>7 DEF Govern, StartTimer, Poll, Reevaluate, GiveUp, flowVars
<1>8. ASSUME NEW x \in sends, Send(x) PROVE UNCHANGED <<pending, won>>
  BY <1>8 DEF Send
<1>9. Tick \/ ChangeRule => UNCHANGED <<pending, won>>
  BY DEF Tick, ChangeRule, flowVars
<1> QED
  BY <1>1, <1>2, <1>4, <1>5, <1>6, <1>7, <1>8, <1>9 DEF Next, Request

-------------------------------------------------------------------------------
(* Requesters *)

(* An approval is not forgotten. *)
LEMMA ApprovedStays ==
    ASSUME TypeOK, won \subseteq won', Kept(handles, handles'),
           NEW r \in Requesters, mine'[r] = mine[r], call'[r] = call[r],
           NEW v \in Nat, NEW w \in Nat, v <= w, ApprovedBy(r, v)
    PROVE  \E x \in won' :
             /\ x.status = "approved" /\ x.h >= mine'[r]
             /\ handles'[x.h].token = First(call'[r])
             /\ x.version <= w
<1>1. PICK x \in won :
          /\ x.status = "approved" /\ x.h >= mine[r]
          /\ handles[x.h].token = First(call[r])
          /\ x.version <= v
  BY DEF ApprovedBy
<1>2. x.h \in 1 .. Len(handles) /\ x.version \in Nat
  <2>1. x \in [h : Handles, status : Decisions, version : 1 .. Len(rules)]
    BY DEF TypeOK, FlowTypes
  <2> QED BY <2>1 DEF Handles
<1>3. First(call'[r]) = First(call[r])
  BY DEF First
<1>4. /\ x \in won' /\ handles'[x.h] = handles[x.h] /\ x.version <= w
  BY <1>1, <1>2 DEF Kept
<1> QED
  BY <1>1, <1>3, <1>4

(* Whatever others do while r waits for its token.                         *)
LEMMA WaitStays ==
    ASSUME TypeOK, RequestInv, OneWinner, Next, ~Restart,
           NEW r \in Requesters, call[r] \in Calls,
           mine'[r] = mine[r], call'[r] = call[r], WaitInv(r)
    PROVE  WaitInv(r)'
<1> DEFINE t == First(call[r])
<1>0. /\ t \in Token /\ First(call'[r]) = t
      /\ mine[r] \in 0 .. Len(handles) /\ Len(handles) \in Nat
      /\ Len(rules) \in Nat /\ Len(rules') \in Nat /\ Len(rules) <= Len(rules')
      /\ Kept(handles, handles') /\ won \subseteq won'
      /\ pending[t] \in 0 .. Len(handles)
  <2>1. t \in Token /\ First(call'[r]) = t
    BY TokenType DEF First
  <2>2. /\ mine[r] \in 0 .. Len(handles) /\ pending[t] \in 0 .. Len(handles)
        /\ Len(handles) \in Nat /\ Len(rules) \in Nat
    BY <2>1 DEF TypeOK, EnvTypes, FlowTypes, ReqTypes
  <2>3. Len(rules') \in Nat /\ Len(rules) <= Len(rules')
    BY EnvTypesStep DEF TypeOK, EnvTypes, Kept
  <2>4. Kept(handles, handles') /\ won \subseteq won'
    BY FlowTypesStep
  <2> QED
    BY <2>1, <2>2, <2>3, <2>4
<1>1. TokenStep(t)
  BY <1>0, TokenSteps
<1>2. WaitInv(r)' <=>
        /\ pending'[t] # 0 => mine'[r] <= pending'[t]
        /\ pending'[t] = 0 /\ resolved'[t] = "approved" => ApprovedBy(r, Len(rules))'
  BY <1>0 DEF WaitInv
<1>3. ApprovedBy(r, Len(rules)) => ApprovedBy(r, Len(rules))'
  BY <1>0, ApprovedStays DEF ApprovedBy
<1>4. /\ pending[t] # 0 => mine[r] <= pending[t]
      /\ pending[t] = 0 /\ resolved[t] = "approved" => ApprovedBy(r, Len(rules))
  BY DEF WaitInv
<1> HIDE DEF t
<1>5. CASE pending'[t] = pending[t] /\ resolved'[t] = resolved[t]
  BY <1>2, <1>3, <1>4, <1>5
<1>6. CASE pending'[t] = Len(handles) + 1
  BY <1>0, <1>2, <1>6
<1>7. CASE /\ pending[t] \in Handles /\ pending'[t] = 0
           /\ [h |-> pending[t], status |-> resolved'[t], version |-> Len(rules)] \in won'
  <2>1. /\ pending[t] # 0 /\ mine[r] <= pending[t]
        /\ handles[pending[t]].token = t
        /\ pending[t] \in 1 .. Len(handles)
    BY <1>0, <1>4, <1>7 DEF OneWinner, Handles
  <2>2. handles'[pending[t]].token = t
    BY <1>0, <2>1 DEF Kept
  <2>3. resolved'[t] = "approved" => ApprovedBy(r, Len(rules))'
    <3> SUFFICES ASSUME resolved'[t] = "approved"
                 PROVE  ApprovedBy(r, Len(rules))'
      OBVIOUS
    <3> DEFINE x == [h |-> pending[t], status |-> "approved", version |-> Len(rules)]
    <3>1. x \in won'
      BY <1>7
    <3>2. x.status = "approved" /\ x.h >= mine'[r] /\ x.version <= Len(rules')
      BY <1>0, <2>1
    <3>3. handles'[x.h].token = First(call'[r])
      BY <1>0, <2>2
    <3> HIDE DEF x
    <3> QED BY <3>1, <3>2, <3>3 DEF ApprovedBy
  <2> QED
    BY <1>2, <1>7, <2>3
<1> QED
  BY <1>1, <1>5, <1>6, <1>7 DEF TokenStep

LEMMA StepInvKept ==
    ASSUME TypeOK, RequestInv, OneWinner, Next, ~Restart, NEW r \in Requesters,
           pc'[r] = pc[r], call'[r] = call[r], mine'[r] = mine[r],
           seen'[r] = seen[r], answer'[r] = answer[r]
    PROVE  StepInv(r)'
<1>0. /\ StepInv(r) /\ Len(rules) \in Nat /\ Len(rules') \in Nat
      /\ Len(rules) <= Len(rules') /\ seen[r] \in Nat
      /\ Kept(handles, handles') /\ won \subseteq won'
  BY EnvTypesStep, FlowTypesStep DEF TypeOK, EnvTypes, ReqTypes, RequestInv, Kept
<1>1. ApprovedBy(r, Len(rules)) => ApprovedBy(r, Len(rules))'
  BY <1>0, ApprovedStays DEF ApprovedBy
<1>2. ApprovedBy(r, seen[r]) => ApprovedBy(r, seen[r])'
  BY <1>0, ApprovedStays DEF ApprovedBy
<1>3. pc[r] \in {"registered", "waiting"} => WaitInv(r)'
  BY <1>0, WaitStays DEF StepInv
<1> QED
  BY <1>0, <1>1, <1>2, <1>3 DEF StepInv

LEMMA RequestInvStep ==
    ASSUME TypeOK, RequestInv, OneWinner, Next
    PROVE  RequestInv'
<1> SUFFICES ASSUME NEW r \in Requesters PROVE StepInv(r)'
  BY DEF RequestInv
<1>0. /\ StepInv(r) /\ ReqTypes /\ Len(rules) \in Nat /\ Len(rules') \in Nat
      /\ Len(rules) # 0 /\ Len(rules) <= Len(rules') /\ seen[r] \in Nat
      /\ Len(handles) \in Nat
      /\ Kept(handles, handles') /\ won \subseteq won'
  <2>1. Len(rules) # 0
    BY EmptySeq DEF TypeOK, EnvTypes
  <2>2. EnvTypes /\ EnvTypes' /\ FlowTypes /\ ReqTypes
    BY EnvTypesStep DEF TypeOK
  <2>3. Kept(handles, handles') /\ won \subseteq won' /\ Len(rules) <= Len(rules')
    BY <2>2, EnvTypesStep, FlowTypesStep DEF Kept
  <2>4. Len(rules) \in Nat /\ Len(rules') \in Nat /\ Len(handles) \in Nat
    BY <2>2 DEF EnvTypes, FlowTypes
  <2>5. StepInv(r) /\ seen[r] \in Nat
    BY <2>2, <2>4 DEF ReqTypes, RequestInv
  <2> QED
    BY <2>1, <2>2, <2>3, <2>4, <2>5
<1>1. CASE Restart
  <2>1. /\ call' = call /\ mine' = mine /\ seen' = seen
        /\ pc'[r] = IF pc[r] = "idle" THEN "idle" ELSE "done"
        /\ answer'[r] = IF pc[r] \in {"idle", "done"} THEN answer[r] ELSE "error"
    BY <1>1 DEF Restart
  <2> QED
    BY <1>0, <2>1 DEF StepInv
<1>2. ASSUME NEW k \in Calls, Govern(r, k)
      PROVE  StepInv(r)'
  <2>1. /\ mine' = mine /\ mine[r] = 0 /\ answer[r] = None
        /\ call'[r] = k
    BY <1>0, <1>2 DEF Govern, StepInv, ReqTypes
  <2>2. \/ pc'[r] = "done"
        \/ pc'[r] = "evaluating" /\ seen'[r] = Len(rules) /\ answer' = answer
    BY <1>0, <1>2 DEF Govern, Enter, Finish, ReqTypes
  <2> QED
    BY <1>0, <2>1, <2>2 DEF StepInv
<1>3. CASE Evaluate(r)
  <2>1. /\ call' = call /\ seen' = seen /\ call[r] \in Calls /\ answer[r] = None
    BY <1>0, <1>3 DEF Evaluate, StepInv
  <2>2. CASE pc'[r] = "done"
    BY <2>1, <2>2 DEF StepInv
  <2>3. CASE /\ pc'[r] \in {"registered", "waiting"} /\ answer' = answer
             /\ Register(First(call[r]))
             /\ mine' = [mine EXCEPT ![r] = pending'[First(call[r])]]
    <3> DEFINE t == First(call[r])
    <3>1. t \in Token /\ t = First(call'[r])
      BY <2>1, TokenType
    <3>2. pending'[t] # 0 /\ pending'[t] \in 0 .. Len(handles') /\ Len(handles') \in Nat
      BY <2>3, <3>1, RegisterEffect DEF TypeOK
    <3> HIDE DEF t
    <3>3. mine'[r] = pending'[t]
      BY <1>0, <2>3, <3>1 DEF ReqTypes, t
    <3>4. WaitInv(r)'
      BY <3>1, <3>2, <3>3 DEF WaitInv
    <3> QED
      BY <2>1, <2>3, <3>2, <3>3, <3>4 DEF StepInv
  <2> QED
    BY <1>0, <1>3, <2>2, <2>3 DEF Evaluate, Finish, ReqTypes
<1>4. CASE EvaluateAgain(r)
  <2>1. /\ call' = call /\ seen' = seen /\ call[r] \in Calls /\ answer[r] = None
    BY <1>0, <1>4 DEF EvaluateAgain, StepInv
  <2>2. CASE pc'[r] = "done"
    BY <2>1, <2>2 DEF StepInv
  <2>3. CASE /\ pc'[r] = "reregistered" /\ answer' = answer
             /\ Register(Resumed(call[r]))
             /\ mine' = [mine EXCEPT ![r] = pending'[Resumed(call[r])]]
    <3>1. Resumed(call[r]) \in Token
      BY <2>1, TokenType
    <3>2. pending'[Resumed(call[r])] # 0
      BY <2>3, <3>1, RegisterEffect DEF TypeOK
    <3>3. mine'[r] # 0
      BY <1>0, <2>3, <3>2 DEF ReqTypes
    <3> QED
      BY <2>1, <2>3, <3>3 DEF StepInv
  <2> QED
    BY <1>0, <1>4, <2>2, <2>3 DEF EvaluateAgain, Finish, ReqTypes
<1>5. CASE StartTimer(r)
  <2>1. /\ call' = call /\ seen' = seen /\ mine' = mine /\ call[r] \in Calls
        /\ mine[r] # 0 /\ answer[r] = None
    BY <1>0, <1>5 DEF StartTimer, StepInv
  <2>2. CASE pc'[r] = "done"
    BY <2>1, <2>2 DEF StepInv
  <2>3. CASE pc[r] = "registered" /\ pc'[r] = "waiting" /\ answer' = answer
    <3>1. Next /\ ~Restart
      BY <1>5 DEF Restart, StartTimer, Next, Request
    <3>2. WaitInv(r)'
      BY <1>0, <2>1, <2>3, <3>1, WaitStays DEF StepInv
    <3> QED
      BY <2>1, <2>3, <3>2 DEF StepInv
  <2> QED
    BY <1>0, <1>5, <2>2, <2>3 DEF StartTimer, Finish, ReqTypes
<1>6. CASE Poll(r)
  <2>1. /\ call' = call /\ seen' = seen /\ mine' = mine /\ call[r] \in Calls
        /\ mine[r] # 0 /\ answer[r] = None /\ UNCHANGED flowVars /\ rules' = rules
    BY <1>0, <1>6 DEF Poll, StepInv, envVars
  <2>2. CASE pc'[r] = "done"
    BY <2>1, <2>2 DEF StepInv
  <2>3. CASE pc'[r] = "approved" /\ answer' = answer /\ Status(First(call[r])) = "approved"
    <3>1. pending[First(call[r])] = 0 /\ resolved[First(call[r])] = "approved"
      BY <2>3 DEF Status
    <3>2. WaitInv(r)
      BY <1>0, <1>6 DEF StepInv, Poll
    <3>3. ApprovedBy(r, Len(rules))
      BY <3>1, <3>2 DEF WaitInv
    <3>4. ApprovedBy(r, Len(rules))'
      BY <1>0, <2>1, <3>3, ApprovedStays DEF ApprovedBy
    <3> QED
      BY <2>1, <2>3, <3>4 DEF StepInv
  <2> QED
    BY <1>0, <1>6, <2>2, <2>3 DEF Poll, Finish, ReqTypes
<1>7. CASE GiveUp(r)
  <2>1. pc'[r] = "done" /\ call' = call /\ call[r] \in Calls
    BY <1>0, <1>7 DEF GiveUp, StepInv, Finish, ReqTypes
  <2> QED
    BY <2>1 DEF StepInv
<1>8. CASE Reevaluate(r)
  <2>1. /\ call' = call /\ mine' = mine /\ call[r] \in Calls /\ answer[r] = None
        /\ ApprovedBy(r, Len(rules))
    BY <1>0, <1>8 DEF Reevaluate, StepInv
  <2>2. CASE pc'[r] = "done"
    BY <2>1, <2>2 DEF StepInv
  <2>3. CASE pc'[r] = "reevaluating" /\ answer' = answer /\ seen'[r] = Len(rules)
    <3>1. ApprovedBy(r, seen[r])'
      BY <1>0, <2>1, <2>3, ApprovedStays DEF ApprovedBy
    <3> QED
      BY <1>0, <2>1, <2>3, <3>1 DEF StepInv
  <2> QED
    BY <1>0, <1>8, <2>2, <2>3 DEF Reevaluate, Enter, Finish, ReqTypes
<1>9. CASE /\ ~Restart
           /\ pc'[r] = pc[r] /\ call'[r] = call[r] /\ mine'[r] = mine[r]
           /\ seen'[r] = seen[r] /\ answer'[r] = answer[r]
  BY <1>9, StepInvKept
<1>10. ASSUME NEW q \in Requesters \ {r}, \/ \E k \in Calls : Govern(q, k)
                                        \/ Request(q) \/ GiveUp(q)
       PROVE  /\ pc'[r] = pc[r] /\ call'[r] = call[r] /\ mine'[r] = mine[r]
              /\ seen'[r] = seen[r] /\ answer'[r] = answer[r]
  BY <1>0, <1>10 DEF ReqTypes, Govern, Request, GiveUp, Evaluate, EvaluateAgain, StartTimer,
                    Poll, Reevaluate, Enter, Finish
<1>11. \/ Tick \/ ChangeRule
       \/ \E t \in Token, d \in Decisions : Resolve(t, d)
       \/ \E h \in timers : Expire(h)
       \/ \E x \in sends : Send(x)
       => UNCHANGED reqVars
  BY DEF Tick, ChangeRule, Resolve, Expire, Send
<1>12. UNCHANGED reqVars =>
         /\ pc'[r] = pc[r] /\ call'[r] = call[r] /\ mine'[r] = mine[r]
         /\ seen'[r] = seen[r] /\ answer'[r] = answer[r]
  BY DEF reqVars
<1> QED
  BY <1>1, <1>2, <1>3, <1>4, <1>5, <1>6, <1>7, <1>8, <1>9, <1>10, <1>11, <1>12
     DEF Next, Request

(* A call that was let run was approved, and permitted after that.         *)
LEMMA NoRunStep ==
    ASSUME IInv, Next
    PROVE  NoRunWithoutApproval'
<1> SUFFICES ASSUME NEW r \in Requesters, answer'[r] = "permit", mine'[r] # 0
             PROVE  Cleared(r)'
  BY DEF NoRunWithoutApproval
<1>0. /\ TypeOK /\ RequestInv /\ OneWinner /\ NoRunWithoutApproval
      /\ EnvTypes /\ EnvTypes' /\ FlowTypes /\ ReqTypes /\ StepInv(r)
      /\ Kept(rules, rules') /\ Kept(handles, handles') /\ won \subseteq won'
  BY EnvTypesStep, FlowTypesStep DEF IInv, TypeOK, RequestInv
<1>1. /\ Len(rules) \in Nat /\ Len(rules') \in Nat /\ Len(rules) <= Len(rules')
      /\ \A v \in 1 .. Len(rules) : rules'[v] = rules[v]
      /\ \A h \in Handles : handles'[h] = handles[h]
  BY <1>0 DEF EnvTypes, Kept, Handles
<1>2. \A x \in won : x.h \in Handles /\ x.version \in 1 .. Len(rules)
  BY <1>0 DEF FlowTypes
<1>3. ASSUME Cleared(r), mine'[r] = mine[r], call'[r] = call[r]
      PROVE  Cleared(r)'
  <2>1. PICK x \in won :
            /\ x.status = "approved" /\ x.h >= mine[r]
            /\ handles[x.h].token = First(call[r])
            /\ \E v \in x.version .. Len(rules) : rules[v] = "permit"
    BY <1>3 DEF Cleared
  <2>2. PICK v \in x.version .. Len(rules) : rules[v] = "permit"
    BY <2>1
  <2>3. v \in 1 .. Len(rules) /\ v \in x.version .. Len(rules')
    BY <1>1, <1>2, <2>1, <2>2
  <2>4. rules'[v] = "permit" /\ x \in won' /\ handles'[x.h] = handles[x.h]
    BY <1>0, <1>1, <1>2, <2>1, <2>2, <2>3
  <2>5. First(call'[r]) = First(call[r])
    BY <1>3 DEF First
  <2> QED
    BY <1>3, <2>1, <2>3, <2>4, <2>5 DEF Cleared
<1>4. ASSUME answer'[r] = answer[r], mine'[r] = mine[r], call'[r] = call[r]
      PROVE  Cleared(r)'
  BY <1>0, <1>3, <1>4 DEF NoRunWithoutApproval
<1>5. CASE EvaluateAgain(r)
  <2>1. /\ call' = call /\ seen[r] # 0 /\ answer[r] # "permit" /\ ApprovedBy(r, seen[r])
    BY <1>0, <1>5, DeferAssumption DEF EvaluateAgain, StepInv
  <2>2. rules[seen[r]] = "permit" /\ mine' = mine
    BY <1>0, <1>5, <2>1 DEF EvaluateAgain, Finish, ReqTypes
  <2>3. PICK x \in won :
            /\ x.status = "approved" /\ x.h >= mine[r]
            /\ handles[x.h].token = First(call[r])
            /\ x.version <= seen[r]
    BY <2>1 DEF ApprovedBy
  <2>4. seen[r] \in x.version .. Len(rules)
    BY <1>0, <1>1, <1>2, <2>1, <2>3 DEF ReqTypes
  <2>5. Cleared(r)
    BY <2>2, <2>3, <2>4 DEF Cleared
  <2> QED
    BY <1>3, <2>1, <2>2, <2>5
<1>6. CASE Evaluate(r)
  <2>1. mine[r] = 0 /\ answer[r] # "permit"
    BY <1>0, <1>6, DeferAssumption DEF Evaluate, StepInv
  <2> QED
    BY <1>0, <1>6, <2>1 DEF Evaluate, Finish, ReqTypes
<1>7. ASSUME NEW k \in Calls, Govern(r, k)
      PROVE  FALSE
  <2>1. mine'[r] = 0
    BY <1>0, <1>7 DEF Govern, StepInv
  <2> QED BY <2>1
<1>8. CASE StartTimer(r) \/ Poll(r) \/ GiveUp(r) \/ Reevaluate(r)
  <2>1. answer'[r] = answer[r]
    BY <1>0, <1>8 DEF StartTimer, Poll, GiveUp, Reevaluate, Enter, Finish, ReqTypes
  <2>2. mine' = mine /\ call' = call
    BY <1>8 DEF StartTimer, Poll, GiveUp, Reevaluate
  <2> QED BY <1>4, <2>1, <2>2
<1>9. CASE Restart
  BY <1>0, <1>4, <1>9 DEF Restart
<1>10. ASSUME NEW q \in Requesters \ {r}, \/ \E k \in Calls : Govern(q, k)
                                        \/ Request(q) \/ GiveUp(q)
       PROVE  mine'[r] = mine[r] /\ call'[r] = call[r] /\ answer'[r] = answer[r]
  BY <1>0, <1>10 DEF ReqTypes, Govern, Request, GiveUp, Evaluate, EvaluateAgain, StartTimer,
                    Poll, Reevaluate, Enter, Finish
<1>11. \/ Tick \/ ChangeRule
       \/ \E t \in Token, d \in Decisions : Resolve(t, d)
       \/ \E h \in timers : Expire(h)
       \/ \E x \in sends : Send(x)
       => UNCHANGED reqVars
  BY DEF Tick, ChangeRule, Resolve, Expire, Send
<1>12. UNCHANGED reqVars =>
          mine'[r] = mine[r] /\ call'[r] = call[r] /\ answer'[r] = answer[r]
  BY DEF reqVars
<1> QED
  BY <1>4, <1>5, <1>6, <1>7, <1>8, <1>9, <1>10, <1>11, <1>12 DEF Next, Request

-------------------------------------------------------------------------------
(* Theorems *)

LEMMA InvInit == Init => IInv
<1> SUFFICES ASSUME Init PROVE IInv
  OBVIOUS
<1>1. TypeOK
  BY TypeInit
<1>2. OneWinner /\ RequestInv /\ NoRunWithoutApproval
  BY DeferAssumption DEF Init, OneWinner, RequestInv, StepInv, NoRunWithoutApproval
<1> QED
  BY <1>1, <1>2 DEF IInv

LEMMA InvStep == IInv /\ [Next]_vars => IInv'
<1> SUFFICES ASSUME IInv, [Next]_vars PROVE IInv'
  OBVIOUS
<1>1. CASE Next
  BY <1>1, EnvTypesStep, FlowTypesStep, ReqTypesStep, OneWinnerStep, RequestInvStep, NoRunStep
     DEF IInv, TypeOK
<1>2. CASE UNCHANGED vars
  <2>1. TypeOK'
    BY <1>2 DEF vars, envVars, flowVars, reqVars, IInv, TypeOK, EnvTypes, FlowTypes, ReqTypes,
                Handles
  <2>2. OneWinner'
    BY <1>2 DEF vars, flowVars, IInv, OneWinner
  <2>3. RequestInv' /\ NoRunWithoutApproval'
    BY <1>2 DEF vars, envVars, flowVars, reqVars, IInv, RequestInv, StepInv, WaitInv,
                ApprovedBy, NoRunWithoutApproval, Cleared, First
  <2> QED
    BY <2>1, <2>2, <2>3 DEF IInv
<1> QED
  BY <1>1, <1>2

LEMMA InvAlways == Spec => []IInv
BY InvInit, InvStep, PTL DEF Spec

(* Every variable keeps its type. *)
THEOREM TypeCorrect == Spec => []TypeOK
BY InvAlways, PTL DEF IInv

(* However humans, expiry goroutines and retried calls race, a handle is   *)
(* decided at most once, and a pending token names its own undecided one.  *)
THEOREM HandleDecidedOnce == Spec => []OneWinner
BY InvAlways, PTL DEF IInv

(* No deferred call runs unless a human approved it after it was deferred  *)
(* and a policy in force after the approval permits it.                    *)
THEOREM RunsOnlyApproved == Spec => []NoRunWithoutApproval
BY InvAlways, PTL DEF IInv

-------------------------------------------------------------------------------
(* What the channels deliver *)

(* What a step does to the workflow: nothing but start or stop a timer,    *)
(* register a token, decide one, deliver a decision, or forget all.        *)
LEMMA FlowSteps ==
    ASSUME TypeOK, RequestInv, Next
    PROVE  \/ UNCHANGED <<handles, pending, resolved, sends, ch, won>>
           \/ \E t \in Token : Register(t) /\ UNCHANGED <<resolved, sends, won>>
           \/ \E t \in Token, d \in Decisions : Win(t, d) /\ UNCHANGED <<handles, rules, ch>>
           \/ \E s \in sends : Send(s)
           \/ Restart
<1>1. ASSUME NEW r \in Requesters, Evaluate(r) \/ EvaluateAgain(r)
      PROVE  \/ UNCHANGED <<handles, pending, resolved, sends, ch, won>>
             \/ \E t \in Token : Register(t) /\ UNCHANGED <<resolved, sends, won>>
  <2>1. UNCHANGED <<resolved, sends, won>>
    BY <1>1 DEF Evaluate, EvaluateAgain
  <2> QED
    BY <1>1, <2>1, EvaluateEffect
<1>2. ASSUME NEW h \in timers, Expire(h)
      PROVE  \/ UNCHANGED <<handles, pending, resolved, sends, ch, won>>
             \/ \E t \in Token, d \in Decisions : Win(t, d) /\ UNCHANGED <<handles, rules, ch>>
  <2>1. handles[h].token \in Token
    <3>1. handles \in Seq(HandleType) /\ h \in 1 .. Len(handles)
      BY DEF TypeOK, FlowTypes, HandleType, Handles
    <3>2. handles[h] \in HandleType
      BY <3>1, ElementOfSeq
    <3> QED BY <3>2 DEF HandleType
  <2>2. UNCHANGED <<handles, ch, rules>>
    BY <1>2 DEF Expire, envVars
  <2>3. CASE Win(handles[h].token, "expired")
    BY <2>1, <2>2, <2>3 DEF Decisions
  <2>4. CASE UNCHANGED <<pending, resolved, sends, won>>
    BY <2>2, <2>4
  <2> QED
    BY <1>2, <2>3, <2>4 DEF Expire
<1>3. ASSUME NEW t \in Token, NEW d \in Decisions, Resolve(t, d)
      PROVE  Win(t, d) /\ UNCHANGED <<handles, rules, ch>>
  BY <1>3 DEF Resolve, envVars
<1>4. ASSUME NEW r \in Requesters, \/ \E k \in Calls : Govern(r, k)
                                  \/ StartTimer(r) \/ Poll(r) \/ Reevaluate(r) \/ GiveUp(r)
      PROVE  UNCHANGED <<handles, pending, resolved, sends, ch, won>>
  BY <1>4 DEF Govern, StartTimer, Poll, Reevaluate, GiveUp, flowVars
<1>5. Tick \/ ChangeRule => UNCHANGED <<handles, pending, resolved, sends, ch, won>>
  BY DEF Tick, ChangeRule, flowVars
<1> QED
  BY <1>1, <1>2, <1>3, <1>4, <1>5 DEF Next, Request

(* What is on its way to a channel, or there, is how its handle was        *)
(* decided. A pending token waits for the last handle made for it, and the *)
(* status of a token is how that handle was decided.                       *)
SentBy(h, d) == \E x \in won : x.h = h /\ x.status = d
LastOf(h) == \A g \in Handles : handles[g].token = handles[h].token => g <= h
ChannelInv ==
    /\ \A s \in sends : SentBy(s.h, s.status)
    /\ \A h \in Handles : ch[h] # None => SentBy(h, ch[h])
    /\ \A t \in Token : pending[t] # 0 => LastOf(pending[t])
    /\ \A x \in won : LET t == handles[x.h].token IN
          LastOf(x.h) /\ resolved[t] # None => x.status = resolved[t]

LEMMA ChannelStep ==
    ASSUME TypeOK, RequestInv, OneWinner, ChannelInv, Next
    PROVE  ChannelInv'
<1>0. /\ EnvTypes /\ FlowTypes /\ FlowTypes' /\ Kept(handles, handles') /\ won \subseteq won'
      /\ handles \in Seq(HandleType) /\ Len(handles) \in Nat
      /\ \A x \in won : x.h \in Handles
      /\ pending \in [Token -> 0 .. Len(handles)] /\ resolved \in [Token -> Decisions \cup {None}]
      /\ ch \in Seq(ChanType) /\ Len(ch) = Len(handles)
      /\ \A s \in sends : s.h \in Handles /\ s.status \in Decisions
      /\ \A h \in Handles : handles[h] \in HandleType /\ handles[h].token \in Token
  <2>1. FlowTypes /\ handles \in Seq(HandleType) /\ EnvTypes
    BY DEF TypeOK, FlowTypes, HandleType
  <2>2. \A h \in Handles : handles[h] \in HandleType
    BY <2>1, ElementOfSeq DEF Handles
  <2> QED
    BY <2>1, <2>2, FlowTypesStep DEF FlowTypes, HandleType, ChanType
<1>1. \A h, d : SentBy(h, d) => SentBy(h, d)'
  BY <1>0 DEF SentBy
<1>2. CASE UNCHANGED <<handles, pending, resolved, sends, ch, won>>
  BY <1>2 DEF ChannelInv, SentBy, LastOf, Handles
<1>3. ASSUME NEW t \in Token, Register(t), UNCHANGED <<resolved, sends, won>>, pending[t] = 0
      PROVE  ChannelInv'
  <2> DEFINE n == Len(handles) + 1
             new == [token |-> t, made |-> now, deadline |-> now + Timeout]
  <2>1. /\ handles' = Append(handles, new) /\ ch' = Append(ch, None)
        /\ pending' = [pending EXCEPT ![t] = n]
    BY <1>3 DEF Register
  <2>2. new \in HandleType /\ None \in ChanType /\ new.token = t
    BY <1>0, DeferAssumption DEF HandleType, EnvTypes, ChanType
  <2> HIDE DEF new
  <2>3. /\ Handles' = Handles \cup {n} /\ n \notin Handles /\ handles'[n].token = t
        /\ \A h \in Handles : handles'[h] = handles[h] /\ ch'[h] = ch[h] /\ h <= n /\ h # n
        /\ ch'[n] = None
    <3>1. /\ Len(handles') = n /\ handles'[n] = new
          /\ \A h \in 1 .. Len(handles) : handles'[h] = handles[h]
      BY <1>0, <2>1, <2>2, AppendProperties
    <3>2. /\ ch'[n] = None /\ \A h \in 1 .. Len(ch) : ch'[h] = ch[h]
      BY <1>0, <2>1, <2>2, AppendProperties
    <3> QED
      BY <1>0, <2>2, <3>1, <3>2 DEF Handles
  <2>4. \A s \in sends' : SentBy(s.h, s.status)'
    BY <1>1, <1>3 DEF ChannelInv
  <2>5. \A h \in Handles' : ch'[h] # None => SentBy(h, ch[h])'
    BY <1>1, <2>3 DEF ChannelInv
  <2>6. ASSUME NEW h \in Handles, LastOf(h)' PROVE LastOf(h) /\ handles[h].token # t
    <3>1. \A g \in Handles' : handles'[g].token = handles'[h].token => g <= h
      BY <2>6 DEF LastOf
    <3>2. handles[h].token # t
      <4>1. n \in Nat /\ h \in Nat /\ h <= n /\ h # n
        BY <1>0, <2>3 DEF Handles
      <4> QED
        BY <2>3, <3>1, <4>1
    <3> QED
      BY <2>3, <3>1, <3>2 DEF LastOf
  <2>7. ASSUME NEW u \in Token, pending'[u] # 0 PROVE LastOf(pending[u])'
    <3>1. CASE u = t
      <4>1. pending'[u] = n
        BY <1>0, <2>1, <3>1
      <4>2. n <= n
        BY <1>0
      <4> QED
        BY <2>3, <4>1, <4>2 DEF LastOf
    <3>2. CASE u # t
      <4>1. pending'[u] = pending[u] /\ LastOf(pending[u]) /\ pending[u] \in Handles
        BY <1>0, <2>1, <2>7, <3>2 DEF ChannelInv, Handles
      <4>2. handles[pending[u]].token = u
        BY <2>7, <4>1 DEF OneWinner
      <4> QED
        BY <2>3, <3>2, <4>1, <4>2 DEF LastOf
    <3> QED
      BY <3>1, <3>2
  <2>8. ASSUME NEW x \in won', LastOf(x.h)', resolved'[handles'[x.h].token] # None
        PROVE  x.status = resolved'[handles'[x.h].token]
    <3>1. x \in won /\ x.h \in Handles /\ LastOf(x.h) /\ handles'[x.h] = handles[x.h]
      BY <1>0, <1>3, <2>3, <2>6, <2>8
    <3> QED
      BY <1>3, <2>8, <3>1 DEF ChannelInv
  <2> QED
    BY <2>4, <2>5, <2>7, <2>8 DEF ChannelInv
<1>4. ASSUME NEW t \in Token, NEW d \in Decisions, Win(t, d), UNCHANGED <<handles, rules, ch>>
      PROVE  ChannelInv'
  <2>0. PICK n, y, z :
          /\ n = pending[t]
          /\ y = [h |-> n, status |-> d, version |-> Len(rules)] /\ z = [h |-> n, status |-> d]
    OBVIOUS
  <2>1. /\ pending' = [pending EXCEPT ![t] = 0] /\ resolved' = [resolved EXCEPT ![t] = d]
        /\ won' = won \cup {y} /\ sends' = sends \cup {z} /\ pending[t] = n /\ n # 0
    BY <1>4, <2>0 DEF Win
  <2>2. y.h = n /\ y.status = d /\ z.h = n /\ z.status = d
    BY <2>0
  <2>3. SentBy(z.h, z.status)'
    BY <2>1, <2>2 DEF SentBy
  <2>4. \A s \in sends' : SentBy(s.h, s.status)'
    BY <1>1, <2>1, <2>3 DEF ChannelInv
  <2>5. \A h \in Handles' : ch'[h] # None => SentBy(h, ch[h])'
    BY <1>1, <1>4 DEF ChannelInv, Handles
  <2>6. \A h : LastOf(h)' <=> LastOf(h)
    BY <1>4 DEF LastOf, Handles
  <2>7. \A u \in Token : pending'[u] # 0 => LastOf(pending[u])'
    BY <1>0, <2>1, <2>6 DEF ChannelInv
  <2>8. ASSUME NEW x \in won', LastOf(x.h)', resolved'[handles'[x.h].token] # None
        PROVE  x.status = resolved'[handles'[x.h].token]
    <3>1. handles[n].token = t /\ LastOf(n) /\ n \in Handles
      BY <1>0, <2>1 DEF OneWinner, ChannelInv, Handles
    <3>2. CASE x = y
      BY <1>0, <1>4, <2>1, <2>2, <3>1, <3>2
    <3>3. CASE x \in won
      <4>1. x.h \in Handles /\ LastOf(x.h) /\ x.h # n /\ handles[x.h].token \in Token
        BY <1>0, <2>1, <2>6, <2>8, <3>3 DEF OneWinner
      <4>2. handles[x.h].token # t
        <5> SUFFICES ASSUME handles[x.h].token = t PROVE FALSE
          OBVIOUS
        <5>1. x.h <= n /\ n <= x.h
          BY <3>1, <4>1 DEF LastOf
        <5> QED
          BY <3>1, <4>1, <5>1 DEF Handles
      <4> QED
        BY <1>0, <1>4, <2>1, <2>8, <3>3, <4>1, <4>2 DEF ChannelInv
    <3> QED
      BY <2>1, <3>2, <3>3
  <2> QED
    BY <2>4, <2>5, <2>7, <2>8 DEF ChannelInv
<1>5. ASSUME NEW s \in sends, Send(s) PROVE ChannelInv'
  <2>1. /\ UNCHANGED <<handles, pending, resolved, won>> /\ sends' \subseteq sends
        /\ ch' = IF ch[s.h] = None THEN [ch EXCEPT ![s.h] = s.status] ELSE ch
    BY <1>5 DEF Send
  <2>2. \A h \in Handles : ch'[h] = ch[h] \/ (h = s.h /\ ch'[h] = s.status)
    BY <1>0, <2>1 DEF Handles
  <2>3. \A h \in Handles' : ch'[h] # None => SentBy(h, ch[h])'
    BY <1>1, <2>1, <2>2 DEF ChannelInv, Handles
  <2>4. \A h : LastOf(h)' <=> LastOf(h)
    BY <2>1 DEF LastOf, Handles
  <2>5. \A x \in sends' : SentBy(x.h, x.status)'
    BY <1>1, <2>1 DEF ChannelInv
  <2> QED
    BY <2>1, <2>3, <2>4, <2>5 DEF ChannelInv
<1>6. CASE Restart
  <2>1. /\ UNCHANGED <<handles, ch, won>> /\ sends' = {}
        /\ \A t \in Token : pending'[t] = 0 /\ resolved'[t] = None
    BY <1>6 DEF Restart
  <2>2. \A x \in won' : resolved'[handles'[x.h].token] = None
    BY <1>0, <2>1
  <2> QED
    BY <1>1, <2>1, <2>2 DEF ChannelInv, Handles
<1>7. ASSUME NEW t \in Token, Register(t), pending[t] # 0
      PROVE  UNCHANGED <<handles, pending, ch>>
  BY <1>7 DEF Register
<1> QED
  BY <1>2, <1>3, <1>4, <1>5, <1>6, <1>7, FlowSteps

(* What waitForApproval's poll reads is what the channel of the last       *)
(* handle delivers, for any number of deferrals, retries and restarts.     *)
THEOREM ChannelAgrees == Spec => []WaitAgreesWithStatus
<1> DEFINE Inv == IInv /\ ChannelInv
<1>1. Init => Inv
  <2> SUFFICES ASSUME Init PROVE ChannelInv
    BY InvInit
  <2>1. sends = {} /\ won = {} /\ Handles = {} /\ \A t \in Token : pending[t] = 0
    BY DEF Init, Handles
  <2> QED
    BY <2>1 DEF ChannelInv
<1>2. Inv /\ [Next]_vars => Inv'
  <2>1. ASSUME IInv, ChannelInv, UNCHANGED vars PROVE ChannelInv'
    BY <2>1 DEF vars, flowVars, ChannelInv, SentBy, LastOf, Handles
  <2> QED
    BY <2>1, InvStep, ChannelStep DEF IInv
<1>3. Inv => WaitAgreesWithStatus
  <2> SUFFICES ASSUME Inv, NEW h \in Handles,
                      ch[h] # None, resolved[handles[h].token] # None,
                      \A g \in Handles : handles[g].token = handles[h].token => g <= h
               PROVE  ch[h] = resolved[handles[h].token]
    BY DEF WaitAgreesWithStatus
  <2> QED
    BY DEF ChannelInv, SentBy, LastOf
<1> QED
  BY <1>1, <1>2, <1>3, PTL DEF Spec

-------------------------------------------------------------------------------
(* The one-shot deferral *)

(* While every call id is sent once and the daemon lives, a token that was *)
(* registered keeps its only handle and is never unknown again.            *)
Unknown(t) == pending[t] = 0 /\ resolved[t] = None
HandleInv ==
    /\ \A t \in Token : Unknown(t) <=> \A h \in Handles : handles[h].token # t
    /\ \A g, h \in Handles : handles[g].token = handles[h].token => g = h
    /\ \A h \in Handles : handles[h].deadline = handles[h].made + Timeout

(* A call has one requester, who registers each of its tokens once.        *)
Fresh == {"evaluating", "registered", "waiting", "approved", "reevaluating"}
CallerInv ==
    /\ restarts = 0
    /\ \A r \in Requesters : pc[r] # "idle" => call[r] \in asked
    /\ \A r, q \in Requesters : pc[r] # "idle" /\ pc[q] # "idle" /\ call[r] = call[q] => r = q
    /\ \A k \in Calls \ asked : Unknown(First(k)) /\ Unknown(Resumed(k))
    /\ \A r \in Requesters : pc[r] = "evaluating" => Unknown(First(call[r]))
    /\ \A r \in Requesters : pc[r] \in Fresh => Unknown(Resumed(call[r]))
OnceInv == HandleInv /\ CallerInv

LEMMA OnceInit == Init => OnceInv
<1> SUFFICES ASSUME Init PROVE OnceInv
  OBVIOUS
<1>1. HandleInv
  BY DEF Init, HandleInv, Unknown, Handles
<1>2. CallerInv
  BY TokenType DEF Init, CallerInv, Unknown, Fresh
<1> QED
  BY <1>1, <1>2 DEF OnceInv

(* Which token a step registers, and that it was unknown.                  *)
LEMMA OnceSteps ==
    ASSUME TypeOK, RequestInv, OnceInv, Next, MaxRestarts = 0
    PROVE  \/ UNCHANGED <<handles, pending, resolved>> /\ (now' = now \/ Tick)
           \/ \E r \in Requesters : \E t \in Token :
                /\ \/ Evaluate(r) /\ t = First(call[r])
                   \/ EvaluateAgain(r) /\ t = Resumed(call[r])
                /\ Register(t) /\ Unknown(t) /\ UNCHANGED <<now, resolved>>
           \/ \E t \in Token, d \in Decisions :
                /\ Win(t, d) /\ UNCHANGED <<handles, now, reqVars>>
                /\ d = "expired" => \E h \in Handles :
                      handles[h].token = t /\ now >= handles[h].deadline
<1>1. ASSUME NEW r \in Requesters, Evaluate(r)
      PROVE  \/ UNCHANGED <<handles, pending, resolved, now>>
             \/ LET t == First(call[r]) IN
                t \in Token /\ Register(t) /\ Unknown(t) /\ UNCHANGED <<now, resolved>>
  <2>1. call[r] \in Calls /\ Unknown(First(call[r]))
    BY <1>1 DEF Evaluate, RequestInv, StepInv, OnceInv, CallerInv
  <2> QED
    BY <1>1, <2>1, TokenType DEF Evaluate, envVars
<1>2. ASSUME NEW r \in Requesters, EvaluateAgain(r)
      PROVE  \/ UNCHANGED <<handles, pending, resolved, now>>
             \/ LET t == Resumed(call[r]) IN
                t \in Token /\ Register(t) /\ Unknown(t) /\ UNCHANGED <<now, resolved>>
  <2>1. call[r] \in Calls /\ Unknown(Resumed(call[r]))
    BY <1>2 DEF EvaluateAgain, RequestInv, StepInv, OnceInv, CallerInv, Fresh
  <2> QED
    BY <1>2, <2>1, TokenType DEF EvaluateAgain, envVars
<1>3. ASSUME NEW h \in timers, Expire(h)
      PROVE  \/ UNCHANGED <<handles, pending, resolved, now>>
             \/ LET t == handles[h].token IN
                /\ t \in Token /\ h \in Handles /\ now >= handles[h].deadline
                /\ Win(t, "expired") /\ UNCHANGED <<handles, now, reqVars>>
  <2>1. h \in Handles /\ handles[h].token \in Token
    <3>1. handles \in Seq(HandleType) /\ h \in 1 .. Len(handles)
      BY DEF TypeOK, FlowTypes, HandleType, Handles
    <3>2. handles[h] \in HandleType
      BY <3>1, ElementOfSeq
    <3> QED BY <3>1, <3>2 DEF HandleType, Handles
  <2> QED
    BY <1>3, <2>1 DEF Expire, envVars
<1>4. ASSUME NEW t \in Token, NEW d \in Decisions, Resolve(t, d)
      PROVE  Win(t, d) /\ UNCHANGED <<handles, now, reqVars>> /\ d # "expired"
  BY <1>4 DEF Resolve, envVars
<1>5. ASSUME NEW r \in Requesters, \/ \E k \in Calls : Govern(r, k)
                                  \/ StartTimer(r) \/ Poll(r) \/ Reevaluate(r) \/ GiveUp(r)
      PROVE  UNCHANGED <<handles, pending, resolved, now>>
  BY <1>5 DEF Govern, StartTimer, Poll, Reevaluate, GiveUp, flowVars, envVars
<1>6. ASSUME NEW s \in sends, Send(s)
      PROVE  UNCHANGED <<handles, pending, resolved, now>>
  BY <1>6 DEF Send, envVars
<1>7. Tick \/ ChangeRule => UNCHANGED <<handles, pending, resolved>> /\ (now' = now \/ Tick)
  BY DEF Tick, ChangeRule, flowVars
<1>8. ~Restart
  BY DEF Restart, OnceInv, CallerInv
<1>9. "expired" \in Decisions
  BY DEF Decisions
<1> QED
  BY <1>1, <1>2, <1>3, <1>4, <1>5, <1>6, <1>7, <1>8, <1>9 DEF Next, Request

(* What it does to the tokens. *)
LEMMA RegisterUnknown ==
    ASSUME EnvTypes, FlowTypes, NEW t \in Token, Register(t), Unknown(t), resolved' = resolved
    PROVE  LET n == Len(handles) + 1 IN
           /\ n \notin Handles /\ Handles' = Handles \cup {n}
           /\ \A h \in Handles : handles'[h] = handles[h]
           /\ handles'[n] = [token |-> t, made |-> now, deadline |-> now + Timeout]
           /\ pending' = [pending EXCEPT ![t] = n] /\ n # 0
           /\ \A u \in Token : Unknown(u)' <=> Unknown(u) /\ u # t
<1> DEFINE n == Len(handles) + 1
           new == [token |-> t, made |-> now, deadline |-> now + Timeout]
<1>1. handles' = Append(handles, new) /\ pending' = [pending EXCEPT ![t] = n]
  BY DEF Register, Unknown
<1>2. new \in HandleType
  BY DeferAssumption DEF HandleType, EnvTypes
<1>3. /\ handles \in Seq(HandleType) /\ Len(handles) \in Nat
      /\ pending \in [Token -> 0 .. Len(handles)]
  BY DEF FlowTypes, HandleType
<1> HIDE DEF new
<1>4. /\ Len(handles') = n /\ handles'[n] = new
      /\ \A h \in 1 .. Len(handles) : handles'[h] = handles[h]
  BY <1>1, <1>2, <1>3, AppendProperties
<1>5. n \notin Handles /\ Handles' = Handles \cup {n} /\ n # 0
  BY <1>3, <1>4 DEF Handles
<1>6. \A u \in Token : Unknown(u)' <=> Unknown(u) /\ u # t
  BY <1>1, <1>3, <1>5 DEF Unknown
<1> QED
  BY <1>1, <1>4, <1>5, <1>6 DEF new, Handles

LEMMA WinKnown ==
    ASSUME FlowTypes, NEW t \in Token, NEW d \in Decisions, Win(t, d)
    PROVE  ~Unknown(t) /\ \A u \in Token : Unknown(u)' <=> Unknown(u)
<1>1. None \notin Decisions
  BY DeferAssumption DEF Decisions
<1> QED
  BY <1>1 DEF Win, Unknown, FlowTypes

LEMMA HandleStep ==
    ASSUME TypeOK, RequestInv, OnceInv, Next, MaxRestarts = 0
    PROVE  HandleInv'
<1>0. HandleInv /\ EnvTypes /\ FlowTypes
  BY DEF OnceInv, TypeOK
<1>1. CASE UNCHANGED <<handles, pending, resolved>>
  BY <1>0, <1>1 DEF HandleInv, Unknown, Handles
<1>2. ASSUME NEW t \in Token, Register(t), Unknown(t), resolved' = resolved
      PROVE  HandleInv'
  <2> DEFINE n == Len(handles) + 1
  <2>1. /\ n \notin Handles /\ Handles' = Handles \cup {n}
        /\ \A h \in Handles : handles'[h] = handles[h]
        /\ handles'[n].token = t /\ handles'[n].deadline = handles'[n].made + Timeout
        /\ \A u \in Token : Unknown(u)' <=> Unknown(u) /\ u # t
    <3> DEFINE new == [token |-> t, made |-> now, deadline |-> now + Timeout]
    <3>1. new.token = t /\ new.deadline = new.made + Timeout
      OBVIOUS
    <3>2. /\ n \notin Handles /\ Handles' = Handles \cup {n}
          /\ \A h \in Handles : handles'[h] = handles[h]
          /\ handles'[n] = new
          /\ \A u \in Token : Unknown(u)' <=> Unknown(u) /\ u # t
      BY <1>0, <1>2, RegisterUnknown
    <3> HIDE DEF new, n
    <3> QED
      BY <3>1, <3>2
  <2>2. \A h \in Handles : handles[h].token # t
    BY <1>0, <1>2 DEF HandleInv
  <2> HIDE DEF n
  <2>3. \A u \in Token : Unknown(u)' <=> \A h \in Handles' : handles'[h].token # u
    BY <1>0, <2>1, <2>2 DEF HandleInv
  <2>4. \A g, h \in Handles' : handles'[g].token = handles'[h].token => g = h
    BY <1>0, <2>1, <2>2 DEF HandleInv
  <2>5. \A h \in Handles' : handles'[h].deadline = handles'[h].made + Timeout
    BY <1>0, <2>1 DEF HandleInv
  <2> QED
    BY <2>3, <2>4, <2>5 DEF HandleInv
<1>3. ASSUME NEW t \in Token, NEW d \in Decisions, Win(t, d), handles' = handles
      PROVE  HandleInv'
  <2>1. \A u \in Token : Unknown(u)' <=> Unknown(u)
    BY <1>0, <1>3, WinKnown
  <2> QED
    BY <1>0, <1>3, <2>1 DEF HandleInv, Handles
<1> QED
  BY <1>1, <1>2, <1>3, OnceSteps

LEMMA CallerStep ==
    ASSUME TypeOK, RequestInv, OnceInv, Next, SingleUse, MaxRestarts = 0
    PROVE  CallerInv'
<1>0. /\ CallerInv /\ EnvTypes /\ FlowTypes /\ ReqTypes /\ restarts = 0
      /\ \A r \in Requesters : pc[r] # "idle" => call[r] \in Calls
  BY DEF OnceInv, TypeOK, CallerInv, RequestInv, StepInv
<1>1. restarts' = 0
  <2>1. ~Restart
    BY <1>0 DEF Restart
  <2> QED
    BY <1>0, <2>1
    DEF Next, Request, Govern, Evaluate, EvaluateAgain, StartTimer, Poll, GiveUp, Reevaluate,
        Resolve, Expire, Send, Tick, ChangeRule, envVars
(* Only the evaluation of its own call makes a token known. *)
<1>2. ASSUME NEW u \in Token, Unknown(u),
             \A r \in Requesters : /\ Evaluate(r) => u # First(call[r])
                                   /\ EvaluateAgain(r) => u # Resumed(call[r])
      PROVE  Unknown(u)'
  <2>1. CASE UNCHANGED <<handles, pending, resolved>>
    BY <1>2, <2>1 DEF Unknown
  <2>2. ASSUME NEW t \in Token, Register(t), Unknown(t), resolved' = resolved, t # u
        PROVE  Unknown(u)'
    BY <1>0, <1>2, <2>2, RegisterUnknown
  <2>3. ASSUME NEW t \in Token, NEW d \in Decisions, Win(t, d)
        PROVE  Unknown(u)'
    BY <1>0, <1>2, <2>3, WinKnown
  <2>4. ASSUME NEW r \in Requesters, NEW t \in Token,
               (Evaluate(r) /\ t = First(call[r])) \/ (EvaluateAgain(r) /\ t = Resumed(call[r])),
               Register(t), Unknown(t), UNCHANGED <<now, resolved>>
        PROVE  Unknown(u)'
    <3>1. Evaluate(r) => u # First(call[r])
      BY <1>2
    <3>2. EvaluateAgain(r) => u # Resumed(call[r])
      BY <1>2
    <3>3. t # u
      BY <2>4, <3>1, <3>2, Zenon
    <3> QED
      BY <2>2, <2>4, <3>3
  <2> QED
    BY <2>1, <2>3, <2>4, OnceSteps
<1>3. ASSUME NEW r \in Requesters, pc'[r] # "idle"
      PROVE  \/ /\ pc[r] # "idle" /\ call'[r] = call[r]
                /\ pc'[r] = "evaluating" => pc[r] = "evaluating"
                /\ pc'[r] \in Fresh => pc[r] \in Fresh
             \/ /\ call'[r] \in Calls \ asked /\ asked' = asked \cup {call'[r]}
                /\ UNCHANGED flowVars
                /\ \A q \in Requesters \ {r} : call'[q] = call[q] /\ pc'[q] = pc[q]
                /\ \A q \in Requesters : ~Evaluate(q) /\ ~EvaluateAgain(q)
  <2>1. ASSUME NEW q \in Requesters, NEW k \in Calls, Govern(q, k)
        PROVE  /\ k \notin asked /\ asked' = asked \cup {k} /\ call' = [call EXCEPT ![q] = k]
               /\ UNCHANGED flowVars
               /\ \A p \in Requesters \ {q} : pc'[p] = pc[p]
    BY <1>0, <2>1 DEF Govern, Enter, Finish, ReqTypes
  <2>2. ASSUME NEW q \in Requesters, NEW k \in Calls, Govern(q, k), NEW p \in Requesters
        PROVE  ~Evaluate(p) /\ ~EvaluateAgain(p)
    <3>1. asked' # asked
      BY <2>1, <2>2
    <3> QED
      BY <3>1 DEF Evaluate, EvaluateAgain
  <2>3. ASSUME NEW q \in Requesters, NEW k \in Calls, Govern(q, k), q = r
        PROVE  /\ call'[r] \in Calls \ asked /\ asked' = asked \cup {call'[r]}
               /\ UNCHANGED flowVars
               /\ \A p \in Requesters \ {r} : call'[p] = call[p] /\ pc'[p] = pc[p]
               /\ \A p \in Requesters : ~Evaluate(p) /\ ~EvaluateAgain(p)
    BY <1>0, <2>1, <2>2, <2>3 DEF ReqTypes
  <2> DEFINE Stays == /\ pc[r] # "idle" /\ call'[r] = call[r]
                      /\ pc'[r] = "evaluating" => pc[r] = "evaluating"
                      /\ pc'[r] \in Fresh => pc[r] \in Fresh
  <2>4. ASSUME NEW q \in Requesters, NEW k \in Calls, Govern(q, k), q # r PROVE Stays
    BY <1>0, <1>3, <2>1, <2>4 DEF ReqTypes
  <2>5. ASSUME NEW q \in Requesters, Request(q) \/ GiveUp(q) PROVE Stays
    BY <1>0, <1>3, <2>5
    DEF Request, Evaluate, EvaluateAgain, StartTimer, Poll, GiveUp, Reevaluate, Enter, Finish,
        ReqTypes, Fresh
  <2>6. ASSUME \/ \E t \in Token, d \in Decisions : Resolve(t, d)
               \/ \E h \in timers : Expire(h)
               \/ \E s \in sends : Send(s)
               \/ Tick \/ ChangeRule
        PROVE  Stays
    BY <1>3, <2>6 DEF Resolve, Expire, Send, Tick, ChangeRule, reqVars
  <2>7. ~Restart
    BY <1>0 DEF Restart
  <2> HIDE DEF Stays
  <2>8. Stays \/ \E k \in Calls : Govern(r, k)
    BY <2>4, <2>5, <2>6, <2>7 DEF Next
  <2> QED
    BY <2>3, <2>8 DEF Stays
<1>4. asked \subseteq asked' /\ asked' \subseteq Calls
  BY <1>0, ReqTypesStep
  DEF Next, Request, Govern, Evaluate, EvaluateAgain, StartTimer, Poll, GiveUp, Reevaluate,
      Resolve, Expire, Send, Tick, ChangeRule, Restart, reqVars, ReqTypes
<1>5. ASSUME NEW r \in Requesters, pc'[r] # "idle" PROVE call'[r] \in asked'
  BY <1>0, <1>3, <1>4, <1>5 DEF CallerInv
<1>6. ASSUME NEW r \in Requesters, NEW q \in Requesters,
             pc'[r] # "idle", pc'[q] # "idle", call'[r] = call'[q]
      PROVE  r = q
  <2>1. CASE pc[r] # "idle" /\ call'[r] = call[r] /\ pc[q] # "idle" /\ call'[q] = call[q]
    BY <1>0, <1>6, <2>1 DEF CallerInv
  <2>2. CASE call'[r] \notin asked /\ \A p \in Requesters \ {r} : call'[p] = call[p] /\ pc'[p] = pc[p]
    BY <1>0, <1>6, <2>2 DEF CallerInv
  <2>3. CASE call'[q] \notin asked /\ \A p \in Requesters \ {q} : call'[p] = call[p] /\ pc'[p] = pc[p]
    BY <1>0, <1>6, <2>3 DEF CallerInv
  <2> QED
    BY <1>3, <1>6, <2>1, <2>2, <2>3
<1>7. \A k, j : First(k) # Resumed(j) /\ (First(k) = First(j) => k = j)
               /\ (Resumed(k) = Resumed(j) => k = j)
  <2> TAKE k, j
  <2>1. First(k).resume # Resumed(j).resume /\ First(k).call = k /\ Resumed(k).call = k
        /\ First(j).call = j /\ Resumed(j).call = j
    BY DEF First, Resumed
  <2> QED
    BY <2>1
<1>8. ASSUME NEW k \in Calls \ asked' PROVE Unknown(First(k))' /\ Unknown(Resumed(k))'
  <2>1. k \in Calls \ asked /\ Unknown(First(k)) /\ Unknown(Resumed(k))
    BY <1>0, <1>4 DEF CallerInv
  <2>2. \A r \in Requesters : Evaluate(r) \/ EvaluateAgain(r) => call[r] # k
    BY <1>0, <2>1 DEF Evaluate, EvaluateAgain, CallerInv
  <2> QED
    BY <1>2, <1>7, <2>1, <2>2, TokenType
<1>9. ASSUME NEW r \in Requesters, pc'[r] = "evaluating" PROVE Unknown(First(call[r]))'
  <2>1. CASE pc[r] = "evaluating" /\ call'[r] = call[r]
    <3>1. call[r] \in Calls /\ Unknown(First(call[r]))
      BY <1>0, <2>1 DEF CallerInv
    <3>2. ASSUME NEW q \in Requesters, Evaluate(q) PROVE call[q] # call[r]
      <4>1. q # r
        BY <1>0, <1>9, <3>2 DEF Evaluate, Finish, ReqTypes
      <4> QED
        BY <1>0, <2>1, <3>2, <4>1 DEF Evaluate, CallerInv
    <3>3. First(call[r]) \in Token
      BY <3>1, TokenType
    <3>4. PICK k : k = call[r]
      OBVIOUS
    <3>5. Unknown(First(k))'
      BY <1>2, <1>7, <3>1, <3>2, <3>3, <3>4
    <3> QED
      BY <2>1, <3>4, <3>5 DEF Unknown, First
  <2>2. CASE call'[r] \in Calls \ asked /\ UNCHANGED flowVars
    BY <1>0, <2>2 DEF CallerInv, Unknown, First, flowVars
  <2> QED
    BY <1>3, <1>9, <2>1, <2>2
<1>10. ASSUME NEW r \in Requesters, pc'[r] \in Fresh PROVE Unknown(Resumed(call[r]))'
  <2>1. CASE pc[r] \in Fresh /\ call'[r] = call[r]
    <3>1. call[r] \in Calls /\ Unknown(Resumed(call[r]))
      BY <1>0, <2>1 DEF CallerInv, Fresh
    <3>2. ASSUME NEW q \in Requesters, EvaluateAgain(q) PROVE call[q] # call[r]
      <4>1. q # r
        BY <1>0, <1>10, <3>2 DEF EvaluateAgain, Finish, ReqTypes, Fresh
      <4> QED
        BY <1>0, <2>1, <3>2, <4>1 DEF EvaluateAgain, CallerInv, Fresh
    <3>3. Resumed(call[r]) \in Token
      BY <3>1, TokenType
    <3>4. PICK k : k = call[r]
      OBVIOUS
    <3>5. Unknown(Resumed(k))'
      BY <1>2, <1>7, <3>1, <3>2, <3>3, <3>4
    <3> QED
      BY <2>1, <3>4, <3>5 DEF Unknown, Resumed
  <2>2. CASE call'[r] \in Calls \ asked /\ UNCHANGED flowVars
    BY <1>0, <2>2 DEF CallerInv, Unknown, Resumed, flowVars
  <2>3. pc'[r] # "idle"
    BY <1>10 DEF Fresh
  <2> QED
    BY <1>3, <1>10, <2>1, <2>2, <2>3
<1> QED
  BY <1>1, <1>5, <1>6, <1>8, <1>9, <1>10 DEF CallerInv

(* The deferral of a token is its only handle's. *)
LastMade ==
    /\ \A h \in Handles : Last(handles[h].token) = handles[h].made
    /\ \A t \in Token : Unknown(t) => Last(t) = 0

LEMMA LastIs == FlowTypes /\ HandleInv => LastMade
<1> SUFFICES ASSUME FlowTypes, HandleInv PROVE LastMade
  OBVIOUS
<1>1. ASSUME NEW h \in Handles PROVE Last(handles[h].token) = handles[h].made
  <2> DEFINE t == handles[h].token
             Pick(g) == handles[g].token = t /\ \A f \in Handles : handles[f].token = t => f <= g
  <2>1. h \in Nat /\ h <= h
    BY DEF FlowTypes, Handles
  <2>2. \A g \in Handles : Pick(g) <=> g = h
    BY <2>1 DEF HandleInv
  <2>3. (CHOOSE g \in Handles : Pick(g)) = h
    BY <2>2
  <2> QED
    BY <2>3 DEF Last
<1>2. ASSUME NEW t \in Token, Unknown(t) PROVE Last(t) = 0
  BY <1>2 DEF Last, HandleInv
<1> QED
  BY <1>1, <1>2 DEF LastMade

LEMMA LastIsNext == (FlowTypes /\ HandleInv => LastMade)'
BY LastIs, PTL

(* The abstract deferral, as the refinement sees it. *)
Opened == [t \in Token |-> Last(t)]
Told == [t \in Token |-> IF pending[t] = 0 /\ resolved[t] = None THEN "unknown" ELSE Status(t)]

LEMMA AbstractInit == Init => Abstract!OnceInit
<1> SUFFICES ASSUME Init PROVE Abstract!OnceInit
  OBVIOUS
<1>1. now = 0 /\ Handles = {} /\ \A t \in Token : pending[t] = 0 /\ resolved[t] = None
  BY DEF Init, Handles
<1>2. Opened = [t \in Token |-> 0] /\ Told = [t \in Token |-> "unknown"]
  BY <1>1 DEF Opened, Told, Last
<1> QED
  BY <1>1, <1>2 DEF Abstract!OnceInit, Opened, Told

(* A step of the workflow passes time, opens a token, closes one, or is    *)
(* none of the abstract deferral's business.                               *)
LEMMA AbstractStep ==
    ASSUME TypeOK, RequestInv, OnceInv, OneWinner, FlowTypes', HandleInv', Next, MaxRestarts = 0
    PROVE  Abstract!OnceNext \/ UNCHANGED <<now, Opened, Told>>
<1>0. HandleInv /\ EnvTypes /\ FlowTypes
  BY DEF OnceInv, TypeOK
<1>1. /\ \A h \in Handles : Last(handles[h].token) = handles[h].made
      /\ \A t \in Token : Unknown(t) => Last(t) = 0
  BY <1>0, LastIs DEF LastMade
<1>2. /\ \A h \in Handles' : Last(handles[h].token)' = handles'[h].made
      /\ \A t \in Token : Unknown(t)' => Last(t)' = 0
  BY LastIsNext DEF LastMade
<1>3. CASE UNCHANGED <<handles, pending, resolved>> /\ (now' = now \/ Tick)
  <2>1. Opened' = Opened /\ Told' = Told
    BY <1>3 DEF Opened, Told, Last, Handles, Status
  <2>2. CASE now' = now
    BY <2>1, <2>2
  <2>3. CASE Tick
    <3>1. Abstract!Pass
      BY <2>1, <2>3 DEF Abstract!Pass, Tick, Opened, Told
    <3> QED
      BY <3>1 DEF Abstract!OnceNext
  <2> QED
    BY <1>3, <2>2, <2>3
<1>4. ASSUME NEW t \in Token, Register(t), Unknown(t), UNCHANGED <<now, resolved>>
      PROVE  Abstract!Open(t)
  <2> DEFINE n == Len(handles) + 1
  <2>1. /\ n \notin Handles /\ Handles' = Handles \cup {n} /\ n # 0
        /\ \A h \in Handles : handles'[h] = handles[h]
        /\ handles'[n].token = t /\ handles'[n].made = now
        /\ pending' = [pending EXCEPT ![t] = n]
        /\ \A u \in Token : Unknown(u)' <=> Unknown(u) /\ u # t
    <3> DEFINE new == [token |-> t, made |-> now, deadline |-> now + Timeout]
    <3>1. new.token = t /\ new.made = now
      OBVIOUS
    <3>2. /\ n \notin Handles /\ Handles' = Handles \cup {n} /\ n # 0
          /\ \A h \in Handles : handles'[h] = handles[h]
          /\ handles'[n] = new
          /\ pending' = [pending EXCEPT ![t] = n]
          /\ \A u \in Token : Unknown(u)' <=> Unknown(u) /\ u # t
      BY <1>0, <1>4, RegisterUnknown
    <3> HIDE DEF new, n
    <3> QED
      BY <3>1, <3>2
  <2> HIDE DEF n
  <2>2. Last(t)' = now
    BY <1>2, <2>1
  <2>3. ASSUME NEW u \in Token, u # t PROVE Last(u)' = Last(u)
    <3>1. CASE Unknown(u)
      BY <1>1, <1>2, <2>1, <2>3, <3>1
    <3>2. CASE ~Unknown(u)
      <4>1. PICK h \in Handles : handles[h].token = u
        BY <1>0, <3>2 DEF HandleInv
      <4>2. h \in Handles' /\ handles'[h] = handles[h]
        BY <2>1
      <4> QED
        BY <1>1, <1>2, <4>1, <4>2
    <3> QED
      BY <3>1, <3>2
  <2>4. Opened' = [Opened EXCEPT ![t] = now]
    BY <2>2, <2>3 DEF Opened
  <2>5. Told[t] = "unknown"
    BY <1>4 DEF Told, Unknown
  <2>6. Told' = [Told EXCEPT ![t] = "pending"]
    BY <1>0, <1>4, <2>1 DEF Told, Status, FlowTypes
  <2> QED
    BY <1>4, <2>4, <2>5, <2>6 DEF Abstract!Open, Opened, Told
<1>5. ASSUME NEW t \in Token, NEW d \in Decisions, Win(t, d), UNCHANGED <<handles, now, reqVars>>,
             d = "expired" => \E h \in Handles :
                handles[h].token = t /\ now >= handles[h].deadline
      PROVE  Abstract!Close(t, d)
  <2>1. Opened' = Opened
    BY <1>5 DEF Opened, Last, Handles
  <2>2. Told[t] = "pending"
    BY <1>5 DEF Told, Status, Win
  <2>3. Told' = [Told EXCEPT ![t] = d]
    <3>1. d # None
      BY DeferAssumption DEF Decisions
    <3> QED
      BY <1>0, <1>5, <3>1 DEF Told, Status, Win, FlowTypes
  <2>4. d = "expired" => now >= Opened[t] + Timeout
    <3> SUFFICES ASSUME d = "expired" PROVE now >= Opened[t] + Timeout
      OBVIOUS
    <3>1. PICK h \in Handles : handles[h].token = t /\ now >= handles[h].deadline
      BY <1>5
    <3>2. handles[h].deadline = handles[h].made + Timeout /\ Last(t) = handles[h].made
      BY <1>0, <1>1, <3>1 DEF HandleInv
    <3> QED
      BY <3>1, <3>2 DEF Opened
  <2> QED
    BY <1>5, <2>1, <2>2, <2>3, <2>4 DEF Abstract!Close, Opened, Told
<1>6. Abstract!Decisions = Decisions
  BY DEF Abstract!Decisions, Decisions
<1> QED
  BY <1>3, <1>4, <1>5, <1>6, OnceSteps DEF Abstract!OnceNext

(* While every call id is sent once and the daemon does not restart, the   *)
(* workflow opens each token once, decides it once, and lets it expire no  *)
(* sooner than Timeout after it was opened.                                *)
THEOREM DefersOnce ==
    ASSUME SingleUse, MaxRestarts = 0
    PROVE  Spec => ImplementsDeferOnce
<1> DEFINE Inv == IInv /\ OnceInv
<1>1. Init => Inv
  BY InvInit, OnceInit
<1>2. Inv /\ [Next]_vars => Inv'
  <2>1. ASSUME OnceInv, UNCHANGED vars PROVE OnceInv'
    BY <2>1 DEF vars, flowVars, reqVars, envVars, OnceInv, HandleInv, CallerInv, Unknown, Handles
  <2> QED
    BY <2>1, InvStep, HandleStep, CallerStep DEF IInv, OnceInv
<1>3. Inv /\ Inv' /\ [Next]_vars => Abstract!OnceNext \/ UNCHANGED <<now, Opened, Told>>
  <2>1. ASSUME UNCHANGED vars PROVE UNCHANGED <<now, Opened, Told>>
    BY <2>1 DEF vars, flowVars, envVars, Opened, Told, Last, Handles, Status
  <2> QED
    BY <2>1, AbstractStep DEF IInv, OnceInv, TypeOK
<1>4. Inv /\ Inv' /\ [Next]_vars => [Abstract!OnceNext]_<<now, Told, Opened>>
  BY <1>3
<1> QED
  BY <1>1, <1>2, <1>4, AbstractInit, PTL DEF Spec, ImplementsDeferOnce, Abstract!OnceSpec, Opened, Told
===============================================================================
