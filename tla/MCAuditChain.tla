----------------------------- MODULE MCAuditChain -----------------------------
(* The audit chain under three regimes, for TLC: writes that fail, crashes *)
(* whose damage the recovery can see, and agents that wait for an answer.  *)
(* Each behaviour keeps to one of them. The fairness is that of a daemon   *)
(* that does not die, so the liveness properties are about those two.      *)
EXTENDS AuditChain

CONSTANTS
    FirstAgent,     \* the only agent while writes fail or the daemon dies
    FirstWorker,
    FewCalls,       \* bound on the calls while writes fail or the daemon dies
    Deaths          \* bound on the times a daemon that may die does

ASSUME RegimesAssumption ==
    /\ FirstAgent \in Agents /\ FirstWorker \in Workers
    /\ FewCalls \in 0 .. MaxCalls /\ Deaths \in Nat

VARIABLE regime

Failing == INSTANCE AuditChain WITH MaxCalls <- FewCalls

Crashing == INSTANCE AuditChain WITH
               MaxCalls <- FewCalls, MaxCrashes <- Deaths, WriteFaults <- {"nothing", "sync"},
               Tears <- {"payload"}, QueueCap <- 0

Serial == INSTANCE AuditChain WITH
             MaxCrashes <- 0, WriteFaults <- {}, SaveFaults <- FALSE, SerialAgents <- TRUE

OneAgent == \A w \in Workers : job'[w].agent \in {FirstAgent, None}

(* Workers and agents are interchangeable: name the first to be called.    *)
FirstCall == calls = 0 /\ calls' = 1 => job'[FirstWorker].agent = FirstAgent

RegimesInit == regime \in {"failing", "crashing", "serial"} /\ Init

RegimesNext ==
    /\ regime' = regime
    /\ \/ regime = "failing" /\ Failing!Next /\ OneAgent
       \/ regime = "crashing" /\ Crashing!Next /\ OneAgent
       \/ regime = "serial" /\ Serial!Next
    /\ FirstCall

RegimesSpec == RegimesInit /\ [][RegimesNext]_<<regime, vars>> /\ Fairness

(* AnsweredStaysReadable where the log can tell a torn frame: a crash cuts *)
(* payloads, a failed write leaves nothing or a whole frame.               *)
AnsweredStaysReadableInCrash == regime = "crashing" => AnsweredStaysReadable

(* ImplementsAuditLog, in that regime.                                     *)
CrashingImplementsAuditLog ==
    Abstract!LogInit /\ [][regime = "crashing" => Abstract!LogNext]_<<Durable, answered>>

(* ReplayValidates, for agents that wait for the answer before they call   *)
(* again: with two calls of an agent in flight the log's order may differ. *)
ReplayValidatesSerial == regime = "serial" => ReplayValidates

(* StoredInOneLine, for the same agents, when the store takes what it is   *)
(* given: a call answered before the next one is made has its copy coming. *)
StoredInOneLineSerial == regime = "serial" => StoredInOneLine

(* EvaluationEnds, of a daemon that is not killed.                         *)
EvaluationEndsAlive == regime # "crashing" => EvaluationEnds

(* EventuallyStored, of a daemon that is not killed.                       *)
EventuallyStoredAlive == regime # "crashing" => EventuallyStored
===============================================================================
