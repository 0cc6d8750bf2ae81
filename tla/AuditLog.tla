------------------------------- MODULE AuditLog -------------------------------
(***************************************************************************)
(* What the audit trail promises to whoever receives a decision: a call is *)
(* answered only when its record is durable, and a record that an answer   *)
(* was given for is never lost afterwards, whatever fails or restarts.     *)
(* Records of calls that were never answered may disappear in a crash.     *)
(*                                                                         *)
(* This is the abstract specification AuditChain is checked against.       *)
(***************************************************************************)

CONSTANT Record      \* identities of decision records

VARIABLES
    durable,         \* records a reader of the log finds
    answered         \* records whose decision was returned to the caller

logVars == <<durable, answered>>

LogInit ==
    /\ durable = {}
    /\ answered = {}

(* One fsync may make several records durable at once. *)
Persist(S) ==
    /\ S # {}
    /\ durable' = durable \cup S
    /\ UNCHANGED answered

Return(r) ==
    /\ r \in durable
    /\ answered' = answered \cup {r}
    /\ UNCHANGED durable

(* Only what nobody was told about may be lost. *)
Forget(S) ==
    /\ S # {}
    /\ S \cap answered = {}
    /\ durable' = durable \ S
    /\ UNCHANGED answered

LogNext ==
    \/ \E S \in SUBSET Record : Persist(S) \/ Forget(S)
    \/ \E r \in Record : Return(r)

LogSpec == LogInit /\ [][LogNext]_logVars
===============================================================================
