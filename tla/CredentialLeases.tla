---------------------------- MODULE CredentialLeases ----------------------------
(***************************************************************************)
(* The credential a permitted call is given: the plan of                   *)
(* Pipeline.Evaluate [8.5], the router (core/credential/router.go), the    *)
(* backends' Fetch and Revoke (vault.go, aws.go, gcp.go, azure.go,         *)
(* broker.go), the injection and the release, the record and the answer,   *)
(* and the tool that runs afterwards.  A secret store answers or not, and  *)
(* a request may have had its effect there although no answer came back.   *)
(***************************************************************************)
EXTENDS Integers, Sequences, FiniteSets

CONSTANTS
    Borrowers,      \* goroutines that evaluate permitted calls
    LeaseTools,     \* tool -> the credential tags of its metadata
    CallFlags,      \* the credential arguments a call may carry
    Routed,         \* tool -> the backends Resolve may return for it
    MaxBorrowed,    \* bound on calls
    TokenLife, MaxLeaseClock    \* Azure's access token and time

(* What a backend is like: "env" knows no secret, "static" hands out a     *)
(* stored secret, "azure" too, behind an access token, and "dynamic" makes *)
(* a secret with a lease.                                                  *)
BackendKinds == {"env", "static", "azure", "dynamic"}

ASSUME LeaseAssumption ==
    /\ \A t \in DOMAIN LeaseTools : LeaseTools[t] \subseteq {"broker", "required", "scope"}
    /\ CallFlags \subseteq SUBSET {"broker", "required", "scope"}
    /\ Routed \in [DOMAIN LeaseTools -> SUBSET (BackendKinds \cup {"none"}) \ {{}}]
    /\ MaxBorrowed \in Nat /\ TokenLife \in Nat /\ MaxLeaseClock \in Nat

VARIABLES
    borrower,   \* each goroutine's call
    lease,      \* serial number -> state of a lease at the dynamic store
    token,      \* AzureKeyVaultBroker.tokenExp, zero for none
    leaseNow,
    leased       \* calls answered: what they were given and recorded

leaseVars == <<borrower, lease, token, leaseNow, leased>>

Idle == [at |-> "idle"]
NoCredential == [kind |-> "none", lease |-> 0]

LeasesInit ==
    /\ borrower = [b \in Borrowers |-> Idle]
    /\ lease = <<>> /\ token = 0 /\ leaseNow = 0 /\ leased = <<>>

(* credentialBrokerPlan: from the tool's tags and the call's arguments; a  *)
(* scope asks for a credential only as a tag.                              *)
Plan(tags, flags) ==
    [use |-> tags # {} \/ flags \cap {"broker", "required"} # {}, required |-> "required" \in tags \cup flags]

Started == Len(leased) + Cardinality({b \in Borrowers : borrower[b] # Idle})

GoTo(b, at) == borrower' = [borrower EXCEPT ![b].at = at]

(* A call the rules permit; without a route there is no backend to ask.    *)
PermitCredential(b) ==
    /\ borrower[b] = Idle /\ Started < MaxBorrowed
    /\ \E t \in DOMAIN LeaseTools, f \in CallFlags : \E k \in Routed[t] :
         LET plan == Plan(LeaseTools[t], f) IN
         borrower' = [borrower EXCEPT ![b] =
            [at |-> IF ~plan.use THEN "record"
                    ELSE CASE k = "none" -> "failed" [] k = "azure" -> "auth" [] OTHER -> "fetch",
             required |-> plan.required, kind |-> k, got |-> NoCredential, injected |-> NoCredential,
             effect |-> "PERMIT"]]
    /\ UNCHANGED <<lease, token, leaseNow, leased>>

(* ensureToken: the token is kept until a minute before it expires.        *)
EnsureToken(b) ==
    /\ borrower[b].at = "auth"
    /\ \/ leaseNow < token /\ GoTo(b, "fetch") /\ UNCHANGED token
       \/ leaseNow >= token /\ GoTo(b, "fetch") /\ token' = leaseNow + TokenLife
       \/ leaseNow >= token /\ GoTo(b, "failed") /\ UNCHANGED token
    /\ UNCHANGED <<lease, leaseNow, leased>>

(* Fetch: a refusal, an answer lost or without a secret that can be read,  *)
(* or a credential.  The store has made a lease in the last two cases.     *)
Issue == IF lease = <<>> THEN 1 ELSE Len(lease) + 1

Fetch(b) ==
    LET k == borrower[b].kind
        got == [kind |-> k, lease |-> IF k = "dynamic" THEN Issue ELSE 0]
        issued == IF k = "dynamic" THEN Append(lease, "live") ELSE lease
    IN
    /\ borrower[b].at = "fetch"
    /\ \/ k # "env" /\ GoTo(b, "failed") /\ UNCHANGED lease
       \/ k = "dynamic" /\ GoTo(b, "failed") /\ lease' = Append(lease, "unknown")
       \/ borrower' = [borrower EXCEPT ![b] = [@ EXCEPT !.at = "inject", !.got = got]] /\ lease' = issued
    /\ UNCHANGED <<token, leaseNow, leased>>

(* A call that requires a credential is refused without one; another goes  *)
(* on without.                                                             *)
FetchFailed(b) ==
    LET c == borrower[b] IN
    /\ c.at = "failed"
    /\ borrower' = [borrower EXCEPT ![b] =
         [c EXCEPT !.at = "record", !.effect = IF c.effect = "PERMIT" /\ c.required THEN "DENY" ELSE c.effect]]
    /\ UNCHANGED <<lease, token, leaseNow, leased>>

(* Into the canonical copy of the arguments, which Evaluate made for       *)
(* itself and does not return.                                             *)
Inject(b) ==
    /\ borrower[b].at = "inject"
    /\ borrower' = [borrower EXCEPT ![b] = [@ EXCEPT !.at = "release", !.injected = borrower[b].got]]
    /\ UNCHANGED <<lease, token, leaseNow, leased>>

(* Mutant of Release: the lease is kept.                                   *)
ReleaseNothing(b) == borrower[b].at = "release" /\ GoTo(b, "record") /\ UNCHANGED <<lease, token, leaseNow, leased>>

(* Release asks the store to revoke the lease, once, and goes on whatever  *)
(* becomes of the request; other credentials cannot be revoked.            *)
Release(b) ==
    LET n == borrower[b].got.lease IN
    /\ borrower[b].at = "release" /\ GoTo(b, "record")
    /\ IF n = 0 THEN UNCHANGED lease
       ELSE \E outcome \in {"revoked", "unknown"} : lease' = [lease EXCEPT ![n] = outcome]
    /\ UNCHANGED <<token, leaseNow, leased>>

(* The record names the source of what was injected; without a record the  *)
(* answer is a refusal.                                                    *)
RecordLease(b) ==
    LET c == borrower[b] IN
    /\ c.at = "record"
    /\ \E e \in {c.effect, "DENY"} :
         leased' = Append(leased, [effect |-> e, required |-> c.required, source |-> c.injected.kind,
                                 recorded |-> e = c.effect, lease |-> c.injected.lease])
    /\ borrower' = [borrower EXCEPT ![b] = Idle]
    /\ UNCHANGED <<lease, token, leaseNow>>

LeaseTime == leaseNow < MaxLeaseClock /\ leaseNow' = leaseNow + 1 /\ UNCHANGED <<borrower, lease, token, leased>>

LeasesNext ==
    \/ \E b \in Borrowers :
         \/ PermitCredential(b) \/ EnsureToken(b) \/ Fetch(b) \/ FetchFailed(b)
         \/ Inject(b) \/ Release(b) \/ RecordLease(b)
    \/ LeaseTime

LeasesSpec == LeasesInit /\ [][LeasesNext]_leaseVars

-------------------------------------------------------------------------------
(* Properties *)

LeasesTypeOK ==
    /\ \A n \in DOMAIN lease : lease[n] \in {"live", "unknown", "revoked"}
    /\ token \in 0 .. MaxLeaseClock + TokenLife
    /\ \A i \in DOMAIN leased : leased[i].source \in BackendKinds \cup {"none"}

(* No lease is left behind that somebody still knows to be good: it is     *)
(* held by the call it was made for, or its revocation was asked for, or   *)
(* the store's answer was lost; and no lease is held twice.                *)
LeasesAreReturned ==
    /\ \A n \in DOMAIN lease : lease[n] = "live" =>
         \E b \in Borrowers : borrower[b] # Idle /\ borrower[b].got.lease = n
    /\ \A b, c \in Borrowers : borrower[b] # Idle /\ borrower[c] # Idle /\ borrower[b].got.lease # 0
                               /\ borrower[b].got.lease = borrower[c].got.lease => b = c

(* A call that requires a credential is not permitted without one, where   *)
(* the environment's, which is a marker without a value (broker.go:110-117),*)
(* counts as one; and the record of a call that got one names its source.  *)
RequiredIsGiven ==
    \A i \in DOMAIN leased :
       /\ leased[i].effect = "PERMIT" /\ leased[i].required => leased[i].source # "none"
       /\ leased[i].effect = "PERMIT" => leased[i].recorded
       /\ leased[i].lease # 0 => leased[i].source = "dynamic"

LeasesHold == LeasesTypeOK /\ LeasesAreReturned /\ RequiredIsGiven

(* broker.go: a credential is injected "for the duration of the call" and  *)
(* revoked "after the tool call completes".  The tool runs after the call  *)
(* was answered; the lease it was given must be live then.                 *)
LiveWhileToolRuns ==
    \A i \in DOMAIN leased : leased[i].effect = "PERMIT" /\ leased[i].lease # 0 => lease[leased[i].lease] = "live"
===============================================================================
