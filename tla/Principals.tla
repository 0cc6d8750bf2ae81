------------------------------- MODULE Principals -------------------------------
(***************************************************************************)
(* Whose call it is (core/principal): the workload identity the daemon     *)
(* detects and the pipeline falls back on, elevation to a higher tier for  *)
(* a while, revocation, trust documents between organisations, and the     *)
(* cache of the identity providers (principal/idp).                        *)
(*                                                                         *)
(* The four share a clock and nothing else.                                *)
(***************************************************************************)
EXTENDS Integers, Sequences, FiniteSets, SequencesExt

CONSTANTS
    Ids,            \* principal ids
    Callers,        \* goroutines that evaluate calls
    Environments,   \* environments a daemon may start in: sets of variables
    MaxTTL,         \* longest elevation asked for
    Orgs, DocIDs, TrustDocs,    \* organisations, ids and trust documents
    Tokens, KeyOf,  \* bearer tokens, and the key each is cached under
    CacheTTL,
    MaxClock, MaxGrants, MaxDocs, MaxVerifications

(* An empty id, or the name of no organisation, means that none is given.  *)
ASSUME PrincipalsAssumption ==
    /\ "" \notin Ids /\ "" \notin Orgs
    /\ MaxTTL \in Nat /\ CacheTTL \in Nat /\ MaxClock \in Nat
    /\ \A d \in TrustDocs : {"id", "from", "to", "tools", "depth", "ends", "revoked"} \subseteq DOMAIN d

VARIABLES
    now,
    workload,       \* the provider the daemon started with, "none" without
    grants,         \* ElevationEngine.grants: when each id's grant ends, -1 without one
    given,          \* every grant ever made: <<id, end>>
    revokedIds,     \* RevocationManager.revoked
    caller,         \* each caller's evaluation, or the last one it ended
    docs, trustMap, \* FederationRegistry
    cache,          \* ProviderChain.cache: key -> [token, at, expires]
    verifier,       \* a lookup that missed, once the provider answered
    identified      \* identities handed out

elevationPart == <<workload, grants, given, revokedIds, caller>>
trustPart == <<docs, trustMap>>
tokenPart == <<cache, verifier, identified>>
principalVars == <<now, elevationPart, trustPart, tokenPart>>

-------------------------------------------------------------------------------
(* The workload's identity *)

Present(env, names) == env \cap names # {}

(* DetectWorkloadProvider, and daemon.start, which asks whether it is      *)
(* available. A metadata service may or may not answer.                    *)
Detected(env) ==
    IF "FARAMESH_SPIFFE_SOCKET_PATH" \in env THEN "spiffe"
    ELSE IF Present(env, {"AWS_WEB_IDENTITY_TOKEN_FILE", "AWS_CONTAINER_CREDENTIALS_RELATIVE_URI"}) THEN "aws"
    ELSE IF Present(env, {"GOOGLE_APPLICATION_CREDENTIALS", "GCE_METADATA_HOST"}) THEN "gcp"
    ELSE IF Present(env, {"AZURE_CLIENT_ID", "MSI_ENDPOINT"}) THEN "azure"
    ELSE IF "GITHUB_ACTIONS" \in env THEN "github" ELSE "none"
Availability(env) ==
    CASE Detected(env) \in {"none", "spiffe"} -> {TRUE}
      [] "AWS_CONTAINER_CREDENTIALS_RELATIVE_URI" \in env /\ Detected(env) = "aws" -> {TRUE}
      [] "MSI_ENDPOINT" \in env /\ Detected(env) = "azure" -> {TRUE}
      [] Detected(env) = "github" -> {{"ACTIONS_ID_TOKEN_REQUEST_URL", "ACTIONS_ID_TOKEN_REQUEST_TOKEN"} \subseteq env}
      [] OTHER -> BOOLEAN

(* What Identity answers: an id, "" for an empty one, "error".             *)
Identity(w) ==
    LET env == w.env
        Of(name) == IF name \in env THEN "workload" ELSE ""
        OrError(name) == IF name \in env THEN "workload" ELSE "error"
    IN
    CASE w.provider = "spiffe" -> {OrError("FARAMESH_SPIFFE_ID")}
      [] w.provider = "aws" ->
           IF "AWS_WEB_IDENTITY_TOKEN_FILE" \in env THEN {Of("AWS_ROLE_ARN")}
           ELSE {"workload"} \cup IF "AWS_CONTAINER_CREDENTIALS_RELATIVE_URI" \in env THEN {} ELSE {"error"}
      [] w.provider = "gcp" -> {"workload", "error"}
      [] w.provider = "azure" -> {OrError("AZURE_CLIENT_ID")}
      [] w.provider = "github" -> {OrError("GITHUB_REPOSITORY")}
      [] OTHER -> {"error"}

PrincipalInit ==
    /\ now = 0
    /\ \E env \in Environments : \E there \in Availability(env) :
         workload = [env |-> env, provider |-> IF there THEN Detected(env) ELSE "none"]
    /\ grants = [i \in Ids |-> -1] /\ given = {} /\ revokedIds = {}
    /\ caller = [c \in Callers |-> [at |-> "idle"]]
    /\ docs = <<>> /\ trustMap = <<>>
    /\ cache = <<>> /\ verifier = [c \in Callers |-> [at |-> "idle"]] /\ identified = <<>>

Passing == now < MaxClock /\ now' = now + 1 /\ UNCHANGED <<elevationPart, trustPart, tokenPart>>

-------------------------------------------------------------------------------
(* Elevation and revocation *)

(* RequestElevation; the daemon's engine has no policy of transitions.     *)
RequestElevation(i, ttl) ==
    /\ Cardinality(given) < MaxGrants
    /\ given' = given \cup {<<i, now + ttl>>}
    /\ grants' = [grants EXCEPT ![i] = now + ttl]
    /\ UNCHANGED <<now, workload, revokedIds, caller, trustPart, tokenPart>>

Revoke(i) ==
    /\ i \notin revokedIds /\ revokedIds' = revokedIds \cup {i}
    /\ UNCHANGED <<now, workload, grants, given, caller, trustPart, tokenPart>>

(* The principal of a request: an id, claimed or verified by some method.  *)
Claims == {k \in [id : Ids, verified : BOOLEAN, trusted : BOOLEAN] : k.trusted => k.verified}
Nobody == [id |-> "", verified |-> FALSE, trusted |-> FALSE]

(* Pipeline.Evaluate: an unverified principal gives way to the workload's. *)
Principal(claim) ==
    {IF claim.verified \/ id \in {"", "error"} THEN claim
     ELSE [id |-> id, verified |-> TRUE, trusted |-> TRUE] : id \in Identity(workload)}

Ended(c, p, tier) ==
    caller' = [caller EXCEPT ![c] = [at |-> "done", id |-> p.id, tier |-> tier, began |-> caller[c].began,
                                     out |-> caller[c].out]]

BeginCall(c, claim) ==
    /\ caller[c].at \in {"idle", "done"}
    /\ \E p \in Principal(claim) :
         caller' = [caller EXCEPT ![c] = [at |-> "gates", who |-> p, began |-> now,
                                          out |-> revokedIds, grant |-> -1, looked |-> now]]
    /\ UNCHANGED <<now, workload, grants, given, revokedIds, trustPart, tokenPart>>

(* Mutant of PassGates: an unverified principal need not be looked up.     *)
PassGatesOfVerified(c) ==
    /\ caller[c].at = "gates"
    /\ LET p == caller[c].who IN
       IF p.verified /\ (~p.trusted \/ p.id \in revokedIds)
         THEN Ended(c, p, "denied")
         ELSE IF p.id \notin Ids THEN Ended(c, p, "own")
         ELSE caller' = [caller EXCEPT ![c].at = "grant", ![c].grant = grants[p.id], ![c].looked = now]
    /\ UNCHANGED <<now, workload, grants, given, revokedIds, trustPart, tokenPart>>

(* The verification source and revocation gates; then ActiveGrant reads    *)
(* the grant under the read lock.                                          *)
PassGates(c) ==
    /\ caller[c].at = "gates"
    /\ LET p == caller[c].who IN
       IF (p.verified /\ ~p.trusted) \/ (p.id # "" /\ p.id \in revokedIds)
         THEN Ended(c, p, "denied")
         ELSE IF p.id \notin Ids THEN Ended(c, p, "own")
         ELSE caller' = [caller EXCEPT ![c].at = "grant", ![c].grant = grants[p.id], ![c].looked = now]
    /\ UNCHANGED <<now, workload, grants, given, revokedIds, trustPart, tokenPart>>

(* What it read has run out: it deletes the id's grant, under the write    *)
(* lock, whatever that is by now.                                          *)
FinishGrant(c) ==
    /\ caller[c].at = "grant"
    /\ LET p == caller[c].who IN
       IF caller[c].grant # -1 /\ caller[c].looked > caller[c].grant
         THEN grants' = [grants EXCEPT ![p.id] = -1] /\ Ended(c, p, "own")
         ELSE Ended(c, p, IF caller[c].grant = -1 THEN "own" ELSE "elevated") /\ UNCHANGED grants
    /\ UNCHANGED <<now, workload, given, revokedIds, trustPart, tokenPart>>

ElevationNext ==
    \/ Passing
    \/ \E i \in Ids : Revoke(i) \/ \E ttl \in 1 .. MaxTTL : RequestElevation(i, ttl)
    \/ \E c \in Callers : \/ \E claim \in Claims \cup {Nobody} : BeginCall(c, claim)
                          \/ PassGates(c) \/ FinishGrant(c)

-------------------------------------------------------------------------------
(* Trust between organisations *)

(* A document: [id, from, to, tools, depth, ends]. Register keeps it under *)
(* its id, and lists the id under its organisations once more.             *)
Register(d) ==
    /\ Len(trustMap) < MaxDocs
    /\ d.id \in DocIDs /\ d.from # d.to
    /\ docs' = [i \in DOMAIN docs \cup {d.id} |-> IF i = d.id THEN [d EXCEPT !.revoked = FALSE] ELSE docs[i]]
    /\ trustMap' = Append(trustMap, [from |-> d.from, to |-> d.to, id |-> d.id])
    /\ UNCHANGED <<now, elevationPart, tokenPart>>
RevokeDocument(i) ==
    /\ i \in DOMAIN docs /\ docs' = [docs EXCEPT ![i].revoked = TRUE]
    /\ UNCHANGED <<now, elevationPart, trustMap, tokenPart>>
(* Cleanup deletes documents and leaves their ids in the lists.            *)
Cleanup ==
    /\ docs' = [i \in {j \in DOMAIN docs : docs[j].ends >= now} |-> docs[i]]
    /\ UNCHANGED <<now, elevationPart, trustMap, tokenPart>>

ValidDoc(d) == ~d.revoked /\ now < d.ends

(* CheckTrust: the first listed document that is valid and has the tool.   *)
Usable(from, to, tool) ==
    {n \in DOMAIN trustMap :
        LET e == trustMap[n] IN
        /\ e.from = from /\ e.to = to /\ e.id \in DOMAIN docs
        /\ ValidDoc(docs[e.id]) /\ tool \in docs[e.id].tools}
TrustedBy(from, to, tool) == Usable(from, to, tool) # {}
CheckTrust(from, to, tool) ==
    LET first == CHOOSE n \in Usable(from, to, tool) : \A m \in Usable(from, to, tool) : n <= m
    IN  docs[trustMap[first].id]

(* ValidateDelegationChain: each hop between known organisations.          *)
ChainIsValid(chain, tool) ==
    \A n \in 2 .. Len(chain) :
        LET from == chain[n - 1] to == chain[n] IN
        from = to \/ from = "" \/ to = "" \/
        /\ TrustedBy(from, to, tool)
        /\ CheckTrust(from, to, tool).depth > 0 => n <= CheckTrust(from, to, tool).depth

TrustNext ==
    \/ Passing \/ Cleanup
    \/ \E d \in TrustDocs : Register(d)
    \/ \E i \in DocIDs : RevokeDocument(i)

-------------------------------------------------------------------------------
(* The cache of verified tokens *)

HandOut(t, entry) ==
    identified' = Append(identified, [token |-> t, of |-> entry.token, verified |-> entry.at, at |-> now,
                                      expires |-> entry.expires])

(* Mutant of Fresh: an entry is never too old.                             *)
FreshAlways(k) == k \in DOMAIN cache
Fresh(k) == k \in DOMAIN cache /\ now - cache[k].at < CacheTTL

(* VerifyToken: a hit is handed out as it is.                              *)
LookUp(c, t) ==
    /\ verifier[c].at = "idle" /\ Len(identified) < MaxVerifications
    /\ IF Fresh(KeyOf[t])
         THEN HandOut(t, cache[KeyOf[t]]) /\ UNCHANGED verifier
         ELSE verifier' = [verifier EXCEPT ![c] = [at |-> "asking", token |-> t]] /\ UNCHANGED identified
    /\ UNCHANGED <<now, cache, elevationPart, trustPart>>

(* A provider verified the token, which is good for a while yet; or none   *)
(* of them did.                                                            *)
Verify(c) ==
    /\ verifier[c].at = "asking"
    /\ \/ \E life \in 1 .. CacheTTL :
            LET entry == [token |-> verifier[c].token, at |-> now, expires |-> now + life] IN
            /\ cache' = [k \in DOMAIN cache \cup {KeyOf[entry.token]} |->
                            IF k = KeyOf[entry.token] THEN entry ELSE cache[k]]
            /\ HandOut(entry.token, entry)
       \/ UNCHANGED <<cache, identified>>
    /\ verifier' = [verifier EXCEPT ![c] = [at |-> "idle"]]
    /\ UNCHANGED <<now, elevationPart, trustPart>>

CleanupCache ==
    /\ cache' = [k \in {j \in DOMAIN cache : now - cache[j].at <= CacheTTL} |-> cache[k]]
    /\ UNCHANGED <<now, verifier, identified, elevationPart, trustPart>>

TokenNext ==
    \/ Passing \/ CleanupCache
    \/ \E c \in Callers : Verify(c) \/ \E t \in Tokens : LookUp(c, t)

-------------------------------------------------------------------------------
(* Properties *)

(* A call is evaluated at the elevated tier only while a grant of its      *)
(* principal had not run out when the call began, or was made since.       *)
ElevatedIsGranted ==
    \A c \in Callers : caller[c].at = "done" /\ caller[c].tier = "elevated" =>
        \E g \in given : g[1] = caller[c].id /\ caller[c].began <= g[2]

(* Once a revocation has returned no call of that principal gets past the  *)
(* gates, verified or not, elevated or not.                                *)
RevokedIsDenied ==
    \A c \in Callers : caller[c].at = "done" /\ caller[c].id \in caller[c].out => caller[c].tier = "denied"

(* Two documents of one id are between the same organisations.             *)
DocIDsAreTheirs == \A a, b \in DOMAIN trustMap :
    trustMap[a].id = trustMap[b].id => trustMap[a].from = trustMap[b].from /\ trustMap[a].to = trustMap[b].to

(* As long as no id is registered for other organisations, whom a tool is  *)
(* trusted to has a document of that organisation for it in force; and a   *)
(* revoked or expired one stops the chain that had no other.               *)
TrustIsDocumented ==
    DocIDsAreTheirs => \A from, to \in Orgs : \A d \in TrustDocs : \A tool \in d.tools :
        ChainIsValid(<<from, to>>, tool) /\ from # to =>
            \E i \in DOMAIN docs : /\ docs[i].from = from /\ docs[i].to = to
                                   /\ tool \in docs[i].tools /\ ValidDoc(docs[i])

(* An identity is at most as old as an entry may get, and where tokens are *)
(* cached under keys of their own it is that of the token.                 *)
IdentitiesAreFresh ==
    \A n \in DOMAIN identified :
        /\ identified[n].at - identified[n].verified < CacheTTL
        /\ (\A t, u \in Tokens : KeyOf[t] = KeyOf[u] => t = u) => identified[n].of = identified[n].token

PrincipalsHold == ElevatedIsGranted /\ RevokedIsDenied /\ TrustIsDocumented /\ IdentitiesAreFresh

(* A grant that has not run out is there. Deleting one that had may delete *)
(* the one made meanwhile.                                                 *)
GrantsLast == \A g \in given : now <= g[2] => grants[g[1]] # -1
(* A trust document counts for the organisations it names only.            *)
TrustIsNamed ==
    \A from, to \in Orgs : \A d \in TrustDocs : \A tool \in d.tools :
        from # to /\ TrustedBy(from, to, tool) =>
            CheckTrust(from, to, tool).from = from /\ CheckTrust(from, to, tool).to = to
(* A token is answered with its own identity, while that is valid.         *)
IdentityIsTheTokens ==
    \A n \in DOMAIN identified :
        identified[n].of = identified[n].token /\ identified[n].at < identified[n].expires
===============================================================================
