-------------------------------- MODULE HubPacks --------------------------------
(***************************************************************************)
(* Policy packs from a registry (internal/hub, cmd/faramesh/hub.go), and   *)
(* the digests, signatures and build fingerprints that files are checked   *)
(* against (internal/artifactverify, internal/reprobuild).                 *)
(*                                                                         *)
(* A digest stands for the text it is of: SHA-256 is taken to be injective,*)
(* and a signature to verify for the one text and key it was made with.    *)
(***************************************************************************)
EXTENDS Integers, Sequences, FiniteSets, SequencesExt

CONSTANTS
    Installers,     \* processes that run hub install or hub publish
    HubAnswers,     \* what a registry answers: [name, version, body, sha, tier, signature]
    PackDir,        \* PackInstallDir: a path separator or ".." in a name becomes "_"
    SigningKeys,
    SettingsOf,     \* build fingerprints: functions from a field to its value, "" of none
    MaxInstalls, MaxAttested

(* Who signs has a name: "" stands for a manifest nobody signed.           *)
ASSUME HubAssumption == "" \notin SigningKeys

VARIABLES
    installer,      \* each one's hub install
    packFiles,      \* each pack directory's policy.yaml and manifest.json: "" without one
    validated,      \* [pack, community, signed]: what passed the checks of an install
    installs,       \* hub installs begun
    attested        \* the manifests and signatures made of the files, and the files then

hubVars == <<installer, packFiles, validated, installs, attested>>

-------------------------------------------------------------------------------
(* References, digests and signatures *)

(* ParsePackRef: at the last "@" of a trimmed reference; "latest" is asked  *)
(* for without a version. An "@" at either end is refused. A reference is   *)
(* its parts between the "@".                                              *)
PackRef(parts) ==
    LET n == Len(parts) IN
    IF n = 1 THEN [ok |-> parts # <<"">>, name |-> parts, version |-> "latest"]
    ELSE [ok |-> Last(parts) # "" /\ ~(n = 2 /\ parts[1] = ""), name |-> Front(parts), version |-> Last(parts)]

(* VerifyPolicySignature. *)
SignatureIsGood(body, s) ==
    s.algorithm = "ed25519" /\ s.key \in SigningKeys /\ s.value = <<s.key, body>>

(* Mutant of Validates: a pack with a signature needs no digest.           *)
ValidatesEither(p) ==
    \/ p.sha \in {"", p.body}
    \/ p.signature # <<>> /\ SignatureIsGood(p.body, p.signature[1])
(* ValidatePackPayload: a digest that is given is that of the policy, and a *)
(* signature that is given verifies.                                       *)
Validates(p) ==
    /\ p.sha \in {"", p.body}
    /\ p.signature # <<>> => SignatureIsGood(p.body, p.signature[1])

(* What hub install and hub verify take of what the registry answered.     *)
Installable(p, community, signed) ==
    (p.tier = "community" => community) /\ (signed => p.signature # <<>>) /\ Validates(p)
Verifies(p, signed) == Validates(p) /\ (signed => p.signature # <<>>)

-------------------------------------------------------------------------------
(* hub install *)

HubInit ==
    /\ installer = [i \in Installers |-> [at |-> "idle"]]
    /\ packFiles = [d \in {PackDir[p.name] : p \in HubAnswers} \X {p.version : p \in HubAnswers} |->
                       [policy |-> "", manifest |-> <<>>]]
    /\ validated = {} /\ installs = 0 /\ attested = <<>>

DirOfPack(p) == <<PackDir[p.name], p.version>>

(* Whatever the registry answers to the reference: the name and the        *)
(* version that are installed are those of its answer.                     *)
BeginInstall(i, p, community, signed) ==
    /\ installer[i].at = "idle" /\ installs < MaxInstalls /\ installs' = installs + 1
    /\ IF Installable(p, community, signed)
         THEN /\ installer' = [installer EXCEPT ![i] = [at |-> "policy", pack |-> p]]
              /\ validated' = validated \cup {[pack |-> p, community |-> community, signed |-> signed]}
         ELSE UNCHANGED <<installer, validated>>
    /\ UNCHANGED <<packFiles, attested>>

(* os.WriteFile truncates the file and then writes it. *)
TruncateFile(i) ==
    /\ installer[i].at \in {"policy", "manifest"}
    /\ LET p == installer[i].pack IN
       packFiles' = IF installer[i].at = "policy" THEN [packFiles EXCEPT ![DirOfPack(p)].policy = "torn"]
                    ELSE [packFiles EXCEPT ![DirOfPack(p)].manifest = <<[sha |-> "torn"]>>]
    /\ installer' = [installer EXCEPT ![i].at = IF @ = "policy" THEN "policy text" ELSE "manifest text"]
    /\ UNCHANGED <<validated, installs, attested>>
WritePolicy(i) ==
    /\ installer[i].at = "policy text"
    /\ packFiles' = [packFiles EXCEPT ![DirOfPack(installer[i].pack)].policy = installer[i].pack.body]
    /\ installer' = [installer EXCEPT ![i].at = "manifest"]
    /\ UNCHANGED <<validated, installs, attested>>
WriteManifest(i) ==
    /\ installer[i].at = "manifest text"
    /\ LET p == installer[i].pack IN
       packFiles' = [packFiles EXCEPT ![DirOfPack(p)].manifest =
                        <<[name |-> p.name, version |-> p.version, sha |-> p.body, tier |-> p.tier]>>]
    /\ installer' = [installer EXCEPT ![i] = [at |-> "idle"]]
    /\ UNCHANGED <<validated, installs, attested>>
(* The process is killed, or a write fails. *)
FailInstall(i) ==
    /\ installer[i].at # "idle" /\ installer' = [installer EXCEPT ![i] = [at |-> "idle"]]
    /\ UNCHANGED <<packFiles, validated, installs, attested>>

-------------------------------------------------------------------------------
(* verify manifest-generate, verify manifest; sign file, verify signature *)

PolicyFiles == {d \in DOMAIN packFiles : packFiles[d].policy # ""}

(* BuildManifestV1 of files that exist, in the order of their paths.       *)
BuildManifest(listed) == [d \in listed |-> packFiles[d].policy]

(* Mutant of VerifyManifest: a file that is gone is passed over.           *)
VerifyManifestOfAny(m) == \E d \in DOMAIN m : packFiles[d].policy = m[d]
(* VerifyManifest: each file is there, with the digest listed; an empty    *)
(* list is refused by LoadManifestJSON.                                    *)
VerifyManifest(m) == DOMAIN m # {} /\ \A d \in DOMAIN m : packFiles[d].policy = m[d]

Attest(listed) ==
    /\ Len(attested) < MaxAttested /\ listed # {} /\ listed \subseteq PolicyFiles
    /\ attested' = Append(attested, [manifest |-> BuildManifest(listed), signer |-> "", files |-> packFiles])
    /\ UNCHANGED <<installer, packFiles, validated, installs>>

(* SignFile signs the text of the file; VerifyFileSignature reads it again. *)
SignFile(d, k) ==
    /\ Len(attested) < MaxAttested /\ d \in PolicyFiles
    /\ attested' = Append(attested, [manifest |-> <<d, packFiles[d].policy>>, signer |-> k, files |-> packFiles])
    /\ UNCHANGED <<installer, packFiles, validated, installs>>
VerifyFile(a, k) == a.signer = k /\ packFiles[a.manifest[1]].policy = a.manifest[2]

(* reprobuild.Compare: only the fields that are not empty in what is       *)
(* expected are compared; a setting that is expected is compared even      *)
(* with a value of "".                                                     *)
Mismatches(expected, actual) ==
    {f \in DOMAIN expected : (expected[f] # "" \/ f \notin {"go", "path", "version", "sum"})
        /\ expected[f] # (IF f \in DOMAIN actual THEN actual[f] ELSE "")}

HubNext ==
    \/ \E i \in Installers : \/ TruncateFile(i) \/ WritePolicy(i) \/ WriteManifest(i) \/ FailInstall(i)
                             \/ \E p \in HubAnswers, c, s \in BOOLEAN : BeginInstall(i, p, c, s)
    \/ \E listed \in SUBSET PolicyFiles : Attest(listed)
    \/ \E d \in PolicyFiles, k \in SigningKeys : SignFile(d, k)
HubSpec == HubInit /\ [][HubNext]_hubVars

-------------------------------------------------------------------------------
(* Properties *)

(* hub.go:149-156, client.go:165: whatever installs run at once, and       *)
(* wherever they are killed, a policy on disk is torn or one that passed:  *)
(* it had its digest and a good signature, if any, a community pack was    *)
(* acknowledged, and hub verify says the same.                             *)
InstalledIsValid ==
    /\ \A v \in validated :
        /\ v.pack.sha # "" => v.pack.sha = v.pack.body
        /\ v.pack.signature # <<>> => SignatureIsGood(v.pack.body, v.pack.signature[1])
        /\ v.signed => v.pack.signature # <<>>
        /\ Verifies(v.pack, v.signed)
        /\ v.pack.tier = "community" => v.community
    /\ \A d \in DOMAIN packFiles : packFiles[d].policy \notin {"", "torn"} =>
        \E v \in validated : DirOfPack(v.pack) = d /\ v.pack.body = packFiles[d].policy

(* manifest.go:42: a manifest verifies as long as none of its files has    *)
(* changed, and a signature as long as its file has not, for its key.      *)
AttestationsHold ==
    \A n \in DOMAIN attested :
        LET a == attested[n] Same(d) == packFiles[d].policy = a.files[d].policy IN
        IF a.signer = "" THEN VerifyManifest(a.manifest) <=> \A d \in DOMAIN a.manifest : Same(d)
        ELSE \A k \in SigningKeys : VerifyFile(a, k) <=> k = a.signer /\ Same(a.manifest[1])

(* verify.go:32: the fingerprint a binary emits matches that binary; and    *)
(* what matches one binary in every field matches no other.                *)
FingerprintsMatch ==
    \A f, g \in SettingsOf :
        /\ Mismatches(f, f) = {}
        /\ Mismatches(f, g) = {} /\ Mismatches(g, f) = {} =>
              \A x \in DOMAIN f \cap DOMAIN g : f[x] # "" /\ g[x] # "" => f[x] = g[x]

(* paths.go:31: a reference that is taken names a pack and a version.       *)
PackRefsAreRead ==
    \A parts \in {s \in SeqOf({"", "p", "1"}, 3) : s # <<>>} :
        PackRef(parts).ok => PackRef(parts).version # "" /\ PackRef(parts).name # <<"">>

HubHolds == InstalledIsValid /\ AttestationsHold /\ FingerprintsMatch /\ PackRefsAreRead

(* install.go:10: the manifest next to a policy is the policy's.           *)
ManifestIsOfPolicy ==
    \A d \in DOMAIN packFiles :
        (\A i \in Installers : installer[i].at = "idle") /\ packFiles[d].manifest # <<>> =>
            packFiles[d].manifest[1].sha = packFiles[d].policy
===============================================================================
