----------------------------- MODULE SetupScript -----------------------------
(***************************************************************************)
(* setup.ps1: the script that creates the Entra registrations, the key     *)
(* vault and the local configuration, and deploys on request.  It may be   *)
(* stopped between any two commands and run again; all it remembers is the *)
(* state file.  A command whose output is discarded may fail and the       *)
(* script goes on, since the exit code of az does not end a PowerShell     *)
(* script; where the output is needed StrictMode ends it.                  *)
(***************************************************************************)
EXTENDS Integers, Sequences

CONSTANTS MaxRuns,     \* bound on the runs of the script
          MaxFailures  \* bound on the commands that fail

ASSUME SetupAssumption == MaxRuns \in Nat /\ MaxFailures \in Nat

Apps == {"obo", "bff", "s2s"}  \* the three registrations
Exposing == {"obo", "bff"}     \* those with a scope and a client secret

VARIABLES pc,          \* the next command, 0 when no script runs
          deploying,   \* the DeployToAzure switch of this run
          suffix, obj, scope,              \* $state: its suffix, the ObjIds
                                           \* and the scope and role ids
          fileSuffix, fileObj, fileScope,  \* .setup-state.json, 0 is absent
          held,        \* $oboSecret and $bffSecret of this run
          fresh,       \* the next random id
          vaults,      \* suffixes of the key vaults
          certs,       \* the certificate of each vault: <<suffix, id>>
          made,        \* how many registrations of each name exist
          published,   \* scope ids (for obo: and role id) in the manifests
          secrets,     \* client secrets that are valid
          granted,     \* obo's ids in permissions, assignments, preauthorization
          key,         \* keyCredentials of s2s: a certificate
          spa,         \* SPA redirect URIs of bff
          settled,     \* commands without an id whose effect is in place
          localSecret, \* dotnet user-secrets of PartnerAPI and of the BFF
          cloudSecret, \* ClientSecret of the App Service
          runs, failures,
          clean        \* history: no command of this run has failed

memory == <<suffix, obj, scope>>
file == <<fileSuffix, fileObj, fileScope>>
run == <<deploying, held, runs, clean, failures>>
vault == <<vaults, certs>>
entra == <<made, published, secrets, granted, key, spa>>
installed == <<localSecret, cloudSecret>>
vars == <<pc, memory, file, run, fresh, vault, entra, settled, installed>>

-----------------------------------------------------------------------------
Script == <<
  <<"vault", "create">>, <<"vault", "save">>,
  <<"obo", "find">>, <<"obo", "save">>, <<"obo", "uri">>, <<"obo", "ids">>,
  <<"obo", "publish">>, <<"obo", "secret">>, <<"obo", "sp">>,
  <<"bff", "find">>, <<"bff", "save">>, <<"bff", "uri">>, <<"bff", "ids">>,
  <<"bff", "publish">>, <<"bff", "redirects">>, <<"bff", "secret">>,
  <<"bff", "scope">>, <<"bff", "role">>, <<"bff", "graph">>,
  <<"obo", "preauthorize">>, <<"bff", "sp">>, <<"bff", "consent">>,
  <<"s2s", "find">>, <<"s2s", "save">>, <<"s2s", "role">>, <<"s2s", "sp">>,
  <<"s2s", "assign">>, <<"s2s", "consent">>,
  <<"vault", "cert">>, <<"s2s", "key">>,
  <<"obo", "local">>, <<"bff", "local">>, <<"web", "env">>,
  <<"cloud", "api">>, <<"cloud", "site">>, <<"cloud", "upload">> >>

Finished == Len(Script) + 1
Running == pc \in DOMAIN Script
At(s) == Running /\ Script[pc] = s

(* The deployment is the tail of the script.                               *)
Advance ==
  pc' = IF At(<<"web", "env">>) /\ ~deploying THEN Finished ELSE pc + 1

(* Commands that put something in place whatever was there before.         *)
Plain == {<<"obo", "uri">>, <<"bff", "uri">>, <<"bff", "graph">>,
          <<"bff", "consent">>, <<"s2s", "consent">>, <<"web", "env">>,
          <<"cloud", "upload">>}
Principals == {<<r, "sp">> : r \in Apps}
Grants == {<<"bff", "scope">>, <<"bff", "role">>, <<"obo", "preauthorize">>,
           <<"s2s", "role">>, <<"s2s", "assign">>}

(* Commands whose output nobody looks at, or not at once.                  *)
Unchecked ==
  (Plain \ {<<"web", "env">>}) \union Grants
    \union {<<r, c>> : r \in Exposing, c \in {"publish", "secret"}}
    \union {<<"vault", "create">>, <<"bff", "redirects">>, <<"vault", "cert">>,
            <<"s2s", "key">>, <<"cloud", "api">>, <<"cloud", "site">>}

NoId == [r \in Apps |-> 0]

CertOf(v) == {c \in certs : c[1] = v}

Init ==
  /\ pc = 0
  /\ deploying = FALSE
  /\ suffix = 0 /\ obj = NoId /\ scope = NoId
  /\ fileSuffix = 0 /\ fileObj = NoId /\ fileScope = NoId
  /\ held = NoId
  /\ fresh = 1
  /\ vaults = {} /\ certs = {}
  /\ made = NoId
  /\ published = NoId
  /\ secrets = [r \in Apps |-> {}]
  /\ granted = [g \in Grants |-> {}]
  /\ key = <<0, 0>>
  /\ spa = {}
  /\ settled = {}
  /\ localSecret = NoId /\ cloudSecret = 0
  /\ runs = 0 /\ failures = 0 /\ clean = TRUE

(* Save-State writes all of $state.                                        *)
Save == fileSuffix' = suffix' /\ fileObj' = obj' /\ fileScope' = scope'

(***************************************************************************)
(* A run begins with the state file, or without one with a new suffix; it  *)
(* may end after any command.                                              *)
(***************************************************************************)
BeginRun(deploy) ==
  /\ ~Running
  /\ runs < MaxRuns
  /\ runs' = runs + 1
  /\ pc' = 1
  /\ deploying' = deploy
  /\ clean' = TRUE
  /\ held' = NoId
  /\ UNCHANGED <<file, failures, vault, entra, settled, installed>>

StartForgetsIds(deploy) ==
  /\ BeginRun(deploy)
  /\ suffix' = IF fileSuffix = 0 THEN fresh ELSE fileSuffix
  /\ obj' = fileObj
  /\ scope' = NoId
  /\ fresh' = fresh + 1

StartForgetsSuffix(deploy) ==
  /\ BeginRun(deploy)
  /\ suffix' = fresh
  /\ obj' = fileObj
  /\ scope' = fileScope
  /\ fresh' = fresh + 1

Start(deploy) ==
  /\ BeginRun(deploy)
  /\ suffix' = IF fileSuffix = 0 THEN fresh ELSE fileSuffix
  /\ obj' = fileObj
  /\ scope' = fileScope
  /\ fresh' = fresh + 1

Stop ==
  /\ Running
  /\ pc' = 0
  /\ UNCHANGED <<memory, file, run, fresh, vault, entra, settled, installed>>

(* Without a certificate there is no key to send, which ends the script.   *)
CommandFails ==
  /\ Running
  /\ Script[pc] \in Unchecked
  /\ At(<<"s2s", "key">>) => CertOf(suffix) # {}
  /\ failures < MaxFailures
  /\ failures' = failures + 1
  /\ clean' = FALSE
  /\ Advance
  /\ UNCHANGED <<memory, file, deploying, held, runs, fresh, vault, entra,
                 settled, installed>>

(***************************************************************************)
(* Steps 2 and 3: the resource group, the key vault with its policy (one   *)
(* command here), then the first Save-State.                               *)
(***************************************************************************)
CreateVault ==
  /\ At(<<"vault", "create">>)
  /\ vaults' = vaults \union {suffix}
  /\ Advance
  /\ UNCHANGED <<memory, file, run, fresh, certs, entra, settled, installed>>

SaveVault ==
  /\ At(<<"vault", "save">>)
  /\ UNCHANGED memory
  /\ Save
  /\ Advance
  /\ UNCHANGED <<run, fresh, vault, entra, settled, installed>>

(***************************************************************************)
(* Steps 4 to 6: the registrations.                                        *)
(***************************************************************************)
FindAppInFile(r) ==
  /\ At(<<r, "find">>)
  /\ IF obj[r] # 0
     THEN UNCHANGED <<obj, made>>
     ELSE /\ made' = [made EXCEPT ![r] = @ + 1]
          /\ obj' = [obj EXCEPT ![r] = made[r] + 1]
  /\ Advance
  /\ UNCHANGED <<suffix, scope, file, run, fresh, vault, published, secrets,
                 granted, key, spa, settled, installed>>

(* By the id in the state file, else by its name, else it is created.      *)
FindApp(r) ==
  /\ At(<<r, "find">>)
  /\ \/ /\ obj[r] # 0
        /\ UNCHANGED <<obj, made>>
     \/ /\ obj[r] = 0 /\ made[r] # 0
        /\ \E k \in 1 .. made[r] : obj' = [obj EXCEPT ![r] = k]
        /\ UNCHANGED made
     \/ /\ obj[r] = 0 /\ made[r] = 0
        /\ made' = [made EXCEPT ![r] = 1]
        /\ obj' = [obj EXCEPT ![r] = 1]
  /\ Advance
  /\ UNCHANGED <<suffix, scope, file, run, fresh, vault, published, secrets,
                 granted, key, spa, settled, installed>>

SaveApp(r) ==
  /\ At(<<r, "save">>)
  /\ UNCHANGED memory
  /\ Save
  /\ Advance
  /\ UNCHANGED <<run, fresh, vault, entra, settled, installed>>

DrawIdsUnsaved(r) ==
  /\ At(<<r, "ids">>)
  /\ scope' = [scope EXCEPT ![r] = IF @ = 0 THEN fresh ELSE @]
  /\ fresh' = fresh + 1
  /\ UNCHANGED <<suffix, obj, file>>
  /\ Advance
  /\ UNCHANGED <<run, vault, entra, settled, installed>>

(* Ids are drawn once and saved before they are sent anywhere.             *)
DrawIds(r) ==
  /\ At(<<r, "ids">>)
  /\ scope' = [scope EXCEPT ![r] = IF @ = 0 THEN fresh ELSE @]
  /\ fresh' = fresh + 1
  /\ UNCHANGED <<suffix, obj>>
  /\ Save
  /\ Advance
  /\ UNCHANGED <<run, vault, entra, settled, installed>>

Publish(r) ==
  /\ At(<<r, "publish">>)
  /\ published' = [published EXCEPT ![r] = scope[r]]
  /\ Advance
  /\ UNCHANGED <<memory, file, run, fresh, vault, made, secrets, granted, key,
                 spa, settled, installed>>

AddSecretReplacing(r) ==
  /\ At(<<r, "secret">>)
  /\ secrets' = [secrets EXCEPT ![r] = {fresh}]
  /\ held' = [held EXCEPT ![r] = fresh]
  /\ fresh' = fresh + 1
  /\ Advance
  /\ UNCHANGED <<memory, file, deploying, runs, clean, failures, vault, made,
                 published, granted, key, spa, settled, installed>>

(* credential reset with --append: a new secret beside the old ones.       *)
AddSecret(r) ==
  /\ At(<<r, "secret">>)
  /\ secrets' = [secrets EXCEPT ![r] = @ \union {fresh}]
  /\ held' = [held EXCEPT ![r] = fresh]
  /\ fresh' = fresh + 1
  /\ Advance
  /\ UNCHANGED <<memory, file, deploying, runs, clean, failures, vault, made,
                 published, granted, key, spa, settled, installed>>

(* The PATCH replaces the list of SPA redirect URIs.                       *)
SetRedirects ==
  /\ At(<<"bff", "redirects">>)
  /\ spa' = {"localhost"}
  /\ Advance
  /\ UNCHANGED <<memory, file, run, fresh, vault, made, published, secrets,
                 granted, key, settled, installed>>

(* Permissions and role assignments add up, preauthorization is replaced.  *)
Grant(g) ==
  /\ At(g)
  /\ g \in Grants
  /\ granted' = [granted EXCEPT ![g] =
       {scope["obo"]} \union IF g = <<"obo", "preauthorize">> THEN {} ELSE @]
  /\ Advance
  /\ UNCHANGED <<memory, file, run, fresh, vault, made, published, secrets, key,
                 spa, settled, installed>>

(* Get-OrCreate-SP, whose result is saved.                                 *)
AddPrincipal(s) ==
  /\ At(s)
  /\ s \in Principals
  /\ settled' = settled \union {s}
  /\ UNCHANGED memory
  /\ Save
  /\ Advance
  /\ UNCHANGED <<run, fresh, vault, entra, installed>>

Put(s) ==
  /\ At(s)
  /\ s \in Plain
  /\ settled' = settled \union {s}
  /\ Advance
  /\ UNCHANGED <<memory, file, run, fresh, vault, entra, installed>>

(***************************************************************************)
(* Step 7: the certificate, and its public key at the registration.        *)
(***************************************************************************)
CreateCertElseSkip ==
  /\ At(<<"vault", "cert">>)
  /\ suffix \in vaults
  /\ IF CertOf(suffix) = {}
     THEN /\ certs' = certs \union {<<suffix, fresh>>}
          /\ fresh' = fresh + 1
          /\ pc' = pc + 1
     ELSE /\ pc' = pc + 2
          /\ UNCHANGED <<certs, fresh>>
  /\ UNCHANGED <<memory, file, run, vaults, entra, settled, installed>>

CreateCert ==
  /\ At(<<"vault", "cert">>)
  /\ suffix \in vaults
  /\ IF CertOf(suffix) = {}
     THEN certs' = certs \union {<<suffix, fresh>>} /\ fresh' = fresh + 1
     ELSE UNCHANGED <<certs, fresh>>
  /\ Advance
  /\ UNCHANGED <<memory, file, run, vaults, entra, settled, installed>>

UploadKey ==
  /\ At(<<"s2s", "key">>)
  /\ key' \in CertOf(suffix)
  /\ UNCHANGED memory
  /\ Save
  /\ Advance
  /\ UNCHANGED <<run, fresh, vault, made, published, secrets, granted, spa,
                 settled, installed>>

(***************************************************************************)
(* Steps 8 and 9: local configuration, App Service and static site.        *)
(***************************************************************************)
Configure(r) ==
  /\ At(<<r, "local">>)
  /\ held[r] # 0
  /\ localSecret' = [localSecret EXCEPT ![r] = held[r]]
  /\ Advance
  /\ UNCHANGED <<memory, file, run, fresh, vault, entra, settled, cloudSecret>>

DeployApi ==
  /\ At(<<"cloud", "api">>)
  /\ cloudSecret' = held["bff"]
  /\ UNCHANGED memory
  /\ Save
  /\ Advance
  /\ UNCHANGED <<run, fresh, vault, entra, settled, localSecret>>

RegisterSite ==
  /\ At(<<"cloud", "site">>)
  /\ spa' = {"localhost", "site"}
  /\ UNCHANGED memory
  /\ Save
  /\ Advance
  /\ UNCHANGED <<run, fresh, vault, made, published, secrets, granted, key,
                 settled, installed>>

AppStep(r) == FindApp(r) \/ SaveApp(r)

ExposingStep(r) == DrawIds(r) \/ Publish(r) \/ AddSecret(r) \/ Configure(r)

Next ==
  \/ \E d \in BOOLEAN : Start(d)
  \/ Stop
  \/ CommandFails
  \/ CreateVault
  \/ SaveVault
  \/ \E r \in Apps : AppStep(r)
  \/ \E r \in Exposing : ExposingStep(r)
  \/ SetRedirects
  \/ \E g \in Grants : Grant(g)
  \/ \E s \in Principals : AddPrincipal(s)
  \/ \E s \in Plain : Put(s)
  \/ CreateCert
  \/ UploadKey
  \/ DeployApi
  \/ RegisterSite

Spec == Init /\ [][Next]_vars

-----------------------------------------------------------------------------
(* The ids drawn so far, and 0.                                            *)
Drawn == 0 .. fresh - 1

(* Types; every id in use has been drawn.                                  *)
TypeOK ==
  /\ pc \in 0 .. Finished
  /\ deploying \in BOOLEAN
  /\ fresh \in Nat \ {0}
  /\ suffix \in Drawn
  /\ fileSuffix \in Drawn
  /\ obj \in [Apps -> Nat]
  /\ fileObj \in [Apps -> Nat]
  /\ scope \in [Apps -> Drawn]
  /\ fileScope \in [Apps -> Drawn]
  /\ held \in [Apps -> Drawn]
  /\ vaults \subseteq Drawn
  /\ certs \subseteq Drawn \X Drawn
  /\ made \in [Apps -> Nat]
  /\ published \in [Apps -> Drawn]
  /\ secrets \in [Apps -> SUBSET Drawn]
  /\ granted \in [Grants -> SUBSET Drawn]
  /\ key \in Drawn \X Drawn
  /\ spa \subseteq {"localhost", "site"}
  /\ settled \subseteq Plain \union Principals
  /\ localSecret \in [Apps -> Drawn]
  /\ cloudSecret \in Drawn
  /\ runs \in Nat
  /\ failures \in Nat
  /\ clean \in BOOLEAN

(* However often the script is stopped and run again, and whether or not   *)
(* it could save what it had created, each name has one registration       *)
(* (Get-OrCreate-App).                                                     *)
OneRegistrationPerName == \A r \in Apps : made[r] <= 1

(* The id of a published scope or role never changes: Entra would refuse   *)
(* it, or permissions and preauthorizations granted by earlier runs would  *)
(* name a scope that is gone.                                              *)
PublishedIdsStay ==
  [][\A r \in Exposing :
       published[r] # 0 => published'[r] = published[r]]_vars

(* What other registrations were granted is the scope and role of obo that *)
(* the state file knows, through stops, failures and re-runs.              *)
GrantsFit ==
  /\ published["obo"] \in {0, fileScope["obo"]}
  /\ \A g \in Grants : granted[g] \subseteq {fileScope["obo"]}

(* A run, stopped wherever, breaks no configuration an earlier run made:   *)
(* the secrets in the local configuration and in the App Service stay      *)
(* valid.                                                                  *)
InstalledSecretsWork ==
  /\ \A r \in Exposing : localSecret[r] # 0 => localSecret[r] \in secrets[r]
  /\ cloudSecret # 0 => cloudSecret \in secrets["bff"]

(* All that the script means to put in place.                              *)
Configured ==
  /\ fileSuffix \in vaults
  /\ key \in CertOf(fileSuffix)
  /\ \A r \in Apps : made[r] = 1 /\ fileObj[r] = 1
  /\ \A r \in Exposing :
       /\ published[r] # 0 /\ published[r] = fileScope[r]
       /\ localSecret[r] # 0
  /\ \A g \in Grants : fileScope["obo"] \in granted[g]
  /\ (Plain \ {<<"cloud", "upload">>}) \union Principals \subseteq settled
  /\ "localhost" \in spa
  /\ deploying =>
       cloudSecret # 0 /\ "site" \in spa /\ <<"cloud", "upload">> \in settled

(* A run that reaches its end without a failed command has put everything  *)
(* in place, whatever earlier runs left half done.                         *)
CleanRunConfigures == pc = Finished /\ clean => Configured

(* "so re-runs skip already-created resources" (setup.ps1:80): once a run  *)
(* has saved the state file, no later one makes a vault of another name.   *)
(* Before that the random suffix is forgotten with the run.                *)
SavedVaultIsReused ==
  [][fileSuffix # 0 => vaults' \subseteq vaults \union {fileSuffix}]_vars
=============================================================================
