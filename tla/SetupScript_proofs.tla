-------------------------- MODULE SetupScript_proofs --------------------------
(***************************************************************************)
(* Proofs, for any number of runs and of failed commands, of what the runs *)
(* of SetupScript check for a few.                                         *)
(***************************************************************************)
EXTENDS SetupScript, TLAPS

LEMMA ScriptShape ==
  /\ DOMAIN Script = 1 .. 36
  /\ Finished = 37
  /\ At(<<"obo", "ids">>) <=> pc = 6
  /\ At(<<"web", "env">>) => pc = 33
  /\ \A g \in Grants : At(g) => pc > 6
<1>1. Len(Script) = 36 /\ DOMAIN Script = 1 .. 36
  BY DEF Script
<1>2. \A i \in 1 .. 6 : Script[i][1] \in {"vault", "obo"}
  BY DEF Script
<1>3. \A i \in 1 .. 6 : Script[i] \notin Grants
  <2>1. \A g \in Grants : g[1] = "obo" => g[2] = "preauthorize"
    BY DEF Grants
  <2>2. \A g \in Grants : g[1] # "vault"
    BY DEF Grants
  <2>3. \A i \in 1 .. 6 : Script[i][2] # "preauthorize"
    BY DEF Script
  <2>4. QED BY <1>2, <2>1, <2>2, <2>3
<1>4. Script[6] = <<"obo", "ids">>
  BY DEF Script
<1>5. \A i \in 1 .. 36 : Script[i] = <<"obo", "ids">> => i = 6
  BY DEF Script
<1>6. \A i \in 1 .. 36 : Script[i] = <<"web", "env">> => i = 33
  BY DEF Script
<1>7. QED
  BY <1>1, <1>3, <1>4, <1>5, <1>6 DEF At, Running, Finished

LEMMA DrawnGrows ==
  ASSUME fresh \in Nat \ {0}
  PROVE  /\ 0 \in Drawn /\ Drawn \subseteq Nat
         /\ fresh' = fresh =>
              Drawn' = Drawn
         /\ fresh' = fresh + 1 =>
              fresh' \in Nat \ {0} /\ fresh \in Drawn' /\ Drawn \subseteq Drawn'
BY DEF Drawn

LEMMA InitTypeOK == Init => TypeOK
<1> SUFFICES ASSUME Init PROVE TypeOK
  OBVIOUS
<1>1. fresh \in Nat \ {0} /\ 0 \in Drawn
  BY DrawnGrows DEF Init
<1>2. /\ NoId \in [Apps -> Nat] /\ NoId \in [Apps -> Drawn]
      /\ [r \in Apps |-> {}] \in [Apps -> SUBSET Drawn]
      /\ [g \in Grants |-> {}] \in [Grants -> SUBSET Drawn]
  BY <1>1 DEF NoId
<1>3. deploying \in BOOLEAN /\ clean \in BOOLEAN
  BY Zenon DEF Init
<1>4. pc \in 0 .. Finished
  BY ScriptShape DEF Init
<1>5. QED BY <1>1, <1>2, <1>3, <1>4 DEF Init, TypeOK

LEMMA AdvanceType ==
  ASSUME Running, Advance
  PROVE  pc' \in 0 .. Finished
BY ScriptShape DEF Advance, Running

LEMMA NextTypeOK == TypeOK /\ [Next]_vars => TypeOK'
<1> SUFFICES ASSUME TypeOK, [Next]_vars PROVE TypeOK'
  OBVIOUS
<1> USE AdvanceType, DrawnGrows DEF TypeOK, memory, file, run, vault, entra, installed,
        Save, NoId, Exposing
<1>1. ASSUME NEW d \in BOOLEAN, Start(d) PROVE TypeOK'
  BY <1>1, ScriptShape DEF Start, BeginRun
<1>2. CASE Stop
  BY <1>2, ScriptShape DEF Stop, Running
<1>3. CASE CommandFails
  <2>1. clean' \in BOOLEAN
    BY <1>3, Zenon DEF CommandFails
  <2>2. QED BY <1>3, <2>1 DEF CommandFails
<1>4. CASE CreateVault
  BY <1>4 DEF CreateVault, At
<1>5. CASE SaveVault
  BY <1>5 DEF SaveVault, At
<1>6. ASSUME NEW r \in Apps, FindApp(r) PROVE TypeOK'
  BY <1>6 DEF FindApp, At
<1>7. ASSUME NEW r \in Apps, SaveApp(r) PROVE TypeOK'
  BY <1>7 DEF SaveApp, At
<1>8. ASSUME NEW r \in Exposing, DrawIds(r) PROVE TypeOK'
  BY <1>8 DEF DrawIds, At
<1>9. ASSUME NEW r \in Exposing, Publish(r) PROVE TypeOK'
  BY <1>9 DEF Publish, At
<1>10. ASSUME NEW r \in Exposing, AddSecret(r) PROVE TypeOK'
  BY <1>10 DEF AddSecret, At
<1>11. ASSUME NEW r \in Exposing, Configure(r) PROVE TypeOK'
  BY <1>11 DEF Configure, At
<1>12. CASE SetRedirects
  BY <1>12 DEF SetRedirects, At
<1>13. ASSUME NEW g \in Grants, Grant(g) PROVE TypeOK'
  <2>1. granted' \in [Grants -> SUBSET Drawn]
    BY <1>13 DEF Grant, Apps
  <2>2. pc' \in 0 .. Finished /\ fresh' = fresh /\ Drawn' = Drawn
    BY <1>13 DEF Grant, At
  <2>3. QED BY <1>13, <2>1, <2>2 DEF Grant
<1>14. ASSUME NEW s \in Principals, AddPrincipal(s) PROVE TypeOK'
  BY <1>14 DEF AddPrincipal, At, Principals, Plain
<1>15. ASSUME NEW s \in Plain, Put(s) PROVE TypeOK'
  BY <1>15 DEF Put, At, Principals, Plain
<1>16. CASE CreateCert
  BY <1>16 DEF CreateCert, At, CertOf
<1>17. CASE UploadKey
  BY <1>17 DEF UploadKey, At, CertOf
<1>18. CASE DeployApi
  <2>1. /\ pc' \in 0 .. Finished /\ fresh' = fresh /\ Drawn' = Drawn
        /\ cloudSecret' \in Drawn
    BY <1>18 DEF DeployApi, At, Apps
  <2>2. QED BY <1>18, <2>1 DEF DeployApi
<1>19. CASE RegisterSite
  BY <1>19 DEF RegisterSite, At
<1>20. CASE UNCHANGED vars
  BY <1>20 DEF vars
<1>21. QED
  BY <1>1, <1>2, <1>3, <1>4, <1>5, <1>6, <1>7, <1>8, <1>9, <1>10, <1>11, <1>12, <1>13, <1>14, <1>15, <1>16, <1>17, <1>18, <1>19, <1>20 DEF Next, AppStep, ExposingStep

(* Each registration, secret and id set is typed whenever the script is    *)
(* interrupted (TypeOK).                                                   *)
THEOREM TypeCorrect == Spec => []TypeOK
<1>1. Init => TypeOK BY InitTypeOK
<1>2. TypeOK /\ [Next]_vars => TypeOK' BY NextTypeOK
<1>3. QED BY <1>1, <1>2, PTL DEF Spec

-----------------------------------------------------------------------------
(***************************************************************************)
(* Ids.  What is known in memory has been saved; a published id is the     *)
(* saved one, and so is a granted one, which was drawn: that nothing is    *)
(* granted while obo has no id keeps the first draw from leaving grants of *)
(* an older id behind.                                                     *)
(***************************************************************************)
IdsAreSaved ==
  /\ scope = fileScope
  /\ pc > 6 => scope["obo"] # 0
  /\ \A r \in Exposing : published[r] \in {0, scope[r]}
  /\ \A g \in Grants : granted[g] \subseteq {scope["obo"]} \ {0}

IdInv == TypeOK /\ IdsAreSaved

(* A command other than DrawIds leaves every id as it is, and moves past   *)
(* command 6 only from there on.                                           *)
LEMMA AdvancePasses ==
  ASSUME TypeOK, Running, Advance, ~At(<<"obo", "ids">>), pc' > 6
  PROVE  pc > 6
<1>1. pc \in 1 .. 36 /\ pc # 6
  BY ScriptShape DEF Running
<1>2. CASE At(<<"web", "env">>)
  BY <1>2, ScriptShape
<1>3. CASE ~At(<<"web", "env">>)
  BY <1>1, <1>3 DEF Advance
<1>4. QED BY <1>2, <1>3

LEMMA IdsKept ==
  ASSUME IdInv, pc' > 6 => pc > 6,
         UNCHANGED <<scope, fileScope, published, granted>>
  PROVE  IdsAreSaved'
BY DEF IdInv, IdsAreSaved

LEMMA OtherStep ==
  ASSUME NEW s, At(s), s # <<"obo", "ids">>
  PROVE  ~At(<<"obo", "ids">>)
BY DEF At

LEMMA NextIds == IdInv /\ [Next]_vars => IdInv'
<1> SUFFICES ASSUME IdInv, [Next]_vars PROVE IdsAreSaved'
  BY NextTypeOK DEF IdInv
<1> USE DEF IdInv
<1>a. ASSUME Running, Advance, ~At(<<"obo", "ids">>)
      PROVE  pc' > 6 => pc > 6
  BY <1>a, AdvancePasses
<1> USE DEF memory, file, run, vault, entra, installed
<1>1. ASSUME NEW d \in BOOLEAN, Start(d) PROVE IdsAreSaved'
  BY <1>1 DEF Start, BeginRun, IdsAreSaved
<1>2. CASE Stop
  BY <1>2, IdsKept DEF Stop
<1>3. CASE CommandFails
  <2>1. Running /\ Advance /\ UNCHANGED <<scope, fileScope, published, granted>>
    BY <1>3 DEF CommandFails
  <2>2. <<"obo", "ids">> \notin Unchecked
    BY DEF Unchecked, Plain, Grants
  <2>3. ~At(<<"obo", "ids">>)
    BY <1>3, <2>2 DEF CommandFails, At
  <2>4. QED BY <2>1, <2>3, <1>a, IdsKept
<1>4. CASE CreateVault
  BY <1>4, <1>a, IdsKept, OtherStep DEF CreateVault, At
<1>5. CASE SaveVault
  <2>1. UNCHANGED <<scope, fileScope>>
    BY <1>5 DEF SaveVault, Save, IdsAreSaved
  <2>2. QED BY <1>5, <2>1, <1>a, IdsKept, OtherStep DEF SaveVault, At
<1>6. ASSUME NEW r \in Apps, FindApp(r) PROVE IdsAreSaved'
  BY <1>6, <1>a, IdsKept, OtherStep DEF FindApp, At
<1>7. ASSUME NEW r \in Apps, SaveApp(r) PROVE IdsAreSaved'
  <2>1. UNCHANGED <<scope, fileScope>>
    BY <1>7 DEF SaveApp, Save, IdsAreSaved
  <2>2. QED BY <1>7, <2>1, <1>a, IdsKept, OtherStep DEF SaveApp, At
<1>8. ASSUME NEW r \in Exposing, DrawIds(r) PROVE IdsAreSaved'
  <2>1. scope' = fileScope' /\ UNCHANGED <<published, granted>>
    BY <1>8 DEF DrawIds, Save
  <2>2. /\ \A q \in Exposing : scope[q] # 0 => scope'[q] = scope[q]
        /\ scope'[r] # 0 /\ (r # "obo" => scope'["obo"] = scope["obo"])
    BY <1>8 DEF DrawIds, TypeOK, Exposing, Apps
  <2>3. pc' > 6 => scope'["obo"] # 0
    <3>1. CASE r = "obo"
      BY <3>1, <2>2
    <3>2. CASE r # "obo"
      <4>1. ~At(<<"obo", "ids">>)
        BY <3>2, <1>8, OtherStep DEF DrawIds
      <4>2. QED BY <4>1, <3>2, <2>2, <1>8, <1>a DEF DrawIds, At, IdsAreSaved
    <3>3. QED BY <3>1, <3>2
  <2>4. \A q \in Exposing : published'[q] \in {0, scope'[q]}
    BY <2>1, <2>2 DEF IdsAreSaved
  <2>5. \A g \in Grants : granted'[g] \subseteq {scope'["obo"]} \ {0}
    BY <2>1, <2>2 DEF IdsAreSaved, Exposing
  <2>6. QED BY <2>1, <2>3, <2>4, <2>5 DEF IdsAreSaved
<1>9. ASSUME NEW r \in Exposing, Publish(r) PROVE IdsAreSaved'
  <2>1. pc' > 6 => pc > 6
    BY <1>9, <1>a, OtherStep DEF Publish, At
  <2>2. \A q \in Exposing : published'[q] \in {0, scope[q]}
    BY <1>9 DEF Publish, IdsAreSaved, TypeOK, Exposing, Apps
  <2>3. QED BY <1>9, <2>1, <2>2 DEF Publish, IdsAreSaved
<1>10. ASSUME NEW r \in Exposing, AddSecret(r) PROVE IdsAreSaved'
  BY <1>10, <1>a, IdsKept, OtherStep DEF AddSecret, At
<1>11. ASSUME NEW r \in Exposing, Configure(r) PROVE IdsAreSaved'
  BY <1>11, <1>a, IdsKept, OtherStep DEF Configure, At
<1>12. CASE SetRedirects
  BY <1>12, <1>a, IdsKept, OtherStep DEF SetRedirects, At
<1>13. ASSUME NEW g \in Grants, Grant(g) PROVE IdsAreSaved'
  <2>1. pc > 6 /\ scope["obo"] # 0
    BY <1>13, ScriptShape DEF Grant, IdsAreSaved
  <2>2. \A h \in Grants : granted'[h] \subseteq {scope["obo"]} \ {0}
    BY <1>13, <2>1 DEF Grant, IdsAreSaved, TypeOK
  <2>3. QED BY <1>13, <2>1, <2>2 DEF Grant, IdsAreSaved
<1>14. ASSUME NEW s \in Principals, AddPrincipal(s) PROVE IdsAreSaved'
  <2>1. UNCHANGED <<scope, fileScope>>
    BY <1>14 DEF AddPrincipal, Save, IdsAreSaved
  <2>2. s # <<"obo", "ids">>
    BY DEF Principals
  <2>3. QED BY <1>14, <2>1, <2>2, <1>a, IdsKept, OtherStep DEF AddPrincipal, At
<1>15. ASSUME NEW s \in Plain, Put(s) PROVE IdsAreSaved'
  <2>1. s # <<"obo", "ids">>
    BY DEF Plain
  <2>2. QED BY <1>15, <2>1, <1>a, IdsKept, OtherStep DEF Put, At
<1>16. CASE CreateCert
  BY <1>16, <1>a, IdsKept, OtherStep DEF CreateCert, At
<1>17. CASE UploadKey
  <2>1. UNCHANGED <<scope, fileScope>>
    BY <1>17 DEF UploadKey, Save, IdsAreSaved
  <2>2. QED BY <1>17, <2>1, <1>a, IdsKept, OtherStep DEF UploadKey, At
<1>18. CASE DeployApi
  <2>1. UNCHANGED <<scope, fileScope>>
    BY <1>18 DEF DeployApi, Save, IdsAreSaved
  <2>2. QED BY <1>18, <2>1, <1>a, IdsKept, OtherStep DEF DeployApi, At
<1>19. CASE RegisterSite
  <2>1. UNCHANGED <<scope, fileScope>>
    BY <1>19 DEF RegisterSite, Save, IdsAreSaved
  <2>2. QED BY <1>19, <2>1, <1>a, IdsKept, OtherStep DEF RegisterSite, At
<1>20. CASE UNCHANGED vars
  BY <1>20, IdsKept DEF vars
<1>21. QED
  BY <1>1, <1>2, <1>3, <1>4, <1>5, <1>6, <1>7, <1>8, <1>9, <1>10, <1>11, <1>12,
     <1>13, <1>14, <1>15, <1>16, <1>17, <1>18, <1>19, <1>20
     DEF Next, AppStep, ExposingStep

LEMMA InitIds == Init => IdInv
BY InitTypeOK DEF Init, IdInv, IdsAreSaved, NoId, Exposing, Apps

LEMMA AlwaysIds == Spec => []IdInv
<1>1. Init => IdInv BY InitIds
<1>2. IdInv /\ [Next]_vars => IdInv' BY NextIds
<1>3. QED BY <1>1, <1>2, PTL DEF Spec

(* GrantsFit: whatever earlier runs did, what was granted is the scope and *)
(* role that the state file knows.                                         *)
THEOREM GrantsMatch == Spec => []GrantsFit
<1>1. IdInv => GrantsFit
  BY DEF IdInv, IdsAreSaved, GrantsFit, Exposing
<1>2. QED BY <1>1, AlwaysIds, PTL

(* Which commands change the registrations, the manifests, the secrets and *)
(* where they are installed.                                               *)
LEMMA WhoChanges ==
  ASSUME [Next]_vars
  PROVE  /\ UNCHANGED made \/ \E r \in Apps : FindApp(r)
         /\ UNCHANGED published \/ \E r \in Exposing : Publish(r)
         /\ \/ UNCHANGED <<secrets, localSecret, cloudSecret>> /\ held' \in {held, NoId}
            \/ \E r \in Exposing : AddSecret(r) \/ Configure(r)
            \/ DeployApi
<1> USE DEF memory, file, run, vault, entra, installed
<1>1. ASSUME NEW d \in BOOLEAN, Start(d)
      PROVE  UNCHANGED <<made, published, secrets, localSecret, cloudSecret>> /\ held' = NoId
  BY <1>1 DEF Start, BeginRun
<1>2. CASE Stop \/ CommandFails \/ CreateVault \/ SaveVault
  BY <1>2 DEF Stop, CommandFails, CreateVault, SaveVault
<1>3. ASSUME NEW r \in Apps, AppStep(r)
      PROVE  /\ UNCHANGED <<published, held, secrets, localSecret, cloudSecret>>
             /\ UNCHANGED made \/ FindApp(r)
  BY <1>3 DEF AppStep, FindApp, SaveApp
<1>4. ASSUME NEW r \in Exposing, ExposingStep(r)
      PROVE  /\ UNCHANGED made
             /\ UNCHANGED published \/ Publish(r)
             /\ \/ UNCHANGED <<held, secrets, localSecret, cloudSecret>>
                \/ AddSecret(r) \/ Configure(r)
  BY <1>4 DEF ExposingStep, DrawIds, Publish, AddSecret, Configure
<1>5. CASE SetRedirects \/ CreateCert \/ UploadKey \/ RegisterSite
  BY <1>5 DEF SetRedirects, CreateCert, UploadKey, RegisterSite
<1>6. ASSUME NEW g \in Grants, Grant(g)
      PROVE  UNCHANGED <<made, published, held, secrets, localSecret, cloudSecret>>
  BY <1>6 DEF Grant
<1>7. ASSUME NEW s \in Principals, AddPrincipal(s)
      PROVE  UNCHANGED <<made, published, held, secrets, localSecret, cloudSecret>>
  BY <1>7 DEF AddPrincipal
<1>8. ASSUME NEW s \in Plain, Put(s)
      PROVE  UNCHANGED <<made, published, held, secrets, localSecret, cloudSecret>>
  BY <1>8 DEF Put
<1>9. DeployApi => UNCHANGED <<made, published>>
  BY DEF DeployApi
<1>10. CASE UNCHANGED vars
  BY <1>10 DEF vars
<1>11. QED
  BY <1>1, <1>2, <1>3, <1>4, <1>5, <1>6, <1>7, <1>8, <1>9, <1>10 DEF Next

(* OneRegistrationPerName: Get-OrCreate-App creates only what the          *)
(* directory does not have, even when the run that created it could not    *)
(* save its id.                                                            *)
THEOREM OneRegistration == Spec => []OneRegistrationPerName
<1>1. Init => OneRegistrationPerName
  BY DEF Init, OneRegistrationPerName, NoId
<1>2. OneRegistrationPerName /\ TypeOK /\ [Next]_vars => OneRegistrationPerName'
  <2> SUFFICES ASSUME OneRegistrationPerName, TypeOK, [Next]_vars
               PROVE  OneRegistrationPerName'
    OBVIOUS
  <2>1. ASSUME NEW r \in Apps, FindApp(r) PROVE OneRegistrationPerName'
    BY <2>1 DEF FindApp, OneRegistrationPerName, TypeOK
  <2>2. CASE UNCHANGED made
    BY <2>2 DEF OneRegistrationPerName
  <2>3. QED BY <2>1, <2>2, WhoChanges
<1>3. QED BY <1>1, <1>2, TypeCorrect, PTL DEF Spec

(* PublishedIdsStay: what a run publishes again is the id it had published *)
(* before, since ids are saved before they are sent.                       *)
THEOREM IdsStay == Spec => PublishedIdsStay
<1>1. ASSUME IdInv, [Next]_vars
      PROVE  \A r \in Exposing : published[r] # 0 => published'[r] = published[r]
  <2>1. ASSUME NEW r \in Exposing, Publish(r)
        PROVE  \A q \in Exposing : published[q] # 0 => published'[q] = published[q]
    BY <1>1, <2>1 DEF Publish, IdInv, IdsAreSaved, TypeOK, Exposing, Apps
  <2>2. QED BY <1>1, <2>1, WhoChanges
<1>2. QED BY <1>1, AlwaysIds, PTL DEF Spec, PublishedIdsStay

-----------------------------------------------------------------------------
(***************************************************************************)
(* Secrets: the one this run holds is valid, so what it installs is.       *)
(***************************************************************************)
SecretInv ==
  /\ InstalledSecretsWork
  /\ \A r \in Exposing : held[r] # 0 => held[r] \in secrets[r]

LEMMA NextSecrets == TypeOK /\ SecretInv /\ [Next]_vars => SecretInv'
<1> SUFFICES ASSUME TypeOK, SecretInv, [Next]_vars PROVE SecretInv'
  OBVIOUS
<1> USE DEF SecretInv, InstalledSecretsWork, Exposing, Apps, run, installed, entra
<1>1. CASE UNCHANGED <<secrets, localSecret, cloudSecret>> /\ held' \in {held, NoId}
  BY <1>1 DEF NoId
<1>2. ASSUME NEW r \in Exposing, AddSecret(r) PROVE SecretInv'
  BY <1>2 DEF AddSecret, TypeOK
<1>3. ASSUME NEW r \in Exposing, Configure(r) PROVE SecretInv'
  BY <1>3 DEF Configure, TypeOK
<1>4. CASE DeployApi
  BY <1>4 DEF DeployApi
<1>5. QED BY <1>1, <1>2, <1>3, <1>4, WhoChanges

(* InstalledSecretsWork: credential reset --append adds, so a run that is  *)
(* stopped before it reconfigures breaks nothing that works.               *)
THEOREM SecretsStayValid == Spec => []InstalledSecretsWork
<1>1. Init => SecretInv
  BY DEF Init, SecretInv, InstalledSecretsWork, NoId, Exposing, Apps
<1>2. TypeOK /\ SecretInv /\ [Next]_vars => SecretInv'
  BY NextSecrets
<1>3. SecretInv => InstalledSecretsWork
  BY DEF SecretInv
<1>4. QED BY <1>1, <1>2, <1>3, TypeCorrect, PTL DEF Spec

-----------------------------------------------------------------------------
(***************************************************************************)
(* The suffix: a run works with the saved one, if there is one.            *)
(***************************************************************************)
SuffixInv == fileSuffix \in {0, suffix}

LEMMA SuffixStep ==
  ASSUME [Next]_vars
  PROVE  /\ UNCHANGED vaults \/ vaults' = vaults \union {suffix}
         /\ \/ suffix' = suffix /\ fileSuffix' \in {fileSuffix, suffix}
            \/ suffix' = (IF fileSuffix = 0 THEN fresh ELSE fileSuffix)
               /\ fileSuffix' = fileSuffix
<1> USE DEF memory, file, run, vault, entra, installed, Save
<1>1. ASSUME NEW d \in BOOLEAN, Start(d)
      PROVE  /\ UNCHANGED <<vaults, fileSuffix>>
             /\ suffix' = (IF fileSuffix = 0 THEN fresh ELSE fileSuffix)
  BY <1>1 DEF Start, BeginRun
<1>2. CASE Stop \/ CommandFails \/ CreateVault \/ SaveVault
  BY <1>2 DEF Stop, CommandFails, CreateVault, SaveVault
<1>3. ASSUME NEW r \in Apps, AppStep(r)
      PROVE  UNCHANGED <<vaults, suffix>> /\ fileSuffix' \in {fileSuffix, suffix}
  BY <1>3 DEF AppStep, FindApp, SaveApp
<1>4. ASSUME NEW r \in Exposing, ExposingStep(r)
      PROVE  UNCHANGED <<vaults, suffix>> /\ fileSuffix' \in {fileSuffix, suffix}
  BY <1>4 DEF ExposingStep, DrawIds, Publish, AddSecret, Configure
<1>5. CASE SetRedirects \/ CreateCert \/ UploadKey \/ DeployApi \/ RegisterSite
  BY <1>5 DEF SetRedirects, CreateCert, UploadKey, DeployApi, RegisterSite
<1>6. ASSUME NEW g \in Grants, Grant(g)
      PROVE  UNCHANGED <<vaults, suffix, fileSuffix>>
  BY <1>6 DEF Grant
<1>7. ASSUME NEW s \in Principals, AddPrincipal(s)
      PROVE  UNCHANGED <<vaults, suffix>> /\ fileSuffix' \in {fileSuffix, suffix}
  BY <1>7 DEF AddPrincipal
<1>8. ASSUME NEW s \in Plain, Put(s)
      PROVE  UNCHANGED <<vaults, suffix, fileSuffix>>
  BY <1>8 DEF Put
<1>9. CASE UNCHANGED vars
  BY <1>9 DEF vars
<1>10. QED
  BY <1>1, <1>2, <1>3, <1>4, <1>5, <1>6, <1>7, <1>8, <1>9 DEF Next

(* SavedVaultIsReused: only the start of a run draws a suffix, and only    *)
(* where none was saved.                                                   *)
THEOREM OneSavedVault == Spec => SavedVaultIsReused
<1>1. Init => SuffixInv
  BY DEF Init, SuffixInv
<1>2. SuffixInv /\ [Next]_vars => SuffixInv'
  BY SuffixStep DEF SuffixInv
<1>3. SuffixInv /\ [Next]_vars =>
        (fileSuffix # 0 => vaults' \subseteq vaults \union {fileSuffix})
  BY SuffixStep DEF SuffixInv
<1>4. QED BY <1>1, <1>2, <1>3, PTL DEF Spec, SavedVaultIsReused

-----------------------------------------------------------------------------
(***************************************************************************)
(* What a run leaves behind.  Each command has its effect in place once it *)
(* has been passed, and no later command of the run takes it away, but for *)
(* the redirects, which come before the site that they would take out.     *)
(***************************************************************************)
InPlace(s) ==
  /\ s = <<"vault", "create">> => suffix \in vaults
  /\ s = <<"vault", "save">> => fileSuffix = suffix
  /\ \A r \in Apps : /\ s = <<r, "find">> => obj[r] # 0
                     /\ s = <<r, "save">> => fileObj[r] # 0
  /\ \A r \in Exposing : /\ s = <<r, "ids">> => scope[r] # 0
                         /\ s = <<r, "publish">> => published[r] # 0
                         /\ s = <<r, "secret">> => held[r] # 0
                         /\ s = <<r, "local">> => localSecret[r] # 0
  /\ s \in Grants => scope["obo"] \in granted[s]
  /\ s \in Plain \union Principals => s \in settled
  /\ s = <<"bff", "redirects">> => "localhost" \in spa
  /\ s = <<"s2s", "key">> => key \in CertOf(suffix)
  /\ s = <<"cloud", "api">> => cloudSecret # 0
  /\ s = <<"cloud", "site">> => "site" \in spa

(* The commands this run has passed; 34 to 36 are the deployment.          *)
Passed == {i \in 1 .. 36 : i < pc /\ (i <= 33 \/ deploying)}

PassedInPlace == clean => \A i \in Passed : InPlace(Script[i])

(* A saved registration is known, and one that is known exists.            *)
Registrations ==
  \A r \in Apps : /\ made[r] \in {0, 1}
                  /\ obj[r] \in {0, made[r]}
                  /\ fileObj[r] \in {0, obj[r]}

RunInv == IdInv /\ Registrations /\ PassedInPlace

(* Commands that others rely on come before them, and what a run without a *)
(* deployment must have passed comes before the deployment.                *)
LEMMA Order ==
  /\ Script[1] = <<"vault", "create">> /\ Script[2] = <<"vault", "save">>
  /\ \A i \in 1 .. 36, r \in Apps :
       Script[i] = <<r, "save">> => i > 1 /\ i <= 33 /\ Script[i - 1] = <<r, "find">>
  /\ \A i \in 1 .. 36, r \in Exposing :
       Script[i] = <<r, "publish">> => i > 1 /\ i <= 33 /\ Script[i - 1] = <<r, "ids">>
  /\ \A i \in 1 .. 36 : /\ Script[i] = <<"bff", "redirects">> => i = 15
                        /\ Script[i] = <<"cloud", "api">> => i = 34
                        /\ Script[i] = <<"cloud", "site">> => i = 35
                        /\ Script[i] = <<"cloud", "upload">> => i = 36
  /\ Script[15] = <<"bff", "redirects">> /\ Script[16] = <<"bff", "secret">>
  /\ Script[30] = <<"s2s", "key">>
  /\ Script[34] = <<"cloud", "api">> /\ Script[35] = <<"cloud", "site">>
  /\ Script[36] = <<"cloud", "upload">>
<1>1. /\ Script[1] = <<"vault", "create">> /\ Script[2] = <<"vault", "save">>
      /\ Script[15] = <<"bff", "redirects">> /\ Script[16] = <<"bff", "secret">>
      /\ Script[30] = <<"s2s", "key">>
      /\ Script[34] = <<"cloud", "api">> /\ Script[35] = <<"cloud", "site">>
      /\ Script[36] = <<"cloud", "upload">>
  BY DEF Script
<1>2. ASSUME NEW i \in 1 .. 36, NEW r \in Apps, Script[i] = <<r, "save">>
      PROVE  i > 1 /\ i <= 33 /\ Script[i - 1] = <<r, "find">>
  <2>1. i = 4 \/ i = 11 \/ i = 24
    BY <1>2 DEF Script, Apps
  <2>2. /\ Script[3] = <<"obo", "find">> /\ Script[4] = <<"obo", "save">>
        /\ Script[10] = <<"bff", "find">> /\ Script[11] = <<"bff", "save">>
        /\ Script[23] = <<"s2s", "find">> /\ Script[24] = <<"s2s", "save">>
    BY DEF Script
  <2>3. QED BY <1>2, <2>1, <2>2
<1>3. ASSUME NEW i \in 1 .. 36, NEW r \in Exposing, Script[i] = <<r, "publish">>
      PROVE  i > 1 /\ i <= 33 /\ Script[i - 1] = <<r, "ids">>
  <2>1. i = 7 \/ i = 14
    BY <1>3 DEF Script, Exposing
  <2>2. /\ Script[6] = <<"obo", "ids">> /\ Script[7] = <<"obo", "publish">>
        /\ Script[13] = <<"bff", "ids">> /\ Script[14] = <<"bff", "publish">>
    BY DEF Script
  <2>3. QED BY <1>3, <2>1, <2>2
<1>4. \A i \in 1 .. 36 : /\ Script[i] = <<"bff", "redirects">> => i = 15
                         /\ Script[i] = <<"cloud", "api">> => i = 34
  BY DEF Script
<1>5. \A i \in 1 .. 36 : /\ Script[i] = <<"cloud", "site">> => i = 35
                         /\ Script[i] = <<"cloud", "upload">> => i = 36
  BY DEF Script
<1>6. QED BY <1>1, <1>2, <1>3, <1>4, <1>5

(* The rest of what Configured asks for.                                   *)
LEMMA InScript ==
  /\ \A r \in Apps : \E i \in 1 .. 33 : Script[i] = <<r, "save">>
  /\ \A r \in Exposing : /\ \E i \in 1 .. 33 : Script[i] = <<r, "publish">>
                         /\ \E i \in 1 .. 33 : Script[i] = <<r, "local">>
  /\ \A g \in Grants : \E i \in 1 .. 33 : Script[i] = g
  /\ \A s \in (Plain \ {<<"cloud", "upload">>}) \union Principals :
       \E i \in 1 .. 33 : Script[i] = s
<1>1. \A r \in Apps : \E i \in 1 .. 33 : Script[i] = <<r, "save">>
  <2>1. /\ Script[4] = <<"obo", "save">> /\ Script[11] = <<"bff", "save">>
        /\ Script[24] = <<"s2s", "save">>
    BY DEF Script
  <2>2. QED BY <2>1 DEF Apps
<1>2. \A r \in Exposing : /\ \E i \in 1 .. 33 : Script[i] = <<r, "publish">>
                          /\ \E i \in 1 .. 33 : Script[i] = <<r, "local">>
  <2>1. /\ Script[7] = <<"obo", "publish">> /\ Script[14] = <<"bff", "publish">>
        /\ Script[31] = <<"obo", "local">> /\ Script[32] = <<"bff", "local">>
    BY DEF Script
  <2>2. QED BY <2>1 DEF Exposing
<1>3. \A g \in Grants : \E i \in 1 .. 33 : Script[i] = g
  <2>1. /\ Script[17] = <<"bff", "scope">> /\ Script[18] = <<"bff", "role">>
        /\ Script[20] = <<"obo", "preauthorize">> /\ Script[25] = <<"s2s", "role">>
        /\ Script[27] = <<"s2s", "assign">>
    BY DEF Script
  <2>2. QED BY <2>1 DEF Grants
<1>4. \A s \in Plain \ {<<"cloud", "upload">>} : \E i \in 1 .. 33 : Script[i] = s
  <2>1. /\ Script[5] = <<"obo", "uri">> /\ Script[12] = <<"bff", "uri">>
        /\ Script[19] = <<"bff", "graph">> /\ Script[22] = <<"bff", "consent">>
        /\ Script[28] = <<"s2s", "consent">> /\ Script[33] = <<"web", "env">>
    BY DEF Script
  <2>2. QED BY <2>1 DEF Plain
<1>5. \A s \in Principals : \E i \in 1 .. 33 : Script[i] = s
  <2>1. /\ Script[9] = <<"obo", "sp">> /\ Script[21] = <<"bff", "sp">>
        /\ Script[26] = <<"s2s", "sp">>
    BY DEF Script
  <2>2. QED BY <2>1 DEF Principals, Apps
<1>6. QED BY <1>1, <1>2, <1>3, <1>4, <1>5

(* A command that takes nothing away.                                      *)
Keeps ==
  /\ suffix' = suffix /\ fileSuffix' \in {fileSuffix, suffix}
  /\ vaults \subseteq vaults' /\ certs \subseteq certs' /\ settled \subseteq settled'
  /\ \A r \in Apps : /\ obj[r] # 0 => obj'[r] # 0
                     /\ fileObj[r] # 0 => fileObj'[r] # 0
  /\ \A r \in Exposing : /\ scope[r] # 0 => scope'[r] # 0
                         /\ published[r] # 0 => published'[r] # 0
                         /\ held[r] # 0 => held'[r] # 0
                         /\ localSecret[r] # 0 => localSecret'[r] # 0
  /\ \A g \in Grants : scope["obo"] \in granted[g] => scope'["obo"] \in granted'[g]
  /\ key' = key \/ key' \in CertOf(suffix)
  /\ cloudSecret # 0 => cloudSecret' # 0
  /\ "localhost" \in spa => "localhost" \in spa'
  /\ "site" \in spa => "site" \in spa' \/ pc = 15

LEMMA StaysInPlace ==
  ASSUME NEW s, InPlace(s), Keeps, s = <<"cloud", "site">> => pc # 15
  PROVE  InPlace(s)'
<1>1. CertOf(suffix) \subseteq CertOf(suffix)'
  BY DEF Keeps, CertOf
<1>2. QED BY <1>1 DEF InPlace, Keeps

(* A command that succeeds moves on with its effect in place.              *)
Succeeds == Running /\ Advance /\ UNCHANGED <<deploying, clean>> /\ (clean => Keeps)

LEMMA SuccessKeepsRun ==
  ASSUME TypeOK, PassedInPlace, Succeeds, NEW s, At(s), clean => InPlace(s)'
  PROVE  PassedInPlace'
<1> SUFFICES ASSUME clean, NEW i \in Passed' PROVE InPlace(Script[i])'
  BY DEF PassedInPlace, Succeeds
<1>1. pc \in 1 .. 36 /\ i \in 1 .. 36 /\ i < pc' /\ (i <= 33 \/ deploying)
  BY ScriptShape DEF Succeeds, Running, Passed
<1>2. i <= pc
  <2>1. CASE At(<<"web", "env">>) /\ ~deploying
    BY <1>1, <2>1, ScriptShape
  <2>2. CASE ~(At(<<"web", "env">>) /\ ~deploying)
    BY <1>1, <2>2 DEF Succeeds, Advance
  <2>3. QED BY <2>1, <2>2
<1>3. CASE i = pc
  <2>1. Script[i] = s
    BY <1>3 DEF At
  <2>2. QED BY <2>1
<1>4. CASE i # pc
  <2>1. i < pc /\ i \in Passed
    BY <1>1, <1>2, <1>4 DEF Passed
  <2>2. Script[i] = <<"cloud", "site">> => pc # 15
    BY <1>1, <2>1, Order
  <2>3. InPlace(Script[i]) /\ Keeps
    BY <2>1 DEF PassedInPlace, Succeeds
  <2>4. QED BY <2>2, <2>3, StaysInPlace
<1>5. QED BY <1>3, <1>4

(* What a command relies on was put in place by one before it.             *)
LEMMA Earlier ==
  ASSUME TypeOK, PassedInPlace, clean
  PROVE  /\ \A r \in Apps : At(<<r, "save">>) => obj[r] # 0
         /\ \A r \in Exposing : At(<<r, "publish">>) => scope[r] # 0
         /\ At(<<"cloud", "api">>) => held["bff"] # 0
<1>0. \A i \in Passed : InPlace(Script[i])
  BY DEF PassedInPlace
<1>p. Running => pc \in 1 .. 36
  BY ScriptShape DEF Running
<1>1. ASSUME NEW r \in Apps, At(<<r, "save">>) PROVE obj[r] # 0
  <2>1. pc - 1 \in Passed /\ Script[pc - 1] = <<r, "find">>
    BY <1>1, <1>p, Order DEF At, Passed
  <2>2. InPlace(<<r, "find">>)
    BY <1>0, <2>1
  <2>3. QED BY <2>2 DEF InPlace
<1>2. ASSUME NEW r \in Exposing, At(<<r, "publish">>) PROVE scope[r] # 0
  <2>1. pc - 1 \in Passed /\ Script[pc - 1] = <<r, "ids">>
    BY <1>2, <1>p, Order DEF At, Passed
  <2>2. InPlace(<<r, "ids">>)
    BY <1>0, <2>1
  <2>3. QED BY <2>2 DEF InPlace
<1>3. ASSUME At(<<"cloud", "api">>) PROVE held["bff"] # 0
  <2>1. 16 \in Passed /\ Script[16] = <<"bff", "secret">>
    BY <1>3, <1>p, Order DEF At, Passed
  <2>2. InPlace(<<"bff", "secret">>)
    BY <1>0, <2>1
  <2>3. QED BY <2>2 DEF InPlace, Exposing
<1>4. QED BY <1>1, <1>2, <1>3

(* Everything is configured at the end of a clean run.                     *)
LEMMA EndConfigured == RunInv => CleanRunConfigures
<1> SUFFICES ASSUME RunInv, pc = Finished, clean PROVE Configured
  BY DEF CleanRunConfigures
<1>0. \A i \in 1 .. 36 : i <= 33 \/ deploying => InPlace(Script[i])
  BY ScriptShape DEF RunInv, PassedInPlace, Passed
<1>1. /\ InPlace(<<"vault", "create">>) /\ InPlace(<<"vault", "save">>)
      /\ InPlace(<<"bff", "redirects">>) /\ InPlace(<<"s2s", "key">>)
  BY <1>0, Order
<1>2. fileSuffix \in vaults /\ key \in CertOf(fileSuffix) /\ "localhost" \in spa
  BY <1>1 DEF InPlace
<1>3. ASSUME NEW r \in Apps PROVE made[r] = 1 /\ fileObj[r] = 1
  <2>1. InPlace(<<r, "save">>)
    BY <1>0, InScript
  <2>2. QED BY <2>1 DEF InPlace, RunInv, Registrations
<1>4. ASSUME NEW r \in Exposing
      PROVE  published[r] # 0 /\ published[r] = fileScope[r] /\ localSecret[r] # 0
  <2>1. InPlace(<<r, "publish">>) /\ InPlace(<<r, "local">>)
    BY <1>0, InScript
  <2>2. published[r] # 0 /\ localSecret[r] # 0
    BY <2>1 DEF InPlace
  <2>3. QED BY <2>2 DEF RunInv, IdInv, IdsAreSaved
<1>5. ASSUME NEW g \in Grants PROVE fileScope["obo"] \in granted[g]
  <2>1. InPlace(g)
    BY <1>0, InScript
  <2>2. QED BY <2>1 DEF InPlace, RunInv, IdInv, IdsAreSaved
<1>6. (Plain \ {<<"cloud", "upload">>}) \union Principals \subseteq settled
  <2>1. \A s \in (Plain \ {<<"cloud", "upload">>}) \union Principals : InPlace(s)
    BY <1>0, InScript
  <2>2. QED BY <2>1 DEF InPlace
<1>7. deploying =>
        cloudSecret # 0 /\ "site" \in spa /\ <<"cloud", "upload">> \in settled
  <2>1. deploying => /\ InPlace(<<"cloud", "api">>) /\ InPlace(<<"cloud", "site">>)
                     /\ InPlace(<<"cloud", "upload">>)
    BY <1>0, Order
  <2>2. <<"cloud", "upload">> \in Plain
    BY DEF Plain
  <2>3. QED BY <2>1, <2>2 DEF InPlace
<1>8. QED BY <1>2, <1>3, <1>4, <1>5, <1>6, <1>7 DEF Configured

LEMMA RunStep == RunInv /\ [Next]_vars => RunInv'
<1> SUFFICES ASSUME RunInv, [Next]_vars PROVE Registrations' /\ PassedInPlace'
  BY NextIds DEF RunInv
<1> DEFINE Goal == Registrations /\ PassedInPlace
<1>0. TypeOK /\ IdsAreSaved /\ Registrations /\ PassedInPlace
  BY DEF RunInv, IdInv
<1> USE <1>0 DEF memory, file, run, vault, entra, installed
<1>r. ASSUME UNCHANGED <<made, obj>>, fileObj' \in {fileObj, obj}
      PROVE  Registrations'
  BY <1>r DEF Registrations
<1>f. ASSUME fileObj' \in {fileObj, obj}, obj' = obj
      PROVE  \A r \in Apps : fileObj[r] # 0 => fileObj'[r] # 0
  BY <1>f DEF Registrations
<1>s. ASSUME NEW s, At(s), Advance, UNCHANGED <<deploying, clean>>,
             clean => Keeps /\ InPlace(s)',
             Registrations'
      PROVE  Goal'
  <2>1. Succeeds
    BY <1>s DEF Succeeds, At
  <2>2. QED BY <1>s, <2>1, SuccessKeepsRun
<1>1. ASSUME NEW d \in BOOLEAN, Start(d) PROVE Goal'
  <2>1. Registrations'
    BY <1>1 DEF Start, BeginRun, Registrations
  <2>2. Passed' = {}
    BY <1>1 DEF Start, BeginRun, Passed
  <2>3. QED BY <2>1, <2>2 DEF PassedInPlace
<1>2. CASE Stop
  <2>1. Passed' = {}
    BY <1>2 DEF Stop, Passed
  <2>2. QED BY <1>2, <1>r, <2>1 DEF Stop, PassedInPlace
<1>3. CASE CommandFails
  BY <1>3, <1>r DEF CommandFails, PassedInPlace
<1>4. CASE CreateVault
  <2>1. Keeps
    BY <1>4 DEF CreateVault, Keeps
  <2>2. InPlace(<<"vault", "create">>)'
    BY <1>4 DEF CreateVault, InPlace, Grants, Plain, Principals
  <2>3. QED BY <1>4, <2>1, <2>2, <1>r, <1>s DEF CreateVault
<1>5. CASE SaveVault
  <2>1. Keeps
    BY <1>5, <1>f DEF SaveVault, Save, Keeps
  <2>2. InPlace(<<"vault", "save">>)'
    <3>1. fileSuffix' = suffix'
      BY <1>5 DEF SaveVault, Save
    <3>2. QED BY <3>1 DEF InPlace, Apps, Grants, Plain, Principals
  <2>3. QED BY <1>5, <2>1, <2>2, <1>r, <1>s DEF SaveVault, Save
<1>6. ASSUME NEW r \in Apps, FindApp(r) PROVE Goal'
  <2>1. Keeps
    BY <1>6 DEF FindApp, Keeps, TypeOK
  <2>2. obj'[r] # 0
    BY <1>6 DEF FindApp, TypeOK
  <2>3. InPlace(<<r, "find">>)'
    BY <1>6, <2>2 DEF InPlace, Grants, Plain, Principals
  <2>4. Registrations'
    BY <1>6 DEF FindApp, Registrations, TypeOK
  <2>5. QED BY <1>6, <2>1, <2>3, <2>4, <1>s DEF FindApp
<1>7. ASSUME NEW r \in Apps, SaveApp(r) PROVE Goal'
  <2>1. Keeps
    BY <1>7, <1>f DEF SaveApp, Save, Keeps
  <2>2. clean => fileObj'[r] # 0
    BY <1>7, Earlier DEF SaveApp, Save
  <2>3. clean => InPlace(<<r, "save">>)'
    BY <2>2 DEF InPlace, Apps, Grants, Plain, Principals
  <2>4. QED BY <1>7, <2>1, <2>3, <1>r, <1>s DEF SaveApp, Save
<1>8. ASSUME NEW r \in Exposing, DrawIds(r) PROVE Goal'
  <2>1. /\ scope'[r] # 0
        /\ \A q \in Exposing : scope[q] # 0 => scope'[q] = scope[q]
    BY <1>8 DEF DrawIds, TypeOK, Exposing, Apps
  <2>2. \A g \in Grants : scope["obo"] \in granted[g] => scope["obo"] # 0
    BY DEF IdsAreSaved
  <2>3. Keeps
    BY <1>8, <1>f, <2>1, <2>2 DEF DrawIds, Save, Keeps, Exposing
  <2>4. InPlace(<<r, "ids">>)'
    BY <2>1 DEF InPlace, Grants, Plain, Principals
  <2>5. QED BY <1>8, <2>3, <2>4, <1>r, <1>s DEF DrawIds, Save
<1>9. ASSUME NEW r \in Exposing, Publish(r) PROVE Goal'
  <2>1. clean => published'[r] # 0
    BY <1>9, Earlier DEF Publish, TypeOK, Exposing, Apps
  <2>2. \A q \in Exposing : clean /\ published[q] # 0 => published'[q] # 0
    BY <1>9, <2>1 DEF Publish, TypeOK, Exposing, Apps
  <2>3. clean => Keeps
    BY <1>9, <2>2 DEF Publish, Keeps
  <2>4. clean => InPlace(<<r, "publish">>)'
    BY <2>1 DEF InPlace, Grants, Plain, Principals
  <2>5. QED BY <1>9, <2>3, <2>4, <1>r, <1>s DEF Publish
<1>10. ASSUME NEW r \in Exposing, AddSecret(r) PROVE Goal'
  <2>1. held'[r] # 0 /\ \A q \in Exposing : held[q] # 0 => held'[q] # 0
    BY <1>10 DEF AddSecret, TypeOK, Exposing, Apps
  <2>2. Keeps
    BY <1>10, <2>1 DEF AddSecret, Keeps
  <2>3. InPlace(<<r, "secret">>)'
    BY <2>1 DEF InPlace, Grants, Plain, Principals
  <2>4. QED BY <1>10, <2>2, <2>3, <1>r, <1>s DEF AddSecret
<1>11. ASSUME NEW r \in Exposing, Configure(r) PROVE Goal'
  <2>1. /\ localSecret'[r] # 0
        /\ \A q \in Exposing : localSecret[q] # 0 => localSecret'[q] # 0
    BY <1>11 DEF Configure, TypeOK, Exposing, Apps
  <2>2. Keeps
    BY <1>11, <2>1 DEF Configure, Keeps
  <2>3. InPlace(<<r, "local">>)'
    BY <2>1 DEF InPlace, Grants, Plain, Principals
  <2>4. QED BY <1>11, <2>2, <2>3, <1>r, <1>s DEF Configure
<1>12. CASE SetRedirects
  <2>1. pc = 15
    BY <1>12, Order, ScriptShape DEF SetRedirects, At, Running
  <2>2. Keeps
    BY <1>12, <2>1 DEF SetRedirects, Keeps
  <2>3. InPlace(<<"bff", "redirects">>)'
    BY <1>12 DEF SetRedirects, InPlace, Grants, Plain, Principals
  <2>4. QED BY <1>12, <2>2, <2>3, <1>r, <1>s DEF SetRedirects
<1>13. ASSUME NEW g \in Grants, Grant(g) PROVE Goal'
  <2>1. /\ scope["obo"] \in granted'[g]
        /\ \A h \in Grants : scope["obo"] \in granted[h] => scope["obo"] \in granted'[h]
    BY <1>13 DEF Grant, TypeOK
  <2>2. Keeps
    BY <1>13, <2>1 DEF Grant, Keeps
  <2>3. InPlace(g)'
    BY <1>13, <2>1 DEF Grant, InPlace, Grants, Plain, Principals
  <2>4. QED BY <1>13, <2>2, <2>3, <1>r, <1>s DEF Grant
<1>14. ASSUME NEW s \in Principals, AddPrincipal(s) PROVE Goal'
  <2>1. Keeps
    BY <1>14, <1>f DEF AddPrincipal, Save, Keeps
  <2>2. InPlace(s)'
    BY <1>14 DEF AddPrincipal, InPlace, Grants, Plain, Principals
  <2>3. QED BY <1>14, <2>1, <2>2, <1>r, <1>s DEF AddPrincipal, Save
<1>15. ASSUME NEW s \in Plain, Put(s) PROVE Goal'
  <2>1. Keeps
    BY <1>15 DEF Put, Keeps
  <2>2. InPlace(s)'
    BY <1>15 DEF Put, InPlace, Grants, Plain, Principals
  <2>3. QED BY <1>15, <2>1, <2>2, <1>r, <1>s DEF Put
<1>16. CASE CreateCert
  <2>1. Keeps
    BY <1>16 DEF CreateCert, Keeps
  <2>2. InPlace(<<"vault", "cert">>)'
    BY DEF InPlace, Grants, Plain, Principals
  <2>3. QED BY <1>16, <2>1, <2>2, <1>r, <1>s DEF CreateCert
<1>17. CASE UploadKey
  <2>1. Keeps
    BY <1>17, <1>f DEF UploadKey, Save, Keeps
  <2>2. key' \in CertOf(suffix)'
    BY <1>17 DEF UploadKey, CertOf
  <2>3. InPlace(<<"s2s", "key">>)'
    BY <2>2 DEF InPlace, Grants, Plain, Principals
  <2>4. QED BY <1>17, <2>1, <2>3, <1>r, <1>s DEF UploadKey, Save
<1>18. CASE DeployApi
  <2>1. clean => cloudSecret' # 0
    BY <1>18, Earlier DEF DeployApi
  <2>2. clean => Keeps
    BY <1>18, <1>f, <2>1 DEF DeployApi, Save, Keeps
  <2>3. clean => InPlace(<<"cloud", "api">>)'
    BY <2>1 DEF InPlace, Grants, Plain, Principals
  <2>4. QED BY <1>18, <2>2, <2>3, <1>r, <1>s DEF DeployApi, Save
<1>19. CASE RegisterSite
  <2>1. Keeps
    BY <1>19, <1>f DEF RegisterSite, Save, Keeps
  <2>2. InPlace(<<"cloud", "site">>)'
    BY <1>19 DEF RegisterSite, InPlace, Grants, Plain, Principals
  <2>3. QED BY <1>19, <2>1, <2>2, <1>r, <1>s DEF RegisterSite, Save
<1>20. CASE UNCHANGED vars
  BY <1>20, <1>r DEF vars, PassedInPlace, Passed, InPlace, CertOf
<1>21. QED
  BY <1>1, <1>2, <1>3, <1>4, <1>5, <1>6, <1>7, <1>8, <1>9, <1>10, <1>11, <1>12,
     <1>13, <1>14, <1>15, <1>16, <1>17, <1>18, <1>19, <1>20
     DEF Next, AppStep, ExposingStep

(* CleanRunConfigures: the script is passed in order, and what one command *)
(* put in place no later one takes away, whatever earlier runs left.       *)
THEOREM CleanRunsConfigure == Spec => []CleanRunConfigures
<1>1. Init => RunInv
  <2>1. Init => Passed = {}
    BY DEF Init, Passed
  <2>2. Init => Registrations
    BY DEF Init, Registrations, NoId
  <2>3. QED BY <2>1, <2>2, InitIds DEF RunInv, PassedInPlace
<1>2. RunInv /\ [Next]_vars => RunInv'
  BY RunStep
<1>3. RunInv => CleanRunConfigures
  BY EndConfigured
<1>4. QED BY <1>1, <1>2, <1>3, PTL DEF Spec
=============================================================================
