--------------------------- MODULE SecretsProofs ---------------------------
(***************************************************************************)
(* Proofs about Secrets for any keys and processes, any number of          *)
(* versions, attempts, commands and kills.                                 *)
(***************************************************************************)
EXTENDS Secrets, WellFoundedInduction, TLAPS

SetSteps    == {"set_names", "set_read", "create", "save"}
DeleteSteps == {"del_names", "del_read", "rm", "forget"}
AppSteps    == {"resolve", "latest_names", "latest_read", "stack", "record"}

\* Values of secrets; the locals of a command.
Values == 0..MaxSecretOps + 2
Locals ==
  [key : Keys, value : Values, version : Nat, tries : Nat, names : [Keys -> SUBSET Versions],
   refs : SUBSET Keys, pinned : Binding, todo : SUBSET Versions,
   bound : [Keys -> VersionsOrUnset], floor : [Keys -> Values], epoch : [Keys -> Nat]]

SecretsTypes ==
  /\ SecretsTypeOK
  /\ sPc \in [SecretUsers -> {"idle", "lock_app"} \cup SetSteps \cup DeleteSteps \cup AppSteps]
  /\ sCmd \in [SecretUsers -> Locals]
  /\ stored \in [Keys -> [Versions -> Values]]
  /\ newest \in [Keys -> Values] /\ erased \in [Keys -> Nat]

Holds(p) == sPc[p] \in SetSteps \cup DeleteSteps

\* The lock of a key has one holder.
KeyMutex == \A p, q \in SecretUsers : Holds(p) /\ Holds(q) /\ sCmd[p].key = sCmd[q].key => p = q

\* What the holder of a key's lock has read and done is still so.
HolderKnows(p) ==
  LET k == sCmd[p].key
      v == sCmd[p].version IN
  /\ sPc[p] \in {"set_read", "del_read"} => sCmd[p].names[k] = records[k]
  /\ SAt(p, "create") => \A w \in records[k] : w < v
  /\ SAt(p, "save") => v \in Versions /\ vault[k][v] = sCmd[p].value
  /\ sPc[p] \in {"rm", "forget"} => sCmd[p].todo # {} /\ sCmd[p].todo \subseteq records[k]
  /\ SAt(p, "forget") => vault[k][Biggest(sCmd[p].todo)] = Unset

\* A deploy binds only what its service refers to.
BindsReferences(p) ==
  /\ \A k \in Keys : sCmd[p].bound[k] # Unset => k \in sCmd[p].refs
  /\ sPc[p] \in {"latest_names", "latest_read"} => sCmd[p].key \in sCmd[p].refs

SecretsInv ==
  /\ SecretsTypes
  /\ KeyMutex
  /\ \A p \in SecretUsers : HolderKnows(p) /\ BindsReferences(p)
  /\ MetadataMatchesSwarm

\* One process at a time is past the lock of its app.
AppMutex == \A p, q \in SecretUsers : sPc[p] \in AppSteps /\ sPc[q] \in AppSteps => p = q

\* The newest value of a key is that of the highest recorded version, ...
NewestStands ==
  \A k \in Keys :
    /\ newest[k] <= sOps + 2
    /\ newest[k] # Unset => records[k] # {} /\ vault[k][Biggest(records[k])] = newest[k]

\* ... and the holder of the key's lock is about to store a newer one in a higher
\* version, or has just removed it.
HolderReplaces(p) ==
  LET k == sCmd[p].key IN
  /\ sPc[p] \in SetSteps => newest[k] < sCmd[p].value /\ sCmd[p].value <= sOps + 2
  /\ SAt(p, "save") => \A w \in records[k] : w < sCmd[p].version
  /\ SAt(p, "forget") => newest[k] = Unset

\* In the epoch of its lock a deploy has seen nothing older than its floor.
DeployFollows(p) ==
  /\ SAt(p, "lock_app") => \A k \in Keys : sCmd[p].bound[k] = Unset
  /\ sPc[p] \in AppSteps =>
       \A k \in Keys :
         /\ sCmd[p].epoch[k] <= erased[k]
         /\ sCmd[p].epoch[k] = erased[k] /\ sCmd[p].floor[k] # Unset =>
              /\ newest[k] >= sCmd[p].floor[k]
              /\ SAt(p, "latest_read") =>
                   /\ sCmd[p].names[k] # {}
                   /\ vault[k][Biggest(sCmd[p].names[k])] >= sCmd[p].floor[k]
              /\ sCmd[p].pinned.version[k] = Unset /\ sCmd[p].bound[k] # Unset =>
                   vault[k][sCmd[p].bound[k]] >= sCmd[p].floor[k]

\* A pinned version is still the secret that the deployment had, in its epoch.
PinTrue(r) ==
  \A k \in Keys :
    /\ r.epoch[k] <= erased[k]
    /\ r.version[k] # Unset /\ r.epoch[k] = erased[k] =>
         r.value[k] # Unset /\ vault[k][r.version[k]] = r.value[k]

\* What the service gets: the pinned versions of a rollback, the others once each has
\* been found, and as long as the deployment is not recorded nobody removes them.
BindsPinned(p) ==
  /\ \A k \in Keys : sCmd[p].pinned.version[k] # Unset /\ sCmd[p].bound[k] # Unset =>
       sCmd[p].bound[k] = sCmd[p].pinned.version[k]
  /\ sPc[p] \in {"latest_names", "latest_read"} =>
       sCmd[p].pinned.version[sCmd[p].key] = Unset
  /\ SAt(p, "stack") => Unresolved(p) = {}
  /\ SAt(p, "record") => \A k \in Keys : sCmd[p].bound[k] # Unset =>
       mounted[k] = sCmd[p].bound[k] /\ vault[k][sCmd[p].bound[k]] # Unset

BindingsInv ==
  /\ AppMutex
  /\ NewestStands
  /\ \A p \in SecretUsers : HolderReplaces(p) /\ DeployFollows(p) /\ BindsPinned(p)
  /\ \A p \in SecretUsers : PinTrue(sCmd[p].pinned)
  /\ \A i \in DOMAIN pins : PinTrue(pins[i])

-----------------------------------------------------------------------------
\* A set of versions that is not empty has a highest one.
LEMMA BiggestIsHighest ==
  ASSUME NEW S \in SUBSET Versions, S # {}
  PROVE  Biggest(S) \in S /\ \A w \in S : w <= Biggest(S)
<1> DEFINE U == {n \in Nat : \A w \in S : w <= n}
<1>1. MaxVersion \in U
  BY SecretsAssumption DEF Versions
<1>2. IsWellFoundedOn({ss \in Nat \X Nat : ss[1] < ss[2]}, Nat)
  BY NatLessThanWellFounded, Zenon DEF OpToRel
<1>3. \E n \in U : \A m \in U : ~(<<m, n>> \in {ss \in Nat \X Nat : ss[1] < ss[2]})
  <2> HIDE DEF U
  <2>1. U \subseteq Nat /\ U # {}
    BY <1>1 DEF U
  <2> QED
    BY <1>2, <2>1, WFMin, Zenon
<1>4. PICK n \in U : \A m \in U : ~(m < n)
  BY <1>3
<1>5. n \in S
  <2> SUFFICES ASSUME n \notin S PROVE FALSE
    OBVIOUS
  <2>1. S \subseteq Nat \ {0}
    BY SecretsAssumption DEF Versions
  <2>2. n # 0
    <3>1. PICK w \in S : TRUE
      OBVIOUS
    <3> QED
      BY <2>1, <3>1
  <2>3. \A w \in S : w <= n - 1
    BY <2>1
  <2> QED
    BY <1>4, <2>2, <2>3
<1> QED
  BY <1>5 DEF Biggest

\* What a listing's highest version can be.
LEMMA BiggestType ==
  ASSUME NEW S \in SUBSET Versions
  PROVE  Biggest(S) \in VersionsOrUnset /\ \A w \in S : w <= Biggest(S)
<1>1. CASE S = {}
  BY <1>1 DEF Biggest, VersionsOrUnset
<1>2. CASE S # {}
  BY <1>2, BiggestIsHighest DEF VersionsOrUnset
<1> QED
  BY <1>1, <1>2

\* The locals of a process that runs no command, or begins one.
LEMMA NoCommandType ==
  /\ NoSecretCmd \in Locals
  /\ \A k \in Keys : NoSecretCmd.bound[k] = Unset
<1>1. (CHOOSE k \in Keys : TRUE) \in Keys
  BY SecretsAssumption
<1>2. NoBinding \in Binding
  BY SecretsAssumption DEF NoBinding, Binding, Nothing, Unset, VersionsOrUnset
<1> QED
  BY <1>1, <1>2, SecretsAssumption DEF NoSecretCmd, Locals, Nothing, Unset, VersionsOrUnset, Values

-----------------------------------------------------------------------------
\* What one process can do.
StepOf(p) ==
  \/ \E k \in Keys : StartSet(p, k) \/ StartDelete(p, k)
  \/ \E refs \in SUBSET Keys \ {{}} : StartSecretDeploy(p, refs) \/ StartSecretRollback(p, refs)
  \/ ListSecrets(p) \/ ListFails(p)
  \/ NextVersion(p) \/ CreateSecret(p) \/ SaveSecret(p)
  \/ DeleteRead(p) \/ RemoveSecret(p) \/ ForgetSecret(p)
  \/ LockApp(p) \/ Resolve(p) \/ LatestRead(p) \/ DeployStack(p) \/ RecordBindings(p)
  \/ SecretFault(p)

\* Every step of a command leaves the other commands where they are.
LEMMA OthersWait ==
  ASSUME SecretsTypes, NEW p \in SecretUsers, StepOf(p)
  PROVE  \A q \in SecretUsers \ {p} : sPc'[q] = sPc[q] /\ sCmd'[q] = sCmd[q]
<1> USE DEF SecretsTypes, SGoto, SDone
<1>1. ASSUME NEW k \in Keys, StartSet(p, k) \/ StartDelete(p, k)
      PROVE  \A q \in SecretUsers \ {p} : sPc'[q] = sPc[q] /\ sCmd'[q] = sCmd[q]
  BY <1>1 DEF StartSet, StartDelete
<1>2. ASSUME NEW refs \in SUBSET Keys, StartSecretDeploy(p, refs) \/ StartSecretRollback(p, refs)
      PROVE  \A q \in SecretUsers \ {p} : sPc'[q] = sPc[q] /\ sCmd'[q] = sCmd[q]
  BY <1>2 DEF StartSecretDeploy, StartSecretRollback
<1>3. CASE ListSecrets(p) \/ ListFails(p)
  BY <1>3 DEF ListSecrets, ListNames, ListFails
<1>4. CASE NextVersion(p) \/ CreateSecret(p) \/ SaveSecret(p)
  BY <1>4 DEF NextVersion, CreateSecret, SaveSecret
<1>5. CASE DeleteRead(p) \/ RemoveSecret(p) \/ ForgetSecret(p)
  BY <1>5 DEF DeleteRead, RemoveSecret, ForgetSecret
<1>6. CASE LockApp(p) \/ Resolve(p) \/ LatestRead(p) \/ DeployStack(p) \/ RecordBindings(p)
  BY <1>6 DEF LockApp, Resolve, LatestRead, DeployStack, RecordBindings
<1>7. CASE SecretFault(p)
  BY <1>7 DEF SecretFault
<1> QED
  BY <1>1, <1>2, <1>3, <1>4, <1>5, <1>6, <1>7 DEF StepOf

\* A key's lock is taken when it is free, and a holder keeps to its key.
LEMMA LockStep ==
  ASSUME SecretsTypes, NEW p \in SecretUsers, StepOf(p), Holds(p)'
  PROVE  \/ Holds(p) /\ sCmd'[p].key = sCmd[p].key
         \/ ~KeyLocked(sCmd'[p].key)
<1> USE DEF SecretsTypes, SGoto, SDone, SAt, Holds, SetSteps, DeleteSteps
<1>1. ASSUME NEW k \in Keys, StartSet(p, k) \/ StartDelete(p, k)
      PROVE  ~KeyLocked(sCmd'[p].key)
  <2>1. CASE StartSet(p, k)
    BY <2>1, NoCommandType DEF StartSet, Locals
  <2>2. CASE StartDelete(p, k)
    BY <2>2, NoCommandType DEF StartDelete, Locals
  <2> QED
    BY <1>1, <2>1, <2>2
<1>2. ASSUME NEW refs \in SUBSET Keys, StartSecretDeploy(p, refs) \/ StartSecretRollback(p, refs)
      PROVE  FALSE
  BY <1>2 DEF StartSecretDeploy, StartSecretRollback
<1>3. CASE ListSecrets(p) \/ ListFails(p)
  <2>1. sCmd'[p].key = sCmd[p].key /\ Holds(p)
    BY <1>3 DEF ListSecrets, ListNames, ListFails, Locals
  <2> QED
    BY <2>1
<1>4. CASE NextVersion(p) \/ CreateSecret(p) \/ SaveSecret(p)
  <2>1. sCmd'[p].key = sCmd[p].key /\ Holds(p)
    BY <1>4 DEF NextVersion, CreateSecret, SaveSecret, Locals
  <2> QED
    BY <2>1
<1>5. CASE DeleteRead(p) \/ RemoveSecret(p) \/ ForgetSecret(p)
  <2>1. sCmd'[p].key = sCmd[p].key /\ Holds(p)
    BY <1>5 DEF DeleteRead, RemoveSecret, ForgetSecret, Locals
  <2> QED
    BY <2>1
<1>6. CASE LockApp(p) \/ Resolve(p) \/ LatestRead(p) \/ DeployStack(p) \/ RecordBindings(p)
  BY <1>6 DEF LockApp, Resolve, LatestRead, DeployStack, RecordBindings
<1>7. CASE SecretFault(p)
  BY <1>7 DEF SecretFault
<1> QED
  BY <1>1, <1>2, <1>3, <1>4, <1>5, <1>6, <1>7 DEF StepOf

\* Only the holder of a key's lock changes the files and the secrets of the key.
LEMMA OnlyHolderWrites ==
  ASSUME SecretsTypes, NEW p \in SecretUsers, StepOf(p), NEW k \in Keys,
         ~(Holds(p) /\ sCmd[p].key = k)
  PROVE  records'[k] = records[k] /\ vault'[k] = vault[k] /\ stored'[k] = stored[k]
<1> USE DEF SecretsTypes, SecretsTypeOK, SAt, Holds, SetSteps, DeleteSteps, secretFiles,
            secretHistory
<1>1. ASSUME NEW j \in Keys, StartSet(p, j) \/ StartDelete(p, j)
      PROVE  UNCHANGED <<records, vault, stored>>
  BY <1>1 DEF StartSet, StartDelete
<1>2. ASSUME NEW refs \in SUBSET Keys, StartSecretDeploy(p, refs) \/ StartSecretRollback(p, refs)
      PROVE  UNCHANGED <<records, vault, stored>>
  BY <1>2 DEF StartSecretDeploy, StartSecretRollback
<1>3. CASE ListSecrets(p) \/ ListFails(p)
  BY <1>3 DEF ListSecrets, ListFails
<1>4. CASE NextVersion(p) \/ CreateSecret(p) \/ SaveSecret(p)
  <2>1. sCmd[p].key # k
    BY <1>4 DEF NextVersion, CreateSecret, SaveSecret
  <2> QED
    BY <1>4, <2>1 DEF NextVersion, CreateSecret, SaveSecret
<1>5. CASE DeleteRead(p) \/ RemoveSecret(p) \/ ForgetSecret(p)
  <2>1. sCmd[p].key # k
    BY <1>5 DEF DeleteRead, RemoveSecret, ForgetSecret
  <2> QED
    BY <1>5, <2>1 DEF DeleteRead, RemoveSecret, ForgetSecret
<1>6. CASE LockApp(p) \/ Resolve(p) \/ LatestRead(p) \/ DeployStack(p) \/ RecordBindings(p)
  BY <1>6 DEF LockApp, Resolve, LatestRead, DeployStack, RecordBindings
<1>7. CASE SecretFault(p)
  BY <1>7 DEF SecretFault
<1> QED
  BY <1>1, <1>2, <1>3, <1>4, <1>5, <1>6, <1>7 DEF StepOf

\* Every variable keeps its type.
LEMMA TypesStep ==
  ASSUME SecretsTypes, NEW p \in SecretUsers, StepOf(p),
         SAt(p, "save") => sCmd[p].version \in Versions,
         sPc[p] \in {"rm", "forget"} => sCmd[p].todo # {}
  PROVE  SecretsTypes'
<1> USE SecretsAssumption
<1> USE DEF SecretsTypes, SecretsTypeOK, SAt, SGoto, SetSteps, DeleteSteps, AppSteps,
            secretFiles, secretHistory
<1>c. sCmd[p] \in Locals
  OBVIOUS
<1>n. NoSecretCmd \in Locals
  BY NoCommandType
<1>1. ASSUME NEW k \in Keys, StartSet(p, k) \/ StartDelete(p, k)
      PROVE  SecretsTypes'
  <2>1. sOps' \in 0..MaxSecretOps /\ sOps + 3 \in Values
    BY <1>1 DEF StartSet, StartDelete, SBegin, Values
  <2>2. CASE StartSet(p, k)
    <3>1. [NoSecretCmd EXCEPT !.key = k, !.value = sOps + 3] \in Locals
      BY <1>n, <2>1 DEF Locals
    <3> QED
      BY <2>1, <2>2, <3>1 DEF StartSet
  <2>3. CASE StartDelete(p, k)
    <3>1. [NoSecretCmd EXCEPT !.key = k] \in Locals
      BY <1>n DEF Locals
    <3> QED
      BY <2>1, <2>3, <3>1 DEF StartDelete
  <2> QED
    BY <1>1, <2>2, <2>3
<1>2. ASSUME NEW refs \in SUBSET Keys, StartSecretDeploy(p, refs) \/ StartSecretRollback(p, refs)
      PROVE  SecretsTypes'
  <2>1. sOps' \in 0..MaxSecretOps
    BY <1>2 DEF StartSecretDeploy, StartSecretRollback, SBegin
  <2>2. CASE StartSecretDeploy(p, refs)
    <3>1. [NoSecretCmd EXCEPT !.refs = refs] \in Locals
      BY <1>n DEF Locals
    <3> QED
      BY <2>1, <2>2, <3>1 DEF StartSecretDeploy
  <2>3. CASE StartSecretRollback(p, refs)
    <3>1. pins[Len(pins) - 1] \in Binding
      BY <2>3 DEF StartSecretRollback
    <3>2. [NoSecretCmd EXCEPT !.refs = refs, !.pinned = pins[Len(pins) - 1]] \in Locals
      BY <1>n, <3>1 DEF Locals
    <3> QED
      BY <2>1, <2>3, <3>2 DEF StartSecretRollback
  <2> QED
    BY <1>2, <2>2, <2>3
<1>3. CASE SDone(p) /\ UNCHANGED <<records, vault, stored, newest, erased, mounted, pins, sOps>>
                    /\ sFaults' \in 0..MaxSecretFaults
  BY <1>3, <1>n DEF SDone
<1>4. CASE ListFails(p) \/ SecretFault(p)
  BY <1>3, <1>4 DEF ListFails, SecretFault
<1>5. CASE ListSecrets(p)
  <2>1. [sCmd[p] EXCEPT !.names = records] \in Locals
    BY <1>c DEF Locals
  <2> QED
    BY <1>5, <2>1 DEF ListSecrets, ListNames
<1>6. CASE NextVersion(p)
  <2>1. sCmd[p].names[sCmd[p].key] \in SUBSET Versions
    BY <1>c DEF Locals
  <2>2. Biggest(sCmd[p].names[sCmd[p].key]) + 1 \in Nat
    <3>1. Biggest(sCmd[p].names[sCmd[p].key]) \in VersionsOrUnset
      BY <2>1, BiggestType
    <3> QED
      BY <3>1 DEF VersionsOrUnset, Versions, Unset
  <2>3. [sCmd[p] EXCEPT !.version = Biggest(sCmd[p].names[sCmd[p].key]) + 1] \in Locals
    BY <1>c, <2>2 DEF Locals
  <2> QED
    BY <1>6, <2>3 DEF NextVersion
<1>7. CASE CreateSecret(p)
  <2> DEFINE k == sCmd[p].key
             v == sCmd[p].version
  <2>1. k \in Keys /\ v \in Versions /\ sCmd[p].value \in Values
    BY <1>7, <1>c DEF CreateSecret, Locals
  <2>2. CASE /\ vault' = [vault EXCEPT ![k][v] = sCmd[p].value]
             /\ SGoto(p, "save")
             /\ UNCHANGED sCmd
    BY <1>7, <2>1, <2>2 DEF CreateSecret, Values
  <2>3. CASE /\ sCmd' = [sCmd EXCEPT ![p].version = v + 1, ![p].tries = @ + 1]
             /\ UNCHANGED <<vault, sPc>>
    <3>1. [sCmd[p] EXCEPT !.version = v + 1, !.tries = sCmd[p].tries + 1] \in Locals
      <4>1. sCmd[p].version + 1 \in Nat /\ sCmd[p].tries + 1 \in Nat
        BY <1>c DEF Locals
      <4> QED
        BY <1>c, <4>1 DEF Locals
    <3>2. sCmd' = [sCmd EXCEPT ![p] = [sCmd[p] EXCEPT !.version = v + 1, !.tries = sCmd[p].tries + 1]]
      BY <2>3, <1>c DEF Locals
    <3> QED
      BY <1>7, <2>3, <3>1, <3>2 DEF CreateSecret
  <2>4. CASE SDone(p) /\ UNCHANGED vault
    BY <1>3, <1>7, <2>4 DEF CreateSecret
  <2> QED
    BY <1>7, <2>2, <2>3, <2>4 DEF CreateSecret
<1>8. CASE SaveSecret(p)
  <2>1. sCmd[p].key \in Keys /\ sCmd[p].value \in Values /\ sCmd[p].version \in Versions
    BY <1>8, <1>c DEF SaveSecret, Locals
  <2>2. /\ records' \in [Keys -> SUBSET Versions]
        /\ stored' \in [Keys -> [Versions -> Values]]
        /\ newest' \in [Keys -> Values]
    BY <1>8, <2>1 DEF SaveSecret
  <2> QED
    BY <1>8, <1>n, <2>2 DEF SaveSecret, SDone
<1>9. CASE DeleteRead(p)
  <2>1. [sCmd[p] EXCEPT !.todo = sCmd[p].names[sCmd[p].key]] \in Locals
    <3>1. sCmd[p].names[sCmd[p].key] \in SUBSET Versions
      BY <1>c DEF Locals
    <3> QED
      BY <1>c, <3>1 DEF Locals
  <2>2. CASE SDone(p)
    BY <1>3, <1>9, <2>2 DEF DeleteRead
  <2>3. CASE /\ sCmd' = [sCmd EXCEPT ![p].todo = sCmd[p].names[sCmd[p].key]]
             /\ SGoto(p, "rm")
    BY <1>9, <2>1, <2>3 DEF DeleteRead
  <2> QED
    BY <1>9, <2>2, <2>3 DEF DeleteRead
<1>10. CASE RemoveSecret(p)
  <2> DEFINE k == sCmd[p].key
             v == Biggest(sCmd[p].todo)
  <2>1. k \in Keys /\ v \in Versions
    BY <1>10, <1>c, BiggestIsHighest DEF RemoveSecret, Locals
  <2>2. CASE SDone(p) /\ UNCHANGED <<vault, newest, erased>>
    BY <1>3, <1>10, <2>2 DEF RemoveSecret
  <2>3. CASE /\ vault' = [vault EXCEPT ![k][v] = Unset]
             /\ newest' = [newest EXCEPT ![k] = Unset]
             /\ erased' = [erased EXCEPT ![k] = @ + 1]
             /\ SGoto(p, "forget")
             /\ UNCHANGED sCmd
    BY <1>10, <2>1, <2>3 DEF RemoveSecret, Values, Unset
  <2> QED
    BY <1>10, <2>2, <2>3 DEF RemoveSecret
<1>11. CASE ForgetSecret(p)
  <2>1. records' \in [Keys -> SUBSET Versions]
    BY <1>11 DEF ForgetSecret
  <2>2. [sCmd[p] EXCEPT !.todo = sCmd[p].todo \ {Biggest(sCmd[p].todo)}] \in Locals
    <3>1. sCmd[p].todo \ {Biggest(sCmd[p].todo)} \in SUBSET Versions
      BY <1>c DEF Locals
    <3> QED
      BY <1>c, <3>1 DEF Locals
  <2>3. CASE SDone(p)
    BY <1>11, <1>n, <2>1, <2>3 DEF ForgetSecret, SDone
  <2>4. CASE /\ sCmd' = [sCmd EXCEPT ![p].todo = @ \ {Biggest(sCmd[p].todo)}]
             /\ SGoto(p, "rm")
    <3>1. sCmd' = [sCmd EXCEPT ![p] = [sCmd[p] EXCEPT !.todo = sCmd[p].todo \ {Biggest(sCmd[p].todo)}]]
      BY <2>4, <1>c DEF Locals
    <3> QED
      BY <1>11, <2>1, <2>2, <2>4, <3>1 DEF ForgetSecret
  <2> QED
    BY <1>11, <2>3, <2>4 DEF ForgetSecret
<1>12. CASE LockApp(p)
  <2>1. [sCmd[p] EXCEPT !.floor = newest, !.epoch = erased] \in Locals
    BY <1>c DEF Locals
  <2>2. sCmd' = [sCmd EXCEPT ![p] = [sCmd[p] EXCEPT !.floor = newest, !.epoch = erased]]
    BY <1>12, <1>c DEF LockApp, Locals
  <2> QED
    BY <1>12, <2>1, <2>2 DEF LockApp
<1>13. CASE Resolve(p)
  <2>1. CASE SGoto(p, "stack") /\ UNCHANGED sCmd
    BY <1>13, <2>1 DEF Resolve
  <2>2. ASSUME NEW k \in Keys,
               sCmd' = [sCmd EXCEPT ![p].bound[k] = sCmd[p].pinned.version[k]], UNCHANGED sPc
        PROVE  SecretsTypes'
    <3>1. sCmd[p].pinned.version[k] \in VersionsOrUnset /\ sCmd[p].bound \in [Keys -> VersionsOrUnset]
      BY <1>c DEF Locals, Binding
    <3>2. [sCmd[p] EXCEPT !.bound = [sCmd[p].bound EXCEPT ![k] = sCmd[p].pinned.version[k]]] \in Locals
      BY <1>c, <3>1 DEF Locals
    <3> QED
      BY <1>13, <2>2, <3>2 DEF Resolve
  <2>3. ASSUME NEW k \in Keys, sCmd' = [sCmd EXCEPT ![p].key = k], SGoto(p, "latest_names")
        PROVE  SecretsTypes'
    <3>1. [sCmd[p] EXCEPT !.key = k] \in Locals
      BY <1>c DEF Locals
    <3> QED
      BY <1>13, <2>3, <3>1 DEF Resolve
  <2>4. Unresolved(p) \subseteq Keys
    BY <1>c DEF Unresolved, Locals
  <2> QED
    BY <1>13, <2>1, <2>2, <2>3, <2>4 DEF Resolve
<1>14. CASE LatestRead(p)
  <2> DEFINE k == sCmd[p].key
             v == Latest(sCmd[p].names[k])
  <2>1. k \in Keys /\ sCmd[p].names[k] \in SUBSET Versions /\ sCmd[p].bound \in [Keys -> VersionsOrUnset]
    BY <1>c DEF Locals
  <2>2. v \in VersionsOrUnset
    BY <2>1, BiggestType DEF Latest
  <2>3. [sCmd[p] EXCEPT !.bound = [sCmd[p].bound EXCEPT ![k] = v]] \in Locals
    BY <1>c, <2>1, <2>2 DEF Locals
  <2> QED
    BY <1>3, <1>14, <2>3, ZenonT(30) DEF LatestRead
<1>15. CASE DeployStack(p)
  <2>1. sCmd[p].bound \in [Keys -> VersionsOrUnset]
    BY <1>c DEF Locals
  <2> QED
    BY <1>3, <1>15, <2>1 DEF DeployStack
<1>16. CASE RecordBindings(p)
  <2> DEFINE b == sCmd[p].bound
             r == [version |-> b, epoch |-> erased,
                   value |-> [k \in Keys |-> IF b[k] = Unset THEN Unset ELSE vault[k][b[k]]]]
  <2>1. b \in [Keys -> VersionsOrUnset]
    BY <1>c DEF Locals
  <2>2. r \in Binding
    BY <2>1 DEF Binding, VersionsOrUnset, Unset
  <2>3. Append(IF Len(pins) < 2 THEN pins ELSE Tail(pins), r) \in Seq(Binding)
    <3> HIDE DEF r
    <3> QED
      BY <2>2
  <2>4. Len(Append(IF Len(pins) < 2 THEN pins ELSE Tail(pins), r)) <= 2
    <3> HIDE DEF r
    <3> QED
      BY <2>2
  <2> QED
    BY <1>16, <1>n, <2>3, <2>4 DEF RecordBindings, SDone
<1> QED
  BY <1>1, <1>2, <1>4, <1>5, <1>6, <1>7, <1>8, <1>9, <1>10, <1>11, <1>12, <1>13, <1>14, <1>15,
     <1>16 DEF StepOf

\* What the holder of another key's lock knows stays so.
LEMMA OthersKnow ==
  ASSUME SecretsTypes, KeyMutex, NEW p \in SecretUsers, StepOf(p),
         NEW q \in SecretUsers, q # p, HolderKnows(q)
  PROVE  HolderKnows(q)'
<1>1. sPc'[q] = sPc[q] /\ sCmd'[q] = sCmd[q] /\ sCmd[q].key \in Keys
  BY OthersWait DEF SecretsTypes, Locals
<1>2. CASE Holds(q)
  <2>1. ~(Holds(p) /\ sCmd[p].key = sCmd[q].key)
    BY <1>2 DEF KeyMutex
  <2>2. /\ records'[sCmd[q].key] = records[sCmd[q].key]
        /\ vault'[sCmd[q].key] = vault[sCmd[q].key]
    BY <1>1, <2>1, OnlyHolderWrites
  <2> QED
    BY <1>1, <2>2 DEF HolderKnows, SAt
<1>3. CASE ~Holds(q)
  BY <1>1, <1>3 DEF HolderKnows, SAt, Holds, SetSteps, DeleteSteps
<1> QED
  BY <1>2, <1>3

\* A process knows after its own step what the next one relies on.
LEMMA KnowsStep ==
  ASSUME SecretsTypes, NEW p \in SecretUsers, StepOf(p), HolderKnows(p)
  PROVE  HolderKnows(p)'
<1> USE DEF SAt, SGoto
<1>c. /\ sCmd[p] \in Locals /\ p \in DOMAIN sCmd /\ p \in DOMAIN sPc
      /\ records \in [Keys -> SUBSET Versions] /\ vault \in [Keys -> [Versions -> Values]]
  BY DEF SecretsTypes, SecretsTypeOK, Values
<1>t. /\ sCmd[p].key \in Keys /\ sCmd[p].todo \in SUBSET Versions /\ sCmd[p].version \in Nat
      /\ sCmd[p].names[sCmd[p].key] \in SUBSET Versions
  BY <1>c DEF Locals
<1>0. CASE sPc'[p] \notin {"set_read", "del_read", "create", "save", "rm", "forget"}
  BY <1>0 DEF HolderKnows
<1>1. CASE ListSecrets(p)
  <2>1. sCmd'[p].key = sCmd[p].key /\ sCmd'[p].names = records
    BY <1>1, <1>c DEF ListSecrets, ListNames, Locals
  <2>2. sPc'[p] \in {"set_read", "del_read", "latest_read"} /\ records' = records
    BY <1>1, <1>c DEF ListSecrets, ListNames, secretFiles
  <2> QED
    BY <2>1, <2>2 DEF HolderKnows
<1>2. CASE NextVersion(p)
  <2> DEFINE k == sCmd[p].key
  <2>1. sCmd'[p].key = k /\ sCmd'[p].version = Biggest(sCmd[p].names[k]) + 1
    BY <1>2, <1>c DEF NextVersion, Locals
  <2>2. sPc'[p] = "create" /\ records' = records /\ sCmd[p].names[k] = records[k]
    BY <1>2, <1>c DEF NextVersion, secretFiles, HolderKnows
  <2>3. \A w \in records[k] : w <= Biggest(records[k])
    BY <1>t, <2>2, BiggestType
  <2>4. Biggest(records[k]) \in Nat /\ records[k] \subseteq Nat
    <3>1. Biggest(records[k]) \in VersionsOrUnset
      BY <1>t, <2>2, BiggestType
    <3> QED
      BY <1>t, <2>2, <3>1, SecretsAssumption DEF VersionsOrUnset, Versions, Unset
  <2>5. \A w \in records[k] : w < Biggest(records[k]) + 1
    BY <2>3, <2>4
  <2> QED
    BY <2>1, <2>2, <2>5 DEF HolderKnows
<1>3. CASE CreateSecret(p)
  <2> DEFINE k == sCmd[p].key
             v == sCmd[p].version
  <2>1. v \in Versions /\ records' = records /\ \A w \in records[k] : w < v
    BY <1>3 DEF CreateSecret, secretFiles, HolderKnows
  <2>2. CASE /\ vault' = [vault EXCEPT ![k][v] = sCmd[p].value]
             /\ SGoto(p, "save")
             /\ UNCHANGED sCmd
    BY <1>c, <1>t, <2>1, <2>2 DEF HolderKnows
  <2>3. CASE /\ sCmd' = [sCmd EXCEPT ![p].version = v + 1, ![p].tries = @ + 1]
             /\ UNCHANGED <<vault, sPc>>
    <3>1. sCmd'[p].key = k /\ sCmd'[p].version = v + 1
      BY <1>c, <2>3 DEF Locals
    <3>2. \A w \in records[k] : w < v + 1
      <4>1. records[k] \subseteq Nat
        BY <1>c, <1>t, SecretsAssumption DEF Versions
      <4> QED
        BY <1>t, <2>1, <4>1
    <3>3. sPc'[p] = "create"
      BY <1>3, <2>3 DEF CreateSecret
    <3> QED
      BY <2>1, <3>1, <3>2, <3>3 DEF HolderKnows
  <2>4. CASE SDone(p)
    BY <1>0, <1>c, <2>4 DEF SDone
  <2> QED
    BY <1>3, <2>2, <2>3, <2>4 DEF CreateSecret
<1>4. CASE DeleteRead(p)
  <2> DEFINE k == sCmd[p].key
  <2>1. records' = records /\ sCmd[p].names[k] = records[k]
    BY <1>4 DEF DeleteRead, secretFiles, HolderKnows
  <2>2. CASE SDone(p)
    BY <1>0, <1>c, <2>2 DEF SDone
  <2>3. CASE /\ sCmd[p].names[k] # {}
             /\ sCmd' = [sCmd EXCEPT ![p].todo = sCmd[p].names[k]]
             /\ SGoto(p, "rm")
    <3>1. sCmd'[p].key = k /\ sCmd'[p].todo = records[k] /\ sPc'[p] = "rm"
      BY <1>c, <2>1, <2>3 DEF Locals
    <3> QED
      BY <2>1, <2>3, <3>1 DEF HolderKnows
  <2> QED
    BY <1>4, <2>2, <2>3 DEF DeleteRead
<1>5. CASE RemoveSecret(p)
  <2> DEFINE k == sCmd[p].key
             v == Biggest(sCmd[p].todo)
  <2>1. sCmd[p].todo # {} /\ sCmd[p].todo \subseteq records[k] /\ records' = records
    BY <1>5 DEF RemoveSecret, secretFiles, HolderKnows
  <2>2. CASE SDone(p)
    BY <1>0, <1>c, <2>2 DEF SDone
  <2>3. CASE /\ vault' = [vault EXCEPT ![k][v] = Unset]
             /\ SGoto(p, "forget")
             /\ UNCHANGED sCmd
    <3>1. v \in Versions
      BY <1>t, <2>1, BiggestIsHighest
    <3> QED
      BY <1>c, <1>t, <2>1, <2>3, <3>1 DEF HolderKnows
  <2> QED
    BY <1>5, <2>2, <2>3 DEF RemoveSecret
<1>6. CASE ForgetSecret(p)
  <2> DEFINE k == sCmd[p].key
             v == Biggest(sCmd[p].todo)
  <2>1. /\ sCmd[p].todo # {} /\ sCmd[p].todo \subseteq records[k]
        /\ records' = [records EXCEPT ![k] = @ \ {v}]
    BY <1>6 DEF ForgetSecret, HolderKnows
  <2>2. CASE SDone(p)
    BY <1>0, <1>c, <2>2 DEF SDone
  <2>3. CASE /\ sCmd[p].todo # {v}
             /\ sCmd' = [sCmd EXCEPT ![p].todo = @ \ {v}]
             /\ SGoto(p, "rm")
    <3>1. sCmd'[p].key = k /\ sCmd'[p].todo = sCmd[p].todo \ {v} /\ sPc'[p] = "rm"
      BY <1>c, <2>3 DEF Locals
    <3>2. sCmd[p].todo \ {v} # {}
      BY <1>t, <2>1, <2>3, BiggestIsHighest
    <3>3. records'[k] = records[k] \ {v}
      BY <1>c, <1>t, <2>1
    <3> QED
      BY <2>1, <3>1, <3>2, <3>3 DEF HolderKnows
  <2> QED
    BY <1>6, <2>2, <2>3 DEF ForgetSecret
<1>7. ASSUME NEW k \in Keys, StartSet(p, k) \/ StartDelete(p, k)
      PROVE  HolderKnows(p)'
  BY <1>0, <1>7, <1>c DEF StartSet, StartDelete
<1>8. ASSUME NEW refs \in SUBSET Keys, StartSecretDeploy(p, refs) \/ StartSecretRollback(p, refs)
      PROVE  HolderKnows(p)'
  BY <1>0, <1>8, <1>c DEF StartSecretDeploy, StartSecretRollback
<1>9. CASE ListFails(p) \/ SaveSecret(p) \/ SecretFault(p)
  BY <1>0, <1>9, <1>c DEF ListFails, SaveSecret, SecretFault, SDone
<1>10. CASE LockApp(p) \/ Resolve(p) \/ LatestRead(p) \/ DeployStack(p) \/ RecordBindings(p)
  BY <1>0, <1>10, <1>c DEF LockApp, Resolve, LatestRead, DeployStack, RecordBindings, SDone
<1> QED
  BY <1>1, <1>2, <1>3, <1>4, <1>5, <1>6, <1>7, <1>8, <1>9, <1>10 DEF StepOf

\* A deploy binds only what its service refers to.
LEMMA BindsStep ==
  ASSUME SecretsTypes, NEW p \in SecretUsers, StepOf(p), BindsReferences(p)
  PROVE  BindsReferences(p)'
<1> USE DEF SAt, SGoto
<1>c. /\ sCmd[p] \in Locals /\ p \in DOMAIN sCmd /\ p \in DOMAIN sPc
  BY DEF SecretsTypes
<1>n. NoSecretCmd \in Locals /\ \A k \in Keys : NoSecretCmd.bound[k] = Unset
  BY NoCommandType
<1>1. CASE /\ sPc'[p] \notin {"latest_names", "latest_read"}
           /\ sCmd'[p].bound = NoSecretCmd.bound
  BY <1>1, <1>n DEF BindsReferences
<1>2. CASE /\ sPc'[p] \notin {"latest_names", "latest_read"}
           /\ sCmd'[p].bound = sCmd[p].bound /\ sCmd'[p].refs = sCmd[p].refs
  BY <1>2 DEF BindsReferences
<1>3. CASE SDone(p)
  BY <1>1, <1>3, <1>c DEF SDone
<1>4. ASSUME NEW k \in Keys, StartSet(p, k) \/ StartDelete(p, k)
      PROVE  BindsReferences(p)'
  <2>1. CASE StartSet(p, k)
    BY <1>1, <2>1, <1>c, <1>n DEF StartSet, Locals
  <2>2. CASE StartDelete(p, k)
    BY <1>1, <2>2, <1>c, <1>n DEF StartDelete, Locals
  <2> QED
    BY <1>4, <2>1, <2>2
<1>5. ASSUME NEW refs \in SUBSET Keys, StartSecretDeploy(p, refs) \/ StartSecretRollback(p, refs)
      PROVE  BindsReferences(p)'
  <2>1. CASE StartSecretDeploy(p, refs)
    BY <1>1, <2>1, <1>c, <1>n DEF StartSecretDeploy, Locals
  <2>2. CASE StartSecretRollback(p, refs)
    BY <1>1, <2>2, <1>c, <1>n DEF StartSecretRollback, Locals
  <2> QED
    BY <1>5, <2>1, <2>2
<1>6. CASE ListFails(p) \/ SaveSecret(p) \/ RecordBindings(p) \/ SecretFault(p)
  BY <1>3, <1>6 DEF ListFails, SaveSecret, RecordBindings, SecretFault
<1>7. CASE ListSecrets(p)
  <2>1. /\ sCmd'[p].bound = sCmd[p].bound /\ sCmd'[p].refs = sCmd[p].refs
        /\ sCmd'[p].key = sCmd[p].key
    BY <1>7, <1>c DEF ListSecrets, ListNames, Locals
  <2>2. sPc'[p] \in {"latest_names", "latest_read"} => sPc[p] = "latest_names"
    BY <1>7, <1>c DEF ListSecrets, ListNames
  <2> QED
    BY <2>1, <2>2 DEF BindsReferences
<1>8. CASE NextVersion(p) \/ DeleteRead(p) \/ LockApp(p)
  <2>1. CASE NextVersion(p)
    BY <1>2, <2>1, <1>c DEF NextVersion, Locals
  <2>2. CASE DeleteRead(p)
    BY <1>2, <1>3, <2>2, <1>c DEF DeleteRead, Locals
  <2>3. CASE LockApp(p)
    BY <1>2, <2>3, <1>c DEF LockApp, Locals
  <2> QED
    BY <1>8, <2>1, <2>2, <2>3
<1>9. CASE CreateSecret(p) \/ RemoveSecret(p) \/ ForgetSecret(p) \/ DeployStack(p)
  <2>1. CASE CreateSecret(p)
    BY <1>2, <1>3, <2>1, <1>c DEF CreateSecret, Locals
  <2>2. CASE RemoveSecret(p)
    BY <1>2, <1>3, <2>2, <1>c DEF RemoveSecret
  <2>3. CASE ForgetSecret(p)
    BY <1>2, <1>3, <2>3, <1>c DEF ForgetSecret, Locals
  <2>4. CASE DeployStack(p)
    BY <1>2, <1>3, <2>4, <1>c DEF DeployStack
  <2> QED
    BY <1>9, <2>1, <2>2, <2>3, <2>4
<1>10. CASE Resolve(p)
  <2>1. CASE SGoto(p, "stack") /\ UNCHANGED sCmd
    BY <1>2, <1>c, <2>1
  <2>2. ASSUME NEW k \in sCmd[p].refs,
               sCmd' = [sCmd EXCEPT ![p].bound[k] = sCmd[p].pinned.version[k]], UNCHANGED sPc
        PROVE  BindsReferences(p)'
    <3>1. /\ sCmd'[p].bound = [sCmd[p].bound EXCEPT ![k] = sCmd[p].pinned.version[k]]
          /\ sCmd'[p].refs = sCmd[p].refs
      BY <1>c, <2>2 DEF Locals
    <3>2. sCmd[p].bound \in [Keys -> VersionsOrUnset]
      BY <1>c DEF Locals
    <3>3. sPc'[p] = "resolve"
      BY <1>10, <2>2 DEF Resolve
    <3> QED
      BY <3>1, <3>2, <3>3 DEF BindsReferences
  <2>3. ASSUME NEW k \in sCmd[p].refs, sCmd' = [sCmd EXCEPT ![p].key = k], SGoto(p, "latest_names")
        PROVE  BindsReferences(p)'
    <3>1. /\ sCmd'[p].bound = sCmd[p].bound /\ sCmd'[p].refs = sCmd[p].refs
          /\ sCmd'[p].key = k
      BY <1>c, <2>3 DEF Locals
    <3> QED
      BY <3>1 DEF BindsReferences
  <2> QED
    BY <1>10, <2>1, <2>2, <2>3 DEF Resolve, Unresolved
<1>11. CASE LatestRead(p)
  <2> DEFINE k == sCmd[p].key
             v == Latest(sCmd[p].names[k])
  <2>1. CASE SDone(p)
    BY <1>3, <2>1
  <2>2. CASE /\ sCmd' = [sCmd EXCEPT ![p].bound[k] = v]
             /\ SGoto(p, "resolve")
    <3>1. k \in sCmd[p].refs /\ sCmd[p].bound \in [Keys -> VersionsOrUnset]
      BY <1>11, <1>c DEF LatestRead, BindsReferences, Locals
    <3>2. /\ sCmd'[p].bound = [sCmd[p].bound EXCEPT ![k] = v]
          /\ sCmd'[p].refs = sCmd[p].refs /\ sPc'[p] = "resolve"
      BY <1>c, <2>2 DEF Locals
    <3> QED
      BY <3>1, <3>2 DEF BindsReferences
  <2> QED
    BY <1>11, <2>1, <2>2 DEF LatestRead
<1> QED
  BY <1>4, <1>5, <1>6, <1>7, <1>8, <1>9, <1>10, <1>11 DEF StepOf

\* The two parts of MetadataMatchesSwarm.
Recorded ==
  \A k \in Keys : \A v \in records[k] : vault[k][v] \in {stored[k][v], Unset}
MountedStays ==
  \A p \in SecretUsers :
    SAt(p, "forget") => mounted[sCmd[p].key] # Biggest(sCmd[p].todo)

\* The secret of a recorded version holds the value whose set recorded it.
LEMMA RecordedStep ==
  ASSUME SecretsTypes, NEW p \in SecretUsers, StepOf(p), HolderKnows(p), Recorded
  PROVE  Recorded'
<1> USE DEF SAt, secretFiles, secretHistory
<1> DEFINE k == sCmd[p].key
           v == sCmd[p].version
<1>c. /\ k \in Keys
      /\ records \in [Keys -> SUBSET Versions]
      /\ vault \in [Keys -> [Versions -> Values]] /\ stored \in [Keys -> [Versions -> Values]]
  BY DEF SecretsTypes, SecretsTypeOK, Values, Locals
<1>0. CASE UNCHANGED <<records, vault, stored>>
  BY <1>0 DEF Recorded
<1>1. CASE CreateSecret(p)
  <2>1. v \notin records[k] /\ v \in Versions
    BY <1>1, <1>c, SecretsAssumption DEF CreateSecret, HolderKnows, Versions
  <2>2. CASE vault' = [vault EXCEPT ![k][v] = sCmd[p].value]
    <3>1. \A j \in Keys : \A w \in records[j] : vault'[j][w] = vault[j][w]
      BY <1>c, <2>1, <2>2
    <3> QED
      BY <1>1, <3>1 DEF CreateSecret, Recorded
  <2>3. CASE UNCHANGED vault
    BY <1>0, <1>1, <2>3 DEF CreateSecret
  <2> QED
    BY <1>1, <2>2, <2>3 DEF CreateSecret
<1>2. CASE SaveSecret(p)
  <2>1. v \in Versions /\ vault[k][v] = sCmd[p].value /\ vault' = vault
    BY <1>2 DEF SaveSecret, HolderKnows
  <2>2. /\ records' = [records EXCEPT ![k] = @ \cup {v}]
        /\ stored' = [stored EXCEPT ![k][v] = sCmd[p].value]
    BY <1>2 DEF SaveSecret
  <2> SUFFICES ASSUME NEW j \in Keys, NEW w \in records'[j]
               PROVE  vault'[j][w] \in {stored'[j][w], Unset}
    BY DEF Recorded
  <2>3. CASE j = k /\ w = v
    BY <1>c, <2>1, <2>2, <2>3
  <2>4. CASE ~(j = k /\ w = v)
    <3>1. w \in records[j] /\ stored'[j][w] = stored[j][w]
      BY <1>c, <2>1, <2>2, <2>4
    <3> QED
      BY <2>1, <3>1 DEF Recorded
  <2> QED
    BY <2>3, <2>4
<1>3. CASE RemoveSecret(p)
  <2>1. records' = records /\ stored' = stored
    BY <1>3 DEF RemoveSecret
  <2>2. \A j \in Keys : \A w \in Versions : vault'[j][w] \in {vault[j][w], Unset}
    <3>1. CASE vault' = [vault EXCEPT ![k][Biggest(sCmd[p].todo)] = Unset]
      BY <1>c, <3>1
    <3>2. CASE UNCHANGED vault
      BY <3>2
    <3> QED
      BY <1>3, <3>1, <3>2 DEF RemoveSecret
  <2>3. \A j \in Keys : records[j] \subseteq Versions
    BY <1>c
  <2> QED
    BY <2>1, <2>2, <2>3 DEF Recorded
<1>4. CASE ForgetSecret(p)
  <2>1. vault' = vault /\ stored' = stored /\ \A j \in Keys : records'[j] \subseteq records[j]
    BY <1>4, <1>c DEF ForgetSecret
  <2> QED
    BY <2>1 DEF Recorded
<1>5. ASSUME NEW j \in Keys, StartSet(p, j) \/ StartDelete(p, j)
      PROVE  Recorded'
  BY <1>0, <1>5 DEF StartSet, StartDelete
<1>6. ASSUME NEW refs \in SUBSET Keys, StartSecretDeploy(p, refs) \/ StartSecretRollback(p, refs)
      PROVE  Recorded'
  BY <1>0, <1>6 DEF StartSecretDeploy, StartSecretRollback
<1>7. CASE ListSecrets(p) \/ ListFails(p) \/ NextVersion(p) \/ DeleteRead(p) \/ SecretFault(p)
  BY <1>0, <1>7 DEF ListSecrets, ListFails, NextVersion, DeleteRead, SecretFault
<1>8. CASE LockApp(p) \/ Resolve(p) \/ LatestRead(p) \/ DeployStack(p) \/ RecordBindings(p)
  BY <1>0, <1>8 DEF LockApp, Resolve, LatestRead, DeployStack, RecordBindings
<1> QED
  BY <1>1, <1>2, <1>3, <1>4, <1>5, <1>6, <1>7, <1>8 DEF StepOf

\* A process that is about to delete metadata got there by removing a secret that no
\* spec names.
LEMMA ForgetStep ==
  ASSUME SecretsTypes, NEW p \in SecretUsers, StepOf(p), sPc'[p] = "forget"
  PROVE  /\ sCmd'[p] = sCmd[p] /\ mounted' = mounted
         /\ mounted[sCmd[p].key] # Biggest(sCmd[p].todo)
<1> USE DEF SAt, SGoto, SDone
<1>c. p \in DOMAIN sCmd /\ p \in DOMAIN sPc
  BY DEF SecretsTypes
<1>1. CASE RemoveSecret(p)
  BY <1>1, <1>c DEF RemoveSecret, SwarmRefuses
<1>2. ASSUME NEW k \in Keys, StartSet(p, k) \/ StartDelete(p, k)
      PROVE  FALSE
  BY <1>2, <1>c DEF StartSet, StartDelete
<1>3. ASSUME NEW refs \in SUBSET Keys, StartSecretDeploy(p, refs) \/ StartSecretRollback(p, refs)
      PROVE  FALSE
  BY <1>3, <1>c DEF StartSecretDeploy, StartSecretRollback
<1>4. CASE \/ ListSecrets(p) \/ ListFails(p) \/ NextVersion(p) \/ CreateSecret(p) \/ SaveSecret(p)
           \/ DeleteRead(p) \/ ForgetSecret(p) \/ SecretFault(p)
  BY <1>4, <1>c DEF ListSecrets, ListNames, ListFails, NextVersion, CreateSecret, SaveSecret,
                    DeleteRead, ForgetSecret, SecretFault
<1>5. CASE LockApp(p) \/ Resolve(p) \/ LatestRead(p) \/ DeployStack(p) \/ RecordBindings(p)
  BY <1>5, <1>c DEF LockApp, Resolve, LatestRead, DeployStack, RecordBindings
<1> QED
  BY <1>1, <1>2, <1>3, <1>4, <1>5 DEF StepOf

\* The Swarm is asked to mount only secrets that exist.
LEMMA MountStep ==
  ASSUME SecretsTypes, NEW p \in SecretUsers, StepOf(p), BindsReferences(p), NEW k \in Keys
  PROVE  mounted'[k] = mounted[k] \/ mounted'[k] = Unset \/ vault[k][mounted'[k]] # Unset
<1>1. CASE DeployStack(p)
  BY <1>1 DEF DeployStack, BindsReferences
<1>2. ASSUME NEW j \in Keys, StartSet(p, j) \/ StartDelete(p, j)
      PROVE  mounted' = mounted
  BY <1>2 DEF StartSet, StartDelete
<1>3. ASSUME NEW refs \in SUBSET Keys, StartSecretDeploy(p, refs) \/ StartSecretRollback(p, refs)
      PROVE  mounted' = mounted
  BY <1>3 DEF StartSecretDeploy, StartSecretRollback
<1>4. CASE \/ ListSecrets(p) \/ ListFails(p) \/ NextVersion(p) \/ CreateSecret(p) \/ SaveSecret(p)
           \/ DeleteRead(p) \/ RemoveSecret(p) \/ ForgetSecret(p) \/ SecretFault(p)
  BY <1>4 DEF ListSecrets, ListFails, NextVersion, CreateSecret, SaveSecret, DeleteRead,
              RemoveSecret, ForgetSecret, SecretFault
<1>5. CASE LockApp(p) \/ Resolve(p) \/ LatestRead(p) \/ RecordBindings(p)
  BY <1>5 DEF LockApp, Resolve, LatestRead, RecordBindings
<1> QED
  BY <1>1, <1>2, <1>3, <1>4, <1>5 DEF StepOf

\* Nobody mounts a version between the removal of its secret and of its metadata.
LEMMA MountedStaysStep ==
  ASSUME SecretsTypes, \A q \in SecretUsers : HolderKnows(q), NEW p \in SecretUsers, StepOf(p),
         BindsReferences(p), MountedStays
  PROVE  MountedStays'
<1> SUFFICES ASSUME NEW q \in SecretUsers, sPc'[q] = "forget"
             PROVE  mounted'[sCmd'[q].key] # Biggest(sCmd'[q].todo)
  BY DEF MountedStays, SAt
<1>1. CASE q = p
  BY <1>1, ForgetStep
<1>2. CASE q # p
  <2> DEFINE k == sCmd[q].key
             v == Biggest(sCmd[q].todo)
  <2>1. sPc[q] = "forget" /\ sCmd'[q] = sCmd[q]
    BY <1>2, OthersWait
  <2>2. k \in Keys /\ sCmd[q].todo \in SUBSET Versions /\ sCmd[q].todo # {}
    BY <2>1 DEF SecretsTypes, Locals, HolderKnows, SAt
  <2>3. v \in Versions /\ vault[k][v] = Unset /\ mounted[k] # v
    BY <2>1, <2>2, BiggestIsHighest DEF HolderKnows, MountedStays, SAt
  <2>4. v # Unset
    BY <2>3, SecretsAssumption DEF Versions, Unset
  <2> QED
    BY <2>1, <2>2, <2>3, <2>4, MountStep
<1> QED
  BY <1>1, <1>2

-----------------------------------------------------------------------------
\* What has been set and deployed before is in order.
LEMMA SecretsInitially == SecretsInit => SecretsInv
<1> SUFFICES ASSUME SecretsInit PROVE SecretsInv
  OBVIOUS
<1> USE SecretsAssumption
<1>1. PICK old \in 0..2 :
         /\ records = [k \in Keys |-> 1..old]
         /\ vault = [k \in Keys |-> [v \in Versions |-> IF v <= old THEN v ELSE Unset]]
         /\ stored = vault
         /\ mounted = [k \in Keys |-> old]
         /\ newest = [k \in Keys |-> old]
         /\ pins = [v \in 1..old |-> [version |-> [k \in Keys |-> v], value |-> [k \in Keys |-> v],
                                      epoch |-> Nothing]]
  BY DEF SecretsInit
<1>2. \A v \in 0..2 : v \in VersionsOrUnset /\ v \in Values
  BY DEF VersionsOrUnset, Versions, Values, Unset
<1>3. records \in [Keys -> SUBSET Versions]
  BY <1>1 DEF Versions
<1>4. vault \in [Keys -> [Versions -> Values]]
  <2>1. \A v \in Versions : (IF v <= old THEN v ELSE Unset) \in Values
    BY DEF Versions, Unset, Values
  <2> QED
    BY <1>1, <2>1
<1>5. pins \in Seq(Binding) /\ Len(pins) <= 2
  <2> DEFINE b(v) == [version |-> [k \in Keys |-> v], value |-> [k \in Keys |-> v], epoch |-> Nothing]
  <2>1. \A v \in 1..old : b(v) \in Binding
    BY <1>2 DEF Binding, Nothing, Unset, Values
  <2>2. pins = [v \in 1..old |-> b(v)]
    BY <1>1
  <2> HIDE DEF b
  <2>3. pins \in [1..old -> Binding] /\ old \in Nat
    BY <2>1, <2>2
  <2> QED
    BY <2>3
<1>6. SecretsTypes
  <2>1. SecretsTypeOK
    <3>1. mounted \in [Keys -> VersionsOrUnset]
      BY <1>1, <1>2
    <3>2. vault \in [Keys -> [Versions -> 0..MaxSecretOps + 2]]
      BY <1>4 DEF Values
    <3>3. /\ DOMAIN sPc = SecretUsers /\ DOMAIN sCmd = SecretUsers
          /\ sOps \in 0..MaxSecretOps /\ sFaults \in 0..MaxSecretFaults
      BY DEF SecretsInit
    <3> QED
      BY <1>3, <1>5, <3>1, <3>2, <3>3 DEF SecretsTypeOK
  <2>2. newest \in [Keys -> Values] /\ erased \in [Keys -> Nat]
    BY <1>1, <1>2 DEF SecretsInit, Nothing, Unset
  <2>3. /\ sPc \in [SecretUsers -> {"idle", "lock_app"} \cup SetSteps \cup DeleteSteps \cup AppSteps]
        /\ sCmd \in [SecretUsers -> Locals]
    BY NoCommandType DEF SecretsInit
  <2> QED
    BY <1>1, <1>4, <2>1, <2>2, <2>3 DEF SecretsTypes
<1>7. \A p \in SecretUsers : sPc[p] = "idle" /\ sCmd[p] = NoSecretCmd
  BY DEF SecretsInit
<1>8. \A p \in SecretUsers : HolderKnows(p) /\ BindsReferences(p)
  BY <1>7, NoCommandType DEF HolderKnows, BindsReferences, SAt
<1>9. KeyMutex
  BY <1>7 DEF KeyMutex, Holds, SetSteps, DeleteSteps
<1>10. MetadataMatchesSwarm
  BY <1>1, <1>7 DEF MetadataMatchesSwarm, SAt
<1> QED
  BY <1>6, <1>8, <1>9, <1>10 DEF SecretsInv

\* Every step keeps the invariant.
LEMMA SecretsStep == SecretsInv /\ [SecretsNext]_secretVars => SecretsInv'
<1> SUFFICES ASSUME SecretsInv, [SecretsNext]_secretVars PROVE SecretsInv'
  OBVIOUS
<1>1. CASE UNCHANGED secretVars
  BY <1>1 DEF SecretsInv, SecretsTypes, SecretsTypeOK, KeyMutex, Holds, HolderKnows,
              BindsReferences, MetadataMatchesSwarm, SAt, secretVars, secretFiles, secretHistory
<1>2. ASSUME NEW p \in SecretUsers, StepOf(p) PROVE SecretsInv'
  <2>1. SecretsTypes /\ KeyMutex /\ \A q \in SecretUsers : HolderKnows(q) /\ BindsReferences(q)
    BY DEF SecretsInv
  <2>2. Recorded /\ MountedStays
    BY DEF SecretsInv, MetadataMatchesSwarm, Recorded, MountedStays
  <2>3. SecretsTypes'
    BY <1>2, <2>1, TypesStep DEF HolderKnows
  <2>4. KeyMutex'
    <3> SUFFICES ASSUME NEW q \in SecretUsers, NEW r \in SecretUsers, Holds(q)', Holds(r)',
                        sCmd'[q].key = sCmd'[r].key, q # r
                 PROVE  FALSE
      BY DEF KeyMutex
    <3>1. ASSUME NEW o \in SecretUsers, o # p, Holds(o)', Holds(p)', sCmd'[o].key = sCmd'[p].key
          PROVE  FALSE
      <4>1. Holds(o) /\ sCmd[o].key = sCmd'[o].key
        BY <1>2, <2>1, <3>1, OthersWait DEF Holds
      <4>2. KeyLocked(sCmd'[p].key)
        BY <3>1, <4>1 DEF KeyLocked, Holds, SetSteps, DeleteSteps
      <4> QED
        BY <1>2, <2>1, <3>1, <4>1, <4>2, LockStep DEF KeyMutex
    <3>2. CASE q # p /\ r # p
      BY <1>2, <2>1, <3>2, OthersWait DEF Holds, KeyMutex
    <3> QED
      BY <3>1, <3>2
  <2>5. \A q \in SecretUsers : HolderKnows(q)'
    BY <1>2, <2>1, KnowsStep, OthersKnow
  <2>6. \A q \in SecretUsers : BindsReferences(q)'
    <3>1. ASSUME NEW q \in SecretUsers, q # p PROVE BindsReferences(q)'
      BY <1>2, <2>1, <3>1, OthersWait DEF BindsReferences
    <3> QED
      BY <1>2, <2>1, <3>1, BindsStep
  <2>7. Recorded' /\ MountedStays'
    BY <1>2, <2>1, <2>2, RecordedStep, MountedStaysStep
  <2> QED
    BY <2>3, <2>4, <2>5, <2>6, <2>7
       DEF SecretsInv, MetadataMatchesSwarm, Recorded, MountedStays
<1> QED
  BY <1>1, <1>2 DEF SecretsNext, StepOf

\* The locks of keys exclude each other, and what their holders know holds, in every
\* reachable state.
THEOREM SecretsInvariant == SecretsSpec => []SecretsInv
  BY SecretsInitially, SecretsStep, PTL DEF SecretsSpec

\* The secret of a recorded version is the one its set stored, and no delete takes the
\* metadata of a version that the service's spec names: for any keys, versions and
\* processes, whatever is killed in between.
THEOREM MetadataStaysTrue == SecretsSpec => []MetadataMatchesSwarm
<1>1. SecretsInv => MetadataMatchesSwarm
  BY DEF SecretsInv
<1> QED
  BY <1>1, SecretsInvariant, PTL

-----------------------------------------------------------------------------
(* What deploys and rollbacks mount.                                       *)

\* Only these steps touch what the Swarm and the metadata say of any key.
LEMMA OnlyFourWrite ==
  ASSUME NEW p \in SecretUsers, StepOf(p),
         ~CreateSecret(p), ~SaveSecret(p), ~RemoveSecret(p), ~ForgetSecret(p)
  PROVE  UNCHANGED <<records, vault, newest, erased>>
<1> USE DEF secretFiles, secretHistory
<1>1. ASSUME NEW k \in Keys, StartSet(p, k) \/ StartDelete(p, k)
      PROVE  UNCHANGED <<records, vault, newest, erased>>
  BY <1>1 DEF StartSet, StartDelete
<1>2. ASSUME NEW refs \in SUBSET Keys, StartSecretDeploy(p, refs) \/ StartSecretRollback(p, refs)
      PROVE  UNCHANGED <<records, vault, newest, erased>>
  BY <1>2 DEF StartSecretDeploy, StartSecretRollback
<1>3. CASE ListSecrets(p) \/ ListFails(p) \/ NextVersion(p) \/ DeleteRead(p) \/ SecretFault(p)
  BY <1>3 DEF ListSecrets, ListFails, NextVersion, DeleteRead, SecretFault
<1>4. CASE LockApp(p) \/ Resolve(p) \/ LatestRead(p) \/ DeployStack(p) \/ RecordBindings(p)
  BY <1>4 DEF LockApp, Resolve, LatestRead, DeployStack, RecordBindings
<1> QED
  BY <1>1, <1>2, <1>3, <1>4 DEF StepOf

\* Everything that is compared is a number.
LEMMA NaturalTypes ==
  ASSUME SecretsTypes, NEW p \in SecretUsers
  PROVE  /\ records \in [Keys -> SUBSET Versions] /\ vault \in [Keys -> [Versions -> Nat]]
         /\ newest \in [Keys -> Nat] /\ erased \in [Keys -> Nat]
         /\ sCmd[p].key \in Keys /\ sCmd[p].value \in Nat /\ sCmd[p].version \in Nat
<1>1. Values \subseteq Nat
  BY SecretsAssumption DEF Values
<1>2. /\ records \in [Keys -> SUBSET Versions] /\ vault \in [Keys -> [Versions -> Values]]
      /\ newest \in [Keys -> Values] /\ erased \in [Keys -> Nat] /\ sCmd[p] \in Locals
  BY DEF SecretsTypes, SecretsTypeOK, Values
<1>3. vault \in [Keys -> [Versions -> Nat]] /\ newest \in [Keys -> Nat]
  BY <1>1, <1>2
<1> QED
  BY <1>1, <1>2, <1>3 DEF Locals

\* Until a delete removes a secret of a key, a secret of the key keeps its value, and
\* the value of the key's last set grows.
LEMMA EpochStep ==
  ASSUME SecretsTypes, NEW p \in SecretUsers, StepOf(p), HolderReplaces(p), NEW k \in Keys
  PROVE  /\ erased'[k] >= erased[k]
         /\ erased'[k] = erased[k] =>
              /\ newest'[k] >= newest[k]
              /\ \A v \in Versions : vault[k][v] # Unset => vault'[k][v] = vault[k][v]
<1>c. /\ vault \in [Keys -> [Versions -> Nat]] /\ newest \in [Keys -> Nat]
      /\ erased \in [Keys -> Nat] /\ sCmd[p].key \in Keys /\ sCmd[p].value \in Nat
  BY NaturalTypes
<1> USE DEF secretFiles, secretHistory
<1>1. CASE CreateSecret(p)
  <2>1. UNCHANGED <<newest, erased>>
    BY <1>1 DEF CreateSecret
  <2>2. \/ vault' = vault
        \/ /\ vault' = [vault EXCEPT ![sCmd[p].key][sCmd[p].version] = sCmd[p].value]
           /\ vault[sCmd[p].key][sCmd[p].version] = Unset
    BY <1>1 DEF CreateSecret
  <2>3. \A v \in Versions : vault[k][v] # Unset => vault'[k][v] = vault[k][v]
    BY <1>c, <2>2
  <2> QED
    BY <1>c, <2>1, <2>3
<1>2. CASE SaveSecret(p)
  <2>1. UNCHANGED <<vault, erased>> /\ newest[sCmd[p].key] < sCmd[p].value
    BY <1>2 DEF SaveSecret, HolderReplaces, SAt, SetSteps
  <2>2. newest' = [newest EXCEPT ![sCmd[p].key] = sCmd[p].value]
    BY <1>2 DEF SaveSecret
  <2> QED
    BY <1>c, <2>1, <2>2
<1>3. CASE RemoveSecret(p)
  <2>1. CASE UNCHANGED <<vault, newest, erased>>
    BY <1>c, <2>1
  <2>2. CASE /\ vault' = [vault EXCEPT ![sCmd[p].key][Biggest(sCmd[p].todo)] = Unset]
             /\ newest' = [newest EXCEPT ![sCmd[p].key] = Unset]
             /\ erased' = [erased EXCEPT ![sCmd[p].key] = @ + 1]
    BY <1>c, <2>2
  <2> QED
    BY <1>3, <2>1, <2>2 DEF RemoveSecret
<1>4. CASE ForgetSecret(p)
  BY <1>4, <1>c DEF ForgetSecret
<1>5. CASE ~CreateSecret(p) /\ ~SaveSecret(p) /\ ~RemoveSecret(p) /\ ~ForgetSecret(p)
  BY <1>5, <1>c, OnlyFourWrite
<1> QED
  BY <1>1, <1>2, <1>3, <1>4, <1>5

\* The number of commands started only grows.
LEMMA OpsStep ==
  ASSUME SecretsTypes, NEW p \in SecretUsers, StepOf(p)
  PROVE  sOps \in Nat /\ sOps' \in Nat /\ sOps' >= sOps
<1>c. sOps \in Nat
  BY SecretsAssumption DEF SecretsTypes, SecretsTypeOK
<1>1. sOps' = sOps \/ sOps' = sOps + 1
  <2>1. ASSUME NEW k \in Keys, StartSet(p, k) \/ StartDelete(p, k)
        PROVE  sOps' = sOps + 1
    BY <2>1 DEF StartSet, StartDelete, SBegin
  <2>2. ASSUME NEW refs \in SUBSET Keys, StartSecretDeploy(p, refs) \/ StartSecretRollback(p, refs)
        PROVE  sOps' = sOps + 1
    BY <2>2 DEF StartSecretDeploy, StartSecretRollback, SBegin
  <2>3. CASE \/ ListSecrets(p) \/ ListFails(p) \/ NextVersion(p) \/ CreateSecret(p)
             \/ SaveSecret(p) \/ DeleteRead(p) \/ RemoveSecret(p) \/ ForgetSecret(p)
    BY <2>3 DEF ListSecrets, ListFails, NextVersion, CreateSecret, SaveSecret, DeleteRead,
                RemoveSecret, ForgetSecret
  <2>4. CASE \/ LockApp(p) \/ Resolve(p) \/ LatestRead(p) \/ DeployStack(p)
             \/ RecordBindings(p) \/ SecretFault(p)
    BY <2>4 DEF LockApp, Resolve, LatestRead, DeployStack, RecordBindings, SecretFault
  <2> QED
    BY <2>1, <2>2, <2>3, <2>4 DEF StepOf
<1> QED
  BY <1>c, <1>1

\* The newest value of a key is stored in its highest recorded version.
LEMMA NewestStandsStep ==
  ASSUME SecretsTypes, SecretsTypes', NEW p \in SecretUsers, StepOf(p), HolderKnows(p),
         HolderReplaces(p), NewestStands
  PROVE  NewestStands'
<1> DEFINE j == sCmd[p].key
           v == sCmd[p].version
<1>c. /\ records \in [Keys -> SUBSET Versions] /\ vault \in [Keys -> [Versions -> Nat]]
      /\ newest \in [Keys -> Nat] /\ j \in Keys
      /\ v \in Nat /\ sCmd[p].value \in Nat
  BY NaturalTypes
<1>v. Versions \subseteq Nat
  BY SecretsAssumption DEF Versions
<1>r. records' \in [Keys -> SUBSET Versions]
  BY DEF SecretsTypes, SecretsTypeOK
<1>o. sOps \in Nat /\ sOps' \in Nat /\ sOps' >= sOps
  BY OpsStep
<1> USE DEF secretFiles, secretHistory
<1>1. CASE CreateSecret(p)
  <2>1. UNCHANGED <<records, newest>> /\ \A w \in records[j] : w < v
    BY <1>1 DEF CreateSecret, HolderKnows
  <2>2. vault' = vault \/ vault' = [vault EXCEPT ![j][v] = sCmd[p].value]
    BY <1>1 DEF CreateSecret
  <2>3. \A k \in Keys : \A w \in records[k] : vault'[k][w] = vault[k][w]
    BY <1>c, <2>1, <2>2
  <2>4. \A k \in Keys : records[k] # {} => Biggest(records[k]) \in records[k]
    BY <1>c, BiggestIsHighest
  <2> QED
    BY <1>c, <1>o, <2>1, <2>3, <2>4 DEF NewestStands
<1>2. CASE SaveSecret(p)
  <2>1. /\ v \in Versions /\ vault[j][v] = sCmd[p].value /\ vault' = vault
        /\ \A w \in records[j] : w < v
        /\ sCmd[p].value <= sOps + 2
    BY <1>2 DEF SaveSecret, HolderKnows, HolderReplaces, SAt, SetSteps
  <2>2. /\ records' = [records EXCEPT ![j] = @ \cup {v}]
        /\ newest' = [newest EXCEPT ![j] = sCmd[p].value]
    BY <1>2 DEF SaveSecret
  <2>3. Biggest(records'[j]) = v
    <3>1. records'[j] = records[j] \cup {v} /\ records'[j] \in SUBSET Versions
      BY <1>c, <1>r, <2>2
    <3>2. Biggest(records'[j]) \in records'[j] /\ \A w \in records'[j] : w <= Biggest(records'[j])
      BY <3>1, BiggestIsHighest
    <3>3. PICK n \in Versions : n = Biggest(records'[j])
      BY <3>1, <3>2
    <3>4. n \in records[j] \cup {v} /\ v <= n
      BY <3>1, <3>2, <3>3
    <3>5. n = v
      BY <1>c, <1>v, <2>1, <3>4
    <3> QED
      BY <3>3, <3>5
  <2> SUFFICES ASSUME NEW k \in Keys
               PROVE  /\ newest'[k] <= sOps' + 2
                      /\ newest'[k] # Unset =>
                           records'[k] # {} /\ vault'[k][Biggest(records'[k])] = newest'[k]
    BY DEF NewestStands
  <2>4. CASE k = j
    <3>1. newest'[k] = sCmd[p].value /\ v \in records'[k]
      BY <1>c, <2>2, <2>4
    <3> QED
      BY <1>c, <1>o, <2>1, <2>3, <2>4, <3>1
  <2>5. CASE k # j
    BY <1>c, <1>o, <2>1, <2>2, <2>5 DEF NewestStands
  <2> QED
    BY <2>4, <2>5
<1>3. CASE RemoveSecret(p)
  <2>0. UNCHANGED records
    BY <1>3 DEF RemoveSecret
  <2>1. CASE UNCHANGED <<vault, newest>>
    BY <1>c, <1>o, <2>0, <2>1 DEF NewestStands
  <2>2. CASE /\ vault' = [vault EXCEPT ![j][Biggest(sCmd[p].todo)] = Unset]
             /\ newest' = [newest EXCEPT ![j] = Unset]
    <3>1. newest'[j] = Unset
      BY <1>c, <2>2
    <3>2. \A k \in Keys \ {j} : newest'[k] = newest[k] /\ vault'[k] = vault[k]
      BY <1>c, <2>2
    <3> QED
      BY <1>c, <1>o, <2>0, <3>1, <3>2 DEF NewestStands, Unset
  <2> QED
    BY <1>3, <2>1, <2>2 DEF RemoveSecret
<1>4. CASE ForgetSecret(p)
  <2>1. UNCHANGED <<vault, newest>> /\ newest[j] = Unset
    BY <1>4 DEF ForgetSecret, HolderReplaces
  <2>2. \A k \in Keys \ {j} : records'[k] = records[k]
    BY <1>4, <1>c DEF ForgetSecret
  <2> QED
    BY <1>c, <1>o, <2>1, <2>2 DEF NewestStands, Unset
<1>5. CASE ~CreateSecret(p) /\ ~SaveSecret(p) /\ ~RemoveSecret(p) /\ ~ForgetSecret(p)
  BY <1>5, <1>c, <1>o, OnlyFourWrite DEF NewestStands
<1> QED
  BY <1>1, <1>2, <1>3, <1>4, <1>5

\* The holder of a key's lock replaces the newest value of the key.
LEMMA HolderReplacesStep ==
  ASSUME SecretsTypes, NEW p \in SecretUsers, StepOf(p), HolderKnows(p), HolderReplaces(p),
         NewestStands
  PROVE  HolderReplaces(p)'
<1> USE DEF SAt, SGoto, SDone
<1>c. /\ sCmd \in [SecretUsers -> Locals] /\ sCmd[p] \in Locals /\ sCmd[p].key \in Keys
      /\ p \in DOMAIN sPc /\ newest \in [Keys -> Nat] /\ sOps \in Nat /\ NoSecretCmd \in Locals
      /\ records \in [Keys -> SUBSET Versions]
  BY NaturalTypes, NoCommandType, OpsStep DEF SecretsTypes
<1>0. CASE sPc'[p] \notin SetSteps \cup {"save", "forget"}
  BY <1>0 DEF HolderReplaces
<1>1. ASSUME NEW k \in Keys, StartSet(p, k)
      PROVE  HolderReplaces(p)'
  <2>1. [NoSecretCmd EXCEPT !.key = k, !.value = sOps + 3].key = k
        /\ [NoSecretCmd EXCEPT !.key = k, !.value = sOps + 3].value = sOps + 3
    BY <1>c DEF Locals
  <2>2. sCmd'[p].key = k /\ sCmd'[p].value = sOps + 3 /\ sPc'[p] = "set_names"
    BY <1>1, <1>c, <2>1 DEF StartSet
  <2>3. newest' = newest /\ newest[k] <= sOps + 2 /\ sOps' = sOps + 1
    BY <1>1 DEF StartSet, SBegin, secretHistory, NewestStands
  <2> QED
    BY <1>c, <2>2, <2>3 DEF HolderReplaces
<1>2. ASSUME NEW k \in Keys, StartDelete(p, k)
      PROVE  HolderReplaces(p)'
  BY <1>0, <1>2, <1>c DEF StartDelete, SetSteps
<1>3. ASSUME NEW refs \in SUBSET Keys, StartSecretDeploy(p, refs) \/ StartSecretRollback(p, refs)
      PROVE  HolderReplaces(p)'
  BY <1>0, <1>3, <1>c DEF StartSecretDeploy, StartSecretRollback, SetSteps
<1>4. CASE ListSecrets(p)
  <2>1. /\ sCmd'[p].key = sCmd[p].key /\ sCmd'[p].value = sCmd[p].value
        /\ UNCHANGED <<newest, sOps>>
    BY <1>4, <1>c DEF ListSecrets, ListNames, Locals, secretHistory
  <2>2. \/ sPc'[p] = "set_read" /\ sPc[p] = "set_names"
        \/ sPc'[p] \in {"del_read", "latest_read"}
    BY <1>4, <1>c DEF ListSecrets, ListNames
  <2> QED
    BY <2>1, <2>2 DEF HolderReplaces, SetSteps
<1>5. CASE NextVersion(p)
  <2>1. /\ sCmd'[p].key = sCmd[p].key /\ sCmd'[p].value = sCmd[p].value
        /\ UNCHANGED <<newest, sOps>> /\ sPc[p] = "set_read" /\ sPc'[p] = "create"
    BY <1>5, <1>c DEF NextVersion, Locals, secretHistory
  <2> QED
    BY <2>1 DEF HolderReplaces, SetSteps
<1>6. CASE CreateSecret(p)
  <2>0. /\ UNCHANGED <<newest, sOps, records>> /\ sPc[p] = "create"
        /\ \A w \in records[sCmd[p].key] : w < sCmd[p].version
    BY <1>6 DEF CreateSecret, secretHistory, secretFiles, HolderKnows
  <2>1. CASE SGoto(p, "save") /\ UNCHANGED sCmd
    BY <1>c, <2>0, <2>1 DEF HolderReplaces, SetSteps
  <2>2. CASE /\ sCmd' = [sCmd EXCEPT ![p].version = sCmd[p].version + 1, ![p].tries = @ + 1]
             /\ UNCHANGED sPc
    <3>1. sCmd'[p].key = sCmd[p].key /\ sCmd'[p].value = sCmd[p].value
      BY <1>c, <2>2 DEF Locals
    <3> QED
      BY <2>0, <2>2, <3>1 DEF HolderReplaces, SetSteps
  <2>3. CASE SDone(p)
    BY <1>0, <1>c, <2>3 DEF SetSteps
  <2> QED
    BY <1>6, <2>1, <2>2, <2>3 DEF CreateSecret
<1>7. CASE RemoveSecret(p)
  <2>1. CASE SDone(p)
    BY <1>0, <1>c, <2>1 DEF SetSteps
  <2>2. CASE newest' = [newest EXCEPT ![sCmd[p].key] = Unset] /\ SGoto(p, "forget") /\ UNCHANGED sCmd
    BY <1>c, <2>2 DEF HolderReplaces, SetSteps
  <2> QED
    BY <1>7, <2>1, <2>2 DEF RemoveSecret
<1>8. CASE SaveSecret(p) \/ ListFails(p) \/ DeleteRead(p) \/ ForgetSecret(p) \/ SecretFault(p)
  BY <1>0, <1>8, <1>c DEF SaveSecret, ListFails, DeleteRead, ForgetSecret, SecretFault, SetSteps
<1>9. CASE LockApp(p) \/ Resolve(p) \/ LatestRead(p) \/ DeployStack(p) \/ RecordBindings(p)
  BY <1>0, <1>9, <1>c DEF LockApp, Resolve, LatestRead, DeployStack, RecordBindings, SetSteps
<1> QED
  BY <1>1, <1>2, <1>3, <1>4, <1>5, <1>6, <1>7, <1>8, <1>9 DEF StepOf

\* The value of a key's last set is changed by the holder of the key's lock only.
LEMMA OnlyHolderRenews ==
  ASSUME SecretsTypes, NEW p \in SecretUsers, StepOf(p), NEW k \in Keys,
         ~(Holds(p) /\ sCmd[p].key = k)
  PROVE  newest'[k] = newest[k]
<1>c. newest \in [Keys -> Nat]
  BY NaturalTypes
<1> USE DEF SAt, Holds, SetSteps, DeleteSteps, secretFiles, secretHistory
<1>1. CASE CreateSecret(p)
  BY <1>1 DEF CreateSecret
<1>2. CASE SaveSecret(p)
  BY <1>2, <1>c DEF SaveSecret
<1>3. CASE RemoveSecret(p)
  BY <1>3, <1>c DEF RemoveSecret
<1>4. CASE ForgetSecret(p)
  BY <1>4 DEF ForgetSecret
<1>5. CASE ~CreateSecret(p) /\ ~SaveSecret(p) /\ ~RemoveSecret(p) /\ ~ForgetSecret(p)
  BY <1>5, OnlyFourWrite
<1> QED
  BY <1>1, <1>2, <1>3, <1>4, <1>5

\* The holder of another key's lock is not disturbed.
LEMMA OthersReplace ==
  ASSUME SecretsTypes, KeyMutex, NEW p \in SecretUsers, StepOf(p),
         NEW q \in SecretUsers, q # p, HolderReplaces(q)
  PROVE  HolderReplaces(q)'
<1>1. /\ sPc'[q] = sPc[q] /\ sCmd'[q] = sCmd[q] /\ sCmd[q].key \in Keys /\ sCmd[q].value \in Nat
      /\ sOps \in Nat /\ sOps' \in Nat /\ sOps' >= sOps
  BY OthersWait, NaturalTypes, OpsStep
<1>2. CASE Holds(q)
  <2>1. ~(Holds(p) /\ sCmd[p].key = sCmd[q].key)
    BY <1>2 DEF KeyMutex
  <2>2. /\ records'[sCmd[q].key] = records[sCmd[q].key]
        /\ newest'[sCmd[q].key] = newest[sCmd[q].key]
    BY <1>1, <2>1, OnlyHolderWrites, OnlyHolderRenews
  <2> QED
    BY <1>1, <2>2 DEF HolderReplaces, SAt
<1>3. CASE ~Holds(q)
  BY <1>1, <1>3 DEF HolderReplaces, SAt, Holds, SetSteps, DeleteSteps
<1> QED
  BY <1>2, <1>3

\* The steps at which a deploy has read or bound something new.
LEMMA FollowsStep ==
  ASSUME SecretsTypes, NEW p \in SecretUsers, StepOf(p), NewestStands,
         DeployFollows(p)
  PROVE  DeployFollows(p)'
<1> USE DEF SAt, SGoto, SDone
<1>c. /\ sCmd \in [SecretUsers -> Locals] /\ sCmd[p] \in Locals /\ p \in DOMAIN sPc
      /\ newest \in [Keys -> Nat] /\ erased \in [Keys -> Nat]
      /\ NoSecretCmd \in Locals /\ \A k \in Keys : NoSecretCmd.bound[k] = Unset
  BY NaturalTypes, NoCommandType DEF SecretsTypes
<1>0. CASE sPc'[p] \notin {"lock_app"} \cup AppSteps
  BY <1>0 DEF DeployFollows
<1>1. ASSUME NEW k \in Keys, StartSet(p, k) \/ StartDelete(p, k)
      PROVE  DeployFollows(p)'
  BY <1>0, <1>1, <1>c DEF StartSet, StartDelete, AppSteps
<1>2. ASSUME NEW refs \in SUBSET Keys, StartSecretDeploy(p, refs) \/ StartSecretRollback(p, refs)
      PROVE  DeployFollows(p)'
  <2>1. sCmd'[p].bound = NoSecretCmd.bound /\ sPc'[p] = "lock_app"
    <3>1. CASE StartSecretDeploy(p, refs)
      <4>1. [NoSecretCmd EXCEPT !.refs = refs].bound = NoSecretCmd.bound
        BY <1>c DEF Locals
      <4> QED
        BY <1>c, <3>1, <4>1 DEF StartSecretDeploy
    <3>2. CASE StartSecretRollback(p, refs)
      <4>1. [NoSecretCmd EXCEPT !.refs = refs, !.pinned = pins[Len(pins) - 1]].bound
              = NoSecretCmd.bound
        BY <1>c DEF Locals
      <4> QED
        BY <1>c, <3>2, <4>1 DEF StartSecretRollback
    <3> QED
      BY <1>2, <3>1, <3>2
  <2> QED
    BY <1>c, <2>1 DEF DeployFollows, AppSteps
<1>3. CASE LockApp(p)
  <2>1. /\ sCmd'[p].bound = sCmd[p].bound /\ sCmd'[p].floor = newest /\ sCmd'[p].epoch = erased
        /\ UNCHANGED <<newest, erased>> /\ sPc[p] = "lock_app" /\ sPc'[p] = "resolve"
    BY <1>3, <1>c DEF LockApp, Locals, secretHistory
  <2>2. \A k \in Keys : sCmd'[p].bound[k] = Unset
    BY <2>1 DEF DeployFollows
  <2> QED
    BY <1>c, <2>1, <2>2 DEF DeployFollows
<1>4. CASE ListSecrets(p)
  <2>1. CASE ListNames(p, "latest_names", "latest_read")
    <3>1. /\ sCmd'[p].bound = sCmd[p].bound /\ sCmd'[p].floor = sCmd[p].floor
          /\ sCmd'[p].epoch = sCmd[p].epoch /\ sCmd'[p].pinned = sCmd[p].pinned
          /\ sCmd'[p].names = records
          /\ UNCHANGED <<newest, erased, vault, records>>
          /\ sPc[p] = "latest_names" /\ sPc'[p] = "latest_read"
      BY <1>4, <1>c, <2>1 DEF ListSecrets, ListNames, Locals, secretHistory, secretFiles
    <3>2. \A k \in Keys : sCmd[p].floor[k] \in Nat
      BY <1>c, SecretsAssumption DEF Locals, Values
    <3>3. ASSUME NEW k \in Keys, sCmd[p].epoch[k] = erased[k], sCmd[p].floor[k] # Unset
          PROVE  /\ newest[k] >= sCmd[p].floor[k]
                 /\ records[k] # {} /\ vault[k][Biggest(records[k])] >= sCmd[p].floor[k]
      <4>1. newest[k] >= sCmd[p].floor[k]
        BY <3>1, <3>3 DEF DeployFollows, AppSteps
      <4>2. newest[k] # Unset
        BY <1>c, <3>2, <3>3, <4>1 DEF Unset
      <4> QED
        BY <4>1, <4>2 DEF NewestStands
    <3> QED
      BY <3>1, <3>3 DEF DeployFollows, AppSteps
  <2>2. CASE ListNames(p, "set_names", "set_read") \/ ListNames(p, "del_names", "del_read")
    BY <1>0, <1>c, <2>2 DEF ListNames, AppSteps
  <2> QED
    BY <1>4, <2>1, <2>2 DEF ListSecrets
<1>5. CASE Resolve(p)
  <2>0. UNCHANGED <<newest, erased, vault>> /\ sPc[p] = "resolve"
    BY <1>5 DEF Resolve, secretHistory
  <2>1. CASE SGoto(p, "stack") /\ UNCHANGED sCmd
    BY <1>c, <2>0, <2>1 DEF DeployFollows, AppSteps
  <2>2. ASSUME NEW k \in Pinned(p),
               sCmd' = [sCmd EXCEPT ![p].bound[k] = sCmd[p].pinned.version[k]], UNCHANGED sPc
        PROVE  DeployFollows(p)'
    <3>1. /\ sCmd'[p].bound = [sCmd[p].bound EXCEPT ![k] = sCmd[p].pinned.version[k]]
          /\ sCmd'[p].floor = sCmd[p].floor
          /\ sCmd'[p].epoch = sCmd[p].epoch /\ sCmd'[p].pinned = sCmd[p].pinned
      BY <1>c, <2>2 DEF Locals
    <3>2. \A j \in Keys : sCmd[p].pinned.version[j] = Unset => sCmd'[p].bound[j] = sCmd[p].bound[j]
      BY <1>c, <2>2, <3>1 DEF Pinned, Locals
    <3> QED
      BY <2>0, <2>2, <3>1, <3>2 DEF DeployFollows, AppSteps
  <2>3. ASSUME NEW k \in Keys, sCmd' = [sCmd EXCEPT ![p].key = k], SGoto(p, "latest_names")
        PROVE  DeployFollows(p)'
    <3>1. /\ sCmd'[p].bound = sCmd[p].bound /\ sCmd'[p].floor = sCmd[p].floor
          /\ sCmd'[p].epoch = sCmd[p].epoch /\ sCmd'[p].pinned = sCmd[p].pinned
          /\ sPc'[p] = "latest_names"
      BY <1>c, <2>3 DEF Locals
    <3> QED
      BY <2>0, <3>1 DEF DeployFollows, AppSteps
  <2>4. sCmd[p].refs \subseteq Keys
    BY <1>c DEF Locals
  <2> QED
    BY <1>5, <2>1, <2>2, <2>3, <2>4 DEF Resolve, Unresolved
<1>6. CASE LatestRead(p)
  <2> DEFINE k == sCmd[p].key
             v == Latest(sCmd[p].names[k])
  <2>0. UNCHANGED <<newest, erased, vault>> /\ sPc[p] = "latest_read"
    BY <1>6 DEF LatestRead, secretHistory
  <2>1. CASE SDone(p)
    BY <1>0, <1>c, <2>1 DEF AppSteps
  <2>2. CASE sCmd' = [sCmd EXCEPT ![p].bound[k] = v] /\ SGoto(p, "resolve")
    <3>1. /\ sCmd'[p].bound = [sCmd[p].bound EXCEPT ![k] = v]
          /\ sCmd'[p].floor = sCmd[p].floor
          /\ sCmd'[p].epoch = sCmd[p].epoch /\ sCmd'[p].pinned = sCmd[p].pinned
          /\ sPc'[p] = "resolve"
      BY <1>c, <2>2 DEF Locals
    <3>2. k \in Keys /\ v = Biggest(sCmd[p].names[k])
      BY <1>c DEF Locals, Latest
    <3>3. sCmd'[p].bound[k] = v /\ \A j \in Keys \ {k} : sCmd'[p].bound[j] = sCmd[p].bound[j]
      BY <1>c, <3>1, <3>2 DEF Locals
    <3>4. ASSUME NEW j \in Keys, sCmd[p].epoch[j] = erased[j], sCmd[p].floor[j] # Unset,
                 sCmd[p].pinned.version[j] = Unset, sCmd'[p].bound[j] # Unset
          PROVE  vault[j][sCmd'[p].bound[j]] >= sCmd[p].floor[j]
      <4>1. CASE j = k
        <5>1. vault[j][Biggest(sCmd[p].names[j])] >= sCmd[p].floor[j]
          BY <2>0, <3>4 DEF DeployFollows, AppSteps
        <5>2. sCmd'[p].bound[j] = Biggest(sCmd[p].names[j])
          BY <3>2, <3>3, <4>1
        <5> QED
          BY <5>1, <5>2
      <4>2. CASE j # k
        <5>1. sCmd'[p].bound[j] = sCmd[p].bound[j]
          BY <3>3, <4>2
        <5> QED
          BY <2>0, <3>4, <5>1 DEF DeployFollows, AppSteps
      <4> QED
        BY <4>1, <4>2
    <3>5. \A j \in Keys :
            /\ sCmd[p].epoch[j] <= erased[j]
            /\ sCmd[p].epoch[j] = erased[j] /\ sCmd[p].floor[j] # Unset =>
                 newest[j] >= sCmd[p].floor[j]
      BY <2>0 DEF DeployFollows, AppSteps
    <3> HIDE DEF k, v
    <3> QED
      BY <2>0, <3>1, <3>4, <3>5 DEF DeployFollows, AppSteps
  <2> QED
    BY <1>6, <2>1, <2>2 DEF LatestRead
<1>7. CASE DeployStack(p)
  <2>1. CASE SDone(p)
    BY <1>0, <1>c, <2>1 DEF AppSteps
  <2>2. CASE SGoto(p, "record") /\ UNCHANGED sCmd
    <3>1. UNCHANGED <<newest, erased, vault>> /\ sPc[p] = "stack"
      BY <1>7 DEF DeployStack, secretHistory
    <3> QED
      BY <1>c, <2>2, <3>1 DEF DeployFollows, AppSteps
  <2> QED
    BY <1>7, <2>1, <2>2 DEF DeployStack
<1>8. CASE RecordBindings(p) \/ ListFails(p) \/ SecretFault(p) \/ SaveSecret(p)
  BY <1>0, <1>8, <1>c DEF RecordBindings, ListFails, SecretFault, SaveSecret, AppSteps
<1>9. CASE NextVersion(p) \/ CreateSecret(p) \/ DeleteRead(p) \/ RemoveSecret(p) \/ ForgetSecret(p)
  BY <1>0, <1>9, <1>c DEF NextVersion, CreateSecret, DeleteRead, RemoveSecret, ForgetSecret, AppSteps
<1> QED
  BY <1>1, <1>2, <1>3, <1>4, <1>5, <1>6, <1>7, <1>8, <1>9 DEF StepOf

\* What a deploy has read and bound stays as new as its floor while others go on.
LEMMA OthersFollow ==
  ASSUME SecretsTypes, NEW p \in SecretUsers, StepOf(p), HolderReplaces(p),
         SecretsTypes',
         NEW q \in SecretUsers, q # p, DeployFollows(q)
  PROVE  DeployFollows(q)'
<1>1. sPc'[q] = sPc[q] /\ sCmd'[q] = sCmd[q]
  BY OthersWait
<1>c. /\ sCmd[q] \in Locals /\ erased \in [Keys -> Nat] /\ newest \in [Keys -> Nat]
      /\ vault \in [Keys -> [Versions -> Nat]]
  BY NaturalTypes DEF SecretsTypes
<1>n. erased' \in [Keys -> Nat] /\ newest' \in [Keys -> Nat]
  BY SecretsAssumption DEF SecretsTypes, Values
<1>t. \A k \in Keys : /\ sCmd[q].floor[k] \in Nat /\ sCmd[q].epoch[k] \in Nat
                      /\ sCmd[q].names[k] \in SUBSET Versions
                      /\ sCmd[q].bound[k] \in VersionsOrUnset
  BY <1>c, SecretsAssumption DEF Locals, Values
<1>2. CASE sPc[q] \notin AppSteps
  BY <1>1, <1>2 DEF DeployFollows, SAt
<1>3. CASE sPc[q] \in AppSteps
  <2> SUFFICES ASSUME NEW k \in Keys
               PROVE  /\ sCmd[q].epoch[k] <= erased'[k]
                      /\ sCmd[q].epoch[k] = erased'[k] /\ sCmd[q].floor[k] # Unset =>
                           /\ newest'[k] >= sCmd[q].floor[k]
                           /\ SAt(q, "latest_read") =>
                                /\ sCmd[q].names[k] # {}
                                /\ vault'[k][Biggest(sCmd[q].names[k])] >= sCmd[q].floor[k]
                           /\ sCmd[q].pinned.version[k] = Unset /\ sCmd[q].bound[k] # Unset =>
                                vault'[k][sCmd[q].bound[k]] >= sCmd[q].floor[k]
    BY <1>1, <1>3 DEF DeployFollows, SAt, AppSteps
  <2>1. /\ erased'[k] >= erased[k]
        /\ erased'[k] = erased[k] =>
             /\ newest'[k] >= newest[k]
             /\ \A v \in Versions : vault[k][v] # Unset => vault'[k][v] = vault[k][v]
    BY EpochStep
  <2>2. sCmd[q].epoch[k] <= erased[k]
    BY <1>3 DEF DeployFollows
  <2>3. sCmd[q].epoch[k] <= erased'[k] /\ erased'[k] \in Nat
    BY <1>c, <1>t, <1>n, <2>1, <2>2
  <2>4. ASSUME sCmd[q].epoch[k] = erased'[k], sCmd[q].floor[k] # Unset
        PROVE  /\ newest'[k] >= sCmd[q].floor[k]
               /\ SAt(q, "latest_read") =>
                    /\ sCmd[q].names[k] # {}
                    /\ vault'[k][Biggest(sCmd[q].names[k])] >= sCmd[q].floor[k]
               /\ sCmd[q].pinned.version[k] = Unset /\ sCmd[q].bound[k] # Unset =>
                    vault'[k][sCmd[q].bound[k]] >= sCmd[q].floor[k]
    <3>1. erased'[k] = erased[k]
      <4>1. erased[k] \in Nat /\ erased'[k] \in Nat
        BY <1>c, <2>3
      <4>2. erased'[k] >= erased[k] /\ erased'[k] <= erased[k]
        BY <2>1, <2>2, <2>4
      <4> QED
        BY <4>1, <4>2
    <3>2. newest'[k] >= sCmd[q].floor[k]
      BY <1>c, <1>t, <1>3, <2>1, <2>4, <3>1, <1>n DEF DeployFollows
    <3>3. ASSUME NEW w \in Versions, vault[k][w] >= sCmd[q].floor[k]
          PROVE  vault'[k][w] >= sCmd[q].floor[k]
      BY <1>c, <1>t, <2>1, <2>4, <3>1, <3>3 DEF Unset
    <3>4. ASSUME SAt(q, "latest_read")
          PROVE  /\ sCmd[q].names[k] # {}
                 /\ vault'[k][Biggest(sCmd[q].names[k])] >= sCmd[q].floor[k]
      <4>1. /\ sCmd[q].names[k] # {}
            /\ vault[k][Biggest(sCmd[q].names[k])] >= sCmd[q].floor[k]
        BY <1>3, <2>4, <3>1, <3>4 DEF DeployFollows
      <4>2. Biggest(sCmd[q].names[k]) \in Versions
        BY <1>t, <4>1, BiggestIsHighest
      <4> QED
        BY <3>3, <4>1, <4>2
    <3>5. ASSUME sCmd[q].pinned.version[k] = Unset, sCmd[q].bound[k] # Unset
          PROVE  vault'[k][sCmd[q].bound[k]] >= sCmd[q].floor[k]
      <4>1. vault[k][sCmd[q].bound[k]] >= sCmd[q].floor[k]
        BY <1>3, <2>4, <3>1, <3>5 DEF DeployFollows
      <4>2. sCmd[q].bound[k] \in Versions
        BY <1>t, <3>5 DEF VersionsOrUnset
      <4> QED
        BY <3>3, <4>1, <4>2
    <3> QED
      BY <3>2, <3>4, <3>5
  <2> QED
    BY <2>3, <2>4
<1> QED
  BY <1>2, <1>3

\* The lock of the app is taken when it is free.
LEMMA AppLockStep ==
  ASSUME SecretsTypes, NEW p \in SecretUsers, StepOf(p), sPc'[p] \in AppSteps
  PROVE  sPc[p] \in AppSteps \/ ~AppLocked
<1> USE DEF SecretsTypes, SGoto, SDone, SAt, AppSteps
<1>1. ASSUME NEW k \in Keys, StartSet(p, k) \/ StartDelete(p, k)
      PROVE  FALSE
  BY <1>1 DEF StartSet, StartDelete
<1>2. ASSUME NEW refs \in SUBSET Keys, StartSecretDeploy(p, refs) \/ StartSecretRollback(p, refs)
      PROVE  FALSE
  BY <1>2 DEF StartSecretDeploy, StartSecretRollback
<1>3. CASE ListSecrets(p) \/ ListFails(p)
  BY <1>3 DEF ListSecrets, ListNames, ListFails
<1>4. CASE NextVersion(p) \/ CreateSecret(p) \/ SaveSecret(p)
  BY <1>4 DEF NextVersion, CreateSecret, SaveSecret
<1>5. CASE DeleteRead(p) \/ RemoveSecret(p) \/ ForgetSecret(p)
  BY <1>5 DEF DeleteRead, RemoveSecret, ForgetSecret
<1>6. CASE LockApp(p) \/ Resolve(p) \/ LatestRead(p) \/ DeployStack(p) \/ RecordBindings(p)
  BY <1>6 DEF LockApp, Resolve, LatestRead, DeployStack, RecordBindings
<1>7. CASE SecretFault(p)
  BY <1>7 DEF SecretFault
<1> QED
  BY <1>1, <1>2, <1>3, <1>4, <1>5, <1>6, <1>7 DEF StepOf

\* One process at a time is past the lock of its app.
LEMMA AppMutexStep ==
  ASSUME SecretsTypes, NEW p \in SecretUsers, StepOf(p), AppMutex
  PROVE  AppMutex'
<1>1. ASSUME NEW q \in SecretUsers, q # p, sPc'[q] \in AppSteps, sPc'[p] \in AppSteps
      PROVE  FALSE
  <2>1. sPc[q] \in AppSteps
    BY <1>1, OthersWait
  <2>2. AppLocked
    BY <2>1 DEF AppLocked, AppSteps
  <2> QED
    BY <1>1, <2>1, <2>2, AppLockStep DEF AppMutex
<1>2. ASSUME NEW q \in SecretUsers, NEW r \in SecretUsers, q # p, r # p,
             sPc'[q] \in AppSteps, sPc'[r] \in AppSteps
      PROVE  q = r
  BY <1>2, OthersWait DEF AppMutex
<1> QED
  BY <1>1, <1>2 DEF AppMutex

\* What a deployment had stays what it had while its epoch lasts.
LEMMA PinStays ==
  ASSUME SecretsTypes, SecretsTypes', NEW p \in SecretUsers, StepOf(p), HolderReplaces(p),
         NEW r \in Binding, PinTrue(r)
  PROVE  PinTrue(r)'
<1> SUFFICES ASSUME NEW k \in Keys
             PROVE  /\ r.epoch[k] <= erased'[k]
                    /\ r.version[k] # Unset /\ r.epoch[k] = erased'[k] =>
                         r.value[k] # Unset /\ vault'[k][r.version[k]] = r.value[k]
  BY DEF PinTrue
<1>1. /\ erased'[k] >= erased[k]
      /\ erased'[k] = erased[k] =>
           \A v \in Versions : vault[k][v] # Unset => vault'[k][v] = vault[k][v]
  BY EpochStep
<1>2. r.epoch[k] \in Nat /\ erased[k] \in Nat /\ erased'[k] \in Nat
  BY DEF Binding, SecretsTypes
<1>3. r.epoch[k] <= erased[k]
  BY DEF PinTrue
<1>4. r.epoch[k] <= erased'[k]
  BY <1>1, <1>2, <1>3
<1>5. ASSUME r.version[k] # Unset, r.epoch[k] = erased'[k]
      PROVE  r.value[k] # Unset /\ vault'[k][r.version[k]] = r.value[k]
  <2>1. erased'[k] = erased[k]
    BY <1>1, <1>2, <1>3, <1>5
  <2>2. r.value[k] # Unset /\ vault[k][r.version[k]] = r.value[k]
    BY <1>5, <2>1 DEF PinTrue
  <2>3. r.version[k] \in Versions
    BY <1>5 DEF Binding, VersionsOrUnset
  <2> QED
    BY <1>1, <2>1, <2>2, <2>3
<1> QED
  BY <1>4, <1>5

\* No bindings are true ones.
LEMMA NoBindingTrue ==
  ASSUME SecretsTypes
  PROVE  NoBinding \in Binding /\ PinTrue(NoBinding)
<1>1. NoBinding \in Binding
  BY SecretsAssumption DEF NoBinding, Binding, Nothing, Unset, VersionsOrUnset
<1>2. \A k \in Keys : erased[k] \in Nat
  BY DEF SecretsTypes
<1> QED
  BY <1>1, <1>2 DEF PinTrue, NoBinding, Nothing, Unset

\* A rollback returns to a deployment of the history; nothing else is pinned.
LEMMA PinnedFrom ==
  ASSUME SecretsTypes, NEW p \in SecretUsers, StepOf(p)
  PROVE  \/ sCmd'[p].pinned = sCmd[p].pinned
         \/ sCmd'[p].pinned = NoBinding
         \/ \E i \in DOMAIN pins : sCmd'[p].pinned = pins[i]
<1>c. /\ sCmd \in [SecretUsers -> Locals] /\ sCmd[p] \in Locals
      /\ NoSecretCmd \in Locals /\ NoSecretCmd.pinned = NoBinding
  BY NoCommandType DEF SecretsTypes, NoSecretCmd
<1>0. CASE SDone(p)
  BY <1>0, <1>c DEF SDone
<1>1. ASSUME NEW k \in Keys, StartSet(p, k) \/ StartDelete(p, k)
      PROVE  sCmd'[p].pinned = NoBinding
  <2>1. CASE StartSet(p, k)
    BY <2>1, <1>c DEF StartSet, Locals
  <2>2. CASE StartDelete(p, k)
    BY <2>2, <1>c DEF StartDelete, Locals
  <2> QED
    BY <1>1, <2>1, <2>2
<1>2. ASSUME NEW refs \in SUBSET Keys, StartSecretDeploy(p, refs)
      PROVE  sCmd'[p].pinned = NoBinding
  BY <1>2, <1>c DEF StartSecretDeploy, Locals
<1>3. ASSUME NEW refs \in SUBSET Keys, StartSecretRollback(p, refs)
      PROVE  \E i \in DOMAIN pins : sCmd'[p].pinned = pins[i]
  <2>1. [NoSecretCmd EXCEPT !.refs = refs, !.pinned = pins[Len(pins) - 1]].pinned
          = pins[Len(pins) - 1]
    BY <1>c DEF Locals
  <2>2. pins \in Seq(Binding) /\ Len(pins) > 1
    BY <1>3 DEF StartSecretRollback, SecretsTypes, SecretsTypeOK
  <2>3. Len(pins) - 1 \in DOMAIN pins
    BY <2>2
  <2>4. sCmd'[p].pinned = pins[Len(pins) - 1]
    BY <1>3, <1>c, <2>1 DEF StartSecretRollback
  <2> QED
    BY <2>3, <2>4
<1>4. CASE ListSecrets(p) \/ NextVersion(p) \/ DeleteRead(p) \/ LockApp(p)
  BY <1>0, <1>4, <1>c DEF ListSecrets, ListNames, NextVersion, DeleteRead, LockApp, Locals
<1>5. CASE CreateSecret(p) \/ RemoveSecret(p) \/ ForgetSecret(p) \/ DeployStack(p)
  BY <1>0, <1>5, <1>c DEF CreateSecret, RemoveSecret, ForgetSecret, DeployStack, Locals
<1>6. CASE Resolve(p) \/ LatestRead(p)
  BY <1>0, <1>6, <1>c DEF Resolve, LatestRead, Locals
<1>7. CASE ListFails(p) \/ SaveSecret(p) \/ RecordBindings(p) \/ SecretFault(p)
  BY <1>0, <1>7 DEF ListFails, SaveSecret, RecordBindings, SecretFault
<1> QED
  BY <1>1, <1>2, <1>3, <1>4, <1>5, <1>6, <1>7 DEF StepOf

\* What a command has pinned is true of the deployment it came from.
LEMMA PinnedStep ==
  ASSUME SecretsTypes, SecretsTypes', NEW p \in SecretUsers, StepOf(p), HolderReplaces(p),
         \A q \in SecretUsers : PinTrue(sCmd[q].pinned),
         \A i \in DOMAIN pins : PinTrue(pins[i]),
         NEW q \in SecretUsers
  PROVE  PinTrue(sCmd[q].pinned)'
<1>1. \A o \in SecretUsers : sCmd[o].pinned \in Binding
  BY DEF SecretsTypes, Locals
<1>2. \A i \in DOMAIN pins : pins[i] \in Binding
  BY DEF SecretsTypes, SecretsTypeOK
<1>3. PICK r \in Binding : PinTrue(r) /\ r = sCmd'[q].pinned
  <2>1. CASE q = p
    BY <1>1, <1>2, <2>1, PinnedFrom, NoBindingTrue
  <2>2. CASE q # p
    BY <1>1, <2>2, OthersWait
  <2> QED
    BY <2>1, <2>2
<1>4. PinTrue(r)'
  BY <1>3, PinStays
<1> QED
  BY <1>3, <1>4 DEF PinTrue

\* The steps of a deploy bind a pinned key to its pinned version.
LEMMA BindsPinnedStep ==
  ASSUME SecretsTypes, NEW p \in SecretUsers, StepOf(p), BindsReferences(p), BindsPinned(p)
  PROVE  BindsPinned(p)'
<1> USE DEF SAt, SGoto, SDone
<1>c. /\ sCmd \in [SecretUsers -> Locals] /\ sCmd[p] \in Locals /\ p \in DOMAIN sPc
      /\ NoSecretCmd \in Locals /\ \A k \in Keys : NoSecretCmd.bound[k] = Unset
  BY NoCommandType DEF SecretsTypes
<1>0. CASE /\ sPc'[p] \notin {"latest_names", "latest_read", "stack", "record"}
           /\ sCmd'[p].bound = NoSecretCmd.bound
  BY <1>0, <1>c DEF BindsPinned
<1>1. CASE /\ sPc'[p] \notin {"latest_names", "latest_read", "stack", "record"}
           /\ sCmd'[p].bound = sCmd[p].bound /\ sCmd'[p].pinned = sCmd[p].pinned
  BY <1>1 DEF BindsPinned
<1>2. CASE SDone(p)
  BY <1>0, <1>2, <1>c
<1>3. ASSUME NEW k \in Keys, StartSet(p, k) \/ StartDelete(p, k)
      PROVE  BindsPinned(p)'
  <2>1. CASE StartSet(p, k)
    BY <1>0, <2>1, <1>c DEF StartSet, Locals
  <2>2. CASE StartDelete(p, k)
    BY <1>0, <2>2, <1>c DEF StartDelete, Locals
  <2> QED
    BY <1>3, <2>1, <2>2
<1>4. ASSUME NEW refs \in SUBSET Keys, StartSecretDeploy(p, refs) \/ StartSecretRollback(p, refs)
      PROVE  BindsPinned(p)'
  <2>1. CASE StartSecretDeploy(p, refs)
    BY <1>0, <2>1, <1>c DEF StartSecretDeploy, Locals
  <2>2. CASE StartSecretRollback(p, refs)
    BY <1>0, <2>2, <1>c DEF StartSecretRollback, Locals
  <2> QED
    BY <1>4, <2>1, <2>2
<1>5. CASE ListFails(p) \/ SaveSecret(p) \/ RecordBindings(p) \/ SecretFault(p)
  BY <1>2, <1>5 DEF ListFails, SaveSecret, RecordBindings, SecretFault
<1>6. CASE NextVersion(p) \/ CreateSecret(p) \/ DeleteRead(p)
  <2>1. CASE NextVersion(p)
    BY <1>1, <2>1, <1>c DEF NextVersion, Locals
  <2>2. CASE CreateSecret(p)
    BY <1>1, <1>2, <2>2, <1>c DEF CreateSecret, Locals
  <2>3. CASE DeleteRead(p)
    BY <1>1, <1>2, <2>3, <1>c DEF DeleteRead, Locals
  <2> QED
    BY <1>6, <2>1, <2>2, <2>3
<1>7. CASE RemoveSecret(p) \/ ForgetSecret(p) \/ LockApp(p)
  <2>1. CASE RemoveSecret(p)
    BY <1>1, <1>2, <2>1, <1>c DEF RemoveSecret, Locals
  <2>2. CASE ForgetSecret(p)
    BY <1>1, <1>2, <2>2, <1>c DEF ForgetSecret, Locals
  <2>3. CASE LockApp(p)
    BY <1>1, <2>3, <1>c DEF LockApp, Locals
  <2> QED
    BY <1>7, <2>1, <2>2, <2>3
<1>8. CASE ListSecrets(p)
  <2>1. /\ sCmd'[p].bound = sCmd[p].bound /\ sCmd'[p].pinned = sCmd[p].pinned
        /\ sCmd'[p].key = sCmd[p].key
    BY <1>8, <1>c DEF ListSecrets, ListNames, Locals
  <2>2. /\ sPc'[p] \notin {"latest_names", "stack", "record"}
        /\ sPc'[p] = "latest_read" => sPc[p] = "latest_names"
    BY <1>8, <1>c DEF ListSecrets, ListNames
  <2> QED
    BY <2>1, <2>2 DEF BindsPinned
<1>9. CASE Resolve(p)
  <2>0. sPc[p] = "resolve"
    BY <1>9 DEF Resolve
  <2>1. CASE SGoto(p, "stack") /\ UNCHANGED sCmd /\ Unresolved(p) = {}
    BY <1>c, <2>0, <2>1 DEF BindsPinned, Unresolved
  <2>2. ASSUME NEW k \in sCmd[p].refs,
               sCmd' = [sCmd EXCEPT ![p].bound[k] = sCmd[p].pinned.version[k]], UNCHANGED sPc
        PROVE  BindsPinned(p)'
    <3>1. /\ sCmd'[p].bound = [sCmd[p].bound EXCEPT ![k] = sCmd[p].pinned.version[k]]
          /\ sCmd'[p].pinned = sCmd[p].pinned
      BY <1>c, <2>2 DEF Locals
    <3>2. sCmd[p].bound \in [Keys -> VersionsOrUnset]
      BY <1>c DEF Locals
    <3>3. \A j \in Keys : sCmd'[p].bound[j] \in {sCmd[p].bound[j], sCmd[p].pinned.version[j]}
      BY <3>1, <3>2
    <3>4. sPc'[p] = "resolve"
      BY <2>0, <2>2
    <3> QED
      BY <3>1, <3>3, <3>4 DEF BindsPinned
  <2>3. ASSUME NEW k \in sCmd[p].refs, sCmd[p].pinned.version[k] = Unset,
               sCmd' = [sCmd EXCEPT ![p].key = k], SGoto(p, "latest_names")
        PROVE  BindsPinned(p)'
    <3>1. /\ sCmd'[p].bound = sCmd[p].bound /\ sCmd'[p].pinned = sCmd[p].pinned
          /\ sCmd'[p].key = k /\ sPc'[p] = "latest_names"
      BY <1>c, <2>3 DEF Locals
    <3> QED
      BY <2>3, <3>1 DEF BindsPinned
  <2> QED
    BY <1>9, <2>1, <2>2, <2>3 DEF Resolve, Unresolved, Pinned
<1>10. CASE LatestRead(p)
  <2> DEFINE k == sCmd[p].key
             v == Latest(sCmd[p].names[k])
  <2>1. CASE sCmd' = [sCmd EXCEPT ![p].bound[k] = v] /\ SGoto(p, "resolve")
    <3>1. /\ sCmd[p].pinned.version[k] = Unset /\ k \in Keys
          /\ sCmd[p].bound \in [Keys -> VersionsOrUnset]
      BY <1>10, <1>c DEF LatestRead, BindsPinned, Locals
    <3>2. /\ sCmd'[p].bound = [sCmd[p].bound EXCEPT ![k] = v]
          /\ sCmd'[p].pinned = sCmd[p].pinned /\ sPc'[p] = "resolve"
      BY <1>c, <2>1 DEF Locals
    <3>3. \A j \in Keys \ {k} : sCmd'[p].bound[j] = sCmd[p].bound[j]
      BY <3>1, <3>2
    <3> HIDE DEF k, v
    <3> QED
      BY <3>1, <3>2, <3>3 DEF BindsPinned
  <2> QED
    BY <1>2, <1>10, <2>1 DEF LatestRead
<1>11. CASE DeployStack(p)
  <2>1. CASE /\ \A k \in sCmd[p].refs : vault[k][sCmd[p].bound[k]] # Unset
             /\ mounted' = sCmd[p].bound /\ SGoto(p, "record") /\ UNCHANGED sCmd
    <3>1. vault' = vault /\ sPc'[p] = "record"
      BY <1>11, <1>c, <2>1 DEF DeployStack
    <3>2. \A k \in Keys : sCmd[p].bound[k] # Unset => vault[k][sCmd[p].bound[k]] # Unset
      BY <2>1 DEF BindsReferences
    <3> QED
      BY <2>1, <3>1, <3>2 DEF BindsPinned
  <2> QED
    BY <1>2, <1>11, <2>1 DEF DeployStack
<1> QED
  BY <1>3, <1>4, <1>5, <1>6, <1>7, <1>8, <1>9, <1>10, <1>11 DEF StepOf

\* Only the stack mounts, and no delete takes a mounted secret.
LEMMA MountKept ==
  ASSUME SecretsTypes, NEW p \in SecretUsers, StepOf(p), sPc[p] # "stack"
  PROVE  /\ mounted' = mounted
         /\ \A k \in Keys, v \in Versions :
              mounted[k] = v /\ vault[k][v] # Unset => vault'[k][v] # Unset
<1>c. /\ vault \in [Keys -> [Versions -> Nat]] /\ sCmd[p].key \in Keys
  BY NaturalTypes
<1>1. mounted' = mounted
  <2>1. ASSUME NEW k \in Keys, StartSet(p, k) \/ StartDelete(p, k)
        PROVE  mounted' = mounted
    BY <2>1 DEF StartSet, StartDelete
  <2>2. ASSUME NEW refs \in SUBSET Keys, StartSecretDeploy(p, refs) \/ StartSecretRollback(p, refs)
        PROVE  mounted' = mounted
    BY <2>2 DEF StartSecretDeploy, StartSecretRollback
  <2>3. CASE \/ ListSecrets(p) \/ ListFails(p) \/ NextVersion(p) \/ CreateSecret(p)
             \/ SaveSecret(p) \/ DeleteRead(p) \/ RemoveSecret(p) \/ ForgetSecret(p)
    BY <2>3 DEF ListSecrets, ListFails, NextVersion, CreateSecret, SaveSecret, DeleteRead,
                RemoveSecret, ForgetSecret
  <2>4. CASE LockApp(p) \/ Resolve(p) \/ LatestRead(p) \/ RecordBindings(p) \/ SecretFault(p)
    BY <2>4 DEF LockApp, Resolve, LatestRead, RecordBindings, SecretFault
  <2> QED
    BY <2>1, <2>2, <2>3, <2>4 DEF StepOf, DeployStack, SAt
<1> SUFFICES ASSUME NEW k \in Keys, NEW v \in Versions, mounted[k] = v, vault[k][v] # Unset
             PROVE  vault'[k][v] # Unset
  BY <1>1
<1>2. CASE CreateSecret(p)
  <2>1. \/ vault' = vault
        \/ /\ vault' = [vault EXCEPT ![sCmd[p].key][sCmd[p].version] = sCmd[p].value]
           /\ vault[sCmd[p].key][sCmd[p].version] = Unset
    BY <1>2 DEF CreateSecret
  <2> QED
    BY <1>c, <2>1
<1>3. CASE RemoveSecret(p)
  <2>1. CASE UNCHANGED vault
    BY <2>1
  <2>2. CASE /\ vault' = [vault EXCEPT ![sCmd[p].key][Biggest(sCmd[p].todo)] = Unset]
             /\ mounted[sCmd[p].key] # Biggest(sCmd[p].todo)
    BY <1>c, <2>2
  <2> QED
    BY <1>3, <2>1, <2>2 DEF RemoveSecret, SwarmRefuses
<1>4. CASE SaveSecret(p) \/ ForgetSecret(p)
  BY <1>4 DEF SaveSecret, ForgetSecret
<1>5. CASE ~CreateSecret(p) /\ ~SaveSecret(p) /\ ~RemoveSecret(p) /\ ~ForgetSecret(p)
  BY <1>5, OnlyFourWrite
<1> QED
  BY <1>2, <1>3, <1>4, <1>5

\* What a deploy has bound and mounted stays while others go on.
LEMMA OthersBindPinned ==
  ASSUME SecretsTypes, NEW p \in SecretUsers, StepOf(p), AppMutex,
         NEW q \in SecretUsers, q # p, BindsPinned(q)
  PROVE  BindsPinned(q)'
<1>1. sPc'[q] = sPc[q] /\ sCmd'[q] = sCmd[q]
  BY OthersWait
<1>2. ASSUME SAt(q, "record"), NEW k \in Keys, sCmd[q].bound[k] # Unset
      PROVE  mounted'[k] = sCmd[q].bound[k] /\ vault'[k][sCmd[q].bound[k]] # Unset
  <2>1. sPc[p] # "stack"
    BY <1>2 DEF AppMutex, AppSteps, SAt
  <2>2. mounted[k] = sCmd[q].bound[k] /\ vault[k][sCmd[q].bound[k]] # Unset
    BY <1>2 DEF BindsPinned
  <2>3. sCmd[q].bound[k] \in Versions
    BY <1>2 DEF SecretsTypes, Locals, VersionsOrUnset
  <2> QED
    BY <2>1, <2>2, <2>3, MountKept
<1>3. SAt(q, "stack") => Unresolved(q)' = {}
  BY <1>1 DEF BindsPinned, Unresolved
<1> QED
  BY <1>1, <1>2, <1>3 DEF BindsPinned, SAt

\* Every deployment of the history had what it is recorded to have had.
LEMMA PinsStep ==
  ASSUME SecretsTypes, SecretsTypes', NEW p \in SecretUsers, StepOf(p), HolderReplaces(p),
         BindsPinned(p), \A i \in DOMAIN pins : PinTrue(pins[i])
  PROVE  \A i \in DOMAIN pins' : PinTrue(pins[i])'
<1>1. CASE RecordBindings(p)
  <2> DEFINE b == sCmd[p].bound
             r == [version |-> b, epoch |-> erased,
                   value |-> [k \in Keys |-> IF b[k] = Unset THEN Unset ELSE vault[k][b[k]]]]
             old == IF Len(pins) < 2 THEN pins ELSE Tail(pins)
  <2>1. pins' = Append(old, r) /\ UNCHANGED <<vault, erased>>
    BY <1>1 DEF RecordBindings, secretHistory
  <2>2. pins \in Seq(Binding) /\ pins' \in Seq(Binding) /\ erased \in [Keys -> Nat]
    BY DEF SecretsTypes, SecretsTypeOK
  <2>3. ASSUME NEW k \in Keys
        PROVE  /\ r.epoch[k] <= erased[k]
               /\ r.version[k] # Unset => r.value[k] # Unset /\ vault[k][r.version[k]] = r.value[k]
    <3>1. r.version[k] = b[k] /\ r.epoch[k] = erased[k] /\ erased[k] \in Nat
      BY <2>2
    <3>2. b[k] # Unset => r.value[k] = vault[k][b[k]] /\ vault[k][b[k]] # Unset
      BY <1>1 DEF BindsPinned, RecordBindings
    <3> QED
      BY <3>1, <3>2
  <2>4. PinTrue(r)
    BY <2>3 DEF PinTrue
  <2> HIDE DEF r
  <2>5. \A i \in DOMAIN old : \E j \in DOMAIN pins : old[i] = pins[j]
    BY <2>2
  <2>6. old \in Seq(Binding)
    BY <2>2
  <2>7. \A i \in DOMAIN pins' : PinTrue(pins'[i])
    <3> HIDE DEF old
    <3> SUFFICES ASSUME NEW i \in DOMAIN pins' PROVE PinTrue(pins'[i])
      OBVIOUS
    <3>1. \/ i \in DOMAIN old /\ pins'[i] = old[i]
          \/ pins'[i] = r
      BY <2>1, <2>6
    <3> QED
      BY <2>4, <2>5, <3>1
  <2> QED
    BY <2>1, <2>7 DEF PinTrue
<1>2. CASE ~RecordBindings(p)
  <2>1. pins' = pins
    <3>1. ASSUME NEW k \in Keys, StartSet(p, k) \/ StartDelete(p, k)
          PROVE  pins' = pins
      BY <3>1 DEF StartSet, StartDelete, secretFiles
    <3>2. ASSUME NEW refs \in SUBSET Keys,
                 StartSecretDeploy(p, refs) \/ StartSecretRollback(p, refs)
          PROVE  pins' = pins
      BY <3>2 DEF StartSecretDeploy, StartSecretRollback, secretFiles
    <3>3. CASE \/ ListSecrets(p) \/ ListFails(p) \/ NextVersion(p) \/ CreateSecret(p)
               \/ SaveSecret(p) \/ DeleteRead(p) \/ RemoveSecret(p) \/ ForgetSecret(p)
      BY <3>3 DEF ListSecrets, ListFails, NextVersion, CreateSecret, SaveSecret, DeleteRead,
                  RemoveSecret, ForgetSecret, secretFiles
    <3>4. CASE LockApp(p) \/ Resolve(p) \/ LatestRead(p) \/ DeployStack(p) \/ SecretFault(p)
      BY <3>4 DEF LockApp, Resolve, LatestRead, DeployStack, SecretFault, secretFiles
    <3> QED
      BY <1>2, <3>1, <3>2, <3>3, <3>4 DEF StepOf
  <2> SUFFICES ASSUME NEW i \in DOMAIN pins PROVE PinTrue(pins[i])'
    BY <2>1
  <2>2. PICK r \in Binding : r = pins[i] /\ PinTrue(r)
    BY DEF SecretsTypes, SecretsTypeOK
  <2>3. PinTrue(r)'
    BY <2>2, PinStays
  <2> QED
    BY <2>1, <2>2, <2>3 DEF PinTrue
<1> QED
  BY <1>1, <1>2

\* What has been set and deployed before is bound as it is recorded.
LEMMA BindingsInitially == SecretsInit => BindingsInv
<1> SUFFICES ASSUME SecretsInit PROVE BindingsInv
  OBVIOUS
<1> USE SecretsAssumption
<1>1. PICK old \in 0..2 :
         /\ records = [k \in Keys |-> 1..old]
         /\ vault = [k \in Keys |-> [v \in Versions |-> IF v <= old THEN v ELSE Unset]]
         /\ newest = [k \in Keys |-> old]
         /\ pins = [v \in 1..old |-> [version |-> [k \in Keys |-> v], value |-> [k \in Keys |-> v],
                                      epoch |-> Nothing]]
  BY DEF SecretsInit
<1>2. /\ \A p \in SecretUsers : sPc[p] = "idle" /\ sCmd[p] = NoSecretCmd
      /\ erased = [k \in Keys |-> 0] /\ sOps = 0
  BY DEF SecretsInit, Nothing, Unset
<1>3. SecretsTypes
  BY SecretsInitially DEF SecretsInv
<1>4. NoSecretCmd.pinned = NoBinding /\ \A k \in Keys : NoSecretCmd.bound[k] = Unset
  BY NoCommandType DEF NoSecretCmd
<1>5. AppMutex
  BY <1>2 DEF AppMutex, AppSteps
<1>6. NewestStands
  <2> SUFFICES ASSUME NEW k \in Keys, newest[k] # Unset
               PROVE  records[k] # {} /\ vault[k][Biggest(records[k])] = newest[k]
    BY <1>1, <1>2 DEF NewestStands
  <2>1. records[k] = 1..old /\ newest[k] = old /\ old \in records[k] /\ 1..old \in SUBSET Versions
    BY <1>1 DEF Unset, Versions
  <2>2. Biggest(records[k]) \in 1..old /\ old <= Biggest(records[k])
    BY <2>1, BiggestIsHighest
  <2>3. Biggest(records[k]) = old
    BY <2>2
  <2>4. vault[k][old] = old
    BY <1>1, <2>1
  <2> QED
    BY <2>1, <2>3, <2>4
<1>7. \A p \in SecretUsers : HolderReplaces(p) /\ DeployFollows(p) /\ BindsPinned(p)
  BY <1>2, <1>4 DEF HolderReplaces, DeployFollows, BindsPinned, SAt, SetSteps, AppSteps
<1>8. \A p \in SecretUsers : PinTrue(sCmd[p].pinned)
  BY <1>2, <1>3, <1>4, NoBindingTrue
<1>9. ASSUME NEW i \in DOMAIN pins PROVE PinTrue(pins[i])
  <2>1. /\ i \in 1..old /\ pins[i] = [version |-> [k \in Keys |-> i],
                                      value |-> [k \in Keys |-> i], epoch |-> Nothing]
    BY <1>1
  <2>2. \A k \in Keys : pins[i].epoch[k] = 0 /\ pins[i].version[k] = i /\ pins[i].value[k] = i
    BY <2>1 DEF Nothing, Unset
  <2>3. i \in Versions /\ \A k \in Keys : vault[k][i] = i
    BY <1>1, <2>1 DEF Versions
  <2> QED
    BY <1>2, <2>1, <2>2, <2>3 DEF PinTrue, Unset
<1> QED
  BY <1>5, <1>6, <1>7, <1>8, <1>9 DEF BindingsInv

\* Every step keeps what holds of the bindings.
LEMMA BindingsStep ==
  SecretsInv /\ SecretsInv' /\ BindingsInv /\ [SecretsNext]_secretVars => BindingsInv'
<1> SUFFICES ASSUME SecretsInv, SecretsInv', BindingsInv, [SecretsNext]_secretVars
             PROVE  BindingsInv'
  OBVIOUS
<1>1. CASE UNCHANGED secretVars
  <2>1. UNCHANGED <<records, vault, mounted, pins, sPc, sCmd, sOps, newest, erased>>
    BY <1>1 DEF secretVars, secretFiles, secretHistory
  <2>2. AppMutex' /\ NewestStands'
    BY <2>1 DEF BindingsInv, AppMutex, NewestStands
  <2>3. \A p \in SecretUsers : (HolderReplaces(p) /\ DeployFollows(p) /\ BindsPinned(p))'
    BY <2>1 DEF BindingsInv, HolderReplaces, DeployFollows, BindsPinned, Unresolved, SAt
  <2>4. \A p \in SecretUsers : PinTrue(sCmd[p].pinned)'
    BY <2>1 DEF BindingsInv, PinTrue
  <2>5. \A i \in DOMAIN pins' : PinTrue(pins[i])'
    BY <2>1 DEF BindingsInv, PinTrue
  <2> QED
    BY <2>2, <2>3, <2>4, <2>5 DEF BindingsInv
<1>2. ASSUME NEW p \in SecretUsers, StepOf(p) PROVE BindingsInv'
  <2>1. /\ SecretsTypes /\ SecretsTypes' /\ KeyMutex
        /\ \A q \in SecretUsers : HolderKnows(q) /\ BindsReferences(q)
    BY DEF SecretsInv
  <2>2. /\ AppMutex /\ NewestStands
        /\ \A q \in SecretUsers : HolderReplaces(q) /\ DeployFollows(q) /\ BindsPinned(q)
        /\ \A q \in SecretUsers : PinTrue(sCmd[q].pinned)
        /\ \A i \in DOMAIN pins : PinTrue(pins[i])
    BY DEF BindingsInv
  <2>3. AppMutex' /\ NewestStands'
    BY <1>2, <2>1, <2>2, AppMutexStep, NewestStandsStep
  <2>4. ASSUME NEW q \in SecretUsers
        PROVE  (HolderReplaces(q) /\ DeployFollows(q) /\ BindsPinned(q))'
    <3>1. CASE q = p
      BY <1>2, <2>1, <2>2, <3>1, HolderReplacesStep, FollowsStep, BindsPinnedStep
    <3>2. CASE q # p
      BY <1>2, <2>1, <2>2, <3>2, OthersReplace, OthersFollow, OthersBindPinned
    <3> QED
      BY <3>1, <3>2
  <2>5. \A q \in SecretUsers : PinTrue(sCmd[q].pinned)'
    BY <1>2, <2>1, <2>2, PinnedStep
  <2>6. \A i \in DOMAIN pins' : PinTrue(pins[i])'
    BY <1>2, <2>1, <2>2, PinsStep
  <2> QED
    BY <2>3, <2>4, <2>5, <2>6 DEF BindingsInv
<1> QED
  BY <1>1, <1>2 DEF SecretsNext, StepOf

\* What deploys and rollbacks have read and bound is true of the Swarm, in every
\* reachable state.
THEOREM BindingsInvariant == SecretsSpec => []BindingsInv
<1>1. SecretsInit => BindingsInv
  BY BindingsInitially
<1>2. SecretsInv /\ SecretsInv' /\ BindingsInv /\ [SecretsNext]_secretVars => BindingsInv'
  BY BindingsStep
<1> QED
  BY <1>1, <1>2, SecretsInvariant, PTL DEF SecretsSpec

\* Only the deploy that mounts it goes from the stack to the record of a deployment.
LEMMA OnlyDeployRecords ==
  ASSUME SecretsTypes, NEW p \in SecretUsers, SecretsNext, sPc[p] = "stack", sPc'[p] = "record"
  PROVE  /\ mounted' = sCmd[p].bound
         /\ \A k \in sCmd[p].refs : vault[k][sCmd[p].bound[k]] # Unset
<1>1. PICK o \in SecretUsers : StepOf(o)
  BY DEF SecretsNext, StepOf
<1>2. o = p
  BY <1>1, OthersWait
<1>c. sPc \in [SecretUsers -> {"idle", "lock_app"} \cup SetSteps \cup DeleteSteps \cup AppSteps]
  BY DEF SecretsTypes
<1>3. ASSUME NEW k \in Keys, StartSet(p, k) \/ StartDelete(p, k) PROVE FALSE
  BY <1>3 DEF StartSet, StartDelete, SBegin, SAt
<1>4. ASSUME NEW refs \in SUBSET Keys, StartSecretDeploy(p, refs) \/ StartSecretRollback(p, refs)
      PROVE  FALSE
  BY <1>4 DEF StartSecretDeploy, StartSecretRollback, SBegin, SAt
<1>5. CASE \/ ListSecrets(p) \/ ListFails(p) \/ NextVersion(p) \/ CreateSecret(p) \/ SaveSecret(p)
           \/ DeleteRead(p) \/ RemoveSecret(p) \/ ForgetSecret(p)
  BY <1>5 DEF ListSecrets, ListNames, ListFails, NextVersion, CreateSecret, SaveSecret,
              DeleteRead, RemoveSecret, ForgetSecret, SAt
<1>6. CASE LockApp(p) \/ Resolve(p) \/ LatestRead(p) \/ RecordBindings(p)
  BY <1>6 DEF LockApp, Resolve, LatestRead, RecordBindings, SAt
<1>7. CASE SecretFault(p)
  BY <1>7, <1>c DEF SecretFault, SDone, SGoto
<1>8. CASE DeployStack(p)
  BY <1>8, <1>c DEF DeployStack, SDone, SGoto
<1> QED
  BY <1>1, <1>2, <1>3, <1>4, <1>5, <1>6, <1>7, <1>8 DEF StepOf

\* A deploy gives its service no value older than the newest when it locked the app,
\* whatever sets, deletes and kills there are meanwhile, unless a delete removes a
\* secret of the key.
THEOREM NewestIsMounted == SecretsSpec => DeployMountsNewest
<1> DEFINE Mounts == \A p \in SecretUsers : (SAt(p, "stack") /\ sPc'[p] = "record") =>
             \A k \in sCmd[p].refs \ {x \in Keys : sCmd[p].pinned.version[x] # Unset} :
               sCmd[p].epoch[k] = erased[k] => vault[k][mounted'[k]] >= sCmd[p].floor[k]
<1>1. SecretsInv /\ BindingsInv /\ [SecretsNext]_secretVars => [Mounts]_secretVars
  <2> SUFFICES ASSUME SecretsInv, BindingsInv, SecretsNext,
                      NEW p \in SecretUsers, SAt(p, "stack"), sPc'[p] = "record",
                      NEW k \in sCmd[p].refs, sCmd[p].pinned.version[k] = Unset,
                      sCmd[p].epoch[k] = erased[k]
               PROVE  vault[k][mounted'[k]] >= sCmd[p].floor[k]
    <3>1. SecretsInv => \A p \in SecretUsers : sCmd[p].refs \subseteq Keys
      BY DEF SecretsInv, SecretsTypes, Locals
    <3> QED
      BY <3>1
  <2>1. SecretsTypes /\ k \in Keys /\ sCmd[p] \in Locals
    BY DEF SecretsInv, SecretsTypes, Locals
  <2>2. mounted' = sCmd[p].bound /\ vault[k][sCmd[p].bound[k]] # Unset
    BY <2>1, OnlyDeployRecords DEF SAt
  <2>3. sCmd[p].bound[k] # Unset
    BY <2>1 DEF BindingsInv, BindsPinned, Unresolved
  <2>4. sCmd[p].floor[k] # Unset => vault[k][sCmd[p].bound[k]] >= sCmd[p].floor[k]
    BY <2>1, <2>3 DEF BindingsInv, DeployFollows, SAt, AppSteps
  <2>5. vault[k][sCmd[p].bound[k]] \in Nat
    <3>1. sCmd[p].bound[k] \in Versions
      BY <2>1, <2>3 DEF Locals, VersionsOrUnset
    <3> QED
      BY <2>1, <3>1, NaturalTypes
  <2> QED
    BY <2>2, <2>4, <2>5 DEF Unset
<1>2. SecretsSpec => [][Mounts]_secretVars
  <2> HIDE DEF Mounts
  <2> QED
    BY <1>1, SecretsInvariant, BindingsInvariant, PTL DEF SecretsSpec
<1> QED
  BY <1>2, PTL DEF DeployMountsNewest

\* A rollback gives its service the values that the deployment it returns to had,
\* unless a delete has removed a secret of the key since.
THEOREM RollbacksRestore == SecretsSpec => RollbackRestoresValues
<1> DEFINE Restores == \A p \in SecretUsers : (SAt(p, "stack") /\ sPc'[p] = "record") =>
             \A k \in sCmd[p].refs :
               /\ sCmd[p].pinned.version[k] # Unset
               /\ sCmd[p].pinned.epoch[k] = erased[k]
               => vault[k][mounted'[k]] = sCmd[p].pinned.value[k]
<1>1. SecretsInv /\ BindingsInv /\ [SecretsNext]_secretVars => [Restores]_secretVars
  <2> SUFFICES ASSUME SecretsInv, BindingsInv, SecretsNext,
                      NEW p \in SecretUsers, SAt(p, "stack"), sPc'[p] = "record",
                      NEW k \in sCmd[p].refs, sCmd[p].pinned.version[k] # Unset,
                      sCmd[p].pinned.epoch[k] = erased[k]
               PROVE  vault[k][mounted'[k]] = sCmd[p].pinned.value[k]
    OBVIOUS
  <2>1. SecretsTypes /\ k \in Keys
    BY DEF SecretsInv, SecretsTypes, Locals
  <2>2. mounted' = sCmd[p].bound
    BY <2>1, OnlyDeployRecords DEF SAt
  <2>3. sCmd[p].bound[k] = sCmd[p].pinned.version[k]
    BY <2>1 DEF BindingsInv, BindsPinned, Unresolved
  <2>4. vault[k][sCmd[p].pinned.version[k]] = sCmd[p].pinned.value[k]
    BY <2>1 DEF BindingsInv, PinTrue
  <2> QED
    BY <2>2, <2>3, <2>4
<1>2. SecretsSpec => [][Restores]_secretVars
  <2> HIDE DEF Restores
  <2> QED
    BY <1>1, SecretsInvariant, BindingsInvariant, PTL DEF SecretsSpec
<1> QED
  BY <1>2 DEF RollbackRestoresValues
=============================================================================
