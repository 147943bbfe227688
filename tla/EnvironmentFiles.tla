------------------------- MODULE EnvironmentFiles -------------------------
(***************************************************************************)
(* The environment of a service: the items of its env file, the shared     *)
(* configs that items refer to with from_config, and what the container    *)
(* gets in one environment, while noops config changes the configs.        *)
(* Source: internal/environment, and ValidateResolvableKeys and            *)
(* writeEnvMap of internal/deploy.                                         *)
(*                                                                         *)
(* A value is known by the place where it is written: its file, the file's *)
(* version, its key and its field.                                         *)
(***************************************************************************)
EXTENDS Integers, FiniteSets, Sequences, SequencesExt

CONSTANTS
  EnvKeys,           \* keys of items
  ServiceKeys,       \* the keys that the service's own file lists, in its order
  Configs,           \* names of configs that can be installed
  FileContents,      \* what the files may say
  ResolvableLists,   \* bound: the lists of resolvable secrets
  MaxConfigChanges   \* bound: installs and upgrades of configs

Files   == {"app"} \cup Configs   \* the service's env file, and the installed configs
Places  == Files \X EnvKeys
NoRef   == <<>>
Nowhere == <<>>
ServiceItems == Range(ServiceKeys)

\* value: what an item sets itself; values: the environments with a value of their own,
\* the one that is deployed ("here") and another; from: file and key; count: how many
\* items the file has under the key.
EnvItem ==
  [value : {"unset", "empty", "set"}, values : SUBSET {"here", "there"}, isSecret : BOOLEAN,
   from : Places \cup {NoRef}, count : 0..2]

\* The service's own items are those it lists, each once.
AreEnvFiles(files) ==
  /\ \A f \in Files, key \in EnvKeys : files[f][key] \in EnvItem
  /\ \A key \in EnvKeys : files["app"][key].count = IF key \in ServiceItems THEN 1 ELSE 0

ASSUME EnvironmentAssumption ==
  /\ IsFiniteSet(EnvKeys) /\ IsFiniteSet(Configs) /\ "app" \notin Configs
  /\ ServiceKeys \in Seq(EnvKeys) /\ IsInjective(ServiceKeys)
  /\ \A files \in FileContents : AreEnvFiles(files)
  /\ ResolvableLists \subseteq SUBSET EnvKeys
  /\ MaxConfigChanges \in Nat

VARIABLES
  envFiles,        \* the items that each file has under each key
  configVersion,   \* version of each installed config, 0 when there is none
  configChanges,
  resolvable,      \* x-noops.env.secrets.resolvable
  envPhase, envTodo,
  fileCache,       \* configLoader.files: version of each file that was read
  envChain,        \* items on the way from the service's to the referred one
  envLevel, envBase,
  loadedItems,     \* the File of LoadForManifest
  containerEnv     \* the .env file, and the secrets that are bound

envVars == <<envFiles, configVersion, configChanges, resolvable, envPhase, envTodo, fileCache,
             envChain, envLevel, envBase, loadedItems, containerEnv>>
envInput == <<envFiles, resolvable>>

NoBase == [value |-> Nowhere, values |-> Nowhere, secretRef |-> Nowhere, emitEmpty |-> FALSE]

EnvironmentInit(files) ==
  /\ envFiles \in files
  /\ configVersion = [c \in Configs |-> 1] /\ configChanges = 0
  /\ resolvable \in ResolvableLists
  /\ envPhase = "idle" /\ envTodo = <<>>
  /\ fileCache = [f \in Files |-> 0]
  /\ envChain = <<>> /\ envLevel = 0 /\ envBase = NoBase
  /\ loadedItems = [key \in EnvKeys |-> NoBase]
  /\ containerEnv = [key \in EnvKeys |-> Nowhere]

Fail == /\ envPhase' = "failed"
        /\ UNCHANGED <<envTodo, fileCache, envChain, envLevel, envBase, loadedItems, containerEnv>>

-----------------------------------------------------------------------------
\* Mutant: every reference reads its file.
FileVersion_Reread(f) == IF f = "app" THEN 1 ELSE configVersion[f]

\* configLoader.file: a file is read once; 0 when it does not exist.
FileVersion(f) ==
  IF fileCache[f] # 0 THEN fileCache[f] ELSE IF f = "app" THEN 1 ELSE configVersion[f]

ItemAt(place) == envFiles[place[1]][place[2]]

\* What an item defines itself, and where.
Written(place) ==
  LET item == ItemAt(place)
      at(field) == <<place[1], fileCache[place[1]], place[2], field>> IN
  [value     |-> IF item.value = "unset" THEN Nowhere ELSE at(item.value),
   values    |-> [e \in item.values |-> at(e)],
   secretRef |-> IF item.isSecret THEN at("secret") ELSE Nowhere,
   emitEmpty |-> FALSE]

\* resolve: what an item leaves of what it refers to.
Overridden(base, own) ==
  LET default == IF own.value = Nowhere THEN base ELSE own IN
  [default EXCEPT !.values = [e \in DOMAIN own.values \cup DOMAIN @ |->
                                IF e \in DOMAIN own.values THEN own.values[e] ELSE @[e]]]

IsEmpty(where) == where # Nowhere /\ where[4] = "empty"

-----------------------------------------------------------------------------
\* LoadForManifest: the service's own file.
LoadServiceEnv ==
  /\ envPhase = "idle"
  /\ fileCache' = [fileCache EXCEPT !["app"] = 1]
  /\ envTodo' = ServiceKeys
  /\ envPhase' = "item"
  /\ UNCHANGED <<envInput, configVersion, configChanges, envChain, envLevel, envBase, loadedItems,
                 containerEnv>>

NextItem ==
  /\ envPhase = "item"
  /\ envTodo # <<>>
  /\ envChain' = <<<<"app", Head(envTodo)>>>>
  /\ envPhase' = "follow"
  /\ UNCHANGED <<envInput, configVersion, configChanges, envTodo, fileCache, envLevel, envBase,
                 loadedItems, containerEnv>>

\* resolve, on the way in: the items that were referred to are being visited, the
\* service's own is not among them.
Follow ==
  LET item     == ItemAt(Last(envChain))
      target   == item.from
      visiting == Range(Tail(envChain))
      version  == FileVersion(target[1]) IN
  /\ envPhase = "follow"
  /\ item.from # NoRef
  /\ IF item.isSecret \/ target \in visiting \/ version = 0 \/ ItemAt(target).count # 1
       THEN Fail
       ELSE /\ fileCache' = [fileCache EXCEPT ![target[1]] = version]
            /\ envChain' = Append(envChain, target)
            /\ UNCHANGED <<envPhase, envTodo, envLevel, envBase, loadedItems, containerEnv>>
  /\ UNCHANGED <<envInput, configVersion, configChanges>>

\* The end of the references.
Reached ==
  /\ envPhase = "follow"
  /\ ItemAt(Last(envChain)).from = NoRef
  /\ envBase' = Written(Last(envChain))
  /\ envLevel' = Len(envChain) - 1
  /\ envPhase' = "override"
  /\ UNCHANGED <<envInput, configVersion, configChanges, envTodo, fileCache, envChain, loadedItems,
                 containerEnv>>

\* resolve, on the way out.
OverrideBase ==
  LET own    == Written(envChain[envLevel])
      result == Overridden(envBase, own) IN
  /\ envPhase = "override"
  /\ envLevel > 0
  /\ IF DOMAIN own.values # {} /\ result.secretRef # Nowhere
       THEN Fail
       ELSE /\ envBase' = [result EXCEPT !.emitEmpty = IsEmpty(result.value)]
            /\ envLevel' = envLevel - 1
            /\ UNCHANGED <<envPhase, envTodo, fileCache, envChain, loadedItems, containerEnv>>
  /\ UNCHANGED <<envInput, configVersion, configChanges>>

ItemLoaded ==
  /\ envPhase = "override"
  /\ envLevel = 0
  /\ loadedItems' = [loadedItems EXCEPT ![Head(envTodo)] = envBase]
  /\ envTodo' = Tail(envTodo)
  /\ envChain' = <<>> /\ envBase' = NoBase
  /\ envPhase' = "item"
  /\ UNCHANGED <<envInput, configVersion, configChanges, fileCache, envLevel, containerEnv>>

\* Resolve: the value of this environment, else the default; a secret only when
\* the manifest lists it.
Delivered(key, item) ==
  IF item.secretRef # Nowhere THEN (IF key \in resolvable THEN item.secretRef ELSE Nowhere)
  ELSE IF "here" \in DOMAIN item.values THEN item.values["here"]
  ELSE IF ~IsEmpty(item.value) \/ item.emitEmpty THEN item.value
  ELSE Nowhere

\* ValidateResolvableKeys
NotResolvable == {key \in resolvable : loadedItems[key].secretRef = Nowhere}

\* writeEnvMap
WriteEnvironment ==
  /\ envPhase = "item"
  /\ envTodo = <<>>
  /\ IF NotResolvable # {}
       THEN Fail
       ELSE /\ containerEnv' = [key \in EnvKeys |-> Delivered(key, loadedItems[key])]
            /\ envPhase' = "written"
            /\ UNCHANGED <<envTodo, fileCache, envChain, envLevel, envBase, loadedItems>>
  /\ UNCHANGED <<envInput, configVersion, configChanges>>

\* storeConfig: install makes a config that is not there, upgrade replaces one,
\* each in one write; somebody may have deleted the file.
StoreConfig ==
  /\ configChanges < MaxConfigChanges
  /\ configChanges' = configChanges + 1
  /\ \E c \in Configs :
       \/ configVersion' = [configVersion EXCEPT ![c] = configChanges + 2]   \* install or upgrade
       \/ configVersion' = [configVersion EXCEPT ![c] = 0]                   \* deleted
  /\ UNCHANGED <<envInput, envPhase, envTodo, fileCache, envChain, envLevel, envBase, loadedItems,
                 containerEnv>>

EnvironmentNext ==
  \/ LoadServiceEnv \/ NextItem \/ Follow \/ Reached \/ OverrideBase \/ ItemLoaded
  \/ WriteEnvironment \/ StoreConfig

EnvironmentSpec == EnvironmentInit(FileContents) /\ [][EnvironmentNext]_envVars

-----------------------------------------------------------------------------
EnvironmentTypeOK ==
  /\ configVersion \in [Configs -> 0..MaxConfigChanges + 1]
  /\ configChanges \in 0..MaxConfigChanges
  /\ envPhase \in {"idle", "item", "follow", "override", "written", "failed"}
  /\ envTodo \in Seq(ServiceItems)
  /\ \A f \in Files : fileCache[f] \in 0..MaxConfigChanges + 1
  /\ Range(envChain) \subseteq Places /\ envLevel \in 0..Len(envChain)

\* The reference: where the references from a key of the service's file lead, after
\* n of them; it stays where they end or break. No way is longer than there are places.
MaxWalk == Cardinality(Places) + 1
Walk(key) ==
  LET walk[n \in 0..MaxWalk] ==
        IF n = 0 THEN <<"app", key>>
        ELSE LET item == ItemAt(walk[n - 1]) IN
             IF item.count # 1 \/ item.from = NoRef THEN walk[n - 1] ELSE item.from
  IN walk
WalkItem(key, n)   == ItemAt(Walk(key)[n])
EndsAt(key, n)     == /\ WalkItem(key, n).from = NoRef
                      /\ \A m \in 0..n - 1 : WalkItem(key, m).from # NoRef
EndsSomewhere(key) == \E n \in 0..MaxWalk : EndsAt(key, n)
Length(key)        == CHOOSE n \in 0..MaxWalk : EndsAt(key, n)

\* A key that no deployment can resolve: an endless, broken or ambiguous reference,
\* a secret that also refers, or values for environments over a secret.
Unresolvable(key) ==
  \/ ~EndsSomewhere(key)
  \/ \E n \in 0..MaxWalk : \/ WalkItem(key, n).count # 1
                           \/ WalkItem(key, n).isSecret /\ WalkItem(key, n).from # NoRef
  \/ LET end == Length(key) IN
     /\ WalkItem(key, end).isSecret
     /\ \E n \in 0..end - 1 : /\ WalkItem(key, n).values # {}
                              /\ \A m \in n..end - 1 : WalkItem(key, m).value = "unset"

\* The nearest item that says something of this environment, in the one version of
\* its file that was read.  A secret's own values say nothing.
Nearest(key) ==
  LET end   == Length(key)
      here  == {n \in 0..end : /\ ~WalkItem(key, n).isSecret
                               /\ \/ WalkItem(key, n).value # "unset"
                                  \/ "here" \in WalkItem(key, n).values}
      first == CHOOSE n \in here : \A m \in here : n <= m
      at(n, field) == <<Walk(key)[n][1], fileCache[Walk(key)[n][1]], Walk(key)[n][2], field>> IN
  IF here # {} THEN
    IF "here" \in WalkItem(key, first).values THEN at(first, "here")
    ELSE IF end = 0 /\ WalkItem(key, 0).value = "empty" THEN Nowhere
    ELSE at(first, WalkItem(key, first).value)
  ELSE IF WalkItem(key, end).isSecret /\ key \in resolvable THEN at(end, "secret")
  ELSE Nowhere

IsSecretHere(key) ==
  /\ ~Unresolvable(key)
  /\ Nearest(key) = Nowhere \/ Nearest(key)[4] = "secret"
  /\ WalkItem(key, Length(key)).isSecret

\* The key that is being loaded needs a file that was not there.
FileIsGone ==
  envTodo # <<>> /\ \E n \in 0..MaxWalk : fileCache[Walk(Head(envTodo))[n][1]] = 0

\* What a container gets under each key is what the nearest item of the reference
\* chain says for its environment, all of it from one version of every file however
\* configs are upgraded meanwhile, and nothing under a key that the service does not
\* list; and a deployment fails here only for a key that cannot be resolved, a secret
\* that is listed and is none, or a config that is gone.
EnvironmentAsWritten ==
  /\ envPhase = "written" =>
       \A key \in EnvKeys :
         IF key \in ServiceItems THEN ~Unresolvable(key) /\ containerEnv[key] = Nearest(key)
         ELSE containerEnv[key] = Nowhere
  /\ envPhase = "failed" =>
       \/ \E key \in ServiceItems : Unresolvable(key)
       \/ \E key \in resolvable : ~IsSecretHere(key)
       \/ FileIsGone
=============================================================================
