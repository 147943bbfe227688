------------------------------ MODULE Secrets ------------------------------
(***************************************************************************)
(* Versioned secrets of one environment: set, delete and the resolution of *)
(* a service's secrets by deploy and rollback.                             *)
(* Source: internal/secret, resolveSecretBindings of internal/deploy.      *)
(*                                                                         *)
(* Set and delete hold the lock of their key, deploy and rollback the lock *)
(* of their app; what they share is the metadata directory of the          *)
(* environment, listed without any lock, and the Swarm.  A secret's value  *)
(* is the number of the set that stored it.  Everything after the          *)
(* resolution of the secrets is one step here; module Deploy has it.       *)
(***************************************************************************)
EXTENDS Integers, FiniteSets, Sequences

CONSTANTS
  Keys,            \* secret keys of the environment
  SecretUsers,     \* noops processes
  MaxAttempts,     \* versions that a set tries (100 in the code)
  MaxVersion,      \* bound: versions
  MaxSecretOps,    \* bound: commands started
  MaxSecretFaults  \* bound: commands killed, or failed by an error

ASSUME SecretsAssumption ==
  /\ Keys # {}
  /\ MaxAttempts \in Nat /\ MaxVersion \in Nat /\ MaxVersion >= 2
  /\ MaxSecretOps \in Nat /\ MaxSecretFaults \in Nat

Versions == 1..MaxVersion
Unset    == 0                    \* no version, no value
Nothing  == [k \in Keys |-> Unset]
Biggest(S) == IF S = {} THEN Unset ELSE CHOOSE v \in S : \A w \in S : w <= v

VARIABLES
  records,      \* records[k]: versions with a metadata file
  vault,        \* vault[k][v]: value of the Swarm secret, or Unset
  mounted,      \* mounted[k]: version that the service's spec names, or Unset
  pins,         \* successful deployments, oldest first: their bindings
  sPc, sCmd,    \* each process's position and locals
  sOps, sFaults,
  \* bookkeeping for the properties, read by no action
  stored,       \* stored[k][v]: value whose set wrote the metadata
  newest,       \* newest[k]: value of the last set of k that returned, or Unset
                \* when a delete has removed a secret of k since
  erased        \* erased[k]: secrets of k that deletes removed

secretFiles   == <<records, pins>>
secretHistory == <<stored, newest, erased>>
secretVars    == <<secretFiles, vault, mounted, sPc, sCmd, sOps, sFaults, secretHistory>>

NoBinding == [version |-> Nothing, value |-> Nothing, epoch |-> Nothing]
NoSecretCmd ==
  [key |-> CHOOSE k \in Keys : TRUE, value |-> Unset, version |-> Unset, tries |-> 0,
   names |-> [k \in Keys |-> {}], refs |-> {}, pinned |-> NoBinding, todo |-> {},
   bound |-> Nothing, floor |-> Nothing, epoch |-> Nothing]

SAt(p, l)   == sPc[p] = l
SGoto(p, l) == sPc' = [sPc EXCEPT ![p] = l]
SDone(p)    == SGoto(p, "idle") /\ sCmd' = [sCmd EXCEPT ![p] = NoSecretCmd]
SBegin(p)   == SAt(p, "idle") /\ sOps < MaxSecretOps /\ sOps' = sOps + 1

KeyLocked(k) == \E p \in SecretUsers :
  /\ sCmd[p].key = k
  /\ sPc[p] \in {"set_names", "set_read", "create", "save",
                 "del_names", "del_read", "rm", "forget"}
AppLocked == \E p \in SecretUsers :
  sPc[p] \in {"resolve", "latest_names", "latest_read", "stack", "record"}

\* Each key has been set as often, never or once or twice, and the service been
\* deployed with all of them after each time.
SecretsInit ==
  /\ \E old \in 0..2 :
       LET each(v) == [k \in Keys |-> v] IN
       /\ records = [k \in Keys |-> 1..old]
       /\ vault = [k \in Keys |-> [v \in Versions |-> IF v <= old THEN v ELSE Unset]]
       /\ stored = vault
       /\ mounted = each(old)
       /\ newest = each(old)
       /\ pins = [v \in 1..old |-> [version |-> each(v), value |-> each(v), epoch |-> Nothing]]
  /\ erased = Nothing
  /\ sPc = [p \in SecretUsers |-> "idle"]
  /\ sCmd = [p \in SecretUsers |-> NoSecretCmd]
  /\ sOps = 0 /\ sFaults = 0

-----------------------------------------------------------------------------
(* filesystemStore.List: the names of every key's directory, then the files. *)

ListNames(p, from, to) ==
  /\ SAt(p, from)
  /\ sCmd' = [sCmd EXCEPT ![p].names = records]
  /\ SGoto(p, to)

\* A file deleted since its name was read fails the whole listing, even when
\* it is another key's.
Vanished(p) == \E k \in Keys : ~(sCmd[p].names[k] \subseteq records[k])

ListFails(p) ==
  /\ sPc[p] \in {"set_read", "del_read", "latest_read"}
  /\ Vanished(p)
  /\ SDone(p)
  /\ UNCHANGED <<secretFiles, vault, mounted, sOps, sFaults, secretHistory>>

ListSecrets(p) ==
  /\ \/ ListNames(p, "set_names", "set_read")
     \/ ListNames(p, "del_names", "del_read")
     \/ ListNames(p, "latest_names", "latest_read")
  /\ UNCHANGED <<secretFiles, vault, mounted, sOps, sFaults, secretHistory>>

-----------------------------------------------------------------------------
(* secret set *)

StartSet(p, k) ==
  /\ SBegin(p)
  /\ ~KeyLocked(k)
  /\ sCmd' = [sCmd EXCEPT ![p] = [NoSecretCmd EXCEPT !.key = k, !.value = sOps + 3]]
  /\ SGoto(p, "set_names")
  /\ UNCHANGED <<secretFiles, vault, mounted, sFaults, secretHistory>>

\* nextVersion
NextVersion(p) ==
  /\ SAt(p, "set_read")
  /\ ~Vanished(p)
  /\ sCmd' = [sCmd EXCEPT ![p].version = Biggest(sCmd[p].names[sCmd[p].key]) + 1]
  /\ SGoto(p, "create")
  /\ UNCHANGED <<secretFiles, vault, mounted, sOps, sFaults, secretHistory>>

\* Mutant: a secret that exists already is taken for the one to create.
CreateSecret_AcceptsExisting(p) ==
  LET k == sCmd[p].key
      v == sCmd[p].version IN
  /\ SAt(p, "create")
  /\ v \in Versions
  /\ vault' = IF vault[k][v] = Unset THEN [vault EXCEPT ![k][v] = sCmd[p].value] ELSE vault
  /\ SGoto(p, "save")
  /\ UNCHANGED <<secretFiles, mounted, sCmd, sOps, sFaults, secretHistory>>

\* createNextVersion: docker secret create, the next version when the name is
\* taken by a secret without metadata.
CreateSecret(p) ==
  LET k == sCmd[p].key
      v == sCmd[p].version IN
  /\ SAt(p, "create")
  /\ v \in Versions
  /\ \/ /\ vault[k][v] = Unset
        /\ vault' = [vault EXCEPT ![k][v] = sCmd[p].value]
        /\ SGoto(p, "save")
        /\ UNCHANGED sCmd
     \/ /\ vault[k][v] # Unset
        /\ sCmd[p].tries + 1 < MaxAttempts
        /\ sCmd' = [sCmd EXCEPT ![p].version = v + 1, ![p].tries = @ + 1]
        /\ UNCHANGED <<vault, sPc>>
     \/ /\ vault[k][v] # Unset
        /\ sCmd[p].tries + 1 >= MaxAttempts
        /\ SDone(p)
        /\ UNCHANGED vault
  /\ UNCHANGED <<secretFiles, mounted, sOps, sFaults, secretHistory>>

SaveSecret(p) ==
  LET k == sCmd[p].key
      v == sCmd[p].version IN
  /\ SAt(p, "save")
  /\ records' = [records EXCEPT ![k] = @ \cup {v}]
  /\ stored' = [stored EXCEPT ![k][v] = sCmd[p].value]
  /\ newest' = [newest EXCEPT ![k] = sCmd[p].value]
  /\ SDone(p)
  /\ UNCHANGED <<vault, mounted, pins, sOps, sFaults, erased>>

-----------------------------------------------------------------------------
(* secret delete: every version, the highest first *)

StartDelete(p, k) ==
  /\ SBegin(p)
  /\ ~KeyLocked(k)
  /\ sCmd' = [sCmd EXCEPT ![p] = [NoSecretCmd EXCEPT !.key = k]]
  /\ SGoto(p, "del_names")
  /\ UNCHANGED <<secretFiles, vault, mounted, sFaults, secretHistory>>

DeleteRead(p) ==
  LET vs == sCmd[p].names[sCmd[p].key] IN
  /\ SAt(p, "del_read")
  /\ ~Vanished(p)
  /\ \/ vs = {} /\ SDone(p)                        \* not found
     \/ /\ vs # {}
        /\ sCmd' = [sCmd EXCEPT ![p].todo = vs]
        /\ SGoto(p, "rm")
  /\ UNCHANGED <<secretFiles, vault, mounted, sOps, sFaults, secretHistory>>

\* docker secret rm refuses a secret that a service's spec names, and one that
\* does not exist.
SwarmRefuses(k, v) == mounted[k] = v \/ vault[k][v] = Unset

RemoveSecret(p) ==
  LET k == sCmd[p].key
      v == Biggest(sCmd[p].todo) IN
  /\ SAt(p, "rm")
  /\ \/ /\ SwarmRefuses(k, v)
        /\ SDone(p)
        /\ UNCHANGED <<vault, newest, erased>>
     \/ /\ ~SwarmRefuses(k, v)
        /\ vault' = [vault EXCEPT ![k][v] = Unset]
        /\ newest' = [newest EXCEPT ![k] = Unset]
        /\ erased' = [erased EXCEPT ![k] = @ + 1]
        /\ SGoto(p, "forget")
        /\ UNCHANGED sCmd
  /\ UNCHANGED <<secretFiles, mounted, sOps, sFaults, stored>>

\* filesystemStore.Delete
ForgetSecret(p) ==
  LET k == sCmd[p].key
      v == Biggest(sCmd[p].todo) IN
  /\ SAt(p, "forget")
  /\ records' = [records EXCEPT ![k] = @ \ {v}]
  /\ \/ sCmd[p].todo = {v} /\ SDone(p)
     \/ /\ sCmd[p].todo # {v}
        /\ sCmd' = [sCmd EXCEPT ![p].todo = @ \ {v}]
        /\ SGoto(p, "rm")
  /\ UNCHANGED <<pins, vault, mounted, sOps, sFaults, secretHistory>>

-----------------------------------------------------------------------------
(* deploy and rollback: the bindings of the secrets that the service refers to *)

StartSecretDeploy(p, refs) ==
  /\ SBegin(p)
  /\ sCmd' = [sCmd EXCEPT ![p] = [NoSecretCmd EXCEPT !.refs = refs]]
  /\ SGoto(p, "lock_app")
  /\ UNCHANGED <<secretFiles, vault, mounted, sFaults, secretHistory>>

\* Rollback reads the previous successful deployment before it locks the app.
StartSecretRollback(p, refs) ==
  /\ SBegin(p)
  /\ Len(pins) > 1
  /\ sCmd' = [sCmd EXCEPT ![p] = [NoSecretCmd EXCEPT !.refs = refs,
                                                     !.pinned = pins[Len(pins) - 1]]]
  /\ SGoto(p, "lock_app")
  /\ UNCHANGED <<secretFiles, vault, mounted, sFaults, secretHistory>>

LockApp(p) ==
  /\ SAt(p, "lock_app")
  /\ ~AppLocked
  /\ sCmd' = [sCmd EXCEPT ![p].floor = newest, ![p].epoch = erased]
  /\ SGoto(p, "resolve")
  /\ UNCHANGED <<secretFiles, vault, mounted, sOps, sFaults, secretHistory>>

Unresolved(p) == {k \in sCmd[p].refs : sCmd[p].bound[k] = Unset}

\* Mutant: a rollback resolves its secrets as a deploy does.
Pinned_Ignored(p) == {}

\* pinnedByKey: references that the rolled back deployment had as well.
Pinned(p) == {k \in sCmd[p].refs : sCmd[p].pinned.version[k] # Unset}

\* resolveSecretBindings, one reference at a time; with none left, the stack.
Resolve(p) ==
  /\ SAt(p, "resolve")
  /\ \/ /\ Unresolved(p) = {}
        /\ SGoto(p, "stack")
        /\ UNCHANGED sCmd
     \/ \E k \in Unresolved(p) \cap Pinned(p) :
          /\ sCmd' = [sCmd EXCEPT ![p].bound[k] = sCmd[p].pinned.version[k]]
          /\ UNCHANGED sPc
     \/ \E k \in Unresolved(p) \ Pinned(p) :
          /\ sCmd' = [sCmd EXCEPT ![p].key = k]
          /\ SGoto(p, "latest_names")
  /\ UNCHANGED <<secretFiles, vault, mounted, sOps, sFaults, secretHistory>>

\* Mutant: the first file of the listing, as if it were sorted newest first.
Latest_First(names) ==
  IF names = {} THEN Unset ELSE CHOOSE v \in names : \A w \in names : v <= w

\* Latest: the highest version.
Latest(names) == Biggest(names)

LatestRead(p) ==
  LET k == sCmd[p].key
      v == Latest(sCmd[p].names[k]) IN
  /\ SAt(p, "latest_read")
  /\ ~Vanished(p)
  /\ \/ v = Unset /\ SDone(p)                       \* not found
     \/ /\ v # Unset
        /\ sCmd' = [sCmd EXCEPT ![p].bound[k] = v]
        /\ SGoto(p, "resolve")
  /\ UNCHANGED <<secretFiles, vault, mounted, sOps, sFaults, secretHistory>>

\* docker stack deploy: every secret of the stack is external and must exist.
\* An update that fails leaves the spec that was there.
DeployStack(p) ==
  LET b == sCmd[p].bound IN
  /\ SAt(p, "stack")
  /\ \/ /\ \A k \in sCmd[p].refs : vault[k][b[k]] # Unset
        /\ mounted' = b
        /\ SGoto(p, "record")
        /\ UNCHANGED sCmd
     \/ /\ \E k \in sCmd[p].refs : vault[k][b[k]] = Unset
        /\ SDone(p)
        /\ UNCHANGED mounted
  /\ UNCHANGED <<secretFiles, vault, sOps, sFaults, secretHistory>>

\* recordSuccess; history is read for the two newest only.
RecordBindings(p) ==
  LET b == sCmd[p].bound
      r == [version |-> b, epoch |-> erased,
            value |-> [k \in Keys |-> IF b[k] = Unset THEN Unset ELSE vault[k][b[k]]]] IN
  /\ SAt(p, "record")
  /\ pins' = Append(IF Len(pins) < 2 THEN pins ELSE Tail(pins), r)
  /\ SDone(p)
  /\ UNCHANGED <<records, vault, mounted, sOps, sFaults, secretHistory>>

-----------------------------------------------------------------------------
\* An error of Docker or the disk, a cancellation or a kill: what was done
\* stays, the locks go.
SecretFault(p) ==
  /\ sPc[p] # "idle"
  /\ sFaults < MaxSecretFaults
  /\ sFaults' = sFaults + 1
  /\ SDone(p)
  /\ UNCHANGED <<secretFiles, vault, mounted, sOps, secretHistory>>

SecretsNext == \E p \in SecretUsers :
  \/ \E k \in Keys : StartSet(p, k) \/ StartDelete(p, k)
  \/ \E refs \in SUBSET Keys \ {{}} : StartSecretDeploy(p, refs) \/ StartSecretRollback(p, refs)
  \/ ListSecrets(p) \/ ListFails(p)
  \/ NextVersion(p) \/ CreateSecret(p) \/ SaveSecret(p)
  \/ DeleteRead(p) \/ RemoveSecret(p) \/ ForgetSecret(p)
  \/ LockApp(p) \/ Resolve(p) \/ LatestRead(p) \/ DeployStack(p) \/ RecordBindings(p)
  \/ SecretFault(p)

SecretsSpec == SecretsInit /\ [][SecretsNext]_secretVars

-----------------------------------------------------------------------------
VersionsOrUnset == Versions \cup {Unset}
Binding == [version : [Keys -> VersionsOrUnset], value : [Keys -> 0..MaxSecretOps + 2],
            epoch : [Keys -> Nat]]

SecretsTypeOK ==
  /\ records \in [Keys -> SUBSET Versions]
  /\ vault \in [Keys -> [Versions -> 0..MaxSecretOps + 2]]
  /\ mounted \in [Keys -> VersionsOrUnset]
  /\ pins \in Seq(Binding) /\ Len(pins) <= 2
  /\ DOMAIN sPc = SecretUsers /\ DOMAIN sCmd = SecretUsers
  /\ sOps \in 0..MaxSecretOps /\ sFaults \in 0..MaxSecretFaults

\* Metadata and Swarm agree, whatever sets and deletes were killed in between.
\* The secret of a recorded version holds the value whose set recorded it: a
\* name left in the Swarm by a killed set is never taken for a new version, and
\* a version whose metadata is still there is never created again.  (It may be
\* gone: a delete was killed before it removed the metadata.)  And a delete never
\* takes the metadata of the version that the service's spec names, in every
\* order of delete and deploy.
MetadataMatchesSwarm ==
  /\ \A k \in Keys : \A v \in records[k] : vault[k][v] \in {stored[k][v], Unset}
  /\ \A p \in SecretUsers :
       SAt(p, "forget") => mounted[sCmd[p].key] # Biggest(sCmd[p].todo)

\* A deploy that locked its app after a set of a key returned gives the
\* service that value or a later one, unless a delete removes a secret of the
\* key meanwhile.
DeployMountsNewest ==
  [][\A p \in SecretUsers : (SAt(p, "stack") /\ sPc'[p] = "record") =>
       \A k \in sCmd[p].refs \ {x \in Keys : sCmd[p].pinned.version[x] # Unset} :
         sCmd[p].epoch[k] = erased[k] => vault[k][mounted'[k]] >= sCmd[p].floor[k]]_secretVars

\* A rollback gives the service the value of each secret that the deployment it
\* returns to had, unless a delete has removed a secret of that key since that
\* deployment was recorded: versions then start again, with other values.
RollbackRestoresValues ==
  [][\A p \in SecretUsers : (SAt(p, "stack") /\ sPc'[p] = "record") =>
       \A k \in sCmd[p].refs :
         /\ sCmd[p].pinned.version[k] # Unset
         /\ sCmd[p].pinned.epoch[k] = erased[k]
         => vault[k][mounted'[k]] = sCmd[p].pinned.value[k]]_secretVars
=============================================================================
