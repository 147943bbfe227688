----------------------------- MODULE Retention -----------------------------
(***************************************************************************)
(* Releases, the deployments made from them, the registry that holds their *)
(* images, and everything that deletes from it: retention after a release, *)
(* cleanup --apply with offline garbage collection, and remove.            *)
(* Source: internal/release, internal/cleanup, internal/deploy/remove.go.  *)
(*                                                                         *)
(* The apps are environments of one application, so that their images are  *)
(* in one repository; repositories do not affect each other.  A tag belongs *)
(* to one app (it hashes the environment), a digest to whoever pushed the  *)
(* same content.  A deployment is one step here; module Deploy has its     *)
(* inside.  All of this runs under registry.lock.                          *)
(***************************************************************************)
EXTENDS Integers, FiniteSets, SequencesExt

CONSTANTS
  Apps,         \* app environments that push to one repository
  Wrapped,      \* those whose secrets are resolved in "env" mode
  Numbers,      \* deterministic tags of an app: its build inputs
  Digests,      \* image contents
  None,         \* no image
  Procs,        \* noops processes
  Keep,         \* releases and deployments retained
  MaxCommands,  \* bound: commands started
  MaxFaults     \* bound: commands that fail or are killed

Everything == "everything"

ASSUME RetentionAssumption ==
  /\ Apps # {} /\ Wrapped \subseteq Apps
  /\ Keep \in Nat
  /\ MaxCommands \in Nat
  /\ MaxFaults \in Nat
  /\ None \notin Digests /\ None \notin Apps \X Numbers
  /\ Everything \notin Apps

Tags == Apps \X Numbers

\* An image reference: 127.0.0.1:<port>/<repository>:<tag>@<digest>.
Refs == [tag : Tags, digest : Digests]
NoRef == [tag |-> None, digest |-> None]
Owner(tag) == tag[1]


VARIABLES
  \* files of each app
  releases,     \* releases/<tag>.json, oldest first
  deployments,  \* deployments/*.json, oldest first
  \* registry
  tagged,       \* tagged[t]: digest of tag t, or None
  manifests,    \* digests the registry can serve
  wrappers,     \* references whose wrapper image the registry holds
  registryUp,   \* the registry service has a replica
  \* Docker Swarm
  running,      \* running[a]: what the service of a runs, or NoRef
  spare,        \* another image a spec of a still names (PreviousSpec), or NoRef
  \* processes
  pc,
  cmd,          \* locals of the command a process runs
  commands, faults,
  \* bookkeeping for the properties, read by no action
  spoiled,      \* tags moved to another digest, deleted by remove, or left by
                \* a failure between the deletion of image and record
  stranded      \* a process left the registry scaled to zero

files    == <<releases, deployments>>
registry == <<tagged, manifests, wrappers, registryUp>>
swarm    == <<running, spare>>
limits   == <<commands, faults>>
history  == <<spoiled, stranded>>
vars     == <<files, registry, swarm, pc, cmd, limits, history>>

RecordOf(a, tag) == {r \in ToSet(releases[a]) : r.tag = tag}

\* ListHistory, newest first: the last n of a sequence kept oldest first.
Newest(s, n) == {s[i] : i \in {k \in DOMAIN s : k > Len(s) - n}}

\* successfulDeployments: the newest n, and the one before the newest.
Successes(a) == {i \in DOMAIN deployments[a] : deployments[a][i].ok}
NewestSuccesses(a, n) ==
  {deployments[a][k] : k \in {j \in Successes(a) : Cardinality({i \in Successes(a) : i >= j}) <= n}}
Previous(a) ==
  {deployments[a][k] : k \in {j \in Successes(a) : Cardinality({i \in Successes(a) : i > j}) = 1}}

\* The file of a tag is removed.
Forget(s, tag) ==
  IF \E i \in DOMAIN s : s[i].tag = tag
    THEN RemoveAt(s, CHOOSE i \in DOMAIN s : s[i].tag = tag)
    ELSE s

NoCommand ==
  [app |-> CHOOSE a \in Apps : TRUE, ref |-> NoRef, scope |-> Everything,
   images |-> {}, wraps |-> {}, safe |-> {}, releases |-> {}, deployments |-> {},
   orphaned |-> FALSE, collect |-> FALSE]

\* Labels at which a process holds registry.lock.
Locked == {"push", "save", "plan", "delete", "files", "scale_down", "collect",
           "scale_up", "rm_images"}
LockFree == \A p \in Procs : pc[p] \notin Locked

At(p, l)   == pc[p] = l
Goto(p, l) == pc' = [pc EXCEPT ![p] = l]
Done(p)    == Goto(p, "idle") /\ cmd' = [cmd EXCEPT ![p] = NoCommand]

Begin(p) ==
  /\ At(p, "idle")
  /\ commands < MaxCommands
  /\ commands' = commands + 1
  /\ UNCHANGED faults

-----------------------------------------------------------------------------
(* release *)

\* acquireReleaseLocks, ensureTagUnused and the build.
StartRelease(p, a, n, force) ==
  /\ Begin(p)
  /\ LockFree
  /\ force \/ RecordOf(a, <<a, n>>) = {}
  /\ \E d \in Digests :
       cmd' = [cmd EXCEPT ![p] = [NoCommand EXCEPT !.app = a, !.scope = a,
                                    !.ref = [tag |-> <<a, n>>, digest |-> d]]]
  /\ Goto(p, "push")
  /\ UNCHANGED <<files, registry, swarm, history>>

\* Bookkeeping: something names the tag of r with another digest.
Moves(r) ==
  \/ tagged[r.tag] \notin {None, r.digest}
  \/ \E a \in Apps : \E x \in ToSet(releases[a]) \cup ToSet(deployments[a])
                               \cup {running[a], spare[a]} :
       x.tag = r.tag /\ x.digest # r.digest

\* docker push moves the tag; a manifest that loses its last tag stays until
\* the next garbage collection.
Push(p) ==
  LET r == cmd[p].ref IN
  /\ At(p, "push")
  /\ registryUp
  /\ tagged' = [tagged EXCEPT ![r.tag] = r.digest]
  /\ manifests' = manifests \cup {r.digest}
  /\ spoiled' = IF Moves(r) THEN spoiled \cup {r.tag} ELSE spoiled
  /\ Goto(p, "save")
  /\ UNCHANGED <<files, wrappers, registryUp, swarm, cmd, limits, stranded>>

\* Mutant: the record takes the reference without the pushed digest.
SaveMetadata_NoDigest(p) ==
  LET a == cmd[p].app
      r == [cmd[p].ref EXCEPT !.digest = None] IN
  /\ At(p, "save")
  /\ releases' = [releases EXCEPT ![a] =
                    Append(Forget(@, r.tag), r)]
  /\ Goto(p, "retain")
  /\ UNCHANGED <<deployments, registry, swarm, cmd, limits, history>>

\* saveMetadataHistory replaces the file of the tag; then the locks go.
SaveMetadata(p) ==
  LET a == cmd[p].app
      r == cmd[p].ref IN
  /\ At(p, "save")
  /\ releases' = [releases EXCEPT ![a] =
                    Append(Forget(@, r.tag), r)]
  /\ Goto(p, "retain")
  /\ UNCHANGED <<deployments, registry, swarm, cmd, limits, history>>

\* completeRelease: retention for the released app takes the lock again.
Retain(p) ==
  /\ At(p, "retain")
  /\ LockFree
  /\ Goto(p, "plan")
  /\ UNCHANGED <<files, registry, swarm, cmd, limits, history>>

-----------------------------------------------------------------------------
(* cleanup --apply *)

StartCleanup(p, orphaned) ==
  /\ Begin(p)
  /\ LockFree
  /\ cmd' = [cmd EXCEPT ![p] = [NoCommand EXCEPT !.orphaned = orphaned]]
  /\ Goto(p, "plan")
  /\ UNCHANGED <<files, registry, swarm, history>>

\* Mutant: without the previous specs.
LiveRefs_SpecOnly == {running[a] : a \in Apps \ Wrapped}

\* liveServices: the images that specs and previous specs name.  A wrapper's
\* name tells nothing of the release inside it.
LiveRefs == {running[a] : a \in Apps \ Wrapped} \cup {spare[a] : a \in Apps \ Wrapped}

LiveWrappers == {running[a] : a \in Wrapped} \cup {spare[a] : a \in Wrapped}

InScope(a, scope) == scope \in {a, Everything}

\* hasLiveDeployment: a record names a service that exists.  (One service
\* name per app here.)  With --orphaned the others lose all their records.
HasLiveDeployment(a) == deployments[a] # <<>> /\ {running[a], spare[a]} # {NoRef}
Orphans(orphaned) == {a \in Apps : orphaned /\ ~HasLiveDeployment(a)}

\* Mutant: a scoped retention protects its own newest releases only.
KeptReleases_ScopeOnly(scope, orphans) ==
  UNION {IF InScope(a, scope) THEN Newest(releases[a], Keep) ELSE {} : a \in Apps \ orphans}

\* References protected by records: in scope the newest, and for a cleanup of
\* everything the newest successful deployments; out of scope all.
KeptReleases(scope, orphans) ==
  UNION {IF InScope(a, scope) THEN Newest(releases[a], Keep)
                              ELSE ToSet(releases[a]) : a \in Apps \ orphans}

DeploymentRef(d) == [tag |-> d.tag, digest |-> d.digest]
KeptDeployments(scope, orphans) ==
  {DeploymentRef(d) : d \in
    UNION {IF scope = Everything THEN NewestSuccesses(a, Keep)
           ELSE IF scope = a THEN {} ELSE ToSet(deployments[a]) : a \in Apps \ orphans}}

\* Mutant: live references keep their digest and match no record.
ProtectedTags_NoImageKey(scope, orphans) ==
  {r.tag : r \in KeptReleases(scope, orphans) \cup KeptDeployments(scope, orphans)}

\* imageKey: a record or image is protected by its tag, whatever the digest.
ProtectedTags(scope, orphans) ==
  {r.tag : r \in LiveRefs \cup KeptReleases(scope, orphans) \cup KeptDeployments(scope, orphans)}

\* protectedDigests: releases by tag, deployments and live specs by digest.
ProtectedDigests(scope, orphans) ==
  ({r.digest : r \in LiveRefs \cup KeptDeployments(scope, orphans)} \cap manifests)
    \cup ({tagged[r.tag] : r \in KeptReleases(scope, orphans)} \ {None})

\* Retention deletes recorded builds of its app; a cleanup of everything
\* deletes whatever the registry lists.
CandidateTags(scope, orphans) ==
  IF scope = Everything
    THEN {t \in Tags : tagged[t] # None /\ tagged[t] \notin ProtectedDigests(scope, orphans)}
    ELSE {r.tag : r \in ToSet(releases[scope])} \ ProtectedTags(scope, orphans)
CandidateWrappers(scope) ==
  IF scope = Everything THEN wrappers \ LiveWrappers ELSE {}

\* The records of the apps in scope that the plan deletes.
Expired(records, scope, orphans) ==
  {x \in UNION {ToSet(records[a]) : a \in {b \in Apps : InScope(b, scope)}} :
     Owner(x.tag) \in orphans \/ x.tag \notin ProtectedTags(scope, orphans)}

\* buildPlan and the digests protected during the deletions.
Plan(p) ==
  LET scope == cmd[p].scope
      orphans == Orphans(cmd[p].orphaned) IN
  /\ At(p, "plan")
  /\ registryUp
  /\ cmd' = [cmd EXCEPT ![p].images = CandidateTags(scope, orphans),
                        ![p].wraps = CandidateWrappers(scope),
                        ![p].safe = ProtectedDigests(scope, orphans),
                        ![p].releases = Expired(releases, scope, orphans),
                        ![p].deployments = Expired(deployments, scope, orphans)]
  /\ Goto(p, "delete")
  /\ UNCHANGED <<files, registry, swarm, limits, history>>

\* The registry deletes a manifest by digest, and with it every tag on it.
Without(d) == [t \in Tags |-> IF tagged[t] = d THEN None ELSE tagged[t]]

\* Mutant: an image of the plan is deleted whoever shares its digest.
DeleteImage_Unchecked(p, t) ==
  LET d == tagged[t] IN
  /\ At(p, "delete")
  /\ registryUp
  /\ t \in cmd[p].images
  /\ tagged' = (IF d = None THEN tagged ELSE Without(d))
  /\ manifests' = manifests \ {d}
  /\ cmd' = [cmd EXCEPT ![p].images = @ \ {t}, ![p].collect = TRUE]
  /\ UNCHANGED <<files, wrappers, registryUp, swarm, pc, limits, history>>

DeleteImage(p, t) ==
  LET d == tagged[t]
      gone == d # None /\ d \notin cmd[p].safe IN
  /\ At(p, "delete")
  /\ registryUp
  /\ t \in cmd[p].images
  /\ IF gone
       THEN tagged' = Without(d) /\ manifests' = manifests \ {d}
       ELSE UNCHANGED <<tagged, manifests>>
  /\ cmd' = [cmd EXCEPT ![p].images = @ \ {t}, ![p].collect = @ \/ gone]
  /\ UNCHANGED <<files, wrappers, registryUp, swarm, pc, limits, history>>

DeleteWrapper(p, r) ==
  /\ At(p, "delete")
  /\ registryUp
  /\ r \in cmd[p].wraps
  /\ wrappers' = wrappers \ {r}
  /\ cmd' = [cmd EXCEPT ![p].wraps = @ \ {r}, ![p].collect = TRUE]
  /\ UNCHANGED <<files, tagged, manifests, registryUp, swarm, pc, limits, history>>

ImagesDeleted(p) ==
  /\ At(p, "delete")
  /\ cmd[p].images = {} /\ cmd[p].wraps = {}
  /\ cmd' = [cmd EXCEPT ![p].collect = @ \/ cmd[p].releases # {} \/ cmd[p].deployments # {}]
  /\ Goto(p, "files")
  /\ UNCHANGED <<files, registry, swarm, limits, history>>

RemoveRelease(p, a, i) ==
  /\ At(p, "files")
  /\ releases[a][i] \in cmd[p].releases
  /\ releases' = [releases EXCEPT ![a] = RemoveAt(@, i)]
  /\ UNCHANGED <<deployments, registry, swarm, pc, cmd, limits, history>>

LeftReleases(p) == (UNION {ToSet(releases[a]) : a \in Apps}) \cap cmd[p].releases
LeftDeployments(p) == (UNION {ToSet(deployments[a]) : a \in Apps}) \cap cmd[p].deployments

RemoveDeployment(p, a, i) ==
  /\ At(p, "files")
  /\ LeftReleases(p) = {}
  /\ deployments[a][i] \in cmd[p].deployments
  /\ deployments' = [deployments EXCEPT ![a] = RemoveAt(@, i)]
  /\ UNCHANGED <<releases, registry, swarm, pc, cmd, limits, history>>

\* No collection when the run has pruned nothing.
FilesRemoved(p) ==
  /\ At(p, "files")
  /\ LeftReleases(p) = {} /\ LeftDeployments(p) = {}
  /\ IF cmd[p].collect
       THEN Goto(p, "scale_down") /\ UNCHANGED cmd
       ELSE Done(p)
  /\ UNCHANGED <<files, registry, swarm, limits, history>>

\* garbageCollect: scale to zero (or fail to), collect (or fail or give up
\* waiting), and in any case scale up again.
ScaleDown(p) ==
  /\ At(p, "scale_down")
  /\ \/ registryUp' = FALSE /\ Goto(p, "collect")
     \/ UNCHANGED registryUp /\ Goto(p, "scale_up")
  /\ UNCHANGED <<files, tagged, manifests, wrappers, swarm, cmd, limits, history>>

Untagged == {d \in manifests : \A t \in Tags : tagged[t] # d}

\* Mutant: an error of the collection skips the restart.
Collect_NoDefer(p) ==
  /\ At(p, "collect")
  /\ \/ /\ manifests' = manifests \ Untagged
        /\ Goto(p, "scale_up")
        /\ UNCHANGED cmd
     \/ Done(p) /\ UNCHANGED manifests
  /\ UNCHANGED <<files, tagged, wrappers, registryUp, swarm, limits, history>>

Collect(p) ==
  /\ At(p, "collect")
  /\ \E gone \in SUBSET Untagged : manifests' = manifests \ gone
  /\ Goto(p, "scale_up")
  /\ UNCHANGED <<files, tagged, wrappers, registryUp, swarm, cmd, limits, history>>

ScaleUp(p) ==
  /\ At(p, "scale_up")
  /\ registryUp' = TRUE
  /\ Done(p)
  /\ UNCHANGED <<files, tagged, manifests, wrappers, swarm, limits, history>>

-----------------------------------------------------------------------------
(* deploy and rollback *)

Latest(a) == IF releases[a] = <<>> THEN {} ELSE {releases[a][Len(releases[a])]}

Recorded(a, r, ok) ==
  deployments' = [deployments EXCEPT ![a] = Append(@, [tag |-> r.tag, digest |-> r.digest, ok |-> ok])]

\* A wrapped app is deployed as a wrapper that is built from the release.
Wrap(a, r) == wrappers' = IF a \in Wrapped THEN wrappers \cup {r} ELSE wrappers

\* The new image serves.  A rolling update keeps the old one as the previous
\* spec; a blue/green candidate, or a service of another name, has none.
DeploySucceeds(a, r) ==
  /\ registryUp
  /\ r.digest \in manifests
  /\ Recorded(a, r, TRUE)
  /\ Wrap(a, r)
  /\ running' = [running EXCEPT ![a] = r]
  /\ \E old \in {NoRef, running[a]} : spare' = [spare EXCEPT ![a] = old]

\* A candidate is removed, a service rolled back to its previous spec, a first
\* service scaled to zero; a wrapper is pulled and pushed before all that.
DeployFails(a, r) ==
  /\ a \in Wrapped => registryUp /\ r.digest \in manifests
  /\ Recorded(a, r, FALSE)
  /\ Wrap(a, r)
  /\ \/ UNCHANGED swarm
     \/ /\ spare' = [spare EXCEPT ![a] = r]
        /\ UNCHANGED running

Deploy(p, a) ==
  /\ Begin(p)
  /\ LockFree
  /\ \E r \in Latest(a) : DeploySucceeds(a, r) \/ DeployFails(a, r)
  /\ UNCHANGED <<releases, tagged, manifests, registryUp, pc, cmd, history>>

\* Rollback chooses the tag before it waits for the locks.
ChooseRollback(p, a) ==
  /\ Begin(p)
  /\ \E d \in Previous(a) :
       cmd' = [cmd EXCEPT ![p] = [NoCommand EXCEPT !.app = a, !.ref = DeploymentRef(d)]]
  /\ Goto(p, "rollback")
  /\ UNCHANGED <<files, registry, swarm, history>>

\* run finds the release by its tag, or fails; a wrapper may fail to build.
Rollback(p) ==
  LET a == cmd[p].app IN
  /\ At(p, "rollback")
  /\ LockFree
  /\ \/ \E r \in RecordOf(a, cmd[p].ref.tag) : DeploySucceeds(a, r) \/ DeployFails(a, r)
     \/ UNCHANGED <<deployments, wrappers, swarm>>
  /\ Done(p)
  /\ UNCHANGED <<releases, tagged, manifests, registryUp, limits, history>>

-----------------------------------------------------------------------------
(* remove *)

\* operationLock, then docker stack rm.
StartRemove(p, a) ==
  /\ Begin(p)
  /\ LockFree
  /\ running' = [running EXCEPT ![a] = NoRef]
  /\ spare' = [spare EXCEPT ![a] = NoRef]
  /\ cmd' = [cmd EXCEPT ![p] = [NoCommand EXCEPT !.app = a,
                                  !.images = {r.tag : r \in ToSet(releases[a])}]]
  /\ Goto(p, "rm_images")
  /\ UNCHANGED <<files, registry, history>>

\* removeRegistryImages asks nobody who else uses the digest.  It accepts one
\* media type only: an OCI manifest is "not found" and stays.  So does the
\* wrapper, whose name it computes without the digest that deploy's has.
RemoveImage(p, t) ==
  LET d == tagged[t] IN
  /\ At(p, "rm_images")
  /\ registryUp
  /\ t \in cmd[p].images
  /\ IF d = None
       THEN UNCHANGED <<tagged, manifests, spoiled>>
       ELSE \/ /\ tagged' = Without(d)
               /\ manifests' = manifests \ {d}
               /\ spoiled' = spoiled \cup {u \in Tags : tagged[u] = d}
            \/ UNCHANGED <<tagged, manifests, spoiled>>
  /\ cmd' = [cmd EXCEPT ![p].images = @ \ {t}]
  /\ UNCHANGED <<files, wrappers, registryUp, swarm, pc, limits, stranded>>

RemoveState(p) ==
  LET a == cmd[p].app IN
  /\ At(p, "rm_images")
  /\ cmd[p].images = {}
  /\ releases' = [releases EXCEPT ![a] = <<>>]
  /\ deployments' = [deployments EXCEPT ![a] = <<>>]
  /\ Done(p)
  /\ UNCHANGED <<registry, swarm, limits, history>>

-----------------------------------------------------------------------------
(* Failures *)

\* Labels at which a command has begun to delete.
Deleting == {"delete", "files", "rm_images"}
Collecting == {"collect", "scale_up"}
Unfinished(p) ==
  IF At(p, "rm_images") THEN {r.tag : r \in ToSet(releases[cmd[p].app])}
                        ELSE {r.tag : r \in LeftReleases(p)}

\* "registry service is not running": what another command left.
RegistryDown(p) ==
  /\ pc[p] \in {"push", "plan", "rm_images"}
  /\ ~registryUp
  /\ At(p, "rm_images") => cmd[p].images # {}
  /\ spoiled' = spoiled \cup Unfinished(p)
  /\ Done(p)
  /\ UNCHANGED <<files, registry, swarm, limits, stranded>>

\* A call fails and the command returns, or the process is killed.  Between
\* scale_down and scale_up only a kill or a failed restart ends it.
Stop(p) ==
  /\ pc[p] # "idle"
  /\ faults < MaxFaults
  /\ faults' = faults + 1
  /\ spoiled' = IF pc[p] \in Deleting THEN spoiled \cup Unfinished(p) ELSE spoiled
  /\ stranded' = (stranded \/ (pc[p] \in Collecting /\ ~registryUp))
  /\ Done(p)
  /\ UNCHANGED <<files, registry, swarm, commands>>

\* noops install, or a person, scales the registry up again.
RestartRegistry ==
  /\ LockFree
  /\ ~registryUp
  /\ registryUp' = TRUE
  /\ stranded' = FALSE
  /\ UNCHANGED <<files, tagged, manifests, wrappers, swarm, pc, cmd, limits, spoiled>>

-----------------------------------------------------------------------------

Init ==
  /\ releases = [a \in Apps |-> <<>>]
  /\ deployments = [a \in Apps |-> <<>>]
  /\ tagged = [t \in Tags |-> None]
  /\ manifests = {}
  /\ wrappers = {}
  /\ registryUp = TRUE
  /\ running = [a \in Apps |-> NoRef]
  /\ spare = [a \in Apps |-> NoRef]
  /\ pc = [p \in Procs |-> "idle"]
  /\ cmd = [p \in Procs |-> NoCommand]
  /\ commands = 0
  /\ faults = 0
  /\ spoiled = {}
  /\ stranded = FALSE

Release(p) == \/ \E a \in Apps, n \in Numbers, force \in BOOLEAN : StartRelease(p, a, n, force)
              \/ Push(p) \/ SaveMetadata(p) \/ Retain(p)

Cleanup(p) ==
  \/ \E orphaned \in BOOLEAN : StartCleanup(p, orphaned)
  \/ Plan(p)
  \/ \E t \in cmd[p].images : DeleteImage(p, t)
  \/ \E r \in cmd[p].wraps : DeleteWrapper(p, r)
  \/ ImagesDeleted(p)
  \/ \E a \in Apps : \E i \in DOMAIN releases[a] : RemoveRelease(p, a, i)
  \/ \E a \in Apps : \E i \in DOMAIN deployments[a] : RemoveDeployment(p, a, i)
  \/ FilesRemoved(p)
  \/ ScaleDown(p) \/ Collect(p) \/ ScaleUp(p)

Serve(p) ==
  \/ \E a \in Apps : Deploy(p, a) \/ ChooseRollback(p, a)
  \/ Rollback(p)

Removal(p) ==
  \/ \E a \in Apps : StartRemove(p, a)
  \/ \E t \in cmd[p].images : RemoveImage(p, t)
  \/ RemoveState(p)

Next ==
  \/ \E p \in Procs : Release(p) \/ Cleanup(p) \/ Serve(p) \/ Removal(p)
                      \/ RegistryDown(p) \/ Stop(p)
  \/ RestartRegistry

Spec == Init /\ [][Next]_vars

-----------------------------------------------------------------------------
(* Properties *)

\* Types.  A command that pushes, saves or rolls back has a reference.
Deployments == [tag : Tags, digest : Digests, ok : BOOLEAN]
Commands ==
  [app : Apps, ref : Refs \cup {NoRef}, scope : Apps \cup {Everything},
   images : SUBSET Tags, wraps : SUBSET Refs, safe : SUBSET Digests,
   releases : SUBSET Refs, deployments : SUBSET Deployments,
   orphaned : BOOLEAN, collect : BOOLEAN]
TypeOK ==
  /\ releases \in [Apps -> Seq(Refs)]
  /\ deployments \in [Apps -> Seq(Deployments)]
  /\ running \in [Apps -> Refs \cup {NoRef}]
  /\ spare \in [Apps -> Refs \cup {NoRef}]
  /\ tagged \in [Tags -> Digests \cup {None}]
  /\ manifests \subseteq Digests
  /\ wrappers \subseteq Refs
  /\ registryUp \in BOOLEAN /\ stranded \in BOOLEAN
  /\ pc \in [Procs -> Locked \cup {"idle", "retain", "rollback"}]
  /\ cmd \in [Procs -> Commands]
  /\ \A p \in Procs :
       /\ pc[p] \in {"push", "save", "rollback"} => cmd[p].ref # NoRef
       /\ cmd[p].orphaned => cmd[p].scope = Everything
  /\ commands \in 0 .. MaxCommands /\ faults \in 0 .. MaxFaults
  /\ spoiled \subseteq Tags

\* "Older builds still used by a Swarm service, an active rollout, or Swarm's
\* rollback specification remain protected": what a service runs can be pulled
\* again, unless its tag is spoiled.
InRegistry(a, r) ==
  IF a \in Wrapped THEN r \in wrappers
                   ELSE r.tag \in spoiled \/ r.digest \in manifests
LivePullable == \A a \in Apps :
  /\ running[a] # NoRef => InRegistry(a, running[a])
  /\ spare[a] # NoRef => InRegistry(a, spare[a])

\* A release record that is there between commands can be deployed: deletion
\* takes image and record of the same releases, and those it keeps keep their
\* image, whoever shares its digest.
RecordsResolve ==
  LockFree => \A a \in Apps : \A r \in ToSet(releases[a]) :
    r.tag \in spoiled \/ r.digest \in manifests

\* Every outcome of a collection ends with the registry running.
RegistryReturns == (\A p \in Procs : pc[p] \notin Collecting) /\ ~stranded => registryUp

\* "Other apps and environments are untouched": as long as nobody releases,
\* removes or cleans up b, b keeps its records and what its tags resolve to.
Untouched(b) == \A p \in Procs :
  /\ pc[p] \in {"delete", "files"} => ~InScope(b, cmd[p].scope)
  /\ pc[p] \in {"push", "save"} => cmd[p].app # b
  /\ pc[p] # "rm_images"
ScopedSparesOthers ==
  [][\A b \in Apps : Untouched(b) =>
       /\ UNCHANGED releases[b]
       /\ ToSet(deployments[b]) \subseteq ToSet(deployments'[b])
       /\ \A r \in ToSet(releases[b]) : tagged'[r.tag] = tagged[r.tag]]_vars

\* The record of the deployment that serves outlives every cleanup: rollback,
\* reconciliation and remove find the stack by it.
ActiveRecordKept ==
  [][\A a \in Apps \ Wrapped : running[a] # NoRef /\ running'[a] = running[a] =>
       \A d \in NewestSuccesses(a, 1) : DeploymentRef(d) = running[a] => d \in ToSet(deployments'[a])]_vars

\* "--orphaned ... does not by itself make an image eligible for deletion".
OrphanedSparesImages ==
  [][\A p \in Procs : At(p, "delete") /\ cmd[p].orphaned =>
       manifests \cap ProtectedDigests(Everything, {}) \subseteq manifests']_vars

-----------------------------------------------------------------------------
(* Inductive invariant *)

Mutex == \A p, q \in Procs : pc[p] \in Locked /\ pc[q] \in Locked => p = q

\* The tag of r resolves to its digest, unless something took it away.
Anchored(r) == r.tag \in spoiled \/ (tagged[r.tag] = r.digest /\ r.digest \in manifests)

LiveAnchored == \A r \in LiveRefs \ {NoRef} : Anchored(r)
WrappersKept == LiveWrappers \ {NoRef} \subseteq wrappers

\* A process is about to remove the record r of a.
Condemned(a, r) == \E p \in Procs :
  \/ pc[p] \in {"delete", "files"} /\ r \in cmd[p].releases
  \/ pc[p] = "rm_images" /\ cmd[p].app = a
RecordsAnchored ==
  \A a \in Apps : \A r \in ToSet(releases[a]) : Anchored(r) \/ Condemned(a, r)

DeploymentsAnchored == \A a \in Apps : \A d \in ToSet(deployments[a]) :
  d.tag \in spoiled \/ tagged[d.tag] \in {None, d.digest}

\* What a process at each label relies on.
Pushed(p) == pc[p] = "save" => Anchored(cmd[p].ref)
PlanSafe(p) == pc[p] = "delete" =>
  /\ \A r \in LiveRefs \ {NoRef} : r.tag \in spoiled \/ r.digest \in cmd[p].safe
  /\ cmd[p].wraps \cap LiveWrappers = {}
  /\ \A a \in Apps : \A r \in ToSet(releases[a]) :
       r \in cmd[p].releases \/ r.tag \in spoiled \/ r.digest \in cmd[p].safe

RetentionInv ==
  /\ TypeOK
  /\ Mutex
  /\ LiveAnchored
  /\ WrappersKept
  /\ RecordsAnchored
  /\ DeploymentsAnchored
  /\ \A p \in Procs : Pushed(p) /\ PlanSafe(p)

\* Releases, deployments and services name builds of their own app.
RecordsOwned ==
  \A a \in Apps :
    /\ \A x \in ToSet(releases[a]) \cup ToSet(deployments[a]) : Owner(x.tag) = a
    /\ running[a] # NoRef => Owner(running[a].tag) = a

\* A command pushes and deletes what belongs to the apps in its scope, and the
\* digests it protects are those that tags of all other apps resolve to.
CommandScoped(p) ==
  /\ pc[p] \in {"push", "save"} => Owner(cmd[p].ref.tag) = cmd[p].app
  /\ pc[p] \in {"delete", "files"} =>
       \A x \in cmd[p].releases \cup cmd[p].deployments : InScope(Owner(x.tag), cmd[p].scope)
  /\ pc[p] = "delete" =>
       \A b \in Apps : ~InScope(b, cmd[p].scope) =>
         \A r \in ToSet(releases[b]) : tagged[r.tag] \in cmd[p].safe \cup {None}

\* No command is about to delete the record of what a service runs; remove has
\* stopped the service before it deletes records.
ActiveSpared(p) ==
  /\ pc[p] \in {"delete", "files"} =>
       \A a \in Apps \ Wrapped : running[a] # NoRef =>
         \A d \in cmd[p].deployments : d.tag # running[a].tag
  /\ pc[p] = "rm_images" => running[cmd[p].app] = NoRef

ScopeInv == RecordsOwned /\ \A p \in Procs : CommandScoped(p) /\ ActiveSpared(p)
=============================================================================
