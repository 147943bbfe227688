------------------------------ MODULE AppNames ------------------------------
(***************************************************************************)
(* The names of services in the manifests of a workspace, and the stacks   *)
(* and routes that the names own in one environment: manifests are edited, *)
(* services renamed, while deploys trace the stacks of retired names and   *)
(* sweep them, and remove takes an app away.                               *)
(* Source: internal/deploy/rename.go and reconcile.go with the steps of    *)
(* deploy and remove around them, updateRoute of internal/ingress.         *)
(*                                                                         *)
(* A name is the sequence of its parts between hyphens. Manifests have no  *)
(* lock: a trace reads them one after the other while they are edited. The *)
(* rollout itself is one step here; its own steps are in Deploy.           *)
(***************************************************************************)
EXTENDS Integers, Sequences, SequencesExt, FiniteSets

CONSTANTS
  AppNames,           \* names of services, each the sequence of its parts
  RParts,             \* the parts that begin with an r
  Manifests,          \* paths of manifests
  Domain(_),          \* domain of the route of a name; a renamed service keeps its domain
  Workspaces,         \* bound: what is declared, catalogued and may be deployed at the start
  EditedNames,        \* bound: the names that edits are about
  MaxNameOps,         \* bound: deploys and removes, each a process of its own
  MaxNamesWork        \* bound: edits of the manifests, deploys and removes together

Undeclared == "undeclared"
Declaration == {"git", "image", Undeclared}   \* of one repository, or only an image

ASSUME NamesAssumption ==
  /\ <<>> \notin AppNames /\ "" \notin Manifests
  /\ Workspaces \subseteq [declared   : [Manifests -> [AppNames -> Declaration]],
                           catalogued : SUBSET Manifests,
                           deployed   : SUBSET AppNames]
  /\ EditedNames \subseteq AppNames
  /\ MaxNameOps \in Nat /\ MaxNamesWork \in Nat

Stack(name, attempt) == [name |-> name, attempt |-> attempt]   \* attempt 0: stable
Namers    == 1..MaxNameOps
NoRoute   == Stack(<<>>, 0)
NoRecord  == [stack |-> NoRoute, path |-> "", source |-> ""]
Unjournaled == [stack |-> NoRoute, promoted |-> FALSE]
NoTrace   == [todo |-> {}, loads |-> {}, declared |-> {}, unique |-> TRUE]
AtRest    == [at |-> "idle", app |-> <<>>, path |-> "", source |-> "", retired |-> {},
              stack |-> NoRoute, sweeps |-> {}]

VARIABLES
  declaredIn,      \* the services of each manifest
  catalogued,      \* manifests that apps.yml lists
  routed,          \* whether the services have routes, and are deployed blue/green
  appRecord,       \* Latest deployment of each name
  appRoutes,       \* stack that the ingress route of each name reaches
  swarmStacks,
  appJournal,      \* operation journals of blue/green deploys that did not complete
  namer,           \* what each process does
  trace,           \* what the deploy that reads the manifests has read, and has yet to
  manifestEdits, nameOps,
  staysDeclared,   \* observer: names declared in a catalogued manifest ever since their
                   \* latest deployment
  slipped          \* observer: those of them that somebody moved out of a manifest that a
                   \* deploy, reading the manifests, had yet to read

namesVars == <<declaredIn, catalogued, routed, appRecord, appRoutes, swarmStacks, appJournal,
               namer, trace, manifestEdits, nameOps, staysDeclared, slipped>>
namesInput == <<catalogued, routed>>
observers  == <<staysDeclared, slipped>>

Names(manifest) == {n \in AppNames : declaredIn[manifest][n] # Undeclared}
CataloguedNames == UNION {Names(path) : path \in catalogued}

\* Workspaces in which some of the services have been deployed, by this version or by
\* one whose records had no manifest path.
NamesInit ==
  /\ routed \in BOOLEAN
  /\ \E w \in Workspaces, legacy \in BOOLEAN, deployed \in SUBSET AppNames :
       LET path(n) == CHOOSE m \in Manifests : n \in Names(m) IN
       /\ declaredIn = w.declared /\ catalogued = w.catalogued
       /\ deployed \subseteq w.deployed
       /\ deployed \subseteq UNION {Names(m) : m \in Manifests}
       /\ \A n, o \in deployed : n # o /\ Domain(n) = Domain(o) =>
            ~routed
       /\ appRecord = [n \in AppNames |->
                         IF n \in deployed
                           THEN [stack  |-> Stack(n, 0), path |-> IF legacy THEN "" ELSE path(n),
                                 source |-> declaredIn[path(n)][n]]
                           ELSE NoRecord]
       /\ swarmStacks = {Stack(n, 0) : n \in deployed}
       /\ appRoutes = [n \in AppNames |->
                         IF n \in deployed /\ routed THEN Stack(n, 0) ELSE NoRoute]
       /\ staysDeclared = deployed \cap CataloguedNames
  /\ appJournal = [n \in AppNames |-> Unjournaled]
  /\ namer = [c \in Namers |-> AtRest] /\ trace = NoTrace
  /\ manifestEdits = 0 /\ nameOps = 0 /\ slipped = {}

-----------------------------------------------------------------------------
\* Somebody declares a service, drops one, changes its source or renames it. To move
\* one to another manifest takes two saves.
EditManifest ==
  /\ manifestEdits + nameOps < MaxNamesWork
  /\ manifestEdits' = manifestEdits + 1
  /\ UNCHANGED namesInput
  /\ \E path \in Manifests, n \in EditedNames :
       \/ \E d \in Declaration \ {declaredIn[path][n]} :
            declaredIn' = [declaredIn EXCEPT ![path][n] = d]
       \/ \E o \in EditedNames \ Names(path) :
            /\ n \in Names(path)
            /\ declaredIn' = [declaredIn EXCEPT ![path][n] = Undeclared,
                                                ![path][o] = declaredIn[path][n]]
  /\ staysDeclared' = staysDeclared \cap CataloguedNames'
  /\ slipped' = staysDeclared' \cap
                  (slipped \cup UNION {Names(path) \ Names(path)' : path \in trace.todo})
  /\ UNCHANGED <<appRecord, appRoutes, swarmStacks, appJournal, namer, trace, nameOps>>

\* The manifest is loaded before the locks are taken.
LoadService(c, op) ==
  /\ c = nameOps + 1 /\ manifestEdits + nameOps < MaxNamesWork
  /\ nameOps' = c
  /\ \E path \in Manifests : \E n \in Names(path) :
       namer' = [namer EXCEPT ![c] = [AtRest EXCEPT !.at = op, !.app = n, !.path = path,
                                                    !.source = declaredIn[path][n]]]
  /\ UNCHANGED <<namesInput, declaredIn, appRecord, appRoutes, swarmStacks, appJournal, trace,
                 manifestEdits, observers>>

\* operationLock: registry.lock is one for all apps.
LockFree == \A c \in Namers : namer[c].at \in {"idle", "deploy", "remove"}

Return(c) == namer' = [namer EXCEPT ![c] = AtRest]

-----------------------------------------------------------------------------
\* appStackForService: the stable stack of a name, or one whose name goes on with "-r".
AppStack(stack, name) ==
  \/ stack.name = name
  \/ /\ IsStrictPrefix(name, stack.name)
     /\ stack.name[Len(name) + 1] \in RParts

\* Mutant: only the names that the manifest of the deploy declares count.
Paths_OwnManifest(d) == {d.path}

\* declaredServices: the catalogued manifests and the deploy's own.
Paths(d) == catalogued \cup {d.path}

\* The trace has ended, with the names that it found retired.
Traced(c, retired) ==
  /\ namer' = [namer EXCEPT ![c].retired = retired, ![c].at = "rollout"]
  /\ trace' = NoTrace

Stops(c) == Return(c) /\ trace' = NoTrace

\* recoverJournal of an unpromoted candidate, then the catalog, without which no
\* rename is traced.
BeginTrace(c) ==
  LET d == namer[c] IN
  /\ d.at = "deploy"
  /\ LockFree
  /\ IF appJournal[d.app].promoted
       THEN Stops(c) /\ UNCHANGED <<swarmStacks, appJournal>>
       ELSE /\ \/ /\ namer' = [namer EXCEPT ![c].at = "manifests"]
                  /\ trace' = [NoTrace EXCEPT !.todo = Paths(d)]
               \/ Traced(c, {})
            /\ swarmStacks' = swarmStacks \ {appJournal[d.app].stack}
            /\ appJournal' = [appJournal EXCEPT ![d.app] = Unjournaled]
  /\ UNCHANGED <<namesInput, declaredIn, appRecord, appRoutes, manifestEdits, nameOps, observers>>

\* What cannot be read hides what it declares: no rename is traced, and of the
\* deploy's own manifest that is an error.
Unreadable(c, path) == IF path = namer[c].path THEN Stops(c) ELSE Traced(c, {})

\* manifest.Services, of one manifest after the other in any order; one without
\* services is not valid.
ReadManifest(c) ==
  LET d == namer[c] IN
  /\ d.at = "manifests" /\ trace.loads = {}
  /\ \E path \in trace.todo :
       \/ Unreadable(c, path)
       \/ /\ Names(path) # {}
          /\ trace' = [trace EXCEPT !.todo = @ \ {path}, !.declared = @ \cup Names(path),
                                    !.loads = ({path} \X Names(path)) \ {<<d.path, d.app>>}]
          /\ UNCHANGED namer
  /\ UNCHANGED <<namesInput, declaredIn, appRecord, appRoutes, swarmStacks, appJournal,
                 manifestEdits, nameOps, observers>>

\* manifest.LoadService, which reads the file again for each of its services.
ReadSource(c) ==
  LET d == namer[c] IN
  /\ d.at = "manifests"
  /\ \E load \in trace.loads :
       LET source == declaredIn[load[1]][load[2]] IN
       \/ Unreadable(c, load[1])
       \/ /\ source # Undeclared
          /\ trace' = [trace EXCEPT !.loads = @ \ {load},
                                    !.unique = @ /\ ~(d.source = "git" /\ source = "git")]
          /\ UNCHANGED namer
  /\ UNCHANGED <<namesInput, declaredIn, appRecord, appRoutes, swarmStacks, appJournal,
                 manifestEdits, nameOps, observers>>

\* retiredDeployments, by the history and the live stacks.
RetiredDeployments(d) ==
  {n \in AppNames \ (trace.declared \cup {d.app}) :
     /\ appRecord[n] # NoRecord
     /\ appRecord[n].path \in {"", d.path}
     /\ trace.unique
     /\ d.source = "git" /\ appRecord[n].source = "git"
     /\ appRecord[n].stack \in swarmStacks}

\* Two retired names without a path are an error, like a record or a list of
\* services that cannot be had.
TraceRetired(c) ==
  LET found == RetiredDeployments(namer[c]) IN
  /\ namer[c].at = "manifests" /\ trace.todo = {} /\ trace.loads = {}
  /\ \/ Stops(c)
     \/ Cardinality({n \in found : appRecord[n].path = ""}) <= 1 /\ Traced(c, found)
  /\ UNCHANGED <<namesInput, declaredIn, appRecord, appRoutes, swarmStacks, appJournal,
                 manifestEdits, nameOps, observers>>

BlueGreen(d) == routed /\ (appRecord[d.app] # NoRecord \/ d.retired # {})

\* The deploy of the stack until its tasks have converged, or until it fails; an
\* in-place service that failed is deployed again by the next attempt.
RollOut(c) ==
  LET d     == namer[c]
      stack == Stack(d.app, IF BlueGreen(d) THEN c ELSE 0) IN
  /\ d.at = "rollout"
  /\ \/ /\ swarmStacks' = swarmStacks \cup {stack}
        /\ namer' = [namer EXCEPT ![c].stack = stack, ![c].at = "promote"]
        /\ UNCHANGED appJournal
     \/ /\ swarmStacks' \in {swarmStacks, swarmStacks \cup {stack}}
        /\ appJournal' = IF BlueGreen(d)
                           THEN [appJournal EXCEPT ![d.app] = [stack |-> stack, promoted |-> FALSE]]
                           ELSE appJournal
        /\ Return(c)
  /\ UNCHANGED <<namesInput, declaredIn, appRecord, appRoutes, trace, manifestEdits, nameOps,
                 observers>>

\* updateRoute: without the routes of the app and its previous names.
RoutesWithout(d) ==
  [n \in AppNames |-> IF n = d.app \/ n \in d.retired THEN NoRoute ELSE appRoutes[n]]

\* ingress.Reconcile; a candidate whose route is refused is removed, or could not be.
Promote(c) ==
  LET d     == namer[c]
      taken == \E n \in AppNames : RoutesWithout(d)[n] # NoRoute /\ Domain(n) = Domain(d.app) IN
  /\ d.at = "promote"
  /\ IF routed /\ taken
       THEN /\ Return(c)
            /\ IF d.stack.attempt > 0
                 THEN /\ swarmStacks' \in {swarmStacks, swarmStacks \ {d.stack}}
                      /\ appJournal' = [appJournal EXCEPT ![d.app].stack = d.stack]
                 ELSE UNCHANGED <<swarmStacks, appJournal>>
            /\ UNCHANGED appRoutes
       ELSE /\ appRoutes' = IF routed THEN [RoutesWithout(d) EXCEPT ![d.app] = d.stack]
                                      ELSE RoutesWithout(d)
            /\ namer' = [namer EXCEPT ![c].at = "record"]
            /\ UNCHANGED <<swarmStacks, appJournal>>
  /\ UNCHANGED <<namesInput, declaredIn, appRecord, trace, manifestEdits, nameOps, observers>>

\* deployments.Save and SetLatest
RecordDeployment(c) ==
  LET d == namer[c] IN
  /\ d.at = "record"
  /\ \/ /\ appRecord' = [appRecord EXCEPT ![d.app] =
                           [stack |-> d.stack, path |-> d.path, source |-> d.source]]
        /\ staysDeclared' = IF d.app \in CataloguedNames THEN staysDeclared \cup {d.app}
                                                         ELSE staysDeclared \ {d.app}
        /\ slipped' = slipped \ {d.app}
        /\ namer' = [namer EXCEPT ![c].at = "sweep", ![c].sweeps = d.retired \cup {d.app}]
        /\ UNCHANGED appJournal
     \/ /\ appJournal' = [appJournal EXCEPT ![d.app] = [stack |-> d.stack, promoted |-> TRUE]]
        /\ Return(c)
        /\ UNCHANGED <<appRecord, observers>>
  /\ UNCHANGED <<namesInput, declaredIn, appRoutes, swarmStacks, trace, manifestEdits, nameOps>>

\* staleAppStacks
StaleAppStacks(name, active) == {s \in swarmStacks \ {active} : AppStack(s, name)}

\* removeStaleAppStacks: a list that fails removes nothing, a stack whose removal
\* fails stays.
SweepStacks(c) ==
  LET d == namer[c] IN
  /\ d.at = "sweep"
  /\ \E n \in d.sweeps :
       /\ \E gone \in SUBSET StaleAppStacks(n, d.stack) : swarmStacks' = swarmStacks \ gone
       /\ IF d.sweeps = {n} THEN Return(c)
                            ELSE namer' = [namer EXCEPT ![c].sweeps = d.sweeps \ {n}]
  /\ UNCHANGED <<namesInput, declaredIn, appRecord, appRoutes, appJournal, trace, manifestEdits,
                 nameOps, observers>>

\* Remove: the route, the stack, then the images and the state of the app; whatever
\* fails leaves what comes after it.
RemoveApp(c) ==
  LET app   == namer[c].app
      stack == IF appRecord[app] = NoRecord THEN Stack(app, 0) ELSE appRecord[app].stack IN
  /\ namer[c].at = "remove"
  /\ LockFree
  /\ Return(c)
  /\ appRoutes' \in {appRoutes, [appRoutes EXCEPT ![app] = NoRoute]}
  /\ \/ UNCHANGED <<swarmStacks, appRecord, appJournal, staysDeclared>>
     \/ /\ appRoutes'[app] = NoRoute
        /\ swarmStacks' = swarmStacks \ {stack}
        /\ staysDeclared' = staysDeclared \ {app}
        /\ UNCHANGED <<appRecord, appJournal>>
     \/ /\ appRoutes'[app] = NoRoute
        /\ swarmStacks' = swarmStacks \ {stack}
        /\ staysDeclared' = staysDeclared \ {app}
        /\ appRecord' = [appRecord EXCEPT ![app] = NoRecord]
        /\ appJournal' = [appJournal EXCEPT ![app] = Unjournaled]
  /\ UNCHANGED <<namesInput, declaredIn, trace, manifestEdits, nameOps, slipped>>

NamesNext ==
  \/ EditManifest
  \/ \E c \in Namers : \/ LoadService(c, "deploy") \/ LoadService(c, "remove")
                       \/ BeginTrace(c) \/ ReadManifest(c) \/ ReadSource(c) \/ TraceRetired(c)
                       \/ RollOut(c) \/ Promote(c) \/ RecordDeployment(c)
                       \/ SweepStacks(c) \/ RemoveApp(c)

NamesSpec == NamesInit /\ [][NamesNext]_namesVars

-----------------------------------------------------------------------------
NamesTypeOK ==
  /\ declaredIn \in [Manifests -> [AppNames -> Declaration]]
  /\ \A n \in AppNames : {appRecord[n].stack, appRoutes[n], appJournal[n].stack} \subseteq
                           {Stack(o, k) : o \in {n}, k \in 0..MaxNameOps} \cup {NoRoute}
  /\ swarmStacks \subseteq {Stack(n, k) : n \in AppNames, k \in 0..MaxNameOps}
  /\ \A c \in Namers : /\ namer[c].at \in {"idle", "deploy", "remove", "manifests", "rollout",
                                           "promote", "record", "sweep"}
                       /\ namer[c].retired \cup namer[c].sweeps \subseteq AppNames
  /\ Cardinality({c \in Namers : namer[c].at \notin {"idle", "deploy", "remove"}}) <= 1
  /\ trace.todo \subseteq Manifests /\ trace.loads \subseteq Manifests \X AppNames
  /\ trace.declared \subseteq AppNames /\ trace.unique \in BOOLEAN
  /\ staysDeclared \cup slipped \subseteq AppNames

\* A name that reads as another name and the suffix of one of its candidates.
ReadsAsCandidate(name) == \E other \in AppNames : name # other /\ AppStack(Stack(name, 0), other)

\* What an app has deployed keeps running, and every route has the stack it reaches,
\* whatever is renamed, traced, swept or removed under other names meanwhile; but for
\* apps whose name reads as a candidate of another, and services that were moved out
\* of a manifest that a deploy, reading the manifests, had yet to read.
NamesKeepTheirStacks ==
  \A n \in AppNames : ReadsAsCandidate(n) \/
    /\ n \in staysDeclared \ slipped => appRecord[n].stack \in swarmStacks
    /\ appRoutes[n] # NoRoute => appRoutes[n] \in swarmStacks

\* The narrow ownership that removeStaleAppStacks states, "this app/environment's
\* stable stack name or its generated "-r" prefix": what a declared app has deployed
\* keeps running.
SweepSparesOtherApps == \A n \in staysDeclared : appRecord[n].stack \in swarmStacks

\* concepts.md: "Services still declared in any app, other environments, and ambiguous
\* matches are never removed as a rename"; whatever reads as a candidate left aside.
DeclaredIsNoRename ==
  \A n \in staysDeclared : ReadsAsCandidate(n) \/ appRecord[n].stack \in swarmStacks
=============================================================================
