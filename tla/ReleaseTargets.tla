--------------------------- MODULE ReleaseTargets ---------------------------
(***************************************************************************)
(* A lifecycle command for services of one manifest: the services it       *)
(* selects, in the order of x-noops.depends_on, and the releases and       *)
(* deployments it makes of them one after another, while other commands    *)
(* release, deploy and remove the same services.                           *)
(* Source: internal/manifest/load.go, internal/app/target.go and the       *)
(* commands of internal/app.                                               *)
(***************************************************************************)
EXTENDS Integers, Sequences, SequencesExt, FiniteSets, FiniteSetsExt

CONSTANTS
  MaxOtherReleases   \* bound: what other commands do to the same services

ASSUME TargetsAssumption == MaxOtherReleases \in Nat

All  == 0           \* --all; the services are numbered in the order of their names
None == -1          \* neither --service nor --all
Ghost == 9          \* a service that the manifest does not declare
OneTarget == {[services |-> {1}, dependsOn |-> <<{}>>, releaseOnly |-> {},
               command |-> "rollback", target |-> None]}

Targets(graphs, targets) ==
  {[services |-> 1..Len(g), dependsOn |-> g, releaseOnly |-> r, command |-> c, target |-> t] :
     g \in graphs, r \in {{}, {1}, {2}},
     c \in {"deploy", "release", "release --deploy", "remove", "rollback"}, t \in targets}

\* With --all, three services with every dependency between them, one on itself or on
\* an undeclared service too; else one service or three.
AllTargets ==
  Targets((SUBSET {2, 3}) \X (SUBSET {1, 3}) \X (SUBSET {1, 2})
            \cup {<<{}>>, <<{2}, {2}, {1}>>, <<{2}, {}, {2, Ghost}>>}, {All})
  \cup Targets({<<{}>>, <<{2}, {3}, {}>>}, {None, 1})

VARIABLES
  wanted,          \* manifest, command and target; they do not change
  latestTag,       \* Latest release of each service, 0 for none
  keptTags,        \* releases of each service
  targetPhase,
  marks, visits, ordered,     \* ReleaseOrder: state, calls of visit, result
  pendingServices,
  builtTags,       \* releaseTags
  lifecycleLog,    \* observer: what was done to which service, with which tag
  otherReleases

targetVars == <<wanted, latestTag, keptTags, targetPhase, marks, visits, ordered, pendingServices,
                builtTags, lifecycleLog, otherReleases>>
orderVars  == <<marks, visits, ordered>>

TargetsInit(targets) ==
  /\ wanted \in targets
  /\ latestTag \in {[s \in wanted.services |-> 0], [s \in wanted.services |-> 1]}
  /\ keptTags = [s \in wanted.services |-> IF latestTag[s] = 0 THEN {} ELSE {1}]
  /\ targetPhase = "resolve"
  /\ marks = [s \in wanted.services |-> 0] /\ visits = <<>> /\ ordered = <<>>
  /\ pendingServices = <<>>
  /\ builtTags = [s \in wanted.services |-> 0]
  /\ lifecycleLog = <<>>
  /\ otherReleases = 0

Stop(how) == targetPhase' = how /\ UNCHANGED <<pendingServices, builtTags, lifecycleLog>>
NextTag(s) == Max(keptTags[s] \cup {0, latestTag[s]}) + 1

-----------------------------------------------------------------------------
ReleaseOnly(s) == s \in wanted.releaseOnly

\* The commands that pass deployableOnly to resolveTarget, and those that take the
\* only service of a manifest without --service.
DeployableOnly == wanted.command \in {"deploy", "remove", "rollback"}
Implicit       == wanted.command \notin {"remove", "rollback"}

\* The service of a command without --all.
OnlyTarget == IF wanted.target = None THEN 1 ELSE wanted.target

\* resolveTarget
ResolveTarget ==
  /\ targetPhase = "resolve"
  /\ CASE wanted.target = All -> Stop("order")
       [] wanted.target = None /\ ~(Implicit /\ Cardinality(wanted.services) = 1) -> Stop("refused")
       [] DeployableOnly /\ ReleaseOnly(OnlyTarget) -> Stop("refused")
       [] OTHER -> /\ pendingServices' = <<OnlyTarget>>
                   /\ targetPhase' = "begin"
                   /\ UNCHANGED <<builtTags, lifecycleLog>>
  /\ UNCHANGED <<wanted, latestTag, keptTags, orderVars, otherReleases>>

\* DeploymentOrder, and Release after its builds: the names that are deployed.
Deployable(names) ==
  LET kept[n \in 0..Len(names)] ==
        IF n = 0 THEN <<>>
        ELSE IF ReleaseOnly(names[n]) THEN kept[n - 1] ELSE Append(kept[n - 1], names[n])
  IN kept[Len(names)]

UndeclaredNeeds(s) == wanted.dependsOn[s] \ wanted.services

\* ReleaseOrder, the loop over the names: the next one that was not visited.
VisitNext ==
  LET left == {s \in wanted.services : marks[s] = 0} IN
  /\ targetPhase = "order"
  /\ visits = <<>>
  /\ IF \E s \in wanted.services : UndeclaredNeeds(s) # {}
       THEN Stop("refused") /\ UNCHANGED orderVars
       ELSE IF left = {}
         THEN /\ pendingServices' = IF DeployableOnly THEN Deployable(ordered) ELSE ordered
              /\ targetPhase' = "begin"
              /\ UNCHANGED <<orderVars, builtTags, lifecycleLog>>
         ELSE /\ marks' = [marks EXCEPT ![Min(left)] = 1]
              /\ visits' = <<[service |-> Min(left), deps |-> wanted.dependsOn[Min(left)]]>>
              /\ UNCHANGED <<targetPhase, ordered, pendingServices, builtTags, lifecycleLog>>
  /\ UNCHANGED <<wanted, latestTag, keptTags, otherReleases>>

\* visit: the next dependency; one that is being visited closes a cycle.
VisitDependency ==
  LET call == Last(visits)
      dep  == Min(call.deps)
      rest == [visits EXCEPT ![Len(visits)].deps = @ \ {dep}] IN
  /\ targetPhase = "order"
  /\ visits # <<>>
  /\ call.deps # {}
  /\ CASE marks[dep] = 1 -> Stop("refused") /\ UNCHANGED orderVars
       [] marks[dep] = 2 -> /\ visits' = rest
                            /\ UNCHANGED <<targetPhase, marks, ordered, pendingServices, builtTags,
                                           lifecycleLog>>
       [] marks[dep] = 0 -> /\ marks' = [marks EXCEPT ![dep] = 1]
                            /\ visits' = Append(rest, [service |-> dep,
                                                       deps    |-> wanted.dependsOn[dep]])
                            /\ UNCHANGED <<targetPhase, ordered, pendingServices, builtTags,
                                           lifecycleLog>>
  /\ UNCHANGED <<wanted, latestTag, keptTags, otherReleases>>

\* visit: after its dependencies.
Visited(s) == Append(ordered, s)

VisitReturns ==
  LET s == Last(visits).service IN
  /\ targetPhase = "order"
  /\ visits # <<>>
  /\ Last(visits).deps = {}
  /\ marks' = [marks EXCEPT ![s] = 2]
  /\ ordered' = Visited(s)
  /\ visits' = Front(visits)
  /\ UNCHANGED <<wanted, latestTag, keptTags, targetPhase, pendingServices, builtTags, lifecycleLog,
                 otherReleases>>

-----------------------------------------------------------------------------
\* A deployment starts after the preflight of doctor.
BeginServices ==
  /\ targetPhase = "begin"
  /\ IF wanted.command \in {"release", "release --deploy"} THEN Stop("release")
     ELSE IF wanted.command = "deploy" THEN Stop("deploy") \/ Stop("failed")
     ELSE Stop(wanted.command)
  /\ UNCHANGED <<wanted, latestTag, keptTags, orderVars, otherReleases>>

Released(s, tag) ==
  /\ latestTag' = [latestTag EXCEPT ![s] = tag]
  /\ keptTags' = [keptTags EXCEPT ![s] = @ \cup {tag}]

Log(what, s, tag) == lifecycleLog' = Append(lifecycleLog, [what |-> what, service |-> s, tag |-> tag])

\* Release: every service is built before one is deployed; the first that fails ends
\* the command.
ReleaseService ==
  LET s == Head(pendingServices) IN
  /\ targetPhase = "release"
  /\ pendingServices # <<>>
  /\ \/ /\ Released(s, NextTag(s))
        /\ builtTags' = [builtTags EXCEPT ![s] = NextTag(s)]
        /\ Log("release", s, NextTag(s))
        /\ pendingServices' = Tail(pendingServices)
        /\ UNCHANGED targetPhase
     \/ Stop("failed") /\ UNCHANGED <<latestTag, keptTags>>
  /\ UNCHANGED <<wanted, orderVars, otherReleases>>

\* Release: the deployable ones among them.
ReleasesDone ==
  LET deployable == Deployable(IF wanted.target = All THEN ordered ELSE <<OnlyTarget>>) IN
  /\ targetPhase = "release"
  /\ pendingServices = <<>>
  /\ IF wanted.command = "release" \/ deployable = <<>>
       THEN Stop("done")
       ELSE \/ /\ targetPhase' = "deploy"
               /\ pendingServices' = deployable
               /\ UNCHANGED <<builtTags, lifecycleLog>>
            \/ Stop("failed")
  /\ UNCHANGED <<wanted, latestTag, keptTags, orderVars, otherReleases>>

\* Mutant: release --deploy deploys the latest release too.
DeployTag_Latest(s) == latestTag[s]

\* The tag that RunWithOptions deploys: the one that is given, else the latest.
DeployTag(s) == IF builtTags[s] # 0 THEN builtTags[s] ELSE latestTag[s]

Deployed(s) ==
  /\ Log("deploy", s, DeployTag(s))
  /\ pendingServices' = Tail(pendingServices)
  /\ targetPhase' = "deploy"
  /\ UNCHANGED builtTags

\* runDeployService: a service that has no release is released and tried once more.
DeployService ==
  LET s == Head(pendingServices) IN
  /\ targetPhase \in {"deploy", "retry"}
  /\ pendingServices # <<>>
  /\ \/ DeployTag(s) \in keptTags[s] /\ Deployed(s)
     \/ DeployTag(s) # 0 /\ Stop("failed")
     \/ /\ DeployTag(s) = 0
        /\ Stop(IF targetPhase = "deploy" THEN "release missing" ELSE "failed")
  /\ UNCHANGED <<wanted, latestTag, keptTags, orderVars, otherReleases>>

ReleaseMissing ==
  LET s == Head(pendingServices) IN
  /\ targetPhase = "release missing"
  /\ \/ /\ Released(s, NextTag(s))
        /\ Log("release", s, NextTag(s))
        /\ targetPhase' = "retry"
        /\ UNCHANGED <<pendingServices, builtTags>>
     \/ Stop("failed") /\ UNCHANGED <<latestTag, keptTags>>
  /\ UNCHANGED <<wanted, orderVars, otherReleases>>

\* Remove and Rollback of one service after another.
OtherService ==
  LET s == Head(pendingServices) IN
  /\ targetPhase \in {"remove", "rollback"}
  /\ pendingServices # <<>>
  /\ \/ /\ Log(targetPhase, s, 0)
        /\ pendingServices' = Tail(pendingServices)
        /\ IF targetPhase = "remove"
             THEN latestTag' = [latestTag EXCEPT ![s] = 0] /\ keptTags' = [keptTags EXCEPT ![s] = {}]
             ELSE UNCHANGED <<latestTag, keptTags>>
        /\ UNCHANGED <<targetPhase, builtTags>>
     \/ Stop("failed") /\ UNCHANGED <<latestTag, keptTags>>
  /\ UNCHANGED <<wanted, orderVars, otherReleases>>

ServicesDone ==
  /\ targetPhase \in {"deploy", "remove", "rollback"}
  /\ pendingServices = <<>>
  /\ Stop("done")
  /\ UNCHANGED <<wanted, latestTag, keptTags, orderVars, otherReleases>>

\* Another command releases a service or removes it.
OtherCommand ==
  /\ otherReleases < MaxOtherReleases
  /\ targetPhase \in {"release", "deploy", "retry", "release missing"}
  /\ otherReleases' = otherReleases + 1
  /\ \E s \in wanted.services :
       \/ Released(s, NextTag(s))
       \/ latestTag' = [latestTag EXCEPT ![s] = 0] /\ keptTags' = [keptTags EXCEPT ![s] = {}]
  /\ UNCHANGED <<wanted, targetPhase, orderVars, pendingServices, builtTags, lifecycleLog>>

TargetsNext ==
  \/ ResolveTarget \/ VisitNext \/ VisitDependency \/ VisitReturns \/ BeginServices
  \/ ReleaseService \/ ReleasesDone \/ DeployService \/ ReleaseMissing \/ OtherService
  \/ ServicesDone \/ OtherCommand

TargetsSpec == TargetsInit(AllTargets) /\ [][TargetsNext]_targetVars

-----------------------------------------------------------------------------
TargetsTypeOK ==
  /\ marks \in [wanted.services -> 0..2]
  /\ Range(ordered) \cup Range(pendingServices) \subseteq wanted.services
  /\ targetPhase \in {"resolve", "order", "begin", "release", "deploy", "retry", "release missing",
                      "remove", "rollback", "refused", "failed", "done"}
  /\ \A s \in wanted.services : keptTags[s] \cup {latestTag[s], builtTags[s]} \subseteq Nat

\* The reference: what a service needs, directly or through others, is what every
\* set has that has its dependencies and those of its members.
Closed(C) == \A c \in C \cap wanted.services : wanted.dependsOn[c] \subseteq C
Known == wanted.services \cup UNION {wanted.dependsOn[s] : s \in wanted.services}
Needs(s) ==
  {d \in Known : \A C \in SUBSET Known : wanted.dependsOn[s] \subseteq C /\ Closed(C) => d \in C}

Sound == \A s \in wanted.services : s \notin Needs(s) /\ Needs(s) \subseteq wanted.services

\* What was done to which services in the first n steps.
Done(what, n) ==
  {lifecycleLog[i].service : i \in {j \in 1..n : lifecycleLog[j].what = what}}

Acted == {"deploy", "remove", "rollback"}
Skips(what, s) == what \in Acted /\ ReleaseOnly(s)
Final == IF wanted.command = "release --deploy" THEN "deploy" ELSE wanted.command

RefusesUnsound ==
  targetPhase = "refused" <=> ~Sound /\ targetPhase \notin {"resolve", "order"}

InItsTurn(i) ==
  LET what == lifecycleLog[i].what
      s    == lifecycleLog[i].service IN
  /\ ~Skips(what, s) /\ s \notin Done(what, i - 1)
  /\ wanted.command # "deploy" \/ what = "deploy" =>
       \A d \in Needs(s) : Skips(what, d) \/ d \in Done(what, i - 1)
  /\ wanted.command = "release --deploy" /\ what = "deploy" =>
       lifecycleLog[i].tag = builtTags[s]

NoneLeftOut ==
  targetPhase = "done" =>
    Done(Final, Len(lifecycleLog)) = {s \in wanted.services : ~Skips(Final, s)}

\* With --all, a command refuses exactly the manifests whose dependencies are cyclic or
\* undeclared, before it has done anything; it does each thing to a service once, and
\* only after it has done it to all that the service needs, also through services that
\* are never deployed; it never deploys these; when it is done it has left none out;
\* and release --deploy deploys the releases it made, whatever others released since.
DependenciesFirst ==
  wanted.target = All =>
    /\ RefusesUnsound
    /\ \A i \in 1..Len(lifecycleLog) : InItsTurn(i)
    /\ NoneLeftOut
=============================================================================
