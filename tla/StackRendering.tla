--------------------------- MODULE StackRendering ---------------------------
(***************************************************************************)
(* One deploy from the Compose file of a service to its route: what the    *)
(* manifest exposes in the environment, the stack file that is rendered    *)
(* from the Compose file, the networks it needs, while other deployments   *)
(* and people create and remove networks, and the route of the ingress.    *)
(* Source: internal/manifest/load.go and validate.go, internal/deploy      *)
(* stack.go, wrapper.go and network.go, validateExposure of                *)
(* internal/ingress.                                                       *)
(***************************************************************************)
EXTENDS Integers, Sequences, FiniteSets

CONSTANTS
  MaxNetworkOps   \* bound: networks that others create or remove

ASSUME RenderingAssumption == MaxNetworkOps \in Nat

EnvNet    == "env"                 \* Config.EnvironmentNetwork
NetKeys   == {EnvNet, "x"}         \* networks by their key in the Compose file
NetNames  == {EnvNet, "x", "y"}    \* shared networks of the Swarm
\* Top-level definition of a key: none, null, external under its own name, external
\* under the name y, or with options of its own that leave it to the stack.
Definitions == {"none", "null", "external", "elsewhere", "owned"}

Exposure(domain, blueGreen, enabled, tls) ==
  [domain |-> domain, blueGreen |-> blueGreen, enabled |-> enabled, tls |-> tls]
NotExposed == Exposure(FALSE, "unset", FALSE, FALSE)
Public    == Exposure(TRUE, "unset", FALSE, FALSE)
Internal  == Exposure(FALSE, "true", FALSE, FALSE)
Ingresses == {NotExposed, Public, Internal, Exposure(TRUE, "false", FALSE, TRUE),
              Exposure(FALSE, "unset", TRUE, FALSE), Exposure(FALSE, "true", FALSE, TRUE)}

\* The parts of a Compose file that decide; blank is the simplest public service.
Blank ==
  [attachForm |-> "absent", attachKeys |-> {}, definitions |-> [k \in NetKeys |-> "none"],
   flat |-> Public, perEnvironment |-> <<>>, port |-> TRUE, ports |-> FALSE, namedVolumes |-> FALSE,
   resolution |-> "none", bindings |-> {}, environmentForm |-> "absent", secretsForm |-> "absent",
   executable |-> TRUE]

\* Networks, ingress and secrets vary one at a time; named volumes and an active
\* deployment matter where the route may be blue/green.
KeySets    == SUBSET NetKeys
Definings  == [NetKeys -> Definitions]
PerEnvironments == {<<>>} \cup [{"here"} -> Ingresses] \cup [{"there"} -> {Public}]
BoundKeys  == SUBSET {"k", "l"}
WithNetworks(form, keys, defs) ==
  [Blank EXCEPT !.attachForm = form, !.attachKeys = keys, !.definitions = defs]
WithIngress(flat, per, port, ports) ==
  [Blank EXCEPT !.flat = flat, !.perEnvironment = per, !.port = port, !.ports = ports]
WithSecrets(how, keys, env, sec, exec) ==
  [Blank EXCEPT !.resolution = how, !.bindings = keys, !.environmentForm = env,
                !.secretsForm = sec, !.executable = exec]

NetworkFiles == {WithNetworks(form, keys, defs) :
                   form \in {"list", "map"}, keys \in KeySets, defs \in Definings}
IngressFiles == {WithIngress(flat, per, port, ports) :
                   flat \in Ingresses, per \in PerEnvironments, port \in BOOLEAN, ports \in BOOLEAN}
SecretFiles == {WithSecrets(how, keys, env, sec, exec) :
                  how \in {"none", "env", "file", "other"}, keys \in BoundKeys,
                  env \in {"absent", "list", "map"}, sec \in {"absent", "list", "map"},
                  exec \in BOOLEAN}
ComposeFiles ==
  NetworkFiles \cup IngressFiles \cup SecretFiles \cup {Blank, [Blank EXCEPT !.namedVolumes = TRUE]}

VARIABLES
  composeFile, hadDeployment,      \* the input: the file, and an active deployment
  swarmNets, otherNetworkOps,
  renderPhase,
  exposedHere,                     \* Manifest.Expose after ForEnvironment
  wrapping,                        \* WrapperConfig.UseWrapper
  renderedStack,
  netTodo,                         \* networks that ensureStackNetworks has yet to see
  runningOn,                       \* networks of the running service
  publishedRoute

renderVars == <<composeFile, hadDeployment, swarmNets, otherNetworkOps, renderPhase, exposedHere,
                wrapping, renderedStack, netTodo, runningOn, publishedRoute>>
renderInput == <<composeFile, hadDeployment>>

NoRendering == [service |-> "", attached |-> {}, definitions |-> [k \in NetKeys |-> "none"],
                secrets |-> {}, mappings |-> {}]

RenderingInit(files) ==
  /\ composeFile \in files
  /\ hadDeployment \in BOOLEAN
  /\ hadDeployment => composeFile.attachForm = "absent"
  /\ swarmNets \in {[n \in NetNames |-> "absent"], [n \in NetNames |-> "overlay"],
                    [n \in NetNames |-> IF n = "x" THEN "bridge" ELSE "absent"]}
  /\ otherNetworkOps = 0
  /\ renderPhase = "load"
  /\ exposedHere = NotExposed
  /\ wrapping = FALSE
  /\ renderedStack = NoRendering
  /\ netTodo = {}
  /\ runningOn = {}
  /\ publishedRoute = ""

Ended(how) == /\ renderPhase' = how
              /\ UNCHANGED <<exposedHere, wrapping, renderedStack, netTodo, runningOn, publishedRoute>>

-----------------------------------------------------------------------------
\* normalizeIngress: a hostname or an explicit blue_green enables the route.
Normalized(ingress) ==
  [ingress EXCEPT !.enabled = @ \/ ingress.domain \/ ingress.blueGreen = "true"]

\* composeManifest: with routes per environment, the flat one does not count.
FlatIngress == IF DOMAIN composeFile.perEnvironment = {} THEN Normalized(composeFile.flat)
                                                         ELSE NotExposed
EnvironmentIngress(e) == Normalized(composeFile.perEnvironment[e])

\* ForEnvironment: an environment that is not mapped has no route.
ForEnvironment(e) ==
  IF DOMAIN composeFile.perEnvironment = {} THEN FlatIngress
  ELSE IF e \in DOMAIN composeFile.perEnvironment THEN EnvironmentIngress(e)
  ELSE NotExposed

InternalOnly(ingress) == ingress.blueGreen = "true" /\ ~ingress.domain

\* validateIngressEnvironment, and the same of the flat route
ValidIngress(ingress) ==
  /\ InternalOnly(ingress) => ~ingress.tls
  /\ ingress.enabled => ingress.domain \/ InternalOnly(ingress)
  /\ ingress.blueGreen = "true" => ingress.enabled

AllIngresses == {FlatIngress} \cup {EnvironmentIngress(e) : e \in DOMAIN composeFile.perEnvironment}
AnyIngressEnabled == \E i \in AllIngresses : i.enabled

\* EnvSecrets.Validate
KnownResolution == composeFile.resolution \in {"none", "env", "file"}

\* validateComposeCompatibility
PortsConflict == FlatIngress.enabled /\ composeFile.ports

Valid ==
  /\ AnyIngressEnabled => composeFile.port
  /\ KnownResolution
  /\ \A i \in AllIngresses : ValidIngress(i)
  /\ ~PortsConflict

BlueGreenHere == exposedHere.enabled /\ exposedHere.blueGreen # "false" /\ hadDeployment

\* LoadService and ForEnvironment
LoadCompose ==
  /\ renderPhase = "load"
  /\ IF ~Valid THEN Ended("rejected")
     ELSE /\ exposedHere' = ForEnvironment("here")
          /\ renderPhase' = "wrap"
          /\ UNCHANGED <<wrapping, renderedStack, netTodo, runningOn, publishedRoute>>
  /\ UNCHANGED <<renderInput, swarmNets, otherNetworkOps>>

\* BuildWrapperConfig
NeedsWrapper == composeFile.resolution = "env" /\ composeFile.bindings # {}

\* Named volumes end a blue/green deploy. An
\* image is pulled, inspected, wrapped and pushed, or one of these fails; an image
\* that neither it nor the service says how to run cannot be wrapped.
WrapImage ==
  /\ renderPhase = "wrap"
  /\ \/ /\ BlueGreenHere /\ composeFile.namedVolumes
        /\ Ended("failed")
     \/ NeedsWrapper /\ Ended("failed")
     \/ /\ ~(BlueGreenHere /\ composeFile.namedVolumes)
        /\ NeedsWrapper => composeFile.executable
        /\ wrapping' = NeedsWrapper
        /\ renderPhase' = "render"
        /\ UNCHANGED <<exposedHere, renderedStack, netTodo, runningOn, publishedRoute>>
  /\ UNCHANGED <<renderInput, swarmNets, otherNetworkOps>>

-----------------------------------------------------------------------------
\* Mutant: networks given as a mapping are taken to name the environment network.
Attachments_ListOnly ==
  IF composeFile.attachForm = "map" THEN composeFile.attachKeys
                                    ELSE composeFile.attachKeys \cup {EnvNet}

\* setEnvironmentNetwork: the networks of the service.
Attachments == composeFile.attachKeys \cup {EnvNet}

\* setEnvironmentNetwork: networks without a definition are shared overlays, the
\* environment's is one whatever was left open.
NetworkDefinitions ==
  [k \in NetKeys |->
     IF k = EnvNet \/ (k \in Attachments /\ composeFile.definitions[k] = "none")
       THEN "external" ELSE composeFile.definitions[k]]
ConflictingDefinition == composeFile.definitions[EnvNet] \in {"elsewhere", "owned"}

\* appendSecrets: a service whose secrets are no list keeps them as they are.
MountedSecrets == IF composeFile.secretsForm = "map" THEN {} ELSE composeFile.bindings

\* applyWrapper: a service whose environment is a list gets no mappings.
SecretMappings == IF wrapping /\ composeFile.environmentForm # "list" THEN composeFile.bindings
                                                                      ELSE {}

SwarmName(key) == CASE NetworkDefinitions[key] = "external"  -> key
                    [] NetworkDefinitions[key] = "elsewhere" -> "y"
                    [] OTHER -> "own"
SharedNames == {SwarmName(k) : k \in Attachments} \ {"own"}

\* writeStackForService, renderComposeStack
WriteStack ==
  /\ renderPhase = "render"
  /\ IF ConflictingDefinition THEN Ended("failed")
     ELSE /\ renderedStack' = [service     |-> IF BlueGreenHere THEN "app" ELSE "stable",
                           attached    |-> Attachments,
                           definitions |-> NetworkDefinitions,
                           secrets     |-> MountedSecrets,
                           mappings    |-> SecretMappings]
          /\ netTodo' = SharedNames
          /\ renderPhase' = "networks"
          /\ UNCHANGED <<exposedHere, wrapping, runningOn, publishedRoute>>
  /\ UNCHANGED <<renderInput, swarmNets, otherNetworkOps>>

\* ensureNetwork: the network was not there.
Creating(n) == CASE n = EnvNet -> "create env" [] n = "x" -> "create x" [] n = "y" -> "create y"

\* ensureNetwork: one that is there must be an overlay of the Swarm.
InspectNetwork ==
  /\ renderPhase = "networks"
  /\ \E n \in netTodo :
       IF swarmNets[n] = "bridge" THEN Ended("failed")
       ELSE IF swarmNets[n] = "overlay"
         THEN /\ netTodo' = netTodo \ {n}
              /\ UNCHANGED <<renderPhase, exposedHere, wrapping, renderedStack, runningOn, publishedRoute>>
         ELSE /\ renderPhase' = Creating(n)
              /\ UNCHANGED <<exposedHere, wrapping, renderedStack, netTodo, runningOn, publishedRoute>>
  /\ UNCHANGED <<renderInput, swarmNets, otherNetworkOps>>

\* ensureNetwork: the creation, and another look when it fails.
CreateNetwork ==
  \E n \in netTodo :
    /\ renderPhase = Creating(n)
    /\ \/ /\ swarmNets[n] = "absent"
          /\ swarmNets' = [swarmNets EXCEPT ![n] = "overlay"]
          /\ netTodo' = netTodo \ {n}
          /\ renderPhase' = "networks"
          /\ UNCHANGED <<exposedHere, wrapping, renderedStack, runningOn, publishedRoute>>
       \/ /\ swarmNets[n] = "overlay"
          /\ netTodo' = netTodo \ {n}
          /\ renderPhase' = "networks"
          /\ UNCHANGED <<swarmNets, exposedHere, wrapping, renderedStack, runningOn, publishedRoute>>
       \/ /\ swarmNets[n] # "overlay"
          /\ Ended("failed")
          /\ UNCHANGED swarmNets
    /\ UNCHANGED <<renderInput, otherNetworkOps>>

-----------------------------------------------------------------------------
\* docker stack deploy and the rollout: external networks must be there.
DeployRendered ==
  LET names == {SwarmName(k) : k \in renderedStack.attached} IN
  /\ renderPhase = "networks"
  /\ netTodo = {}
  /\ \/ /\ \A n \in names \ {"own"} : swarmNets[n] = "overlay"
        /\ runningOn' = names
        /\ renderPhase' = "route"
        /\ UNCHANGED <<exposedHere, wrapping, renderedStack, netTodo, publishedRoute>>
     \/ Ended("failed")
  /\ UNCHANGED <<renderInput, swarmNets, otherNetworkOps>>

\* EnsureNetwork and Reconcile of the ingress, updateRoute with validateExposure.
PublishRoute ==
  /\ renderPhase = "route"
  /\ \/ Ended("failed")
     \/ ~exposedHere.enabled /\ Ended("running")
     \/ /\ exposedHere.enabled
        /\ ValidIngress(exposedHere)
        /\ swarmNets[EnvNet] = "overlay"
        /\ publishedRoute' = IF BlueGreenHere THEN "app" ELSE "stable"
        /\ renderPhase' = "routed"
        /\ UNCHANGED <<exposedHere, wrapping, renderedStack, netTodo, runningOn>>
  /\ UNCHANGED <<renderInput, swarmNets, otherNetworkOps>>

\* Somebody creates a network, or removes one that no running service uses.
OtherNetwork ==
  /\ otherNetworkOps < MaxNetworkOps
  /\ renderPhase \notin {"load", "wrap", "render", "rejected", "failed"}
  /\ otherNetworkOps' = otherNetworkOps + 1
  /\ \E n \in NetNames :
       \/ /\ swarmNets[n] = "absent"
          /\ \E kind \in {"overlay", "bridge"} : swarmNets' = [swarmNets EXCEPT ![n] = kind]
       \/ /\ swarmNets[n] # "absent"
          /\ n \notin runningOn
          /\ swarmNets' = [swarmNets EXCEPT ![n] = "absent"]
  /\ UNCHANGED <<renderInput, renderPhase, exposedHere, wrapping, renderedStack, netTodo, runningOn,
                 publishedRoute>>

RenderingNext ==
  \/ LoadCompose \/ WrapImage \/ WriteStack \/ InspectNetwork \/ CreateNetwork \/ DeployRendered
  \/ PublishRoute \/ OtherNetwork

RenderingSpec == RenderingInit(ComposeFiles) /\ [][RenderingNext]_renderVars

-----------------------------------------------------------------------------
RenderingTypeOK ==
  /\ swarmNets \in [NetNames -> {"absent", "overlay", "bridge"}]
  /\ renderPhase \in {"load", "wrap", "render", "networks", "route", "rejected", "failed", "running",
                      "routed"} \cup {Creating(n) : n \in NetNames}
  /\ netTodo \subseteq NetNames /\ runningOn \subseteq NetNames \cup {"own"}
  /\ renderedStack.attached \subseteq NetKeys /\ publishedRoute \in {"", "app", "stable"}

\* What the Compose file asks of the route in this environment.
WantsRoute ==
  LET per   == composeFile.perEnvironment
      asked == IF DOMAIN per = {} THEN {composeFile.flat}
               ELSE {per[e] : e \in DOMAIN per \cap {"here"}} IN
  \E i \in asked : i.enabled \/ i.domain \/ i.blueGreen = "true"

\* A deploy that ends well has a route exactly when the Compose file asks for one in
\* this environment, and then the route names the service of the stack, which runs on
\* the environment's network, an overlay of the Swarm; in every case the service runs
\* on the networks that the file lists, as the file defines them, and what it may read
\* of its secrets is there, in the form its resolution asks for; but for a file whose
\* environment is a list or whose secrets are no list.
RouteReachesService ==
  renderPhase \in {"running", "routed"} =>
    /\ renderPhase = "routed" <=> WantsRoute
    /\ WantsRoute => /\ composeFile.port
                     /\ publishedRoute = renderedStack.service
    /\ EnvNet \in runningOn /\ swarmNets[EnvNet] = "overlay"
    /\ \A k \in composeFile.attachKeys :
         LET defined == composeFile.definitions[k] IN
         \/ k = EnvNet
         \/ defined \in {"none", "external"} /\ k \in runningOn
         \/ defined = "elsewhere" /\ "y" \in runningOn
         \/ defined \in {"null", "owned"} /\ "own" \in runningOn
    /\ composeFile.secretsForm # "map" => renderedStack.secrets = composeFile.bindings
    /\ composeFile.resolution = "env" /\ composeFile.environmentForm # "list" =>
         renderedStack.mappings = composeFile.bindings
=============================================================================
