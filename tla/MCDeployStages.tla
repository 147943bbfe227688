--------------------------- MODULE MCDeployStages ---------------------------
(***************************************************************************)
(* The stages of a deploy around the rollout, for TLC: the services that   *)
(* are selected, the environment of one, the stack file, the wait for its  *)
(* tasks, the names that are swept. The modules share no state, so each    *)
(* behaviour plays one of them, its stage, while the others rest.          *)
(***************************************************************************)
EXTENDS RolloutMonitor, EnvironmentFiles, MCAppNames, ReleaseTargets, StackRendering

\* The items of an env file that resolve tells apart.
Refers(own, from) ==
  [value    |-> CASE own \in {"value", "both", "all"} -> "set"
                  [] own = "empty"                  -> "empty"
                  [] OTHER                          -> "unset",
   values   |-> CASE own \in {"here", "both", "all"} -> {"here"}
                  [] own = "there"                  -> {"there"}
                  [] OTHER                          -> {},
   isSecret |-> own \in {"secret", "all"}, from |-> from, count |-> 1]
Owns    == {"nothing", "value", "empty", "here", "there", "both", "secret", "all"}
Missing == [Refers("nothing", NoRef) EXCEPT !.count = 0]
Twice   == [Refers("value", NoRef) EXCEPT !.count = 2]

\* Two items of the service's file, the second one plainly from the config; the
\* items of the config may refer to each other and back.
TwoKeys   == <<"k", "l">>
SomeFiles ==
  {[app    |-> [k |-> ak, l |-> Refers("nothing", <<"config", "l">>)],
    config |-> [k |-> ck, l |-> cl]] :
     ak \in {Refers(o, r) : o \in Owns, r \in {NoRef, <<"config", "k">>}},
     ck \in {Refers(o, r) : o \in Owns, r \in {NoRef, <<"config", "l">>, <<"app", "k">>}}
              \cup {Missing, Twice},
     cl \in {Refers("value", NoRef), Refers("secret", NoRef), Missing,
             Refers("there", <<"config", "k">>)}}
EmptyFiles == {[f \in Files |-> [key \in EnvKeys |-> Missing]]}

VARIABLE stage

stageVars == <<vars, envVars, namesVars, targetVars, renderVars, stage>>

\* A wait that was cancelled before its first round.
WaitOver ==
  /\ now = 0 /\ until = 0 /\ monitorDeadline = 0
  /\ update = "" /\ seenUpdate = "" /\ specOK = TRUE /\ seenSpec = FALSE
  /\ task = [t \in Tasks |-> "absent"] /\ seenTask = task
  /\ converged = FALSE /\ unstable = FALSE /\ initial = {} /\ known = {}
  /\ cancelled = TRUE /\ pc = "ended" /\ outcome = "error"
  /\ quiet = FALSE /\ faulted = FALSE

\* No app has been deployed, and nothing happens to the files.
NamesAtRest ==
  /\ catalogued = Manifests
  /\ ~routed
  /\ swarmStacks = {}
  /\ <<"b">> \in Names("p")

StageInit ==
  /\ stage \in {"targets", "environment", "rendering", "wait", "names"}
  /\ IF stage = "wait" THEN Init ELSE WaitOver
  /\ EnvironmentInit(IF stage = "environment" THEN FileContents ELSE EmptyFiles)
  /\ stage # "environment" => resolvable = {}
  /\ NamesInit
  /\ stage # "names" => NamesAtRest
  /\ TargetsInit(IF stage = "targets" THEN AllTargets ELSE OneTarget)
  /\ stage # "targets" => latestTag[1] = 0
  /\ RenderingInit(IF stage = "rendering" THEN ComposeFiles ELSE {Blank})
  /\ stage # "rendering" => ~hadDeployment /\ \A n \in NetNames : swarmNets[n] = "absent"

StageNext ==
  /\ UNCHANGED stage
  /\ \/ /\ stage = "wait"
        /\ Next
        /\ UNCHANGED <<envVars, namesVars, targetVars, renderVars>>
     \/ /\ stage = "environment"
        /\ EnvironmentNext
        /\ UNCHANGED <<vars, namesVars, targetVars, renderVars>>
     \/ /\ stage = "names"
        /\ NamesNext
        /\ UNCHANGED <<vars, envVars, targetVars, renderVars>>
     \/ /\ stage = "targets"
        /\ TargetsNext
        /\ UNCHANGED <<vars, envVars, namesVars, renderVars>>
     \/ /\ stage = "rendering"
        /\ RenderingNext
        /\ UNCHANGED <<vars, envVars, namesVars, targetVars>>

\* A wait that is over has no step that fairness would ask for.
StageSpec == StageInit /\ [][StageNext]_stageVars /\ WaitFairness

\* Every module's types.
StageTypeOK == TypeOK /\ EnvironmentTypeOK /\ NamesTypeOK /\ TargetsTypeOK /\ RenderingTypeOK
=============================================================================
