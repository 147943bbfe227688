-------------------------- MODULE RetentionProofs --------------------------
(***************************************************************************)
(* Proofs about Retention, for any apps, digests, processes and bounds.    *)
(***************************************************************************)
EXTENDS Retention, SequenceTheorems, TLAPS

-----------------------------------------------------------------------------
(* Sequences of records *)

\* Appending a record adds it to the records.
LEMMA AppendRecord ==
  ASSUME NEW S, NEW s \in Seq(S), NEW x \in S
  PROVE  /\ Append(s, x) \in Seq(S)
         /\ ToSet(Append(s, x)) = ToSet(s) \cup {x}
<1>1. Append(s, x) \in Seq(S)
  OBVIOUS
<1>2. /\ DOMAIN Append(s, x) = DOMAIN s \cup {Len(s) + 1}
      /\ \A i \in DOMAIN s : Append(s, x)[i] = s[i]
      /\ Append(s, x)[Len(s) + 1] = x
  OBVIOUS
<1>3. ToSet(Append(s, x)) = ToSet(s) \cup {x}
  BY <1>2 DEF ToSet
<1> QED BY <1>1, <1>3

\* Removing a record adds none, and removes no other.
LEMMA RemoveRecord ==
  ASSUME NEW S, NEW s \in Seq(S), NEW i \in DOMAIN s
  PROVE  /\ RemoveAt(s, i) \in Seq(S)
         /\ ToSet(RemoveAt(s, i)) \subseteq ToSet(s)
         /\ ToSet(s) \ {s[i]} \subseteq ToSet(RemoveAt(s, i))
<1> DEFINE u == SubSeq(s, 1, i - 1)
           v == SubSeq(s, i + 1, Len(s))
<1>0. i \in 1 .. Len(s)
  OBVIOUS
<1>1. /\ u \in Seq(S) /\ \A j \in DOMAIN u : u[j] \in ToSet(s)
      /\ \A j \in 1 .. (i - 1) : j \in DOMAIN u /\ u[j] = s[j]
  BY <1>0 DEF ToSet
<1>2. /\ v \in Seq(S) /\ \A j \in DOMAIN v : v[j] \in ToSet(s)
  BY <1>0 DEF ToSet
<1>6. \A j \in (i + 1) .. Len(s) : j - i \in DOMAIN v /\ v[j - i] = s[j]
  <2>1. Len(v) = Len(s) - i /\ \A k \in 1 .. (Len(s) - i) : v[k] = s[i + k]
    BY <1>0
  <2> QED BY <1>0, <1>2, <2>1
<1> HIDE DEF u, v
<1>3. u \o v \in Seq(S) /\ \A j \in DOMAIN (u \o v) : (u \o v)[j] \in ToSet(s)
  BY <1>1, <1>2
<1>4. RemoveAt(s, i) = u \o v
  BY DEF RemoveAt, u, v
<1>5. ASSUME NEW j \in DOMAIN s, j # i
      PROVE  s[j] \in ToSet(u \o v)
  <2>1. CASE j < i
    <3>1. j \in DOMAIN u /\ u[j] = s[j]
      BY <1>1, <2>1
    <3>2. j \in DOMAIN (u \o v) /\ (u \o v)[j] = u[j]
      BY <1>1, <1>2, <3>1
    <3> QED BY <3>1, <3>2 DEF ToSet
  <2>2. CASE j > i
    <3>1. j - i \in DOMAIN v /\ v[j - i] = s[j]
      BY <1>0, <1>6, <2>2
    <3>2. Len(u) + (j - i) \in DOMAIN (u \o v) /\ (u \o v)[Len(u) + (j - i)] = v[j - i]
      BY <1>1, <1>2, <3>1
    <3> QED BY <3>1, <3>2 DEF ToSet
  <2> QED BY <1>0, <1>5, <2>1, <2>2
<1> QED BY <1>3, <1>4, <1>5 DEF ToSet

\* So does forgetting the record of a tag.
LEMMA ForgetRecord ==
  ASSUME NEW S, NEW s \in Seq(S), NEW tag
  PROVE  /\ Forget(s, tag) \in Seq(S)
         /\ ToSet(Forget(s, tag)) \subseteq ToSet(s)
<1>1. CASE \E i \in DOMAIN s : s[i].tag = tag
  <2>1. (CHOOSE i \in DOMAIN s : s[i].tag = tag) \in DOMAIN s
    BY <1>1
  <2> QED BY <1>1, <2>1, RemoveRecord DEF Forget
<1>2. CASE ~\E i \in DOMAIN s : s[i].tag = tag
  BY <1>2 DEF Forget
<1> QED BY <1>1, <1>2

-----------------------------------------------------------------------------
(* Types *)

\* The locals of an idle process.
LEMMA NoCommandType ==
  ASSUME RetentionAssumption
  PROVE  /\ NoCommand \in Commands
         /\ NoCommand.scope = Everything /\ ~NoCommand.orphaned
<1>1. (CHOOSE a \in Apps : TRUE) \in Apps
  BY DEF RetentionAssumption
<1> QED BY <1>1 DEF NoCommand, Commands

\* References that records and live services name are references.
LEMMA KeptTypes ==
  ASSUME RetentionAssumption, TypeOK, NEW scope, NEW orphans
  PROVE  /\ KeptReleases(scope, orphans) \subseteq Refs
         /\ KeptDeployments(scope, orphans) \subseteq Refs
         /\ LiveRefs \subseteq Refs \cup {NoRef}
         /\ LiveWrappers \subseteq Refs \cup {NoRef}
<1>1. \A a \in Apps : ToSet(releases[a]) \subseteq Refs /\ Newest(releases[a], Keep) \subseteq Refs
  BY DEF TypeOK, ToSet, Newest
<1>2. \A a \in Apps : /\ ToSet(deployments[a]) \subseteq Deployments
                      /\ NewestSuccesses(a, Keep) \subseteq Deployments
  <2> SUFFICES ASSUME NEW a \in Apps
               PROVE  /\ ToSet(deployments[a]) \subseteq Deployments
                      /\ NewestSuccesses(a, Keep) \subseteq Deployments
    OBVIOUS
  <2>1. \A k \in DOMAIN deployments[a] : deployments[a][k] \in Deployments
    BY DEF TypeOK
  <2>2. ToSet(deployments[a]) \subseteq Deployments
    BY <2>1 DEF ToSet
  <2>3. \A j \in Successes(a) : deployments[a][j] \in Deployments
    BY <2>1 DEF Successes
  <2>4. NewestSuccesses(a, Keep) \subseteq Deployments
    BY <2>3, Zenon DEF NewestSuccesses
  <2> QED BY <2>2, <2>4
<1>3. KeptReleases(scope, orphans) \subseteq Refs
  BY <1>1 DEF KeptReleases
<1>4. \A d \in Deployments : DeploymentRef(d) \in Refs
  BY DEF DeploymentRef, Deployments, Refs
<1>5. KeptDeployments(scope, orphans) \subseteq Refs
  BY <1>2, <1>4 DEF KeptDeployments
<1>6. LiveRefs \subseteq Refs \cup {NoRef} /\ LiveWrappers \subseteq Refs \cup {NoRef}
  BY DEF RetentionAssumption, TypeOK, LiveRefs, LiveWrappers
<1> QED BY <1>3, <1>5, <1>6

\* What a plan puts into the locals.
LEMMA PlanTypes ==
  ASSUME RetentionAssumption, TypeOK, NEW scope \in Apps \cup {Everything}, NEW orphans
  PROVE  /\ CandidateTags(scope, orphans) \subseteq Tags
         /\ CandidateWrappers(scope) \subseteq Refs
         /\ ProtectedDigests(scope, orphans) \subseteq Digests
         /\ Expired(releases, scope, orphans) \subseteq Refs
         /\ Expired(deployments, scope, orphans) \subseteq Deployments
<1>1. \A a \in Apps : /\ ToSet(releases[a]) \subseteq Refs
                      /\ ToSet(deployments[a]) \subseteq Deployments
  BY DEF TypeOK, ToSet
<1>2. CandidateTags(scope, orphans) \subseteq Tags
  <2>1. \A r \in Refs : r.tag \in Tags
    BY DEF Refs
  <2> QED BY <1>1, <2>1 DEF CandidateTags
<1>3. CandidateWrappers(scope) \subseteq Refs
  BY DEF TypeOK, CandidateWrappers
<1>4. ProtectedDigests(scope, orphans) \subseteq Digests
  <2>1. \A r \in KeptReleases(scope, orphans) : tagged[r.tag] \in Digests \cup {None}
    <3>1. KeptReleases(scope, orphans) \subseteq Refs
      BY KeptTypes
    <3> QED BY <3>1 DEF TypeOK, Refs
  <2> QED BY <2>1 DEF TypeOK, ProtectedDigests
<1>5. /\ Expired(releases, scope, orphans) \subseteq Refs
      /\ Expired(deployments, scope, orphans) \subseteq Deployments
  BY <1>1 DEF Expired
<1> QED BY <1>2, <1>3, <1>4, <1>5

\* Every step keeps the types.
LEMMA TypeStep ==
  ASSUME RetentionAssumption, TypeOK, [Next]_vars
  PROVE  TypeOK'
<1> DEFINE Clean == NoCommand \in Commands /\ NoCommand.scope = Everything /\ ~NoCommand.orphaned
<1>a. Clean
  BY NoCommandType
<1>1. ASSUME NEW p \in Procs, NEW a \in Apps, NEW n \in Numbers, NEW force \in BOOLEAN,
             StartRelease(p, a, n, force)
      PROVE  TypeOK'
  <2>1. PICK d \in Digests :
          cmd' = [cmd EXCEPT ![p] = [NoCommand EXCEPT !.app = a, !.scope = a,
                                        !.ref = [tag |-> <<a, n>>, digest |-> d]]]
    BY <1>1 DEF StartRelease
  <2> DEFINE r == [tag |-> <<a, n>>, digest |-> d]
  <2>2. r \in Refs /\ r # NoRef
    BY DEF Refs, Tags, NoRef, RetentionAssumption
  <2> HIDE DEF r
  <2>3. /\ [NoCommand EXCEPT !.app = a, !.scope = a, !.ref = r] \in Commands
        /\ [NoCommand EXCEPT !.app = a, !.scope = a, !.ref = r].ref = r
        /\ ~[NoCommand EXCEPT !.app = a, !.scope = a, !.ref = r].orphaned
    BY <1>a, <2>2 DEF Commands
  <2>4. /\ cmd' \in [Procs -> Commands] /\ cmd'[p].ref # NoRef /\ ~cmd'[p].orphaned
        /\ \A q \in Procs \ {p} : cmd'[q] = cmd[q]
    BY <2>1, <2>2, <2>3 DEF TypeOK, r
  <2> QED BY <1>1, <2>4
         DEF StartRelease, Begin, At, Goto, TypeOK, Locked, files, registry, swarm, history,
             RetentionAssumption
<1>2. ASSUME NEW p \in Procs, Push(p) PROVE TypeOK'
  <2>1. cmd[p].ref \in Refs
    BY <1>2 DEF Push, At, TypeOK, Commands
  <2>2. cmd[p].ref.tag \in Tags /\ cmd[p].ref.digest \in Digests
    BY <2>1 DEF Refs
  <2>3. tagged' \in [Tags -> Digests \cup {None}]
    BY <1>2, <2>2 DEF Push, TypeOK
  <2>4. spoiled' \subseteq Tags /\ manifests' \subseteq Digests
    BY <1>2, <2>2 DEF Push, TypeOK
  <2> QED BY <1>2, <2>3, <2>4 DEF Push, At, Goto, TypeOK, Locked, files, swarm, limits
<1>3. ASSUME NEW p \in Procs, SaveMetadata(p) PROVE TypeOK'
  <2> DEFINE a == cmd[p].app
             r == cmd[p].ref
  <2>1. r \in Refs /\ a \in Apps
    BY <1>3 DEF SaveMetadata, At, TypeOK, Commands
  <2>2. releases[a] \in Seq(Refs)
    BY <2>1 DEF TypeOK
  <2>3. Forget(releases[a], r.tag) \in Seq(Refs)
    BY <2>2, ForgetRecord
  <2>4. Append(Forget(releases[a], r.tag), r) \in Seq(Refs)
    BY <2>1, <2>3, AppendRecord
  <2>5. releases' \in [Apps -> Seq(Refs)]
    BY <1>3, <2>4 DEF SaveMetadata, TypeOK
  <2> QED BY <1>3, <2>5 DEF SaveMetadata, At, Goto, TypeOK, Locked, registry, swarm, limits, history
<1>4. ASSUME NEW p \in Procs, Retain(p) PROVE TypeOK'
  BY <1>4 DEF Retain, At, Goto, TypeOK, Locked, files, registry, swarm, limits, history
<1>5. ASSUME NEW p \in Procs, NEW orphaned \in BOOLEAN, StartCleanup(p, orphaned) PROVE TypeOK'
  <2>1. /\ [NoCommand EXCEPT !.orphaned = orphaned] \in Commands
        /\ [NoCommand EXCEPT !.orphaned = orphaned].scope = Everything
    BY <1>a DEF Commands
  <2>2. /\ cmd' \in [Procs -> Commands] /\ cmd'[p].scope = Everything
        /\ \A q \in Procs \ {p} : cmd'[q] = cmd[q]
    BY <1>5, <2>1 DEF StartCleanup, TypeOK
  <2> QED BY <1>5, <2>2
         DEF StartCleanup, Begin, At, Goto, TypeOK, Locked, files, registry, swarm, history,
             RetentionAssumption
<1>6. ASSUME NEW p \in Procs, Plan(p) PROVE TypeOK'
  <2> DEFINE scope == cmd[p].scope
             orphans == Orphans(cmd[p].orphaned)
  <2>1. cmd[p] \in Commands
    BY DEF TypeOK
  <2>2. scope \in Apps \cup {Everything}
    BY <2>1 DEF Commands
  <2>3. /\ CandidateTags(scope, orphans) \subseteq Tags
        /\ CandidateWrappers(scope) \subseteq Refs
        /\ ProtectedDigests(scope, orphans) \subseteq Digests
        /\ Expired(releases, scope, orphans) \subseteq Refs
        /\ Expired(deployments, scope, orphans) \subseteq Deployments
    BY <2>2, PlanTypes
  <2>4. /\ cmd'[p] = [cmd[p] EXCEPT !.images = CandidateTags(scope, orphans),
                        !.wraps = CandidateWrappers(scope),
                        !.safe = ProtectedDigests(scope, orphans),
                        !.releases = Expired(releases, scope, orphans),
                        !.deployments = Expired(deployments, scope, orphans)]
        /\ \A q \in Procs \ {p} : cmd'[q] = cmd[q]
        /\ DOMAIN cmd' = Procs
        /\ cmd' = [q \in Procs |-> cmd'[q]]
    BY <1>6 DEF Plan, TypeOK
  <2> HIDE DEF scope, orphans
  <2>5. cmd'[p] \in Commands /\ cmd'[p].orphaned = cmd[p].orphaned /\ cmd'[p].scope = cmd[p].scope
    BY <2>1, <2>3, <2>4, ZenonT(30) DEF Commands
  <2>6. cmd' \in [Procs -> Commands]
    BY <2>4, <2>5 DEF TypeOK
  <2> QED BY <1>6, <2>4, <2>5, <2>6, ZenonT(30)
         DEF Plan, At, Goto, TypeOK, Locked, files, registry, swarm, limits, history
<1>7. ASSUME NEW p \in Procs, NEW t \in cmd[p].images, DeleteImage(p, t) PROVE TypeOK'
  <2>1. tagged' \in [Tags -> Digests \cup {None}] /\ manifests' \subseteq Digests
    BY <1>7 DEF DeleteImage, Without, TypeOK
  <2>2. cmd[p] \in Commands
    BY DEF TypeOK
  <2>3. /\ cmd' \in [Procs -> Commands]
        /\ \A q \in Procs : cmd'[q].orphaned = cmd[q].orphaned /\ cmd'[q].scope = cmd[q].scope /\ cmd'[q].ref = cmd[q].ref
    BY <1>7, <2>2 DEF DeleteImage, TypeOK, Commands
  <2> QED BY <1>7, <2>1, <2>3 DEF DeleteImage, TypeOK, files, swarm, limits, history
<1>8. ASSUME NEW p \in Procs, NEW r \in cmd[p].wraps, DeleteWrapper(p, r) PROVE TypeOK'
  <2>1. cmd[p] \in Commands
    BY DEF TypeOK
  <2>2. /\ cmd' \in [Procs -> Commands]
        /\ \A q \in Procs : cmd'[q].orphaned = cmd[q].orphaned /\ cmd'[q].scope = cmd[q].scope /\ cmd'[q].ref = cmd[q].ref
    BY <1>8, <2>1 DEF DeleteWrapper, TypeOK, Commands
  <2> QED BY <1>8, <2>2 DEF DeleteWrapper, TypeOK, files, swarm, limits, history
<1>9. ASSUME NEW p \in Procs, ImagesDeleted(p) PROVE TypeOK'
  <2>1. cmd[p] \in Commands
    BY DEF TypeOK
  <2>2. /\ cmd' \in [Procs -> Commands]
        /\ \A q \in Procs : cmd'[q].orphaned = cmd[q].orphaned /\ cmd'[q].scope = cmd[q].scope /\ cmd'[q].ref = cmd[q].ref
    BY <1>9, <2>1 DEF ImagesDeleted, TypeOK, Commands
  <2> QED BY <1>9, <2>2
         DEF ImagesDeleted, Goto, At, Locked, TypeOK, files, registry, swarm, limits, history
<1>10. ASSUME NEW p \in Procs, NEW a \in Apps, NEW i \in DOMAIN releases[a], RemoveRelease(p, a, i)
       PROVE  TypeOK'
  <2>1. releases[a] \in Seq(Refs)
    BY DEF TypeOK
  <2>2. RemoveAt(releases[a], i) \in Seq(Refs)
    BY <2>1, RemoveRecord
  <2>3. releases' \in [Apps -> Seq(Refs)]
    BY <1>10, <2>2 DEF RemoveRelease, TypeOK
  <2> QED BY <1>10, <2>3 DEF RemoveRelease, TypeOK, registry, swarm, limits, history
<1>11. ASSUME NEW p \in Procs, NEW a \in Apps, NEW i \in DOMAIN deployments[a], RemoveDeployment(p, a, i)
       PROVE  TypeOK'
  <2>1. deployments[a] \in Seq(Deployments)
    BY DEF TypeOK
  <2>2. RemoveAt(deployments[a], i) \in Seq(Deployments)
    BY <2>1, RemoveRecord
  <2>3. deployments' \in [Apps -> Seq(Deployments)]
    BY <1>11, <2>2 DEF RemoveDeployment, TypeOK
  <2> QED BY <1>11, <2>3 DEF RemoveDeployment, TypeOK, registry, swarm, limits, history
<1>12. ASSUME NEW p \in Procs, Done(p)
       PROVE  /\ cmd' \in [Procs -> Commands]
              /\ pc' \in [Procs -> Locked \cup {"idle", "retain", "rollback"}]
              /\ \A q \in Procs :
                   /\ pc'[q] \in {"push", "save", "rollback"} => cmd'[q].ref # NoRef
                   /\ cmd'[q].orphaned => cmd'[q].scope = Everything
  BY <1>12, <1>a DEF Done, Goto, TypeOK
<1>13. ASSUME NEW p \in Procs, FilesRemoved(p) PROVE TypeOK'
  <2>1. CASE cmd[p].collect
    BY <1>13, <2>1 DEF FilesRemoved, Goto, At, Locked, TypeOK, files, registry, swarm, limits, history
  <2>2. CASE ~cmd[p].collect
    BY <1>13, <2>2, <1>12 DEF FilesRemoved, TypeOK, files, registry, swarm, limits, history
  <2> QED BY <2>1, <2>2
<1>14. ASSUME NEW p \in Procs, ScaleDown(p) PROVE TypeOK'
  BY <1>14 DEF ScaleDown, Goto, At, Locked, TypeOK, files, swarm, limits, history
<1>15. ASSUME NEW p \in Procs, Collect(p) PROVE TypeOK'
  BY <1>15 DEF Collect, Goto, At, Locked, TypeOK, files, swarm, limits, history
<1>16. ASSUME NEW p \in Procs, ScaleUp(p) PROVE TypeOK'
  BY <1>16, <1>12 DEF ScaleUp, TypeOK, files, swarm, limits, history
<1>17. ASSUME NEW a \in Apps, NEW r \in Refs, DeploySucceeds(a, r) \/ DeployFails(a, r)
       PROVE  /\ deployments' \in [Apps -> Seq(Deployments)]
              /\ wrappers' \subseteq Refs
              /\ running' \in [Apps -> Refs \cup {NoRef}]
              /\ spare' \in [Apps -> Refs \cup {NoRef}]
  <2>1. PICK ok \in BOOLEAN : Recorded(a, r, ok)
    BY <1>17 DEF DeploySucceeds, DeployFails
  <2> DEFINE d == [tag |-> r.tag, digest |-> r.digest, ok |-> ok]
  <2>2. deployments[a] \in Seq(Deployments) /\ d \in Deployments
    BY DEF TypeOK, Refs, Deployments
  <2>3. Append(deployments[a], d) \in Seq(Deployments)
    BY <2>2, AppendRecord
  <2>4. deployments' \in [Apps -> Seq(Deployments)]
    BY <2>1, <2>3 DEF Recorded, TypeOK
  <2>5. wrappers' \subseteq Refs
    <3>1. Wrap(a, r)
      BY <1>17 DEF DeploySucceeds, DeployFails
    <3> QED BY <3>1 DEF Wrap, TypeOK
  <2>6. /\ running' \in [Apps -> Refs \cup {NoRef}]
        /\ spare' \in [Apps -> Refs \cup {NoRef}]
    <3>1. running[a] \in Refs \cup {NoRef}
      BY DEF TypeOK
    <3>2. CASE /\ running' = [running EXCEPT ![a] = r]
               /\ \E old \in {NoRef, running[a]} : spare' = [spare EXCEPT ![a] = old]
      BY <3>1, <3>2 DEF TypeOK
    <3>3. CASE running' = running /\ spare' = spare
      BY <3>3 DEF TypeOK
    <3>4. CASE running' = running /\ spare' = [spare EXCEPT ![a] = r]
      BY <3>4 DEF TypeOK
    <3> QED BY <1>17, <3>2, <3>3, <3>4 DEF DeploySucceeds, DeployFails, swarm
  <2> QED BY <2>4, <2>5, <2>6
<1>18. ASSUME NEW p \in Procs, NEW a \in Apps, Deploy(p, a) PROVE TypeOK'
  <2>1. PICK r \in Latest(a) : DeploySucceeds(a, r) \/ DeployFails(a, r)
    BY <1>18 DEF Deploy
  <2>2. r \in Refs
    BY DEF Latest, TypeOK
  <2>3. /\ deployments' \in [Apps -> Seq(Deployments)]
        /\ wrappers' \subseteq Refs
        /\ running' \in [Apps -> Refs \cup {NoRef}]
        /\ spare' \in [Apps -> Refs \cup {NoRef}]
    BY <1>17, <2>1, <2>2
  <2> QED BY <1>18, <2>3 DEF Deploy, Begin, TypeOK, history, RetentionAssumption
<1>19. ASSUME NEW p \in Procs, NEW a \in Apps, ChooseRollback(p, a) PROVE TypeOK'
  <2>1. PICK d \in Previous(a) :
          cmd' = [cmd EXCEPT ![p] = [NoCommand EXCEPT !.app = a, !.ref = DeploymentRef(d)]]
    BY <1>19 DEF ChooseRollback
  <2>2. \A k \in Successes(a) : deployments[a][k] \in Deployments
    BY DEF Successes, TypeOK
  <2>3. d \in Deployments
    BY <2>2, Zenon DEF Previous
  <2> DEFINE r == DeploymentRef(d)
  <2>4. r \in Refs /\ r # NoRef
    BY <2>3 DEF DeploymentRef, Deployments, Refs, NoRef, RetentionAssumption
  <2> HIDE DEF r
  <2>5. /\ [NoCommand EXCEPT !.app = a, !.ref = r] \in Commands
        /\ [NoCommand EXCEPT !.app = a, !.ref = r].ref = r
        /\ ~[NoCommand EXCEPT !.app = a, !.ref = r].orphaned
    BY <1>a, <2>4 DEF Commands
  <2>6. /\ cmd' \in [Procs -> Commands] /\ cmd'[p].ref # NoRef /\ ~cmd'[p].orphaned
        /\ \A q \in Procs \ {p} : cmd'[q] = cmd[q]
    BY <2>1, <2>4, <2>5 DEF TypeOK, r
  <2> QED BY <1>19, <2>6
         DEF ChooseRollback, Begin, At, Goto, TypeOK, Locked, files, registry, swarm, history,
             RetentionAssumption
<1>20. ASSUME NEW p \in Procs, Rollback(p) PROVE TypeOK'
  <2> DEFINE a == cmd[p].app
  <2>1. a \in Apps
    BY DEF TypeOK, Commands
  <2>2. \A r \in RecordOf(a, cmd[p].ref.tag) : r \in Refs
    BY <2>1 DEF RecordOf, ToSet, TypeOK
  <2>3. /\ deployments' \in [Apps -> Seq(Deployments)]
        /\ wrappers' \subseteq Refs
        /\ running' \in [Apps -> Refs \cup {NoRef}]
        /\ spare' \in [Apps -> Refs \cup {NoRef}]
    <3>1. CASE UNCHANGED <<deployments, wrappers, swarm>>
      BY <3>1 DEF TypeOK, swarm
    <3>2. CASE \E r \in RecordOf(a, cmd[p].ref.tag) : DeploySucceeds(a, r) \/ DeployFails(a, r)
      BY <3>2, <2>1, <2>2, <1>17
    <3> QED BY <1>20, <3>1, <3>2 DEF Rollback
  <2> QED BY <1>20, <2>3, <1>12 DEF Rollback, TypeOK, limits, history
<1>21. ASSUME NEW p \in Procs, NEW a \in Apps, StartRemove(p, a) PROVE TypeOK'
  <2>1. {r.tag : r \in ToSet(releases[a])} \subseteq Tags
    <3>1. ToSet(releases[a]) \subseteq Refs
      BY DEF TypeOK, ToSet
    <3> QED BY <3>1 DEF Refs
  <2> DEFINE tags == {r.tag : r \in ToSet(releases[a])}
  <2> HIDE DEF tags
  <2>2. /\ [NoCommand EXCEPT !.app = a, !.images = tags] \in Commands
        /\ ~[NoCommand EXCEPT !.app = a, !.images = tags].orphaned
    BY <1>a, <2>1 DEF Commands, tags
  <2>3. /\ cmd' \in [Procs -> Commands] /\ ~cmd'[p].orphaned
        /\ \A q \in Procs \ {p} : cmd'[q] = cmd[q]
    BY <1>21, <2>2 DEF StartRemove, TypeOK, tags
  <2>4. /\ running' \in [Apps -> Refs \cup {NoRef}]
        /\ spare' \in [Apps -> Refs \cup {NoRef}]
    BY <1>21 DEF StartRemove, TypeOK
  <2> QED BY <1>21, <2>3, <2>4
         DEF StartRemove, Begin, At, Goto, TypeOK, Locked, files, registry, history,
             RetentionAssumption
<1>22. ASSUME NEW p \in Procs, NEW t \in cmd[p].images, RemoveImage(p, t) PROVE TypeOK'
  <2>1. /\ tagged' \in [Tags -> Digests \cup {None}] /\ manifests' \subseteq Digests
        /\ spoiled' \subseteq Tags
    BY <1>22 DEF RemoveImage, Without, TypeOK
  <2>2. cmd[p] \in Commands
    BY DEF TypeOK
  <2>3. /\ cmd' \in [Procs -> Commands]
        /\ \A q \in Procs : cmd'[q].orphaned = cmd[q].orphaned /\ cmd'[q].scope = cmd[q].scope /\ cmd'[q].ref = cmd[q].ref
    BY <1>22, <2>2 DEF RemoveImage, TypeOK, Commands
  <2> QED BY <1>22, <2>1, <2>3 DEF RemoveImage, TypeOK, files, swarm, limits
<1>23. ASSUME NEW p \in Procs, RemoveState(p) PROVE TypeOK'
  <2>1. releases' \in [Apps -> Seq(Refs)] /\ deployments' \in [Apps -> Seq(Deployments)]
    <3>1. <<>> \in Seq(Refs) /\ <<>> \in Seq(Deployments)
      OBVIOUS
    <3> QED BY <1>23, <3>1 DEF RemoveState, TypeOK
  <2> QED BY <1>23, <2>1, <1>12 DEF RemoveState, TypeOK, registry, swarm, limits, history
<1>24. ASSUME NEW p \in Procs PROVE Unfinished(p) \subseteq Tags
  <2>1. \A a \in Apps : ToSet(releases[a]) \subseteq Refs
    BY DEF TypeOK, ToSet
  <2>2. cmd[p].app \in Apps
    BY DEF TypeOK, Commands
  <2> QED BY <2>1, <2>2 DEF Unfinished, LeftReleases, Refs
<1>25. ASSUME NEW p \in Procs, RegistryDown(p) PROVE TypeOK'
  BY <1>25, <1>24, <1>12 DEF RegistryDown, TypeOK, files, registry, swarm, limits
<1>26. ASSUME NEW p \in Procs, Stop(p) PROVE TypeOK'
  <2>1. spoiled' \subseteq Tags
    BY <1>26, <1>24 DEF Stop, TypeOK
  <2>2. stranded' \in BOOLEAN
    BY <1>26 DEF Stop, TypeOK
  <2>3. faults' \in 0 .. MaxFaults
    BY <1>26 DEF Stop, TypeOK, RetentionAssumption
  <2> QED BY <1>26, <2>1, <2>2, <2>3, <1>12 DEF Stop, TypeOK, files, registry, swarm
<1>27. CASE RestartRegistry
  BY <1>27 DEF RestartRegistry, TypeOK, files, swarm, limits
<1>28. CASE UNCHANGED vars
  BY <1>28 DEF TypeOK, vars, files, registry, swarm, limits, history
<1> QED
  BY <1>1, <1>2, <1>3, <1>4, <1>5, <1>6, <1>7, <1>8, <1>9, <1>10, <1>11, <1>13, <1>14, <1>15,
     <1>16, <1>18, <1>19, <1>20, <1>21, <1>22, <1>23, <1>25, <1>26, <1>27, <1>28
  DEF Next, Release, Cleanup, Serve, Removal

-----------------------------------------------------------------------------
(* The lock, and the registry service *)

\* A step that only takes the lock when it is free keeps it exclusive.
LEMMA OneHolder ==
  ASSUME Mutex, NEW p \in Procs,
         \A q \in Procs \ {p} : pc'[q] = pc[q],
         pc'[p] \in Locked => pc[p] \in Locked \/ LockFree
  PROVE  Mutex'
<1> SUFFICES ASSUME NEW q1 \in Procs, NEW q2 \in Procs,
                    pc'[q1] \in Locked, pc'[q2] \in Locked, q1 # q2
             PROVE  FALSE
  BY DEF Mutex, Locked
<1>1. CASE q1 = p
  <2>1. pc[q2] \in Locked
    BY <1>1
  <2>2. pc[q1] \in Locked
    BY <1>1, <2>1 DEF LockFree
  <2> QED BY <2>1, <2>2 DEF Mutex
<1>2. CASE q2 = p
  <2>1. pc[q1] \in Locked
    BY <1>2
  <2>2. pc[q2] \in Locked
    BY <1>2, <2>1 DEF LockFree
  <2> QED BY <2>1, <2>2 DEF Mutex
<1>3. CASE q1 # p /\ q2 # p
  BY <1>3 DEF Mutex
<1> QED BY <1>1, <1>2, <1>3

\* How a step of a process moves its label: nobody else's moves, and the lock
\* is only taken when it is free.
LEMMA LabelStep ==
  ASSUME TypeOK, NEW p \in Procs,
         Release(p) \/ Cleanup(p) \/ Serve(p) \/ Removal(p) \/ RegistryDown(p) \/ Stop(p)
  PROVE  /\ \A q \in Procs \ {p} : pc'[q] = pc[q]
         /\ pc'[p] \in Locked => pc[p] \in Locked \/ LockFree
<1>1. ASSUME Release(p)
      PROVE  /\ \A q \in Procs \ {p} : pc'[q] = pc[q]
             /\ pc'[p] \in Locked => pc[p] \in Locked \/ LockFree
  BY <1>1 DEF Release, StartRelease, Push, SaveMetadata, Retain, At, Goto, TypeOK, Locked
<1>2. ASSUME Cleanup(p)
      PROVE  /\ \A q \in Procs \ {p} : pc'[q] = pc[q]
             /\ pc'[p] \in Locked => pc[p] \in Locked \/ LockFree
  <2>1. CASE \E orphaned \in BOOLEAN : StartCleanup(p, orphaned)
    BY <2>1 DEF StartCleanup, At, Goto, TypeOK, Locked
  <2>2. CASE Plan(p) \/ ImagesDeleted(p) \/ ScaleDown(p) \/ Collect(p)
    BY <2>2 DEF Plan, ImagesDeleted, ScaleDown, Collect, At, Goto, TypeOK, Locked
  <2>3. CASE \/ \E t \in cmd[p].images : DeleteImage(p, t)
             \/ \E r \in cmd[p].wraps : DeleteWrapper(p, r)
             \/ \E a \in Apps : \E i \in DOMAIN releases[a] : RemoveRelease(p, a, i)
             \/ \E a \in Apps : \E i \in DOMAIN deployments[a] : RemoveDeployment(p, a, i)
    BY <2>3 DEF DeleteImage, DeleteWrapper, RemoveRelease, RemoveDeployment, TypeOK, Locked
  <2>4. CASE FilesRemoved(p) \/ ScaleUp(p)
    BY <2>4 DEF FilesRemoved, ScaleUp, Done, At, Goto, TypeOK, Locked
  <2> QED BY <1>2, <2>1, <2>2, <2>3, <2>4 DEF Cleanup
<1>3. ASSUME Serve(p) \/ Removal(p) \/ RegistryDown(p) \/ Stop(p)
      PROVE  /\ \A q \in Procs \ {p} : pc'[q] = pc[q]
             /\ pc'[p] \in Locked => pc[p] \in Locked \/ LockFree
  BY <1>3 DEF Serve, Deploy, ChooseRollback, Rollback, Removal, StartRemove, RemoveImage,
       RemoveState, RegistryDown, Stop, Done, At, Goto, TypeOK, Locked
<1> QED BY <1>1, <1>2, <1>3

\* At most one process is between taking registry.lock and giving it back.
LEMMA MutexStep ==
  ASSUME TypeOK, Mutex, [Next]_vars
  PROVE  Mutex'
<1>1. ASSUME NEW p \in Procs,
             Release(p) \/ Cleanup(p) \/ Serve(p) \/ Removal(p) \/ RegistryDown(p) \/ Stop(p)
      PROVE  Mutex'
  BY <1>1, LabelStep, OneHolder
<1>2. CASE RestartRegistry
  BY <1>2 DEF RestartRegistry, Mutex
<1>3. CASE UNCHANGED vars
  BY <1>3 DEF vars, Mutex
<1> QED BY <1>1, <1>2, <1>3 DEF Next

\* While a process has the lock, or takes it, what the others rely on at
\* labels under the lock is vacuous, and they condemn no record.
LEMMA OthersIdle ==
  ASSUME Mutex, NEW p \in Procs, pc[p] \in Locked \/ LockFree,
         \A q \in Procs \ {p} : pc'[q] = pc[q]
  PROVE  /\ \A q \in Procs \ {p} : pc[q] \notin Locked /\ Pushed(q)' /\ PlanSafe(q)'
         /\ \A a, r : Condemned(a, r) =>
              \/ pc[p] \in {"delete", "files"} /\ r \in cmd[p].releases
              \/ pc[p] = "rm_images" /\ cmd[p].app = a
<1>1. \A q \in Procs \ {p} : pc[q] \notin Locked
  BY DEF Mutex, LockFree
<1>2. \A q \in Procs \ {p} : pc'[q] \notin {"save", "delete"}
  BY <1>1 DEF Locked
<1>3. \A q \in Procs \ {p} : Pushed(q)' /\ PlanSafe(q)'
  BY <1>2 DEF Pushed, PlanSafe
<1>4. \A q \in Procs \ {p} : pc[q] \notin {"delete", "files", "rm_images"}
  BY <1>1 DEF Locked
<1> QED BY <1>1, <1>3, <1>4 DEF Condemned

\* The registry service is scaled down only by a process that is going to
\* scale it up, and a process that cannot do so any more is recorded.
LEMMA RegistryReturnsStep ==
  ASSUME TypeOK, RegistryReturns, [Next]_vars
  PROVE  RegistryReturns'
<1>1. ASSUME NEW p \in Procs, Release(p) \/ Serve(p) \/ Removal(p) \/ RegistryDown(p)
      PROVE  RegistryReturns'
  <2>1. /\ UNCHANGED <<registryUp, stranded>>
        /\ \A q \in Procs \ {p} : pc'[q] = pc[q]
    BY <1>1, LabelStep
       DEF Release, StartRelease, Push, SaveMetadata, Retain, Serve, Deploy, ChooseRollback, Rollback,
         Removal, StartRemove, RemoveImage, RemoveState, RegistryDown, registry, history
  <2>2. pc[p] \notin Collecting
    BY <1>1 DEF Release, StartRelease, Push, SaveMetadata, Retain, Serve, Deploy, ChooseRollback,
         Rollback, Removal, StartRemove, RemoveImage, RemoveState, RegistryDown, Begin, At, Collecting
  <2> QED BY <2>1, <2>2 DEF RegistryReturns
<1>2. ASSUME NEW p \in Procs, Cleanup(p)
      PROVE  RegistryReturns'
  <2>1. \A q \in Procs \ {p} : pc'[q] = pc[q]
    BY <1>2, LabelStep
  <2>2. CASE ScaleDown(p)
    <3>1. pc[p] \notin Collecting /\ pc'[p] \in Collecting
      BY <2>2 DEF ScaleDown, At, Goto, Collecting, TypeOK
    <3> QED BY <3>1 DEF RegistryReturns
  <2>3. CASE Collect(p)
    <3>1. pc'[p] \in Collecting
      BY <2>3 DEF Collect, Goto, Collecting, TypeOK
    <3> QED BY <3>1 DEF RegistryReturns
  <2>4. CASE ScaleUp(p)
    BY <2>4 DEF ScaleUp, RegistryReturns
  <2>5. CASE ~(ScaleDown(p) \/ Collect(p) \/ ScaleUp(p))
    <3>1. /\ UNCHANGED <<registryUp, stranded>>
          /\ pc[p] \notin Collecting
      BY <1>2, <2>5
         DEF Cleanup, StartCleanup, Plan, DeleteImage, DeleteWrapper, ImagesDeleted, RemoveRelease,
           RemoveDeployment, FilesRemoved, Begin, At, Collecting, registry, history
    <3> QED BY <2>1, <3>1 DEF RegistryReturns
  <2> QED BY <2>2, <2>3, <2>4, <2>5
<1>3. ASSUME NEW p \in Procs, Stop(p)
      PROVE  RegistryReturns'
  <2>1. \A q \in Procs \ {p} : pc'[q] = pc[q]
    BY <1>3, LabelStep
  <2>2. registryUp' = registryUp /\ stranded' = (stranded \/ (pc[p] \in Collecting /\ ~registryUp))
    BY <1>3 DEF Stop, registry
  <2> QED BY <2>1, <2>2 DEF RegistryReturns
<1>4. CASE RestartRegistry
  BY <1>4 DEF RestartRegistry, RegistryReturns
<1>5. CASE UNCHANGED vars
  BY <1>5 DEF vars, registry, history, RegistryReturns
<1> QED BY <1>1, <1>2, <1>3, <1>4, <1>5 DEF Next

-----------------------------------------------------------------------------
(* Images: what deletes one leaves those that are named *)

\* The parts of RetentionInv that speak of images.
Images ==
  /\ LiveAnchored
  /\ WrappersKept
  /\ RecordsAnchored
  /\ DeploymentsAnchored
  /\ \A p \in Procs : Pushed(p) /\ PlanSafe(p)

\* A step of p that touches no file, no image and no service, after which p
\* relies on nothing, and each condemned record stays condemned or is spoiled.
LEMMA QuietStep ==
  ASSUME TypeOK, Mutex, Images, NEW p \in Procs,
         UNCHANGED <<files, tagged, manifests, wrappers, swarm>>,
         spoiled \subseteq spoiled',
         \A q \in Procs \ {p} : pc'[q] = pc[q] /\ cmd'[q] = cmd[q],
         pc'[p] \notin {"save", "delete"},
         \A a \in Apps : \A r \in ToSet(releases[a]) :
           Condemned(a, r) => Condemned(a, r)' \/ r.tag \in spoiled'
  PROVE  Images'
<1> USE DEF Images
<1>1. LiveAnchored'
  BY DEF LiveAnchored, LiveRefs, Anchored, swarm
<1>2. WrappersKept'
  BY DEF WrappersKept, LiveWrappers, swarm
<1>3. DeploymentsAnchored'
  BY DEF DeploymentsAnchored, files
<1>4. RecordsAnchored'
  <2> SUFFICES ASSUME NEW a \in Apps, NEW r \in ToSet(releases[a])
               PROVE  Anchored(r)' \/ Condemned(a, r)'
    BY DEF RecordsAnchored, files
  <2>1. CASE Anchored(r)
    BY <2>1 DEF Anchored
  <2>2. CASE Condemned(a, r)
    BY <2>2 DEF Anchored
  <2> QED BY <2>1, <2>2 DEF RecordsAnchored
<1>5. \A q \in Procs \ {p} : Pushed(q)' /\ PlanSafe(q)'
  BY DEF Pushed, PlanSafe, Anchored, LiveRefs, LiveWrappers, files, swarm
<1>6. Pushed(p)' /\ PlanSafe(p)'
  BY DEF Pushed, PlanSafe
<1> QED BY <1>1, <1>2, <1>3, <1>4, <1>5, <1>6

\* A quiet step of a process that condemns no record.
LEMMA HarmlessStep ==
  ASSUME TypeOK, Mutex, Images, NEW p \in Procs,
         UNCHANGED <<files, tagged, manifests, wrappers, swarm>>,
         spoiled \subseteq spoiled',
         \A q \in Procs \ {p} : pc'[q] = pc[q] /\ cmd'[q] = cmd[q],
         pc[p] \notin {"delete", "files", "rm_images"},
         pc'[p] \notin {"save", "delete"}
  PROVE  Images'
<1>1. \A a \in Apps : \A r \in ToSet(releases[a]) :
        Condemned(a, r) => Condemned(a, r)' \/ r.tag \in spoiled'
  BY DEF Condemned
<1> QED BY <1>1, QuietStep

\* A quiet step of a process that ends, with what it leaves undone spoiled.
LEMMA EndStep ==
  ASSUME TypeOK, Mutex, Images, NEW p \in Procs, Done(p),
         UNCHANGED <<files, tagged, manifests, wrappers, swarm>>,
         spoiled \subseteq spoiled',
         \A a \in Apps : \A r \in ToSet(releases[a]) :
           \/ r.tag \in spoiled'
           \/ /\ pc[p] = "rm_images" => cmd[p].app # a
              /\ pc[p] \in {"delete", "files"} => r \notin cmd[p].releases
  PROVE  Images'
<1>1. /\ \A q \in Procs \ {p} : pc'[q] = pc[q] /\ cmd'[q] = cmd[q]
      /\ pc'[p] \notin {"save", "delete"}
  BY DEF Done, Goto, TypeOK
<1>2. \A a \in Apps : \A r \in ToSet(releases[a]) :
        Condemned(a, r) => Condemned(a, r)' \/ r.tag \in spoiled'
  BY <1>1 DEF Condemned
<1> QED BY <1>1, <1>2, QuietStep

\* What names an image: services and records hold references.
LEMMA Named ==
  ASSUME RetentionAssumption, TypeOK
  PROVE  /\ \A r \in LiveRefs \ {NoRef} : r \in Refs /\ r.tag \in Tags /\ r.digest \in Digests
         /\ \A a \in Apps : \A r \in ToSet(releases[a]) :
              r \in Refs /\ r.tag \in Tags /\ r.digest \in Digests
         /\ \A a \in Apps : \A d \in ToSet(deployments[a]) :
              d \in Deployments /\ d.tag \in Tags /\ d.digest \in Digests
<1>1. LiveRefs \subseteq Refs \cup {NoRef}
  BY KeptTypes
<1>2. \A a \in Apps : ToSet(releases[a]) \subseteq Refs /\ ToSet(deployments[a]) \subseteq Deployments
  BY DEF TypeOK, ToSet
<1> QED BY <1>1, <1>2 DEF Refs, Deployments

\* A push spoils the tag if anything names it with another digest.
LEMMA PushStep ==
  ASSUME RetentionAssumption, TypeOK, Mutex, Images, NEW p \in Procs, Push(p)
  PROVE  Images'
<1> DEFINE new == cmd[p].ref
<1>0. /\ pc[p] \in Locked /\ pc[p] = "push" /\ pc'[p] = "save"
      /\ \A q \in Procs \ {p} : pc'[q] = pc[q]
  BY DEF Push, At, Goto, Locked, TypeOK
<1>1. new \in Refs /\ new.tag \in Tags /\ new.digest \in Digests
  <2>1. new \in Refs
    BY <1>0 DEF TypeOK, Commands
  <2> QED BY <2>1 DEF Refs
<1>2. /\ UNCHANGED <<releases, deployments, running, spare, wrappers, cmd>>
      /\ tagged' = [tagged EXCEPT ![new.tag] = new.digest]
      /\ manifests' = manifests \cup {new.digest}
      /\ spoiled \subseteq spoiled'
      /\ Moves(new) => new.tag \in spoiled'
  BY DEF Push, files, swarm
<1>3. /\ tagged'[new.tag] = new.digest
      /\ \A t \in Tags \ {new.tag} : tagged'[t] = tagged[t]
  BY <1>1, <1>2 DEF TypeOK
<1> HIDE DEF new
<1>4. ASSUME NEW r, r.tag \in Tags, Anchored(r), r.tag = new.tag => r.digest = new.digest \/ Moves(new)
      PROVE  Anchored(r)'
  BY <1>2, <1>3, <1>4 DEF Anchored
<1>5. LiveAnchored'
  <2>1. LiveRefs' = LiveRefs
    BY <1>2 DEF LiveRefs
  <2>2. ASSUME NEW r \in LiveRefs \ {NoRef}, r.tag = new.tag, r.digest # new.digest
        PROVE  Moves(new)
    <3>1. PICK a \in Apps : r \in {running[a], spare[a]}
      BY DEF LiveRefs
    <3> QED BY <2>2, <3>1 DEF Moves
  <2> QED BY <1>4, <2>1, <2>2, Named DEF LiveAnchored, Images
<1>6. RecordsAnchored'
  <2>1. ASSUME NEW a \in Apps, NEW r \in ToSet(releases[a]) PROVE Anchored(r)'
    <3>1. Anchored(r)
      BY <1>0, OthersIdle DEF Images, RecordsAnchored
    <3>2. r.tag = new.tag /\ r.digest # new.digest => Moves(new)
      BY DEF Moves
    <3> QED BY <1>4, <3>1, <3>2, Named
  <2> QED BY <1>2, <2>1 DEF RecordsAnchored
<1>7. DeploymentsAnchored'
  <2> SUFFICES ASSUME NEW a \in Apps, NEW d \in ToSet(deployments[a])
               PROVE  d.tag \in spoiled' \/ tagged'[d.tag] \in {None, d.digest}
    BY <1>2 DEF DeploymentsAnchored
  <2>1. d.tag = new.tag /\ d.digest # new.digest => Moves(new)
    BY DEF Moves
  <2>2. d.tag \in spoiled \/ tagged[d.tag] \in {None, d.digest}
    BY DEF Images, DeploymentsAnchored
  <2>3. d.tag \in Tags
    BY Named
  <2> QED BY <1>2, <1>3, <2>1, <2>2, <2>3
<1>8. Pushed(p)' /\ PlanSafe(p)'
  <2>1. Anchored(cmd[p].ref)'
    BY <1>2, <1>3 DEF Anchored, new
  <2> QED BY <1>0, <2>1 DEF Pushed, PlanSafe
<1>9. WrappersKept'
  BY <1>2 DEF Images, WrappersKept, LiveWrappers
<1> QED BY <1>0, <1>5, <1>6, <1>7, <1>8, <1>9, OthersIdle DEF Images

\* Of the release records, only that of the pushed tag is written.
LEMMA Saved ==
  ASSUME TypeOK, NEW p \in Procs, SaveMetadata(p)
  PROVE  /\ cmd[p].app \in Apps
         /\ ToSet(releases'[cmd[p].app]) \subseteq ToSet(releases[cmd[p].app]) \cup {cmd[p].ref}
         /\ \A a \in Apps \ {cmd[p].app} : releases'[a] = releases[a]
<1> DEFINE a0 == cmd[p].app
           new == cmd[p].ref
<1>1. a0 \in Apps /\ new \in Refs
  BY DEF SaveMetadata, At, TypeOK, Commands
<1>2. releases' = [releases EXCEPT ![a0] = Append(Forget(releases[a0], new.tag), new)]
  BY DEF SaveMetadata
<1> HIDE DEF a0, new
<1>3. releases[a0] \in Seq(Refs)
  BY <1>1 DEF TypeOK
<1>4. /\ Forget(releases[a0], new.tag) \in Seq(Refs)
      /\ ToSet(Forget(releases[a0], new.tag)) \subseteq ToSet(releases[a0])
  BY <1>3, ForgetRecord
<1>5. ToSet(Append(Forget(releases[a0], new.tag), new))
        = ToSet(Forget(releases[a0], new.tag)) \cup {new}
  BY <1>1, <1>4, AppendRecord
<1>6. /\ a0 \in Apps
      /\ ToSet(releases'[a0]) \subseteq ToSet(releases[a0]) \cup {new}
      /\ \A a \in Apps \ {a0} : releases'[a] = releases[a]
  BY <1>1, <1>2, <1>4, <1>5 DEF TypeOK
<1> QED BY <1>6 DEF a0, new

\* The record that is saved names the image that was pushed.
LEMMA SaveStep ==
  ASSUME RetentionAssumption, TypeOK, Mutex, Images, NEW p \in Procs, SaveMetadata(p)
  PROVE  Images'
<1> DEFINE a0 == cmd[p].app
           new == cmd[p].ref
<1>0. /\ pc[p] \in Locked /\ pc[p] = "save" /\ pc'[p] = "retain"
      /\ \A q \in Procs \ {p} : pc'[q] = pc[q]
  BY DEF SaveMetadata, At, Goto, Locked, TypeOK
<1>1. a0 \in Apps /\ new \in Refs
  BY <1>0 DEF TypeOK, Commands
<1>2. /\ UNCHANGED <<deployments, running, spare, tagged, manifests, wrappers, cmd, spoiled>>
      /\ releases' = [releases EXCEPT ![a0] = Append(Forget(releases[a0], new.tag), new)]
  BY DEF SaveMetadata, registry, swarm, history
<1>3. Anchored(new)
  BY <1>0 DEF Images, Pushed
<1> HIDE DEF a0, new
<1>4. /\ ToSet(releases'[a0]) \subseteq ToSet(releases[a0]) \cup {new}
      /\ \A a \in Apps \ {a0} : releases'[a] = releases[a]
  BY Saved DEF a0, new
<1>5. RecordsAnchored'
  <2>1. \A a \in Apps : \A r \in ToSet(releases[a]) : Anchored(r)
    BY <1>0, OthersIdle DEF Images, RecordsAnchored
  <2> QED BY <1>2, <1>3, <1>4, <2>1 DEF RecordsAnchored, Anchored
<1>6. LiveAnchored' /\ WrappersKept' /\ DeploymentsAnchored'
  BY <1>2 DEF Images, LiveAnchored, LiveRefs, Anchored, WrappersKept, LiveWrappers, DeploymentsAnchored
<1>7. Pushed(p)' /\ PlanSafe(p)'
  BY <1>0 DEF Pushed, PlanSafe
<1> QED BY <1>0, <1>5, <1>6, <1>7, OthersIdle DEF Images

\* A plan protects whatever a live service names, and the digest of every
\* release record that it does not delete.
LEMMA PlanStep ==
  ASSUME RetentionAssumption, TypeOK, Mutex, Images, NEW p \in Procs, Plan(p)
  PROVE  Images'
<1> DEFINE scope == cmd[p].scope
           orphans == Orphans(cmd[p].orphaned)
<1>0. /\ pc[p] \in Locked /\ pc[p] = "plan" /\ pc'[p] = "delete"
      /\ \A q \in Procs \ {p} : pc'[q] = pc[q]
  BY DEF Plan, At, Goto, Locked, TypeOK
<1>1. scope \in Apps \cup {Everything} /\ (orphans # {} => scope = Everything)
  <2>1. cmd[p] \in Commands
    BY DEF TypeOK
  <2>2. cmd[p].orphaned \/ orphans = {}
    BY DEF Orphans
  <2> QED BY <2>1, <2>2 DEF Commands, TypeOK
<1>2. /\ UNCHANGED <<releases, deployments, running, spare, tagged, manifests, wrappers, spoiled>>
      /\ \A q \in Procs \ {p} : cmd'[q] = cmd[q]
      /\ cmd'[p].wraps = CandidateWrappers(scope)
      /\ cmd'[p].safe = ProtectedDigests(scope, orphans)
      /\ cmd'[p].releases = Expired(releases, scope, orphans)
  <2>1. cmd[p] \in Commands
    BY DEF TypeOK
  <2> QED BY <2>1 DEF Plan, files, registry, swarm, history, TypeOK, Commands
<1> HIDE DEF scope, orphans
<1>3. \A a \in Apps : \A r \in ToSet(releases[a]) : Anchored(r)
  BY <1>0, OthersIdle DEF Images, RecordsAnchored
<1>4. \A r \in LiveRefs \ {NoRef} : r.tag \in spoiled \/ r.digest \in ProtectedDigests(scope, orphans)
  BY DEF Images, LiveAnchored, Anchored, ProtectedDigests
<1>5. CandidateWrappers(scope) \cap LiveWrappers = {}
  BY DEF CandidateWrappers
<1>6. ASSUME NEW a \in Apps, NEW r \in ToSet(releases[a]), r \notin Expired(releases, scope, orphans),
             r.tag \notin spoiled
      PROVE  r.digest \in ProtectedDigests(scope, orphans)
  <2>0. /\ tagged[r.tag] = r.digest /\ r.digest \in manifests /\ r.digest # None
        /\ r.tag \in Tags
    BY <1>3, <1>6, Named DEF Anchored, RetentionAssumption
  <2>1. CASE r \in KeptReleases(scope, orphans)
    BY <2>0, <2>1 DEF ProtectedDigests
  <2>2. CASE ~InScope(a, scope)
    <3>1. a \notin orphans
      BY <1>1, <2>2 DEF InScope
    <3>2. r \in KeptReleases(scope, orphans)
      BY <2>2, <3>1 DEF KeptReleases
    <3> QED BY <2>1, <3>2
  <2>3. CASE InScope(a, scope)
    <3>1. r.tag \in ProtectedTags(scope, orphans)
      BY <1>6, <2>3 DEF Expired
    <3>2. PICK x \in LiveRefs \cup KeptReleases(scope, orphans) \cup KeptDeployments(scope, orphans) :
            x.tag = r.tag
      BY <3>1 DEF ProtectedTags
    <3>3. CASE x \in KeptReleases(scope, orphans)
      BY <2>0, <3>2, <3>3 DEF ProtectedDigests
    <3>4. CASE x \in LiveRefs
      <4>1. x # NoRef
        BY <2>0, <3>2 DEF NoRef, Tags, RetentionAssumption
      <4>2. Anchored(x)
        BY <3>4, <4>1 DEF Images, LiveAnchored
      <4>3. x.digest = r.digest
        BY <1>6, <2>0, <3>2, <4>2 DEF Anchored
      <4> QED BY <2>0, <3>4, <4>3 DEF ProtectedDigests
    <3>5. CASE x \in KeptDeployments(scope, orphans)
      <4>1. PICK b \in Apps : \E d \in ToSet(deployments[b]) : x = DeploymentRef(d)
        <5>1. \A b \in Apps : NewestSuccesses(b, Keep) \subseteq ToSet(deployments[b])
          <6> SUFFICES ASSUME NEW b \in Apps
                       PROVE  NewestSuccesses(b, Keep) \subseteq ToSet(deployments[b])
            OBVIOUS
          <6>1. \A j \in Successes(b) : deployments[b][j] \in ToSet(deployments[b])
            BY DEF Successes, ToSet
          <6> QED BY <6>1, Zenon DEF NewestSuccesses
        <5> QED BY <3>5, <5>1 DEF KeptDeployments
      <4>2. PICK d \in ToSet(deployments[b]) : x = DeploymentRef(d)
        BY <4>1
      <4>3. x.tag = d.tag /\ x.digest = d.digest
        BY <4>2 DEF DeploymentRef
      <4>4. x.digest = r.digest
        BY <1>6, <2>0, <3>2, <4>3 DEF Images, DeploymentsAnchored
      <4> QED BY <2>0, <3>5, <4>4 DEF ProtectedDigests
    <3> QED BY <3>2, <3>3, <3>4, <3>5
  <2> QED BY <2>2, <2>3
<1>7. PlanSafe(p)'
  <2>1. LiveRefs' = LiveRefs /\ LiveWrappers' = LiveWrappers
    BY <1>2 DEF LiveRefs, LiveWrappers
  <2> QED BY <1>2, <1>4, <1>5, <1>6, <2>1 DEF PlanSafe
<1>8. LiveAnchored' /\ WrappersKept' /\ DeploymentsAnchored'
  BY <1>2 DEF Images, LiveAnchored, LiveRefs, Anchored, WrappersKept, LiveWrappers, DeploymentsAnchored
<1>9. RecordsAnchored'
  BY <1>2, <1>3 DEF RecordsAnchored, Anchored
<1>10. Pushed(p)'
  BY <1>0 DEF Pushed
<1> QED BY <1>0, <1>7, <1>8, <1>9, <1>10, OthersIdle DEF Images

\* The digest of a deleted image is none that the plan protects.
LEMMA DeleteImageStep ==
  ASSUME RetentionAssumption, TypeOK, Mutex, Images, NEW p \in Procs,
         NEW t \in cmd[p].images, DeleteImage(p, t)
  PROVE  Images'
<1>0. /\ pc[p] \in Locked /\ pc[p] = "delete" /\ pc' = pc
  BY DEF DeleteImage, At, Locked
<1>1. /\ UNCHANGED <<releases, deployments, running, spare, wrappers, spoiled>>
      /\ cmd'[p].safe = cmd[p].safe
      /\ cmd'[p].wraps = cmd[p].wraps
      /\ cmd'[p].releases = cmd[p].releases
  <2>1. cmd[p] \in Commands
    BY DEF TypeOK
  <2> QED BY <2>1 DEF DeleteImage, files, swarm, history, TypeOK, Commands
<1>2. \/ UNCHANGED <<tagged, manifests>>
      \/ /\ tagged[t] \notin cmd[p].safe /\ tagged[t] # None
         /\ \A u \in Tags : tagged'[u] = IF tagged[u] = tagged[t] THEN None ELSE tagged[u]
         /\ manifests' = manifests \ {tagged[t]}
  BY DEF DeleteImage, Without
<1>3. PlanSafe(p)
  BY DEF Images
<1>4. ASSUME NEW r, r.tag \in Tags, Anchored(r), r.tag \in spoiled \/ r.digest \in cmd[p].safe
      PROVE  Anchored(r)'
  BY <1>1, <1>2, <1>4 DEF Anchored
<1>5. LiveRefs' = LiveRefs /\ LiveWrappers' = LiveWrappers
  BY <1>1 DEF LiveRefs, LiveWrappers
<1>6. LiveAnchored'
  BY <1>0, <1>3, <1>4, <1>5, Named DEF Images, LiveAnchored, PlanSafe
<1>7. RecordsAnchored'
  <2> SUFFICES ASSUME NEW a \in Apps, NEW r \in ToSet(releases[a])
               PROVE  Anchored(r)' \/ Condemned(a, r)'
    BY <1>1 DEF RecordsAnchored
  <2>1. CASE r \in cmd[p].releases
    BY <1>0, <1>1, <2>1 DEF Condemned
  <2>2. CASE r \notin cmd[p].releases
    <3>1. Anchored(r)
      BY <1>0, <2>2, OthersIdle DEF Images, RecordsAnchored
    <3> QED BY <1>0, <1>3, <1>4, <2>2, <3>1, Named DEF PlanSafe
  <2> QED BY <2>1, <2>2
<1>8. DeploymentsAnchored'
  <2> SUFFICES ASSUME NEW a \in Apps, NEW d \in ToSet(deployments[a])
               PROVE  d.tag \in spoiled' \/ tagged'[d.tag] \in {None, d.digest}
    BY <1>1 DEF DeploymentsAnchored
  <2>1. d.tag \in spoiled \/ tagged[d.tag] \in {None, d.digest}
    BY DEF Images, DeploymentsAnchored
  <2>2. d.tag \in Tags
    BY Named
  <2> QED BY <1>1, <1>2, <2>1, <2>2
<1>9. WrappersKept'
  BY <1>1, <1>5 DEF Images, WrappersKept
<1>10. Pushed(p)' /\ PlanSafe(p)'
  BY <1>0, <1>1, <1>3, <1>5 DEF Pushed, PlanSafe
<1> QED BY <1>0, <1>6, <1>7, <1>8, <1>9, <1>10, OthersIdle DEF Images

\* A deleted wrapper is none that runs.
LEMMA DeleteWrapperStep ==
  ASSUME RetentionAssumption, TypeOK, Mutex, Images, NEW p \in Procs,
         NEW w \in cmd[p].wraps, DeleteWrapper(p, w)
  PROVE  Images'
<1>0. /\ pc[p] \in Locked /\ pc[p] = "delete" /\ pc' = pc
  BY DEF DeleteWrapper, At, Locked
<1>1. /\ UNCHANGED <<releases, deployments, running, spare, tagged, manifests, spoiled>>
      /\ wrappers' = wrappers \ {w}
      /\ cmd'[p].safe = cmd[p].safe
      /\ cmd'[p].wraps \subseteq cmd[p].wraps
      /\ cmd'[p].releases = cmd[p].releases
      /\ \A q \in Procs \ {p} : cmd'[q] = cmd[q]
  <2>1. cmd[p] \in Commands
    BY DEF TypeOK
  <2> QED BY <2>1 DEF DeleteWrapper, files, swarm, history, TypeOK, Commands
<1>2. PlanSafe(p)
  BY DEF Images
<1>3. LiveRefs' = LiveRefs /\ LiveWrappers' = LiveWrappers
  BY <1>1 DEF LiveRefs, LiveWrappers
<1>4. WrappersKept'
  BY <1>0, <1>1, <1>2, <1>3 DEF Images, WrappersKept, PlanSafe
<1>5. LiveAnchored' /\ DeploymentsAnchored'
  BY <1>1, <1>3 DEF Images, LiveAnchored, Anchored, DeploymentsAnchored
<1>6. RecordsAnchored'
  <2> SUFFICES ASSUME NEW a \in Apps, NEW r \in ToSet(releases[a])
               PROVE  Anchored(r)' \/ Condemned(a, r)'
    BY <1>1 DEF RecordsAnchored
  <2>1. CASE Condemned(a, r)
    BY <1>0, <1>1, <2>1 DEF Condemned
  <2>2. CASE Anchored(r)
    BY <1>1, <2>2 DEF Anchored
  <2> QED BY <2>1, <2>2 DEF Images, RecordsAnchored
<1>7. Pushed(p)' /\ PlanSafe(p)'
  BY <1>0, <1>1, <1>2, <1>3 DEF Pushed, PlanSafe
<1> QED BY <1>0, <1>4, <1>5, <1>6, <1>7, OthersIdle DEF Images

\* A removal takes one record of the command's, from the records of one app.
LEMMA Removed ==
  ASSUME TypeOK, NEW p \in Procs, NEW a \in Apps, NEW i,
         \/ i \in DOMAIN releases[a] /\ RemoveRelease(p, a, i)
         \/ i \in DOMAIN deployments[a] /\ RemoveDeployment(p, a, i)
  PROVE  /\ \A b \in Apps : /\ ToSet(releases'[b]) \subseteq ToSet(releases[b])
                            /\ ToSet(deployments'[b]) \subseteq ToSet(deployments[b])
         /\ \A b \in Apps : releases'[b] = releases[b] \/ \E x \in ToSet(releases[b]) : x \in cmd[p].releases
         /\ \A b \in Apps : ToSet(deployments[b]) \ cmd[p].deployments \subseteq ToSet(deployments'[b])
<1>1. CASE i \in DOMAIN releases[a] /\ RemoveRelease(p, a, i)
  <2>1. releases[a] \in Seq(Refs)
    BY DEF TypeOK
  <2>2. ToSet(RemoveAt(releases[a], i)) \subseteq ToSet(releases[a])
    BY <1>1, <2>1, RemoveRecord
  <2>3. releases[a][i] \in ToSet(releases[a]) /\ releases[a][i] \in cmd[p].releases
    BY <1>1 DEF RemoveRelease, ToSet
  <2>4. deployments' = deployments /\ releases' = [releases EXCEPT ![a] = RemoveAt(releases[a], i)]
    BY <1>1 DEF RemoveRelease
  <2> QED BY <2>2, <2>3, <2>4 DEF TypeOK
<1>2. CASE i \in DOMAIN deployments[a] /\ RemoveDeployment(p, a, i)
  <2>1. deployments[a] \in Seq(Deployments)
    BY DEF TypeOK
  <2>2. /\ ToSet(RemoveAt(deployments[a], i)) \subseteq ToSet(deployments[a])
        /\ ToSet(deployments[a]) \ {deployments[a][i]} \subseteq ToSet(RemoveAt(deployments[a], i))
    BY <1>2, <2>1, RemoveRecord
  <2>3. deployments[a][i] \in cmd[p].deployments
    BY <1>2 DEF RemoveDeployment
  <2>4. releases' = releases /\ deployments' = [deployments EXCEPT ![a] = RemoveAt(deployments[a], i)]
    BY <1>2 DEF RemoveDeployment
  <2> QED BY <2>2, <2>3, <2>4 DEF TypeOK
<1> QED BY <1>1, <1>2

\* The removal of a record leaves the other records.
LEMMA RemoveRecordStep ==
  ASSUME RetentionAssumption, TypeOK, Mutex, Images, NEW p \in Procs, NEW a \in Apps, NEW i,
         \/ i \in DOMAIN releases[a] /\ RemoveRelease(p, a, i)
         \/ i \in DOMAIN deployments[a] /\ RemoveDeployment(p, a, i)
  PROVE  Images'
<1>0. /\ pc[p] \in Locked /\ pc[p] = "files" /\ pc' = pc
      /\ UNCHANGED <<running, spare, tagged, manifests, wrappers, spoiled, cmd>>
  BY DEF RemoveRelease, RemoveDeployment, At, Locked, registry, swarm, history
<1>1. \A b \in Apps : /\ ToSet(releases'[b]) \subseteq ToSet(releases[b])
                      /\ ToSet(deployments'[b]) \subseteq ToSet(deployments[b])
  BY Removed
<1>2. LiveAnchored' /\ WrappersKept' /\ DeploymentsAnchored'
  BY <1>0, <1>1 DEF Images, LiveAnchored, LiveRefs, Anchored, WrappersKept, LiveWrappers,
       DeploymentsAnchored
<1>3. RecordsAnchored'
  BY <1>0, <1>1 DEF Images, RecordsAnchored, Anchored, Condemned
<1>4. Pushed(p)' /\ PlanSafe(p)'
  BY <1>0 DEF Pushed, PlanSafe
<1> QED BY <1>0, <1>2, <1>3, <1>4, OthersIdle DEF Images

\* A collection takes manifests without a tag only.
LEMMA CollectStep ==
  ASSUME RetentionAssumption, TypeOK, Mutex, Images, NEW p \in Procs, Collect(p)
  PROVE  Images'
<1>0. /\ pc[p] \in Locked /\ pc[p] = "collect" /\ pc'[p] = "scale_up"
      /\ \A q \in Procs \ {p} : pc'[q] = pc[q]
      /\ UNCHANGED <<releases, deployments, running, spare, tagged, wrappers, spoiled, cmd>>
  BY DEF Collect, At, Goto, Locked, TypeOK, files, swarm, history
<1>1. ASSUME NEW r, r.tag \in Tags, Anchored(r) PROVE Anchored(r)'
  <2>1. PICK gone \in SUBSET Untagged : manifests' = manifests \ gone
    BY DEF Collect
  <2> QED BY <1>0, <1>1, <2>1 DEF Untagged, Anchored
<1>2. LiveAnchored'
  BY <1>0, <1>1, Named DEF Images, LiveAnchored, LiveRefs
<1>3. RecordsAnchored'
  <2>1. ASSUME NEW a \in Apps, NEW r \in ToSet(releases[a]) PROVE Anchored(r)'
    BY <1>0, <1>1, OthersIdle, Named DEF Images, RecordsAnchored
  <2> QED BY <1>0, <2>1 DEF RecordsAnchored
<1>4. WrappersKept' /\ DeploymentsAnchored'
  BY <1>0 DEF Images, WrappersKept, LiveWrappers, DeploymentsAnchored
<1>5. Pushed(p)' /\ PlanSafe(p)'
  BY <1>0 DEF Pushed, PlanSafe
<1> QED BY <1>0, <1>2, <1>3, <1>4, <1>5, OthersIdle DEF Images

\* A deployment adds its record to those of its app.
LEMMA Kept ==
  ASSUME RetentionAssumption, TypeOK, NEW a \in Apps, NEW r \in ToSet(releases[a]),
         NEW ok \in BOOLEAN, Recorded(a, r, ok)
  PROVE  /\ ToSet(deployments'[a])
              = ToSet(deployments[a]) \cup {[tag |-> r.tag, digest |-> r.digest, ok |-> ok]}
         /\ \A b \in Apps \ {a} : deployments'[b] = deployments[b]
<1> DEFINE d == [tag |-> r.tag, digest |-> r.digest, ok |-> ok]
<1>1. deployments[a] \in Seq(Deployments) /\ d \in Deployments
  BY Named DEF TypeOK, Deployments
<1>2. ToSet(Append(deployments[a], d)) = ToSet(deployments[a]) \cup {d}
  BY <1>1, AppendRecord
<1> QED BY <1>2 DEF Recorded, TypeOK

\* What a deployment starts to run is an anchored release, or its wrapper.
LEMMA DeploymentStep ==
  ASSUME RetentionAssumption, TypeOK, Mutex, Images, NEW p \in Procs, LockFree,
         \A q \in Procs \ {p} : pc'[q] = pc[q],
         pc'[p] \notin {"save", "delete"},
         NEW a \in Apps, NEW r \in ToSet(releases[a]),
         DeploySucceeds(a, r) \/ DeployFails(a, r),
         UNCHANGED <<releases, tagged, manifests, spoiled>>
  PROVE  Images'
<1>1. \A b \in Apps : \A x \in ToSet(releases[b]) : Anchored(x)
  <2>1. pc[p] \notin {"delete", "files", "rm_images"}
    BY DEF LockFree, Locked
  <2> QED BY <2>1, OthersIdle DEF Images, RecordsAnchored
<1>2. \A b \in Apps : {running'[b], spare'[b]} \subseteq
        {NoRef, running[b], spare[b]} \cup (IF b = a THEN {r} ELSE {})
  BY DEF DeploySucceeds, DeployFails, swarm, TypeOK
<1>3. LiveAnchored'
  <2> SUFFICES ASSUME NEW x \in LiveRefs' \ {NoRef}
               PROVE  Anchored(x)'
    BY DEF LiveAnchored
  <2>1. PICK b \in Apps \ Wrapped : x \in {running'[b], spare'[b]}
    BY DEF LiveRefs
  <2>2. x \in LiveRefs \/ x = r
    BY <1>2, <2>1 DEF LiveRefs
  <2>3. Anchored(x)
    BY <1>1, <2>2 DEF Images, LiveAnchored
  <2> QED BY <2>3 DEF Anchored
<1>4. WrappersKept'
  <2> SUFFICES ASSUME NEW x \in LiveWrappers' \ {NoRef}
               PROVE  x \in wrappers'
    BY DEF WrappersKept
  <2>1. PICK b \in Wrapped : x \in {running'[b], spare'[b]}
    BY DEF LiveWrappers
  <2>2. wrappers' = IF a \in Wrapped THEN wrappers \cup {r} ELSE wrappers
    BY DEF DeploySucceeds, DeployFails, Wrap
  <2>3. x \in LiveWrappers \/ (x = r /\ a \in Wrapped)
    BY <1>2, <2>1 DEF LiveWrappers, RetentionAssumption
  <2> QED BY <2>2, <2>3 DEF Images, WrappersKept
<1>5. DeploymentsAnchored'
  <2>1. PICK ok \in BOOLEAN : Recorded(a, r, ok)
    BY DEF DeploySucceeds, DeployFails
  <2> DEFINE d == [tag |-> r.tag, digest |-> r.digest, ok |-> ok]
  <2>4. /\ ToSet(deployments'[a]) = ToSet(deployments[a]) \cup {d}
        /\ \A b \in Apps \ {a} : deployments'[b] = deployments[b]
    BY <2>1, Kept
  <2>5. d.tag \in spoiled \/ tagged[d.tag] \in {None, d.digest}
    BY <1>1 DEF Anchored
  <2> HIDE DEF d
  <2> QED BY <2>4, <2>5 DEF Images, DeploymentsAnchored
<1>6. RecordsAnchored'
  BY <1>1 DEF RecordsAnchored, Anchored
<1>7. Pushed(p)' /\ PlanSafe(p)'
  BY DEF Pushed, PlanSafe
<1> QED BY <1>3, <1>4, <1>5, <1>6, <1>7, OthersIdle DEF Images

\* remove: the services go, then the images, whose tags are spoiled, then the
\* records of the app, all of which were condemned.
LEMMA RemovalStep ==
  ASSUME RetentionAssumption, TypeOK, Mutex, Images, NEW p \in Procs, Removal(p)
  PROVE  Images'
<1>0. \A q \in Procs \ {p} : pc'[q] = pc[q]
  BY LabelStep
<1>1. ASSUME NEW a \in Apps, StartRemove(p, a)
      PROVE  Images'
  <2>1. /\ LockFree /\ pc'[p] = "rm_images"
        /\ UNCHANGED <<releases, deployments, tagged, manifests, wrappers, spoiled>>
    BY <1>1 DEF StartRemove, Goto, TypeOK, files, registry, history
  <2>2. \A b \in Apps : {running'[b], spare'[b]} \subseteq {NoRef, running[b], spare[b]}
    BY <1>1 DEF StartRemove, TypeOK
  <2>3. LiveRefs' \subseteq LiveRefs \cup {NoRef}
    BY <2>2 DEF LiveRefs
  <2>4. LiveWrappers' \subseteq LiveWrappers \cup {NoRef}
    BY <2>2 DEF LiveWrappers, RetentionAssumption
  <2>5. LiveAnchored' /\ WrappersKept' /\ DeploymentsAnchored'
    BY <2>1, <2>3, <2>4 DEF Images, LiveAnchored, Anchored, WrappersKept, DeploymentsAnchored
  <2>6. RecordsAnchored'
    <3>1. pc[p] \notin {"delete", "files", "rm_images"}
      BY <2>1 DEF LockFree, Locked
    <3>2. \A b \in Apps : \A x \in ToSet(releases[b]) : Anchored(x)
      BY <1>0, <2>1, <3>1, OthersIdle DEF Images, RecordsAnchored
    <3> QED BY <2>1, <3>2 DEF RecordsAnchored, Anchored
  <2>7. Pushed(p)' /\ PlanSafe(p)'
    BY <2>1 DEF Pushed, PlanSafe
  <2> QED BY <1>0, <2>1, <2>5, <2>6, <2>7, OthersIdle DEF Images
<1>2. ASSUME NEW t \in cmd[p].images, RemoveImage(p, t)
      PROVE  Images'
  <2>1. /\ pc[p] = "rm_images" /\ pc[p] \in Locked /\ pc' = pc
        /\ UNCHANGED <<releases, deployments, running, spare, wrappers>>
        /\ spoiled \subseteq spoiled'
        /\ \A q \in Procs : cmd'[q].app = cmd[q].app
    BY <1>2 DEF RemoveImage, At, Locked, files, swarm, TypeOK, Commands
  <2>2. \/ UNCHANGED <<tagged, manifests>>
        \/ /\ \A u \in Tags : tagged'[u] = IF tagged[u] = tagged[t] THEN None ELSE tagged[u]
           /\ manifests' = manifests \ {tagged[t]}
           /\ spoiled' = spoiled \cup {u \in Tags : tagged[u] = tagged[t]}
    BY <1>2 DEF RemoveImage, Without
  <2>3. ASSUME NEW r, r.tag \in Tags, Anchored(r) PROVE Anchored(r)'
    BY <2>1, <2>2, <2>3 DEF Anchored
  <2>4. LiveAnchored'
    BY <2>1, <2>3, Named DEF Images, LiveAnchored, LiveRefs
  <2>5. RecordsAnchored'
    <3> SUFFICES ASSUME NEW a \in Apps, NEW r \in ToSet(releases[a])
                 PROVE  Anchored(r)' \/ Condemned(a, r)'
      BY <2>1 DEF RecordsAnchored
    <3>1. CASE cmd[p].app = a
      BY <2>1, <3>1 DEF Condemned
    <3>2. CASE cmd[p].app # a
      BY <1>0, <2>1, <2>3, <3>2, OthersIdle, Named DEF Images, RecordsAnchored
    <3> QED BY <3>1, <3>2
  <2>6. DeploymentsAnchored'
    <3> SUFFICES ASSUME NEW a \in Apps, NEW d \in ToSet(deployments[a])
                 PROVE  d.tag \in spoiled' \/ tagged'[d.tag] \in {None, d.digest}
      BY <2>1 DEF DeploymentsAnchored
    <3>1. d.tag \in spoiled \/ tagged[d.tag] \in {None, d.digest}
      BY DEF Images, DeploymentsAnchored
    <3>2. d.tag \in Tags
      BY Named
    <3> QED BY <2>1, <2>2, <3>1, <3>2
  <2>7. WrappersKept'
    BY <2>1 DEF Images, WrappersKept, LiveWrappers
  <2>8. Pushed(p)' /\ PlanSafe(p)'
    BY <2>1 DEF Pushed, PlanSafe
  <2> QED BY <1>0, <2>1, <2>4, <2>5, <2>6, <2>7, <2>8, OthersIdle DEF Images
<1>3. ASSUME RemoveState(p)
      PROVE  Images'
  <2> DEFINE a0 == cmd[p].app
  <2>1. /\ pc[p] = "rm_images" /\ pc[p] \in Locked /\ pc'[p] = "idle"
        /\ UNCHANGED <<tagged, manifests, wrappers, running, spare, spoiled>>
    BY <1>3 DEF RemoveState, Done, Goto, At, Locked, TypeOK, registry, swarm, history
  <2>2. \A a \in Apps : /\ ToSet(releases'[a]) = (IF a = a0 THEN {} ELSE ToSet(releases[a]))
                        /\ ToSet(deployments'[a]) = (IF a = a0 THEN {} ELSE ToSet(deployments[a]))
    <3>1. ToSet(<<>>) = {}
      BY DEF ToSet
    <3> QED BY <1>3, <3>1 DEF RemoveState, TypeOK
  <2>3. \A a \in Apps \ {a0} : \A r \in ToSet(releases[a]) : Anchored(r)
    BY <1>0, <2>1, OthersIdle DEF Images, RecordsAnchored
  <2>4. RecordsAnchored'
    BY <2>1, <2>2, <2>3 DEF RecordsAnchored, Anchored
  <2>5. LiveAnchored' /\ WrappersKept' /\ DeploymentsAnchored'
    BY <2>1, <2>2 DEF Images, LiveAnchored, LiveRefs, Anchored, WrappersKept, LiveWrappers,
         DeploymentsAnchored
  <2>6. Pushed(p)' /\ PlanSafe(p)'
    BY <2>1 DEF Pushed, PlanSafe
  <2> QED BY <1>0, <2>1, <2>4, <2>5, <2>6, OthersIdle DEF Images
<1> QED BY <1>1, <1>2, <1>3 DEF Removal

\* Every step keeps the images that something names.
LEMMA ImagesStep ==
  ASSUME RetentionAssumption, TypeOK, Mutex, Images, [Next]_vars
  PROVE  Images'
<1>1. ASSUME NEW p \in Procs, Release(p) PROVE Images'
  <2>1. CASE \E a \in Apps, n \in Numbers, force \in BOOLEAN : StartRelease(p, a, n, force)
    BY <2>1, HarmlessStep
       DEF StartRelease, Begin, At, Goto, TypeOK, files, registry, swarm, history
  <2>2. CASE Retain(p)
    BY <2>2, HarmlessStep DEF Retain, At, Goto, TypeOK, files, registry, swarm, history
  <2> QED BY <1>1, <2>1, <2>2, PushStep, SaveStep DEF Release
<1>2. ASSUME NEW p \in Procs, Cleanup(p) PROVE Images'
  <2>1. CASE \E orphaned \in BOOLEAN : StartCleanup(p, orphaned)
    BY <2>1, HarmlessStep
       DEF StartCleanup, Begin, At, Goto, TypeOK, files, registry, swarm, history
  <2>2. CASE ImagesDeleted(p)
    <3>1. cmd[p] \in Commands
      BY DEF TypeOK
    <3>2. cmd'[p].releases = cmd[p].releases /\ \A q \in Procs \ {p} : cmd'[q] = cmd[q]
      BY <2>2, <3>1 DEF ImagesDeleted, TypeOK, Commands
    <3>3. /\ pc[p] = "delete" /\ pc'[p] = "files"
          /\ \A q \in Procs \ {p} : pc'[q] = pc[q]
          /\ UNCHANGED <<files, tagged, manifests, wrappers, swarm, spoiled>>
      BY <2>2 DEF ImagesDeleted, At, Goto, TypeOK, registry, history
    <3>4. \A a \in Apps : \A r \in ToSet(releases[a]) : Condemned(a, r) => Condemned(a, r)'
      BY <3>2, <3>3 DEF Condemned
    <3> QED BY <3>2, <3>3, <3>4, QuietStep
  <2>3. CASE FilesRemoved(p)
    <3>1. \A a \in Apps : \A r \in ToSet(releases[a]) : r \notin cmd[p].releases
      BY <2>3 DEF FilesRemoved, LeftReleases
    <3>2. /\ pc[p] = "files"
          /\ UNCHANGED <<files, tagged, manifests, wrappers, swarm, spoiled>>
      BY <2>3 DEF FilesRemoved, At, registry, history
    <3>3. CASE cmd[p].collect
      <4>1. /\ pc'[p] = "scale_down"
            /\ \A q \in Procs \ {p} : pc'[q] = pc[q]
            /\ cmd' = cmd
        BY <2>3, <3>3 DEF FilesRemoved, Goto, TypeOK
      <4>2. \A a \in Apps : \A r \in ToSet(releases[a]) : Condemned(a, r) => Condemned(a, r)'
        BY <3>1, <3>2, <4>1 DEF Condemned
      <4> QED BY <3>2, <4>1, <4>2, QuietStep
    <3>4. CASE ~cmd[p].collect
      BY <2>3, <3>1, <3>2, <3>4, EndStep DEF FilesRemoved
    <3> QED BY <3>3, <3>4
  <2>4. CASE ScaleDown(p)
    BY <2>4, HarmlessStep DEF ScaleDown, At, Goto, TypeOK, files, swarm, history
  <2>5. CASE ScaleUp(p)
    BY <2>5, HarmlessStep DEF ScaleUp, Done, At, Goto, TypeOK, files, swarm, history
  <2>6. CASE \E a \in Apps : \E i \in DOMAIN releases[a] : RemoveRelease(p, a, i)
    BY <2>6, RemoveRecordStep
  <2>7. CASE \E a \in Apps : \E i \in DOMAIN deployments[a] : RemoveDeployment(p, a, i)
    BY <2>7, RemoveRecordStep
  <2> QED BY <1>2, <2>1, <2>2, <2>3, <2>4, <2>5, <2>6, <2>7,
             PlanStep, DeleteImageStep, DeleteWrapperStep, CollectStep
          DEF Cleanup
<1>3. ASSUME NEW p \in Procs, Serve(p) PROVE Images'
  <2>1. ASSUME NEW a \in Apps, Deploy(p, a) PROVE Images'
    <3>1. PICK r \in Latest(a) : DeploySucceeds(a, r) \/ DeployFails(a, r)
      BY <2>1 DEF Deploy
    <3>2. r \in ToSet(releases[a])
      BY DEF Latest, ToSet, TypeOK
    <3>3. /\ LockFree /\ pc' = pc /\ pc[p] = "idle"
          /\ UNCHANGED <<releases, tagged, manifests, spoiled>>
      BY <2>1 DEF Deploy, Begin, At, history
    <3> QED BY <3>1, <3>2, <3>3, DeploymentStep
  <2>2. ASSUME NEW a \in Apps, ChooseRollback(p, a) PROVE Images'
    BY <2>2, HarmlessStep
       DEF ChooseRollback, Begin, At, Goto, TypeOK, files, registry, swarm, history
  <2>3. ASSUME Rollback(p) PROVE Images'
    <3>1. /\ LockFree /\ pc[p] = "rollback" /\ pc'[p] = "idle"
          /\ \A q \in Procs \ {p} : pc'[q] = pc[q] /\ cmd'[q] = cmd[q]
          /\ UNCHANGED <<releases, tagged, manifests, spoiled>>
          /\ cmd[p].app \in Apps
      BY <2>3 DEF Rollback, Done, At, Goto, TypeOK, Commands, history
    <3>2. CASE UNCHANGED <<deployments, wrappers, swarm>>
      BY <3>1, <3>2, HarmlessStep DEF files
    <3>3. CASE \E r \in RecordOf(cmd[p].app, cmd[p].ref.tag) :
                 DeploySucceeds(cmd[p].app, r) \/ DeployFails(cmd[p].app, r)
      BY <3>1, <3>3, DeploymentStep DEF RecordOf
    <3> QED BY <2>3, <3>2, <3>3 DEF Rollback
  <2> QED BY <1>3, <2>1, <2>2, <2>3 DEF Serve
<1>4. ASSUME NEW p \in Procs, RegistryDown(p) PROVE Images'
  <2>1. /\ Done(p)
        /\ pc[p] \in {"push", "plan", "rm_images"}
        /\ spoiled' = spoiled \cup Unfinished(p)
        /\ UNCHANGED <<files, tagged, manifests, wrappers, swarm>>
    BY <1>4 DEF RegistryDown, registry
  <2>2. \A a \in Apps : \A r \in ToSet(releases[a]) :
          r.tag \in spoiled' \/ (pc[p] = "rm_images" => cmd[p].app # a)
    BY <2>1 DEF Unfinished, At
  <2> QED BY <2>1, <2>2, EndStep
<1>5. ASSUME NEW p \in Procs, Stop(p) PROVE Images'
  <2>1. /\ Done(p)
        /\ spoiled \subseteq spoiled'
        /\ pc[p] \in {"delete", "files", "rm_images"} => Unfinished(p) \subseteq spoiled'
        /\ UNCHANGED <<files, tagged, manifests, wrappers, swarm>>
    BY <1>5 DEF Stop, registry, Deleting
  <2>2. ASSUME NEW a \in Apps, NEW r \in ToSet(releases[a]), r.tag \notin spoiled'
        PROVE  /\ pc[p] = "rm_images" => cmd[p].app # a
               /\ pc[p] \in {"delete", "files"} => r \notin cmd[p].releases
    BY <2>1, <2>2 DEF Unfinished, At, LeftReleases
  <2> QED BY <2>1, <2>2, EndStep
<1>6. ASSUME UNCHANGED <<files, tagged, manifests, wrappers, swarm, pc, cmd, spoiled>> PROVE Images'
  BY <1>6 DEF Images, LiveAnchored, WrappersKept, RecordsAnchored, DeploymentsAnchored, Condemned,
       Pushed, PlanSafe, Anchored, LiveRefs, LiveWrappers, files, swarm
<1>7. CASE RestartRegistry
  BY <1>6, <1>7 DEF RestartRegistry
<1>8. CASE UNCHANGED vars
  BY <1>6, <1>8 DEF vars, registry, history
<1> QED BY <1>1, <1>2, <1>3, <1>4, <1>5, <1>7, <1>8, RemovalStep DEF Next

-----------------------------------------------------------------------------
(* Scopes: what a command deletes belongs to the apps it works on *)

\* A step that touches no record, tag or service and gives nobody a command out of
\* its scope.
LEMMA ScopeQuiet ==
  ASSUME ScopeInv, NEW p \in Procs,
         UNCHANGED <<releases, deployments, tagged, running>>,
         \A q \in Procs \ {p} : pc'[q] = pc[q] /\ cmd'[q] = cmd[q],
         CommandScoped(p)', ActiveSpared(p)'
  PROVE  ScopeInv'
<1>1. RecordsOwned'
  BY DEF ScopeInv, RecordsOwned
<1>2. \A q \in Procs \ {p} : CommandScoped(q)' /\ ActiveSpared(q)'
  BY DEF ScopeInv, CommandScoped, ActiveSpared
<1> QED BY <1>1, <1>2 DEF ScopeInv

\* A step under the lock, or when nobody has it: nobody else has begun to delete.
LEMMA ScopeLocked ==
  ASSUME Mutex, NEW p \in Procs, pc[p] \in Locked \/ LockFree,
         \A q \in Procs \ {p} : pc'[q] = pc[q],
         RecordsOwned', CommandScoped(p)', ActiveSpared(p)'
  PROVE  ScopeInv'
<1>1. \A q \in Procs \ {p} : pc'[q] \notin Locked
  BY DEF Mutex, LockFree
<1>2. \A q \in Procs \ {p} : CommandScoped(q)' /\ ActiveSpared(q)'
  BY <1>1 DEF CommandScoped, ActiveSpared, Locked
<1> QED BY <1>2 DEF ScopeInv

\* The end of a command.
LEMMA ScopeEnd ==
  ASSUME TypeOK, ScopeInv, NEW p \in Procs, Done(p), UNCHANGED <<releases, deployments, tagged, running>>
  PROVE  ScopeInv'
<1>1. pc'[p] = "idle" /\ \A q \in Procs \ {p} : pc'[q] = pc[q] /\ cmd'[q] = cmd[q]
  BY DEF Done, Goto, TypeOK
<1>2. CommandScoped(p)' /\ ActiveSpared(p)'
  BY <1>1 DEF CommandScoped, ActiveSpared
<1> QED BY <1>1, <1>2, ScopeQuiet

\* release: the tag it pushes and the record it saves are of the released app.
LEMMA ReleaseScope ==
  ASSUME RetentionAssumption, TypeOK, Mutex, ScopeInv, NEW p \in Procs, Release(p)
  PROVE  ScopeInv'
<1>0. \A q \in Procs \ {p} : pc'[q] = pc[q]
  BY LabelStep
<1>1. ASSUME NEW a \in Apps, NEW n \in Numbers, NEW force \in BOOLEAN, StartRelease(p, a, n, force)
      PROVE  ScopeInv'
  <2>1. PICK d \in Digests :
          cmd' = [cmd EXCEPT ![p] = [NoCommand EXCEPT !.app = a, !.scope = a,
                                        !.ref = [tag |-> <<a, n>>, digest |-> d]]]
    BY <1>1 DEF StartRelease
  <2>2. /\ cmd'[p].ref.tag = <<a, n>> /\ cmd'[p].app = a
        /\ \A q \in Procs \ {p} : cmd'[q] = cmd[q]
    BY <2>1 DEF TypeOK, NoCommand
  <2>3. pc'[p] = "push" /\ UNCHANGED <<releases, deployments, tagged, running>>
    BY <1>1 DEF StartRelease, Goto, TypeOK, files, registry, swarm
  <2>4. CommandScoped(p)' /\ ActiveSpared(p)'
    BY <2>2, <2>3 DEF CommandScoped, ActiveSpared, Owner
  <2> QED BY <1>0, <2>2, <2>3, <2>4, ScopeQuiet
<1>2. CASE Push(p)
  <2>1. /\ pc[p] = "push" /\ pc[p] \in Locked /\ pc'[p] = "save"
        /\ UNCHANGED <<releases, deployments, running, cmd>>
    BY <1>2 DEF Push, At, Goto, Locked, TypeOK, files, swarm
  <2>2. RecordsOwned' /\ CommandScoped(p)' /\ ActiveSpared(p)'
    BY <2>1 DEF ScopeInv, RecordsOwned, CommandScoped, ActiveSpared
  <2> QED BY <1>0, <2>1, <2>2, ScopeLocked
<1>3. CASE SaveMetadata(p)
  <2>1. /\ pc[p] = "save" /\ pc[p] \in Locked /\ pc'[p] = "retain"
        /\ UNCHANGED <<deployments, running, cmd>>
    BY <1>3 DEF SaveMetadata, At, Goto, Locked, TypeOK, swarm
  <2>2. Owner(cmd[p].ref.tag) = cmd[p].app
    BY <2>1 DEF ScopeInv, CommandScoped
  <2>3. RecordsOwned'
    BY <1>3, <2>1, <2>2, Saved, SMTT(30) DEF ScopeInv, RecordsOwned
  <2>4. CommandScoped(p)' /\ ActiveSpared(p)'
    BY <2>1 DEF CommandScoped, ActiveSpared
  <2> QED BY <1>0, <2>1, <2>3, <2>4, ScopeLocked
<1>4. CASE Retain(p)
  <2>1. pc'[p] = "plan" /\ UNCHANGED <<releases, deployments, tagged, running, cmd>>
    BY <1>4 DEF Retain, Goto, TypeOK, files, registry, swarm
  <2>2. CommandScoped(p)' /\ ActiveSpared(p)'
    BY <2>1 DEF CommandScoped, ActiveSpared
  <2> QED BY <1>0, <2>1, <2>2, ScopeQuiet
<1> QED BY <1>1, <1>2, <1>3, <1>4 DEF Release

\* A plan for one app leaves out what is recorded for another, protects the digests that
\* the others' release records resolve to, and no plan takes the record of what runs.
LEMMA PlanScope ==
  ASSUME RetentionAssumption, TypeOK, Mutex, ScopeInv, NEW p \in Procs, Plan(p)
  PROVE  ScopeInv'
<1> DEFINE scope == cmd[p].scope
           orphans == Orphans(cmd[p].orphaned)
<1>0. /\ pc[p] \in Locked /\ pc[p] = "plan" /\ pc'[p] = "delete"
      /\ \A q \in Procs \ {p} : pc'[q] = pc[q]
  BY DEF Plan, At, Goto, Locked, TypeOK
<1>1. scope # Everything => orphans = {}
  BY DEF Orphans, TypeOK
<1>2. /\ UNCHANGED <<releases, deployments, running, tagged>>
      /\ cmd'[p].scope = scope
      /\ cmd'[p].safe = ProtectedDigests(scope, orphans)
      /\ cmd'[p].releases = Expired(releases, scope, orphans)
      /\ cmd'[p].deployments = Expired(deployments, scope, orphans)
  <2>1. cmd[p] \in Commands
    BY DEF TypeOK
  <2> QED BY <2>1 DEF Plan, files, registry, swarm, TypeOK, Commands
<1>4. ASSUME NEW a \in orphans
      PROVE  deployments[a] = <<>> \/ running[a] = NoRef
  BY DEF Orphans, HasLiveDeployment
<1>5. orphans \subseteq Apps
  BY DEF Orphans
<1> HIDE DEF scope, orphans
<1>6. \A x \in Expired(releases, scope, orphans) \cup Expired(deployments, scope, orphans) :
        InScope(Owner(x.tag), scope)
  BY DEF Expired, ScopeInv, RecordsOwned
<1>7. ASSUME NEW b \in Apps, ~InScope(b, scope), NEW r \in ToSet(releases[b])
      PROVE  tagged[r.tag] \in ProtectedDigests(scope, orphans) \cup {None}
  <2>1. b \notin orphans
    BY <1>1, <1>7 DEF InScope
  <2>2. r \in KeptReleases(scope, orphans)
    BY <1>7, <2>1 DEF KeptReleases
  <2> QED BY <2>2 DEF ProtectedDigests
<1>8. ASSUME NEW a \in Apps \ Wrapped, running[a] # NoRef, NEW d \in Expired(deployments, scope, orphans)
      PROVE  d.tag # running[a].tag
  <2> SUFFICES ASSUME d.tag = running[a].tag PROVE FALSE
    OBVIOUS
  <2>1. running[a].tag \in ProtectedTags(scope, orphans)
    BY DEF ProtectedTags, LiveRefs
  <2>2. Owner(d.tag) = a
    BY <1>8 DEF ScopeInv, RecordsOwned
  <2>3. a \in orphans
    BY <2>1, <2>2 DEF Expired
  <2>4. PICK b \in Apps : d \in ToSet(deployments[b])
    BY DEF Expired
  <2>5. b = a
    BY <2>2, <2>4 DEF ScopeInv, RecordsOwned
  <2>6. deployments[a] # <<>>
    BY <2>4, <2>5 DEF ToSet
  <2> QED BY <1>4, <1>8, <2>3, <2>6
<1>9. RecordsOwned'
  BY <1>2 DEF ScopeInv, RecordsOwned
<1>10. CommandScoped(p)'
  BY <1>0, <1>2, <1>6, <1>7 DEF CommandScoped
<1>11. ActiveSpared(p)'
  BY <1>0, <1>2, <1>8 DEF ActiveSpared
<1> QED BY <1>0, <1>9, <1>10, <1>11, ScopeLocked

\* cleanup and retention delete what is planned and nothing else.
LEMMA CleanupScope ==
  ASSUME RetentionAssumption, TypeOK, Mutex, ScopeInv, NEW p \in Procs, Cleanup(p)
  PROVE  ScopeInv'
<1>0. \A q \in Procs \ {p} : pc'[q] = pc[q]
  BY LabelStep
<1>t. cmd[p] \in Commands
  BY DEF TypeOK
<1>i. RecordsOwned /\ CommandScoped(p) /\ ActiveSpared(p)
  BY DEF ScopeInv
<1>1. ASSUME NEW orphaned \in BOOLEAN, StartCleanup(p, orphaned)
      PROVE  ScopeInv'
  <2>1. /\ pc'[p] = "plan" /\ UNCHANGED <<releases, deployments, tagged, running>>
        /\ \A q \in Procs \ {p} : cmd'[q] = cmd[q]
    BY <1>1 DEF StartCleanup, Goto, TypeOK, files, registry, swarm
  <2>2. CommandScoped(p)' /\ ActiveSpared(p)'
    BY <2>1 DEF CommandScoped, ActiveSpared
  <2> QED BY <1>0, <2>1, <2>2, ScopeQuiet
<1>2. ASSUME NEW t \in cmd[p].images, DeleteImage(p, t)
      PROVE  ScopeInv'
  <2>1. /\ pc[p] = "delete" /\ pc[p] \in Locked /\ pc' = pc
        /\ UNCHANGED <<releases, deployments, running>>
        /\ \A u \in Tags : tagged'[u] \in {tagged[u], None}
    BY <1>2 DEF DeleteImage, At, Locked, Without, TypeOK, files, swarm
  <2>2. /\ cmd'[p].scope = cmd[p].scope /\ cmd'[p].safe = cmd[p].safe
        /\ cmd'[p].releases = cmd[p].releases /\ cmd'[p].deployments = cmd[p].deployments
    BY <1>2, <1>t DEF DeleteImage, TypeOK, Commands
  <2>3. RecordsOwned'
    BY <1>i, <2>1 DEF RecordsOwned
  <2>4. CommandScoped(p)'
    BY <1>i, <2>1, <2>2, Named DEF CommandScoped
  <2>5. ActiveSpared(p)'
    BY <1>i, <2>1, <2>2 DEF ActiveSpared
  <2> QED BY <1>0, <2>1, <2>3, <2>4, <2>5, ScopeLocked
<1>3. ASSUME \/ \E r \in cmd[p].wraps : DeleteWrapper(p, r)
             \/ ImagesDeleted(p)
      PROVE  ScopeInv'
  <2>1. /\ pc[p] = "delete" /\ pc'[p] \in {"delete", "files"}
        /\ UNCHANGED <<releases, deployments, running, tagged>>
    BY <1>3 DEF DeleteWrapper, ImagesDeleted, At, Goto, TypeOK, files, registry, swarm
  <2>2. /\ cmd'[p].scope = cmd[p].scope /\ cmd'[p].safe = cmd[p].safe
        /\ cmd'[p].releases = cmd[p].releases /\ cmd'[p].deployments = cmd[p].deployments
        /\ \A q \in Procs \ {p} : cmd'[q] = cmd[q]
    <3>1. CASE \E r \in cmd[p].wraps : DeleteWrapper(p, r)
      BY <1>t, <3>1 DEF DeleteWrapper, TypeOK, Commands
    <3>2. CASE ImagesDeleted(p)
      BY <1>t, <3>2 DEF ImagesDeleted, TypeOK, Commands
    <3> QED BY <1>3, <3>1, <3>2
  <2>3. CommandScoped(p)' /\ ActiveSpared(p)'
    BY <1>i, <2>1, <2>2 DEF CommandScoped, ActiveSpared
  <2> QED BY <1>0, <2>1, <2>2, <2>3, ScopeQuiet
<1>4. ASSUME NEW a \in Apps, NEW i,
             \/ i \in DOMAIN releases[a] /\ RemoveRelease(p, a, i)
             \/ i \in DOMAIN deployments[a] /\ RemoveDeployment(p, a, i)
      PROVE  ScopeInv'
  <2>1. /\ pc[p] = "files" /\ pc[p] \in Locked /\ pc' = pc
        /\ UNCHANGED <<running, cmd>>
    BY <1>4 DEF RemoveRelease, RemoveDeployment, At, Locked, swarm
  <2>2. RecordsOwned'
    BY <1>4, <1>i, <2>1, Removed DEF RecordsOwned
  <2>3. CommandScoped(p)' /\ ActiveSpared(p)'
    BY <1>i, <2>1 DEF CommandScoped, ActiveSpared
  <2> QED BY <1>0, <2>1, <2>2, <2>3, ScopeLocked
<1>5. CASE FilesRemoved(p)
  <2>1. UNCHANGED <<releases, deployments, tagged, running>>
    BY <1>5 DEF FilesRemoved, files, registry, swarm
  <2>2. CASE Done(p)
    BY <2>1, <2>2, ScopeEnd
  <2>3. CASE Goto(p, "scale_down") /\ UNCHANGED cmd
    <3>1. CommandScoped(p)' /\ ActiveSpared(p)'
      BY <2>3 DEF Goto, TypeOK, CommandScoped, ActiveSpared
    <3> QED BY <1>0, <2>1, <2>3, <3>1, ScopeQuiet
  <2> QED BY <1>5, <2>2, <2>3 DEF FilesRemoved
<1>6. CASE ScaleDown(p) \/ Collect(p)
  <2>1. pc'[p] \in {"collect", "scale_up"} /\ UNCHANGED <<releases, deployments, tagged, running, cmd>>
    BY <1>6 DEF ScaleDown, Collect, Goto, TypeOK, files, swarm
  <2>2. CommandScoped(p)' /\ ActiveSpared(p)'
    BY <2>1 DEF CommandScoped, ActiveSpared
  <2> QED BY <1>0, <2>1, <2>2, ScopeQuiet
<1>7. CASE ScaleUp(p)
  BY <1>7, ScopeEnd DEF ScaleUp, files, swarm
<1> QED BY <1>1, <1>2, <1>3, <1>4, <1>5, <1>6, <1>7, PlanScope DEF Cleanup

\* A deployment starts a release of the app and records it.
LEMMA DeployedScope ==
  ASSUME RetentionAssumption, TypeOK, ScopeInv, NEW a \in Apps, NEW r \in ToSet(releases[a]),
         DeploySucceeds(a, r) \/ DeployFails(a, r), releases' = releases
  PROVE  RecordsOwned'
<1>1. PICK ok \in BOOLEAN : Recorded(a, r, ok)
  BY DEF DeploySucceeds, DeployFails
<1> DEFINE d == [tag |-> r.tag, digest |-> r.digest, ok |-> ok]
<1>2. d.tag = r.tag /\ Owner(r.tag) = a
  BY DEF ScopeInv, RecordsOwned
<1>3. /\ ToSet(deployments'[a]) = ToSet(deployments[a]) \cup {d}
      /\ \A b \in Apps \ {a} : deployments'[b] = deployments[b]
  BY <1>1, Kept
<1> HIDE DEF d
<1>4. \A b \in Apps : running'[b] = running[b] \/ (b = a /\ running'[b] = r)
  BY DEF DeploySucceeds, DeployFails, swarm, TypeOK
<1> QED BY <1>2, <1>3, <1>4 DEF ScopeInv, RecordsOwned

\* deploy and rollback.
LEMMA ServeScope ==
  ASSUME RetentionAssumption, TypeOK, Mutex, ScopeInv, NEW p \in Procs, Serve(p)
  PROVE  ScopeInv'
<1>0. \A q \in Procs \ {p} : pc'[q] = pc[q]
  BY LabelStep
<1>1. ASSUME NEW a \in Apps, Deploy(p, a)
      PROVE  ScopeInv'
  <2>1. PICK r \in Latest(a) : DeploySucceeds(a, r) \/ DeployFails(a, r)
    BY <1>1 DEF Deploy
  <2>2. r \in ToSet(releases[a])
    BY DEF Latest, ToSet, TypeOK
  <2>3. /\ LockFree /\ pc' = pc /\ pc[p] = "idle" /\ releases' = releases
    BY <1>1 DEF Deploy, Begin, At
  <2>4. RecordsOwned'
    BY <2>1, <2>2, <2>3, DeployedScope
  <2>5. CommandScoped(p)' /\ ActiveSpared(p)'
    BY <2>3 DEF CommandScoped, ActiveSpared
  <2> QED BY <1>0, <2>3, <2>4, <2>5, ScopeLocked
<1>2. ASSUME NEW a \in Apps, ChooseRollback(p, a)
      PROVE  ScopeInv'
  <2>1. /\ pc'[p] = "rollback" /\ UNCHANGED <<releases, deployments, tagged, running>>
        /\ \A q \in Procs \ {p} : cmd'[q] = cmd[q]
    BY <1>2 DEF ChooseRollback, Goto, TypeOK, files, registry, swarm
  <2>2. CommandScoped(p)' /\ ActiveSpared(p)'
    BY <2>1 DEF CommandScoped, ActiveSpared
  <2> QED BY <1>0, <2>1, <2>2, ScopeQuiet
<1>3. CASE Rollback(p)
  <2>1. /\ LockFree /\ pc'[p] = "idle" /\ Done(p) /\ UNCHANGED <<releases, tagged>>
        /\ cmd[p].app \in Apps
    BY <1>3 DEF Rollback, Done, Goto, TypeOK, Commands
  <2>2. CASE UNCHANGED <<deployments, wrappers, swarm>>
    BY <2>1, <2>2, ScopeEnd DEF swarm
  <2>3. CASE \E r \in RecordOf(cmd[p].app, cmd[p].ref.tag) :
               DeploySucceeds(cmd[p].app, r) \/ DeployFails(cmd[p].app, r)
    <3>1. RecordsOwned'
      BY <2>1, <2>3, DeployedScope DEF RecordOf
    <3>2. CommandScoped(p)' /\ ActiveSpared(p)'
      BY <2>1 DEF CommandScoped, ActiveSpared
    <3> QED BY <1>0, <2>1, <3>1, <3>2, ScopeLocked
  <2> QED BY <1>3, <2>2, <2>3 DEF Rollback
<1> QED BY <1>1, <1>2, <1>3 DEF Serve

\* remove stops the service first, and deletes the records of the app last.
LEMMA RemovalScope ==
  ASSUME RetentionAssumption, TypeOK, Mutex, ScopeInv, NEW p \in Procs, Removal(p)
  PROVE  ScopeInv'
<1>0. \A q \in Procs \ {p} : pc'[q] = pc[q]
  BY LabelStep
<1>1. ASSUME NEW a \in Apps, StartRemove(p, a)
      PROVE  ScopeInv'
  <2>1. /\ LockFree /\ pc'[p] = "rm_images" /\ UNCHANGED <<releases, deployments>>
        /\ running' = [running EXCEPT ![a] = NoRef]
    BY <1>1 DEF StartRemove, Goto, TypeOK, files
  <2>2. cmd'[p].app = a
    BY <1>1 DEF StartRemove, TypeOK, NoCommand
  <2>3. RecordsOwned' /\ running'[a] = NoRef
    BY <2>1 DEF ScopeInv, RecordsOwned, TypeOK
  <2>4. CommandScoped(p)' /\ ActiveSpared(p)'
    BY <2>1, <2>2, <2>3 DEF CommandScoped, ActiveSpared
  <2> QED BY <1>0, <2>1, <2>3, <2>4, ScopeLocked
<1>2. ASSUME NEW t \in cmd[p].images, RemoveImage(p, t)
      PROVE  ScopeInv'
  <2>1. /\ pc[p] = "rm_images" /\ pc[p] \in Locked /\ pc' = pc
        /\ UNCHANGED <<releases, deployments, running>>
        /\ cmd'[p].app = cmd[p].app
    BY <1>2 DEF RemoveImage, At, Locked, TypeOK, Commands, files, swarm
  <2>2. RecordsOwned' /\ CommandScoped(p)' /\ ActiveSpared(p)'
    BY <2>1 DEF ScopeInv, RecordsOwned, CommandScoped, ActiveSpared
  <2> QED BY <1>0, <2>1, <2>2, ScopeLocked
<1>3. CASE RemoveState(p)
  <2>1. /\ pc[p] = "rm_images" /\ pc[p] \in Locked /\ pc'[p] = "idle" /\ running' = running
    BY <1>3 DEF RemoveState, Done, Goto, At, Locked, TypeOK, swarm
  <2>2. \A a \in Apps : /\ ToSet(releases'[a]) \subseteq ToSet(releases[a])
                        /\ ToSet(deployments'[a]) \subseteq ToSet(deployments[a])
    <3>1. ToSet(<<>>) = {}
      BY DEF ToSet
    <3> QED BY <1>3, <3>1 DEF RemoveState, TypeOK
  <2>3. RecordsOwned'
    BY <2>1, <2>2 DEF ScopeInv, RecordsOwned
  <2>4. CommandScoped(p)' /\ ActiveSpared(p)'
    BY <2>1 DEF CommandScoped, ActiveSpared
  <2> QED BY <1>0, <2>1, <2>3, <2>4, ScopeLocked
<1> QED BY <1>1, <1>2, <1>3 DEF Removal

\* Every step keeps the scopes.
LEMMA ScopeStep ==
  ASSUME RetentionAssumption, TypeOK, Mutex, ScopeInv, [Next]_vars
  PROVE  ScopeInv'
<1>1. ASSUME NEW p \in Procs, RegistryDown(p) \/ Stop(p)
      PROVE  ScopeInv'
  BY <1>1, ScopeEnd DEF RegistryDown, Stop, files, registry, swarm
<1>2. ASSUME UNCHANGED <<releases, deployments, tagged, running, pc, cmd>>
      PROVE  ScopeInv'
  BY <1>2 DEF ScopeInv, RecordsOwned, CommandScoped, ActiveSpared
<1>3. CASE RestartRegistry
  BY <1>2, <1>3 DEF RestartRegistry, files, swarm
<1>4. CASE UNCHANGED vars
  BY <1>2, <1>4 DEF vars, files, registry, swarm
<1> QED BY <1>1, <1>3, <1>4, ReleaseScope, CleanupScope, ServeScope, RemovalScope DEF Next

-----------------------------------------------------------------------------
(* Theorems *)

\* Nothing is recorded, pushed or served at first.
LEMMA InitInv ==
  ASSUME RetentionAssumption, Init
  PROVE  RetentionInv /\ RegistryReturns
<1>1. TypeOK
  <2>1. <<>> \in Seq(Refs) /\ <<>> \in Seq(Deployments)
    OBVIOUS
  <2>2. /\ releases \in [Apps -> Seq(Refs)] /\ deployments \in [Apps -> Seq(Deployments)]
    BY <2>1 DEF Init
  <2>3. cmd \in [Procs -> Commands] /\ \A p \in Procs : ~cmd[p].orphaned
    BY NoCommandType DEF Init
  <2>4. /\ running \in [Apps -> Refs \cup {NoRef}] /\ spare \in [Apps -> Refs \cup {NoRef}]
        /\ tagged \in [Tags -> Digests \cup {None}]
    BY DEF Init
  <2>5. /\ pc \in [Procs -> Locked \cup {"idle", "retain", "rollback"}]
        /\ \A p \in Procs : pc[p] \notin {"push", "save", "rollback"}
    BY DEF Init
  <2>6. commands \in 0 .. MaxCommands /\ faults \in 0 .. MaxFaults
    BY DEF Init, RetentionAssumption
  <2>7. /\ manifests \subseteq Digests /\ wrappers \subseteq Refs /\ spoiled \subseteq Tags
        /\ registryUp \in BOOLEAN /\ stranded \in BOOLEAN
    BY DEF Init
  <2> QED BY <2>2, <2>3, <2>4, <2>5, <2>6, <2>7 DEF TypeOK
<1>2. \A a \in Apps : ToSet(releases[a]) = {} /\ ToSet(deployments[a]) = {}
  BY DEF Init, ToSet
<1>3. LiveRefs \subseteq {NoRef} /\ LiveWrappers \subseteq {NoRef}
  BY DEF Init, LiveRefs, LiveWrappers, RetentionAssumption
<1>4. \A p \in Procs : pc[p] = "idle"
  BY DEF Init
<1>5. Mutex /\ \A p \in Procs : Pushed(p) /\ PlanSafe(p)
  BY <1>4 DEF Mutex, Locked, Pushed, PlanSafe
<1>6. LiveAnchored /\ WrappersKept /\ RecordsAnchored /\ DeploymentsAnchored
  BY <1>2, <1>3 DEF LiveAnchored, WrappersKept, RecordsAnchored, DeploymentsAnchored
<1>7. RegistryReturns
  BY DEF Init, RegistryReturns
<1> QED BY <1>1, <1>5, <1>6, <1>7 DEF RetentionInv

\* The inductive invariant holds in every reachable state.
THEOREM RetentionInvariant == Spec => []RetentionInv
<1>1. Init => RetentionInv
  BY RetentionAssumption, InitInv
<1>2. RetentionInv /\ [Next]_vars => RetentionInv'
  <2> SUFFICES ASSUME RetentionInv, [Next]_vars
               PROVE  RetentionInv'
    OBVIOUS
  <2>1. TypeOK /\ Mutex /\ Images
    BY DEF RetentionInv, Images
  <2>2. TypeOK'
    BY <2>1, RetentionAssumption, TypeStep
  <2>3. Mutex'
    BY <2>1, MutexStep
  <2>4. Images'
    BY <2>1, RetentionAssumption, ImagesStep
  <2> QED BY <2>2, <2>3, <2>4 DEF RetentionInv, Images
<1> QED BY <1>1, <1>2, PTL DEF Spec

\* Records, images, services and the locals of commands keep their types.
THEOREM RetentionTypes == Spec => []TypeOK
<1>1. RetentionInv => TypeOK
  BY DEF RetentionInv
<1> QED BY <1>1, RetentionInvariant, PTL

\* What a service runs, or may be rolled back to, stays in the registry,
\* whatever was released, cleaned up or removed around it.
THEOREM LiveImagesStay == Spec => []LivePullable
<1>1. RetentionInv => LivePullable
  <2> SUFFICES ASSUME RetentionInv, NEW a \in Apps,
                      NEW r \in {running[a], spare[a]} \ {NoRef}
               PROVE  InRegistry(a, r)
    BY DEF LivePullable
  <2>1. CASE a \in Wrapped
    BY <2>1 DEF RetentionInv, WrappersKept, LiveWrappers, InRegistry
  <2>2. CASE a \notin Wrapped
    BY <2>2 DEF RetentionInv, LiveAnchored, LiveRefs, Anchored, InRegistry
  <2> QED BY <2>1, <2>2
<1> QED BY <1>1, RetentionInvariant, PTL

\* Between commands, a release record names an image that can be pulled.
THEOREM ReleaseRecordsResolve == Spec => []RecordsResolve
<1>1. RetentionInv => RecordsResolve
  <2> SUFFICES ASSUME RetentionInv, LockFree, NEW a \in Apps, NEW r \in ToSet(releases[a])
               PROVE  r.tag \in spoiled \/ r.digest \in manifests
    BY DEF RecordsResolve
  <2>1. ~Condemned(a, r)
    BY DEF LockFree, Locked, Condemned
  <2> QED BY <2>1 DEF RetentionInv, RecordsAnchored, Anchored
<1> QED BY <1>1, RetentionInvariant, PTL

\* Once no collection is under way the registry runs, unless a process was
\* killed while it had the registry scaled down.
THEOREM RegistryComesBack == Spec => []RegistryReturns
<1>1. Init => RegistryReturns
  BY RetentionAssumption, InitInv
<1>2. TypeOK /\ RegistryReturns /\ [Next]_vars => RegistryReturns'
  BY RegistryReturnsStep
<1> QED BY <1>1, <1>2, RetentionTypes, PTL DEF Spec

\* Records, tags and the digests that commands protect stay with their apps.
THEOREM ScopeInvariant == Spec => [](RetentionInv /\ ScopeInv)
<1>1. Init => ScopeInv
  <2> SUFFICES ASSUME Init PROVE ScopeInv
    OBVIOUS
  <2>1. \A a \in Apps : ToSet(releases[a]) = {} /\ ToSet(deployments[a]) = {} /\ running[a] = NoRef
    BY DEF Init, ToSet
  <2>2. \A p \in Procs : pc[p] = "idle"
    BY DEF Init
  <2> QED BY <2>1, <2>2 DEF ScopeInv, RecordsOwned, CommandScoped, ActiveSpared
<1>2. RetentionInv /\ ScopeInv /\ [Next]_vars => ScopeInv'
  BY RetentionAssumption, ScopeStep DEF RetentionInv
<1> QED BY <1>1, <1>2, RetentionInvariant, PTL DEF Spec

\* As long as nobody releases, cleans up or removes b, no step takes a record of b or
\* moves a tag that one of its release records names.
LEMMA OthersSpared ==
  ASSUME RetentionAssumption, TypeOK, Mutex, ScopeInv, [Next]_vars, NEW b \in Apps, Untouched(b)
  PROVE  /\ UNCHANGED releases[b]
         /\ ToSet(deployments[b]) \subseteq ToSet(deployments'[b])
         /\ \A r \in ToSet(releases[b]) : tagged'[r.tag] = tagged[r.tag]
<1> DEFINE Goal == /\ releases'[b] = releases[b]
                   /\ ToSet(deployments[b]) \subseteq ToSet(deployments'[b])
                   /\ \A r \in ToSet(releases[b]) : tagged'[r.tag] = tagged[r.tag]
<1>0. ASSUME UNCHANGED <<releases, deployments, tagged>> PROVE Goal
  BY <1>0
<1>1. ASSUME NEW p \in Procs, Release(p) PROVE Goal
  <2>1. CASE Push(p)
    <3>1. /\ UNCHANGED <<releases, deployments>> /\ pc[p] = "push"
          /\ tagged' = [tagged EXCEPT ![cmd[p].ref.tag] = cmd[p].ref.digest]
      BY <2>1 DEF Push, At, files
    <3>2. cmd[p].app # b /\ Owner(cmd[p].ref.tag) = cmd[p].app
      BY <3>1 DEF Untouched, ScopeInv, CommandScoped
    <3>3. \A r \in ToSet(releases[b]) : Owner(r.tag) = b /\ r.tag \in Tags
      BY Named DEF ScopeInv, RecordsOwned
    <3> QED BY <3>1, <3>2, <3>3 DEF TypeOK
  <2>2. CASE SaveMetadata(p)
    <3>1. cmd[p].app # b
      BY <2>2 DEF SaveMetadata, At, Untouched
    <3> QED BY <2>2, <3>1, Saved DEF SaveMetadata, registry
  <2>3. CASE Retain(p) \/ \E a \in Apps, n \in Numbers, force \in BOOLEAN : StartRelease(p, a, n, force)
    BY <1>0, <2>3 DEF Retain, StartRelease, files, registry
  <2> QED BY <1>1, <2>1, <2>2, <2>3 DEF Release
<1>2. ASSUME NEW p \in Procs, Cleanup(p) PROVE Goal
  <2>1. ASSUME NEW t \in cmd[p].images, DeleteImage(p, t) PROVE Goal
    <3>1. /\ UNCHANGED <<releases, deployments>> /\ pc[p] = "delete"
          /\ \/ tagged' = tagged
             \/ /\ tagged[t] \notin cmd[p].safe /\ tagged[t] # None
                /\ \A u \in Tags : tagged[u] # tagged[t] => tagged'[u] = tagged[u]
      BY <2>1 DEF DeleteImage, Without, At, files
    <3>2. ~InScope(b, cmd[p].scope)
      BY <3>1 DEF Untouched
    <3>3. \A r \in ToSet(releases[b]) : r.tag \in Tags /\ tagged[r.tag] \in cmd[p].safe \cup {None}
      BY <3>1, <3>2, Named DEF ScopeInv, CommandScoped
    <3> QED BY <3>1, <3>3
  <2>2. ASSUME NEW a \in Apps, NEW i,
               \/ i \in DOMAIN releases[a] /\ RemoveRelease(p, a, i)
               \/ i \in DOMAIN deployments[a] /\ RemoveDeployment(p, a, i)
        PROVE  Goal
    <3>1. pc[p] = "files" /\ tagged' = tagged
      BY <2>2 DEF RemoveRelease, RemoveDeployment, At, registry
    <3>2. ~InScope(b, cmd[p].scope)
      BY <3>1 DEF Untouched
    <3>3. \A x \in ToSet(releases[b]) \cup ToSet(deployments[b]) :
            x \notin cmd[p].releases \cup cmd[p].deployments
      BY <3>1, <3>2 DEF ScopeInv, RecordsOwned, CommandScoped
    <3> QED BY <2>2, <3>1, <3>3, Removed
  <2>3. CASE \/ \E orphaned \in BOOLEAN : StartCleanup(p, orphaned)
             \/ Plan(p) \/ ImagesDeleted(p)
             \/ \E r \in cmd[p].wraps : DeleteWrapper(p, r)
    BY <1>0, <2>3 DEF StartCleanup, Plan, ImagesDeleted, DeleteWrapper, files, registry
  <2>4. CASE FilesRemoved(p) \/ ScaleDown(p) \/ Collect(p) \/ ScaleUp(p)
    BY <1>0, <2>4 DEF FilesRemoved, ScaleDown, Collect, ScaleUp, files, registry
  <2> QED BY <1>2, <2>1, <2>2, <2>3, <2>4 DEF Cleanup
<1>3. ASSUME NEW p \in Procs, Serve(p) PROVE Goal
  <2>1. ASSUME NEW a \in Apps, NEW r \in ToSet(releases[a]), DeploySucceeds(a, r) \/ DeployFails(a, r)
        PROVE  ToSet(deployments[b]) \subseteq ToSet(deployments'[b])
    BY <2>1, Kept DEF DeploySucceeds, DeployFails
  <2>2. ASSUME NEW a \in Apps, Deploy(p, a) PROVE Goal
    <3>1. PICK r \in Latest(a) : DeploySucceeds(a, r) \/ DeployFails(a, r)
      BY <2>2 DEF Deploy
    <3>2. r \in ToSet(releases[a])
      BY DEF Latest, ToSet, TypeOK
    <3> QED BY <2>1, <2>2, <3>1, <3>2 DEF Deploy
  <2>3. CASE Rollback(p)
    <3>1. UNCHANGED <<releases, tagged>> /\ cmd[p].app \in Apps
      BY <2>3 DEF Rollback, TypeOK, Commands
    <3>2. CASE deployments' = deployments
      BY <1>0, <3>1, <3>2
    <3>3. CASE \E r \in RecordOf(cmd[p].app, cmd[p].ref.tag) :
                 DeploySucceeds(cmd[p].app, r) \/ DeployFails(cmd[p].app, r)
      BY <2>1, <3>1, <3>3 DEF RecordOf
    <3> QED BY <2>3, <3>2, <3>3 DEF Rollback
  <2>4. ASSUME NEW a \in Apps, ChooseRollback(p, a) PROVE Goal
    BY <1>0, <2>4 DEF ChooseRollback, files, registry
  <2> QED BY <1>3, <2>2, <2>3, <2>4 DEF Serve
<1>4. ASSUME NEW p \in Procs, Removal(p) PROVE Goal
  <2>1. pc[p] # "rm_images"
    BY DEF Untouched
  <2>2. \E a \in Apps : StartRemove(p, a)
    BY <1>4, <2>1 DEF Removal, RemoveImage, RemoveState, At
  <2> QED BY <1>0, <2>2 DEF StartRemove, files, registry
<1>5. ASSUME NEW p \in Procs, RegistryDown(p) \/ Stop(p) PROVE Goal
  BY <1>0, <1>5 DEF RegistryDown, Stop, files, registry
<1>6. CASE RestartRegistry \/ UNCHANGED vars
  BY <1>0, <1>6 DEF RestartRegistry, vars, files, registry
<1> QED BY <1>1, <1>2, <1>3, <1>4, <1>5, <1>6 DEF Next

\* Releases, cleanups and deployments of other apps leave the records of an app and what
\* its tags resolve to as they are, for any digests the apps share.
THEOREM ScopesAreKept == Spec => ScopedSparesOthers
<1>1. RetentionInv /\ ScopeInv /\ [Next]_vars =>
        [\A b \in Apps : Untouched(b) =>
           /\ UNCHANGED releases[b]
           /\ ToSet(deployments[b]) \subseteq ToSet(deployments'[b])
           /\ \A r \in ToSet(releases[b]) : tagged'[r.tag] = tagged[r.tag]]_vars
  BY RetentionAssumption, OthersSpared DEF RetentionInv
<1> QED BY <1>1, ScopeInvariant, PTL DEF Spec, ScopedSparesOthers

\* The newest successful deployments of an app are among its records.
LEMMA NewestRecorded ==
  ASSUME NEW a \in Apps, NEW n, NEW d \in NewestSuccesses(a, n)
  PROVE  d \in ToSet(deployments[a])
<1>1. \A k \in Successes(a) : deployments[a][k] \in ToSet(deployments[a])
  BY DEF Successes, ToSet
<1> QED BY <1>1, Zenon DEF NewestSuccesses

\* A step that leaves a service running leaves its record.
LEMMA ActiveStep ==
  ASSUME RetentionAssumption, TypeOK, Mutex, ScopeInv, [Next]_vars,
         NEW a \in Apps \ Wrapped, running[a] # NoRef, running'[a] = running[a],
         NEW d \in ToSet(deployments[a]), DeploymentRef(d) = running[a]
  PROVE  d \in ToSet(deployments'[a])
<1>0. d.tag = running[a].tag
  BY DEF DeploymentRef
<1>1. ASSUME NEW p \in Procs, Release(p) PROVE d \in ToSet(deployments'[a])
  BY <1>1 DEF Release, StartRelease, Push, SaveMetadata, Retain, files
<1>2. ASSUME NEW p \in Procs, Cleanup(p) PROVE d \in ToSet(deployments'[a])
  <2>1. ASSUME NEW b \in Apps, NEW i,
               \/ i \in DOMAIN releases[b] /\ RemoveRelease(p, b, i)
               \/ i \in DOMAIN deployments[b] /\ RemoveDeployment(p, b, i)
        PROVE  d \in ToSet(deployments'[a])
    <3>1. pc[p] = "files"
      BY <2>1 DEF RemoveRelease, RemoveDeployment, At
    <3>2. d \notin cmd[p].deployments
      BY <1>0, <3>1 DEF ScopeInv, ActiveSpared
    <3> QED BY <2>1, <3>2, Removed
  <2>2. CASE \/ \E orphaned \in BOOLEAN : StartCleanup(p, orphaned)
             \/ Plan(p) \/ ImagesDeleted(p)
             \/ \E t \in cmd[p].images : DeleteImage(p, t)
             \/ \E r \in cmd[p].wraps : DeleteWrapper(p, r)
    BY <2>2 DEF StartCleanup, Plan, ImagesDeleted, DeleteImage, DeleteWrapper, files
  <2>3. CASE FilesRemoved(p) \/ ScaleDown(p) \/ Collect(p) \/ ScaleUp(p)
    BY <2>3 DEF FilesRemoved, ScaleDown, Collect, ScaleUp, files
  <2> QED BY <1>2, <2>1, <2>2, <2>3 DEF Cleanup
<1>3. ASSUME NEW p \in Procs, Serve(p) PROVE d \in ToSet(deployments'[a])
  <2>1. ASSUME NEW b \in Apps, NEW r \in ToSet(releases[b]), DeploySucceeds(b, r) \/ DeployFails(b, r)
        PROVE  d \in ToSet(deployments'[a])
    BY <2>1, Kept DEF DeploySucceeds, DeployFails
  <2>2. ASSUME NEW b \in Apps, Deploy(p, b) PROVE d \in ToSet(deployments'[a])
    <3>1. PICK r \in Latest(b) : DeploySucceeds(b, r) \/ DeployFails(b, r)
      BY <2>2 DEF Deploy
    <3>2. r \in ToSet(releases[b])
      BY DEF Latest, ToSet, TypeOK
    <3> QED BY <2>1, <3>1, <3>2
  <2>3. CASE Rollback(p)
    <3>1. cmd[p].app \in Apps
      BY DEF TypeOK, Commands
    <3> QED BY <2>1, <2>3, <3>1 DEF Rollback, RecordOf
  <2>4. ASSUME NEW b \in Apps, ChooseRollback(p, b) PROVE d \in ToSet(deployments'[a])
    BY <2>4 DEF ChooseRollback, files
  <2> QED BY <1>3, <2>2, <2>3, <2>4 DEF Serve
<1>4. ASSUME NEW p \in Procs, Removal(p) PROVE d \in ToSet(deployments'[a])
  <2>1. CASE RemoveState(p)
    <3>1. pc[p] = "rm_images"
      BY <2>1 DEF RemoveState, At
    <3>2. cmd[p].app # a
      BY <3>1 DEF ScopeInv, ActiveSpared
    <3> QED BY <2>1, <3>2 DEF RemoveState, TypeOK
  <2>2. CASE \/ \E b \in Apps : StartRemove(p, b)
             \/ \E t \in cmd[p].images : RemoveImage(p, t)
    BY <2>2 DEF StartRemove, RemoveImage, files
  <2> QED BY <1>4, <2>1, <2>2 DEF Removal
<1>5. ASSUME NEW p \in Procs, RegistryDown(p) \/ Stop(p) PROVE d \in ToSet(deployments'[a])
  BY <1>5 DEF RegistryDown, Stop, files
<1>6. CASE RestartRegistry \/ UNCHANGED vars
  BY <1>6 DEF RestartRegistry, vars, files
<1> QED BY <1>1, <1>2, <1>3, <1>4, <1>5, <1>6 DEF Next

\* Whatever is cleaned up, the record of the deployment that serves is kept, with
\* any number of records retained, none included.
THEOREM ServingRecordsAreKept == Spec => ActiveRecordKept
<1>1. RetentionInv /\ ScopeInv /\ [Next]_vars =>
        [\A a \in Apps \ Wrapped : running[a] # NoRef /\ running'[a] = running[a] =>
           \A d \in NewestSuccesses(a, 1) :
             DeploymentRef(d) = running[a] => d \in ToSet(deployments'[a])]_vars
  BY RetentionAssumption, ActiveStep, NewestRecorded DEF RetentionInv
<1> QED BY <1>1, ScopeInvariant, PTL DEF Spec, ActiveRecordKept
=============================================================================
