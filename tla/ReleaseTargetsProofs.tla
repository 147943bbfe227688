----------------------- MODULE ReleaseTargetsProofs -----------------------
(***************************************************************************)
(* Proofs about ReleaseTargets for any services with any dependencies, any *)
(* command and target, and any number of releases and removes by others.   *)
(***************************************************************************)
EXTENDS ReleaseTargets, FiniteSetTheorems, WellFoundedInduction, TLAPS

\* The manifests and targets that the proof is about: any services and dependencies.
IsTarget(w) ==
  /\ \E n \in Nat : w.services = 1..n
  /\ w.dependsOn \in [w.services -> SUBSET Nat] /\ w.releaseOnly \subseteq Nat \ {0}
  /\ w.command \in {"deploy", "release", "release --deploy", "remove", "rollback"}
  /\ w.target \in {All, None} \cup w.services

Calls   == [service : wanted.services, deps : SUBSET Nat]
Entries == [what : {"release"} \cup Acted, service : wanted.services, tag : Nat]

Deploys == {"deploy", "retry", "release missing"}
Works   == {"begin", "release", "remove", "rollback"} \cup Deploys

TagTypes ==
  /\ latestTag \in [wanted.services -> Nat] /\ builtTags \in [wanted.services -> Nat]
  /\ keptTags \in [wanted.services -> SUBSET Nat]
  /\ \A s \in wanted.services : \E n \in Nat : \A t \in keptTags[s] : t <= n

TargetTypes ==
  /\ IsTarget(wanted) /\ TagTypes
  /\ targetPhase \in {"resolve", "order", "refused", "failed", "done"} \cup Works
  /\ marks \in [wanted.services -> {0, 1, 2}]
  /\ visits \in Seq(Calls)
  /\ ordered \in Seq(wanted.services) /\ pendingServices \in Seq(wanted.services)
  /\ lifecycleLog \in Seq(Entries)

Declared == \A s \in wanted.services : wanted.dependsOn[s] \subseteq wanted.services
Among(seq, s) == \E i \in 1..Len(seq) : seq[i] = s
NoneTwice(seq) == \A i, j \in 1..Len(seq) : seq[i] = seq[j] => i = j

\* Each service comes once, and after its dependencies.
InOrder(seq) ==
  /\ NoneTwice(seq)
  /\ \A i \in 1..Len(seq) : \A d \in wanted.dependsOn[seq[i]] : \E j \in 1..i - 1 : seq[j] = d

\* The calls of visit that have not returned are a path along the dependencies; what a
\* call is through with is ordered or visited by the next one.
PathIsVisited ==
  /\ \A i, j \in 1..Len(visits) : visits[i].service = visits[j].service => i = j
  /\ \A i \in 1..Len(visits) - 1 :
       visits[i + 1].service \in wanted.dependsOn[visits[i].service]
  /\ \A i \in 1..Len(visits) :
       /\ visits[i].deps \subseteq wanted.dependsOn[visits[i].service]
       /\ \A d \in wanted.dependsOn[visits[i].service] \ visits[i].deps :
            Among(ordered, d) \/ (i < Len(visits) /\ d = visits[i + 1].service)

OrderSoFar ==
  /\ wanted.target = All
  /\ visits # <<>> => Declared
  /\ \A s \in wanted.services :
       /\ marks[s] = 1 <=> \E i \in 1..Len(visits) : visits[i].service = s
       /\ marks[s] = 2 <=> Among(ordered, s)
  /\ PathIsVisited
  /\ InOrder(ordered)

OrderIsComplete ==
  /\ Declared /\ InOrder(ordered)
  /\ \A s \in wanted.services : Among(ordered, s)

OrderIsMade ==
  /\ targetPhase = "resolve" =>
       marks = [s \in wanted.services |-> 0] /\ visits = <<>> /\ ordered = <<>>
  /\ targetPhase = "order" => OrderSoFar
  /\ targetPhase = "refused" /\ wanted.target = All => ~Sound
  /\ targetPhase \in Works \cup {"failed", "done"} /\ wanted.target = All => OrderIsComplete

\* What a command is at.
Doing ==
  IF targetPhase = "begin"
    THEN IF wanted.command = "release --deploy" THEN "release" ELSE wanted.command
  ELSE IF targetPhase \in Deploys THEN "deploy" ELSE targetPhase

\* todo is what is left to do, in an order in which it may be done.
IsLeft(what, todo, done) ==
  /\ NoneTwice(todo)
  /\ \A i \in 1..Len(todo) :
       /\ todo[i] \notin done /\ ~Skips(what, todo[i])
       /\ \A d \in Needs(todo[i]) : Skips(what, d) \/ d \in done \/ \E j \in 1..i - 1 : todo[j] = d
  /\ \A s \in wanted.services : ~Skips(what, s) <=> s \in done \/ Among(todo, s)

DoneSoFar(what) == Done(what, Len(lifecycleLog))

WorkIsLeft ==
  /\ targetPhase \in {"resolve", "order", "refused", "begin"} => lifecycleLog = <<>>
  /\ targetPhase \in Works /\ wanted.target = All =>
       IsLeft(Doing, pendingServices, DoneSoFar(Doing))

\* What a command does, in which phase.
CommandsKeepTo ==
  /\ targetPhase \in Works /\ wanted.target # All => OnlyTarget \in wanted.services
  /\ targetPhase = "release" =>
       /\ wanted.command \in {"release", "release --deploy"}
       /\ \A i \in 1..Len(lifecycleLog) : lifecycleLog[i].what = "release"
  /\ targetPhase \in Deploys => wanted.command \in {"deploy", "release --deploy"}
  /\ targetPhase \in {"retry", "release missing"} => pendingServices # <<>>
  /\ targetPhase \in {"remove", "rollback"} => wanted.command = targetPhase

\* release --deploy has built what it deploys; deploy releases a service once.
ReleasesAreKnown ==
  wanted.target = All =>
    /\ wanted.command = "release --deploy" =>
         /\ targetPhase = "release" => \A s \in DoneSoFar("release") : builtTags[s] # 0
         /\ targetPhase \in Deploys => /\ targetPhase = "deploy"
                                       /\ \A s \in wanted.services : builtTags[s] # 0
    /\ wanted.command = "deploy" /\ targetPhase \in Deploys =>
         \A s \in DoneSoFar("release") :
           s \in DoneSoFar("deploy") \/ (targetPhase = "retry" /\ s = Head(pendingServices))

LogIsRight ==
  wanted.target = All =>
    (\A i \in 1..Len(lifecycleLog) : InItsTurn(i)) /\ NoneLeftOut

TargetsInv ==
  TargetTypes /\ OrderIsMade /\ WorkIsLeft /\ CommandsKeepTo /\ ReleasesAreKnown /\ LogIsRight

-----------------------------------------------------------------------------
(* Numbers, filters and orders *)

LEMMA LeastNumber ==
  ASSUME NEW S \in SUBSET Nat, S # {}
  PROVE  Min(S) \in S /\ \A n \in S : Min(S) <= n
<1>1. IsWellFoundedOn({ss \in Nat \X Nat : ss[1] < ss[2]}, Nat)
  BY NatLessThanWellFounded, Zenon DEF OpToRel
<1>2. \E m \in S : \A n \in S : ~(<<n, m>> \in {ss \in Nat \X Nat : ss[1] < ss[2]})
  BY <1>1, WFMin, Zenon
<1>3. PICK m \in S : \A n \in S : ~(n < m)
  BY <1>2
<1>4. m \in S /\ \A n \in S : m <= n
  BY <1>3
<1> QED BY <1>4 DEF Min

LEMMA GreatestNumber ==
  ASSUME NEW S \in SUBSET Nat, S # {}, NEW b \in Nat, \A n \in S : n <= b
  PROVE  Max(S) \in S /\ \A n \in S : Max(S) >= n
<1> DEFINE U == {n \in Nat : \A m \in S : m <= n}
           top == Min(U)
<1>1. b \in U
  OBVIOUS
<1>2. top \in U /\ \A n \in U : top <= n
  <2> HIDE DEF U
  <2>1. U \in SUBSET Nat
    BY DEF U
  <2> QED BY <1>1, <2>1, LeastNumber
<1>3. top \in S
  <2> HIDE DEF top
  <2> SUFFICES ASSUME top \notin S PROVE FALSE
    OBVIOUS
  <2>1. top # 0
    <3>1. PICK n \in S : TRUE
      OBVIOUS
    <3> QED BY <1>2, <3>1
  <2>2. top - 1 \in U
    BY <1>2, <2>1
  <2> QED BY <1>2, <2>2
<1>4. top \in S /\ \A n \in S : top >= n
  BY <1>2, <1>3
<1> HIDE DEF top
<1> QED BY <1>4 DEF Max

\* Induction on the numbers up to N.
LEMMA Climbing ==
  ASSUME NEW N \in Nat, NEW G, 0 \in G, \A n \in 0..N : n > 0 /\ n - 1 \in G => n \in G
  PROVE  \A n \in 0..N : n \in G
<1> DEFINE U == {n \in 0..N : n \notin G}
<1> SUFFICES ASSUME U # {} PROVE FALSE
  OBVIOUS
<1>1. U \in SUBSET Nat
  OBVIOUS
<1> HIDE DEF U
<1>2. Min(U) \in U /\ \A n \in U : Min(U) <= n
  BY <1>1, LeastNumber
<1>3. Min(U) \in 0..N /\ Min(U) \notin G /\ Min(U) > 0
  BY <1>2 DEF U
<1>4. Min(U) - 1 \in 0..N /\ Min(U) - 1 \notin U
  BY <1>2, <1>3
<1> QED BY <1>3, <1>4 DEF U

\* Deployable takes one name after another.
LEMMA DeployableSteps ==
  ASSUME NEW T, NEW names \in Seq(T)
  PROVE  \E kept : /\ kept[0] = <<>>
                   /\ \A n \in 1..Len(names) :
                        kept[n] = IF ReleaseOnly(names[n]) THEN kept[n - 1]
                                  ELSE Append(kept[n - 1], names[n])
                   /\ Deployable(names) = kept[Len(names)]
<1> DEFINE N == Len(names)
           Next(f, n) == IF n = 0 THEN <<>>
                         ELSE IF ReleaseOnly(names[n]) THEN f[n - 1] ELSE Append(f[n - 1], names[n])
           Keeps(f, n) == \A m \in 0..n : f[m] = Next(f, m)
           G == {n \in 0..N : \E f : Keeps(f, n)}
<1>1. N \in Nat
  OBVIOUS
<1>2. 0 \in G
  <2> DEFINE f == [m \in 0..0 |-> <<>>]
  <2>1. Keeps(f, 0)
    OBVIOUS
  <2> HIDE DEF Keeps
  <2>2. \E h : Keeps(h, 0)
    BY <2>1
  <2> QED BY <1>1, <2>2
<1>3. \A n \in 0..N : n > 0 /\ n - 1 \in G => n \in G
  <2> SUFFICES ASSUME NEW n \in 0..N, n > 0, NEW f, Keeps(f, n - 1)
               PROVE  \E g : Keeps(g, n)
    OBVIOUS
  <2> DEFINE g == [m \in 0..n |-> IF m = n THEN Next(f, n) ELSE f[m]]
  <2>1. Keeps(g, n)
    OBVIOUS
  <2> QED BY <2>1
<1>4. N \in G
  <2> HIDE DEF G
  <2>1. \A n \in 0..N : n \in G
    BY <1>1, <1>2, <1>3, Climbing
  <2> QED BY <1>1, <2>1
<1>5. PICK f : Keeps(f, N)
  BY <1>4
<1> DEFINE g == [n \in 0..N |-> f[n]]
           Whole(h) == [n \in 0..N |-> Next(h, n)]
           kept == CHOOSE h : h = Whole(h)
<1>6. g = Whole(g)
  BY <1>5
<1>7. Deployable(names) = kept[N]
  BY DEF Deployable
<1>8. kept = Whole(kept)
  <2> HIDE DEF Whole, g
  <2> QED BY <1>6
<1> HIDE DEF kept
<1>9. kept[0] = <<>> /\ \A n \in 1..N : kept[n] = Next(kept, n)
  <2>1. \A n \in 0..N : kept[n] = Next(kept, n)
    <3> HIDE DEF Next
    <3> QED BY <1>8
  <2>2. 0 \in 0..N /\ \A n \in 1..N : n \in 0..N
    BY <1>1
  <2>3. Next(kept, 0) = <<>>
    OBVIOUS
  <2> HIDE DEF Next
  <2> QED BY <2>1, <2>2, <2>3
<1> QED BY <1>7, <1>9

\* It keeps those that are deployed, in their order.
LEMMA DeployableKeeps ==
  ASSUME NEW T, NEW names \in Seq(T), NoneTwice(names)
  PROVE  /\ Deployable(names) \in Seq(T)
         /\ NoneTwice(Deployable(names))
         /\ \A s : Among(Deployable(names), s) <=> Among(names, s) /\ ~ReleaseOnly(s)
         /\ \A p \in 1..Len(Deployable(names)), i \in 1..Len(names), j \in 1..Len(names) :
              names[i] = Deployable(names)[p] /\ j < i /\ ~ReleaseOnly(names[j]) =>
                \E q \in 1..p - 1 : Deployable(names)[q] = names[j]
<1>1. PICK kept : /\ kept[0] = <<>>
                  /\ \A n \in 1..Len(names) :
                       kept[n] = IF ReleaseOnly(names[n]) THEN kept[n - 1]
                                 ELSE Append(kept[n - 1], names[n])
                  /\ Deployable(names) = kept[Len(names)]
  BY DeployableSteps
<1> DEFINE N == Len(names)
           Has(n, s) == \E p \in 1..Len(kept[n]) : kept[n][p] = s
           Members(n) == \A s : Has(n, s) <=> (\E i \in 1..n : names[i] = s /\ ~ReleaseOnly(s))
           Orders(n) ==
             \A p \in 1..Len(kept[n]), i \in 1..n, j \in 1..n :
               names[i] = kept[n][p] /\ j < i /\ ~ReleaseOnly(names[j]) =>
                 \E q \in 1..p - 1 : kept[n][q] = names[j]
           Holds(n) == kept[n] \in Seq(T) /\ Members(n) /\ NoneTwice(kept[n]) /\ Orders(n)
           G == {n \in 0..N : Holds(n)}
<1>2. N \in Nat /\ \A i \in 1..N : names[i] \in T
  OBVIOUS
<1>3. Holds(0)
  BY <1>1 DEF NoneTwice
<1>4. ASSUME NEW n \in 1..N, Holds(n - 1)
      PROVE  Holds(n)
  <2>1. CASE ReleaseOnly(names[n])
    <3>1. kept[n] = kept[n - 1]
      BY <1>1, <2>1
    <3>2. \A i \in 1..n : i = n \/ i \in 1..n - 1
      BY <1>2
    <3>3. Members(n)
      <4> SUFFICES ASSUME NEW s
                   PROVE  Has(n, s) <=> (\E i \in 1..n : names[i] = s /\ ~ReleaseOnly(s))
        OBVIOUS
      <4>1. Has(n, s) <=> Has(n - 1, s)
        BY <3>1
      <4>2. (\E i \in 1..n : names[i] = s /\ ~ReleaseOnly(s)) <=>
              \E i \in 1..n - 1 : names[i] = s /\ ~ReleaseOnly(s)
        BY <2>1, <3>2
      <4> QED BY <4>1, <4>2, <1>4
    <3>4. \A p \in 1..Len(kept[n]) : kept[n][p] # names[n]
      BY <2>1, <3>3
    <3>5. Orders(n)
      <4> SUFFICES ASSUME NEW p \in 1..Len(kept[n]), NEW i \in 1..n, NEW j \in 1..n,
                          names[i] = kept[n][p], j < i, ~ReleaseOnly(names[j])
                   PROVE  \E q \in 1..p - 1 : kept[n][q] = names[j]
        OBVIOUS
      <4>1. i \in 1..n - 1 /\ j \in 1..n - 1
        BY <3>2, <3>4
      <4> HIDE DEF Members
      <4> QED BY <4>1, <1>4, <3>1
    <3> QED BY <3>1, <3>3, <3>5, <1>4
  <2>2. CASE ~ReleaseOnly(names[n])
    <3> DEFINE last == Len(kept[n - 1]) + 1
    <3>1. kept[n] = Append(kept[n - 1], names[n]) /\ kept[n - 1] \in Seq(T)
      BY <1>1, <1>4, <2>2
    <3>2. /\ kept[n] \in Seq(T) /\ Len(kept[n]) = last /\ last \in Nat \ {0}
          /\ kept[n][last] = names[n]
          /\ \A p \in 1..last - 1 : kept[n][p] = kept[n - 1][p]
      BY <1>2, <3>1
    <3>3. \A i \in 1..n : i = n \/ i \in 1..n - 1
      BY <1>2
    <3>4. \A p \in 1..last : p = last \/ p \in 1..last - 1
      BY <3>2
    <3>5. \A p \in 1..last - 1 : kept[n - 1][p] # names[n]
      <4> SUFFICES ASSUME NEW p \in 1..last - 1, kept[n - 1][p] = names[n]
                   PROVE  FALSE
        OBVIOUS
      <4>1. Has(n - 1, names[n])
        BY <3>1
      <4>2. PICK i \in 1..n - 1 : names[i] = names[n]
        BY <4>1, <1>4
      <4> QED BY <4>2, <1>2 DEF NoneTwice
    <3>6. Members(n)
      <4> SUFFICES ASSUME NEW s
                   PROVE  Has(n, s) <=> (\E i \in 1..n : names[i] = s /\ ~ReleaseOnly(s))
        OBVIOUS
      <4>1. Has(n, s) <=> Has(n - 1, s) \/ s = names[n]
        <5>1. Has(n - 1, s) => Has(n, s)
          BY <3>1, <3>2
        <5>2. s = names[n] => Has(n, s)
          BY <3>2
        <5>3. Has(n, s) => Has(n - 1, s) \/ s = names[n]
          BY <3>1, <3>2, <3>4
        <5> QED BY <5>1, <5>2, <5>3
      <4>2. (\E i \in 1..n : names[i] = s /\ ~ReleaseOnly(s)) <=>
              (\E i \in 1..n - 1 : names[i] = s /\ ~ReleaseOnly(s)) \/ s = names[n]
        BY <2>2, <3>3
      <4> QED BY <4>1, <4>2, <1>4
    <3> HIDE DEF Members
    <3>7. NoneTwice(kept[n])
      <4>1. \A p, q \in 1..last - 1 : kept[n][p] = kept[n][q] => p = q
        <5>1. \A p, q \in 1..last - 1 : kept[n - 1][p] = kept[n - 1][q] => p = q
          <6>1. NoneTwice(kept[n - 1]) /\ Len(kept[n - 1]) = last - 1
            BY <1>4, <3>1
          <6> HIDE DEF last
          <6> QED BY <6>1 DEF NoneTwice
        <5> HIDE DEF last
        <5> QED BY <3>2, <5>1
      <4>2. \A p \in 1..last - 1 : kept[n][p] # kept[n][last]
        <5> HIDE DEF last
        <5> QED BY <3>2, <3>5
      <4> HIDE DEF last
      <4> QED BY <3>2, <3>4, <4>1, <4>2 DEF NoneTwice
    <3>8. Orders(n)
      <4> SUFFICES ASSUME NEW p \in 1..last, NEW i \in 1..n, NEW j \in 1..n,
                          names[i] = kept[n][p], j < i, ~ReleaseOnly(names[j])
                   PROVE  \E q \in 1..p - 1 : kept[n][q] = names[j]
        BY <3>2
      <4>1. j \in 1..n - 1
        BY <3>3
      <4>2. CASE p = last
        <5>1. Has(n - 1, names[j])
          BY <4>1, <1>4 DEF Members
        <5>2. PICK q \in 1..last - 1 : kept[n - 1][q] = names[j]
          BY <5>1, <3>2
        <5> QED BY <4>2, <5>2, <3>2
      <4>3. CASE p \in 1..last - 1
        <5>1. kept[n][p] = kept[n - 1][p] /\ p \in 1..Len(kept[n - 1])
          BY <3>2, <4>3
        <5>2. i # n
          BY <5>1, <3>5, <4>3
        <5>3. PICK q \in 1..p - 1 : kept[n - 1][q] = names[j]
          BY <4>1, <5>1, <5>2, <3>3, <1>4
        <5> QED BY <5>3, <3>2, <4>3
      <4> QED BY <3>4, <4>2, <4>3
    <3> QED BY <3>2, <3>6, <3>7, <3>8
  <2> QED BY <2>1, <2>2
<1>5. Holds(N)
  <2> HIDE DEF Holds
  <2>1. 0 \in G
    BY <1>2, <1>3
  <2>2. \A n \in 0..N : n > 0 /\ n - 1 \in G => n \in G
    <3> SUFFICES ASSUME NEW n \in 0..N, n > 0, n - 1 \in G
                 PROVE  Holds(n)
      OBVIOUS
    <3>1. n \in 1..N /\ Holds(n - 1)
      BY <1>2
    <3> QED BY <3>1, <1>4
  <2>3. \A n \in 0..N : n \in G
    <3> HIDE DEF G
    <3> QED BY <1>2, <2>1, <2>2, Climbing
  <2> QED BY <1>2, <2>3
<1> QED BY <1>1, <1>5 DEF Among

\* What a service needs comes before it in an order.
LEMMA NeedsComeBefore ==
  ASSUME Declared, NEW seq \in Seq(wanted.services), InOrder(seq), NEW i \in 1..Len(seq)
  PROVE  \A d \in Needs(seq[i]) : \E j \in 1..i - 1 : seq[j] = d
<1> DEFINE C == {seq[j] : j \in 1..i - 1}
<1>1. C \subseteq Known
  BY DEF Known
<1>2. wanted.dependsOn[seq[i]] \subseteq C
  BY DEF InOrder
<1>3. Closed(C)
  <2> SUFFICES ASSUME NEW k \in 1..i - 1, NEW d \in wanted.dependsOn[seq[k]]
               PROVE  d \in C
    BY DEF Closed
  <2>1. k \in 1..Len(seq)
    OBVIOUS
  <2>2. PICK j \in 1..k - 1 : seq[j] = d
    BY <2>1 DEF InOrder
  <2>3. j \in 1..i - 1
    OBVIOUS
  <2> QED BY <2>2, <2>3
<1>4. Needs(seq[i]) \subseteq C
  <2> HIDE DEF C
  <2> QED BY <1>1, <1>2, <1>3 DEF Needs
<1> QED BY <1>4

\* An order of all services shows that the manifest is sound.
LEMMA OrdersAreSound ==
  ASSUME Declared, NEW seq \in Seq(wanted.services), InOrder(seq),
         \A s \in wanted.services : Among(seq, s)
  PROVE  Sound
<1> SUFFICES ASSUME NEW s \in wanted.services
             PROVE  s \notin Needs(s) /\ Needs(s) \subseteq wanted.services
  BY DEF Sound
<1>1. PICK i \in 1..Len(seq) : seq[i] = s
  BY DEF Among
<1>2. \A d \in Needs(s) : \E j \in 1..i - 1 : seq[j] = d
  BY <1>1, NeedsComeBefore
<1>3. Needs(s) \subseteq wanted.services
  BY <1>2
<1>4. s \notin Needs(s)
  <2> SUFFICES ASSUME s \in Needs(s) PROVE FALSE
    OBVIOUS
  <2>1. PICK j \in 1..i - 1 : seq[j] = s
    BY <1>2
  <2> QED BY <1>1, <2>1 DEF InOrder, NoneTwice
<1> QED BY <1>3, <1>4

\* A dependency that is undeclared, or one of a service that is being visited on one
\* that is visited already, shows that it is not.
LEMMA UndeclaredIsUnsound ==
  ASSUME TargetTypes, NEW s \in wanted.services, UndeclaredNeeds(s) # {}
  PROVE  ~Sound
<1>1. PICK d \in wanted.dependsOn[s] : d \notin wanted.services
  BY DEF UndeclaredNeeds
<1>2. d \in Known
  BY DEF Known
<1>3. d \in Needs(s)
  BY <1>1, <1>2 DEF Needs
<1> QED BY <1>1, <1>3 DEF Sound

LEMMA CyclesAreUnsound ==
  ASSUME TargetTypes, Declared, PathIsVisited, visits # <<>>,
         NEW j \in 1..Len(visits),
         visits[j].service \in wanted.dependsOn[visits[Len(visits)].service]
  PROVE  ~Sound
<1> DEFINE L == Len(visits)
           dep == visits[j].service
<1>1. L \in Nat \ {0} /\ visits \in Seq(Calls)
  BY DEF TargetTypes
<1>2. \A i \in 1..L : visits[i].service \in wanted.services
  <2>1. \A i \in 1..L : visits[i] \in Calls
    BY <1>1
  <2> QED BY <2>1 DEF Calls
<1>3. dep \in Needs(dep)
  <2>1. dep \in Known
    BY <1>2 DEF Known
  <2>2. ASSUME NEW C \in SUBSET Known, wanted.dependsOn[dep] \subseteq C, Closed(C)
        PROVE  dep \in C
    <3> DEFINE G == {n \in 0..L - j : n > 0 => visits[j + n].service \in C}
    <3>1. \A n \in 0..L - j : n > 0 /\ n - 1 \in G => n \in G
      <4> SUFFICES ASSUME NEW n \in 0..L - j, n > 0, n - 1 \in G
                   PROVE  visits[j + n].service \in C
        OBVIOUS
      <4>1. /\ j + n - 1 \in 1..L - 1 /\ (j + n - 1) + 1 = j + n
            /\ j + (n - 1) = j + n - 1
        BY <1>1
      <4>2. visits[j + n].service \in wanted.dependsOn[visits[j + n - 1].service]
        <5>1. visits[(j + n - 1) + 1].service \in wanted.dependsOn[visits[j + n - 1].service]
          BY <4>1 DEF PathIsVisited
        <5> QED BY <4>1, <5>1
      <4>3. CASE n = 1
        BY <2>2, <4>2, <4>3
      <4>4. CASE n > 1
        <5>1. visits[j + n - 1].service \in C
          BY <4>1, <4>4
        <5>2. visits[j + n - 1].service \in wanted.services
          BY <1>1, <1>2, <4>1
        <5> QED BY <2>2, <4>2, <5>1, <5>2 DEF Closed
      <4> QED BY <4>3, <4>4
    <3>2. L - j \in Nat /\ 0 \in G
      BY <1>1
    <3>3. L - j \in G
      <4> HIDE DEF G
      <4>1. \A n \in 0..L - j : n \in G
        BY <3>1, <3>2, Climbing
      <4> QED BY <3>2, <4>1
    <3>4. CASE j = L
      BY <2>2, <3>4
    <3>5. CASE j < L
      <4>1. visits[L].service \in C
        <5>1. j + (L - j) = L /\ L - j > 0
          BY <1>1, <3>5
        <5> QED BY <3>3, <5>1
      <4>2. visits[L].service \in wanted.services
        BY <1>1, <1>2
      <4> QED BY <2>2, <4>1, <4>2 DEF Closed
    <3> QED BY <1>1, <3>4, <3>5
  <2> QED BY <2>1, <2>2 DEF Needs
<1> QED BY <1>2, <1>3 DEF Sound

-----------------------------------------------------------------------------
(* What is done and what is left *)

\* At first all is left that the command does not skip.
LEMMA AllIsLeft ==
  ASSUME Declared, NEW seq \in Seq(wanted.services), InOrder(seq),
         \A s \in wanted.services : Among(seq, s), NEW what
  PROVE  IF what \in Acted THEN IsLeft(what, Deployable(seq), {}) ELSE IsLeft(what, seq, {})
<1>1. \A i \in 1..Len(seq) : \A d \in Needs(seq[i]) : \E j \in 1..i - 1 : seq[j] = d
  BY NeedsComeBefore
<1>2. NoneTwice(seq)
  BY DEF InOrder
<1>3. CASE what \notin Acted
  BY <1>1, <1>2, <1>3 DEF IsLeft, Skips
<1>4. CASE what \in Acted
  <2> DEFINE todo == Deployable(seq)
  <2>1. /\ todo \in Seq(wanted.services) /\ NoneTwice(todo)
        /\ \A s : Among(todo, s) <=> Among(seq, s) /\ ~ReleaseOnly(s)
        /\ \A p \in 1..Len(todo), i \in 1..Len(seq), j \in 1..Len(seq) :
             seq[i] = todo[p] /\ j < i /\ ~ReleaseOnly(seq[j]) =>
               \E q \in 1..p - 1 : todo[q] = seq[j]
    BY <1>2, DeployableKeeps
  <2> HIDE DEF todo
  <2>2. \A s : Skips(what, s) <=> ReleaseOnly(s)
    BY <1>4 DEF Skips
  <2>3. ASSUME NEW p \in 1..Len(todo)
        PROVE  /\ ~Skips(what, todo[p])
               /\ \A d \in Needs(todo[p]) : Skips(what, d) \/ \E q \in 1..p - 1 : todo[q] = d
    <3>1. Among(todo, todo[p])
      BY DEF Among
    <3>2. Among(seq, todo[p]) /\ ~ReleaseOnly(todo[p])
      BY <2>1, <3>1
    <3>3. PICK i \in 1..Len(seq) : seq[i] = todo[p]
      BY <3>2 DEF Among
    <3>4. ASSUME NEW d \in Needs(todo[p]), ~Skips(what, d)
          PROVE  \E q \in 1..p - 1 : todo[q] = d
      <4>1. PICK j \in 1..i - 1 : seq[j] = d
        BY <1>1, <3>3, <3>4
      <4>2. j \in 1..Len(seq) /\ j < i
        OBVIOUS
      <4> QED BY <2>1, <2>2, <3>3, <3>4, <4>1, <4>2
    <3> QED BY <2>2, <3>2, <3>4
  <2>4. \A s \in wanted.services : ~Skips(what, s) <=> Among(todo, s)
    BY <2>1, <2>2
  <2>5. IsLeft(what, todo, {})
    BY <2>1, <2>3, <2>4 DEF IsLeft
  <2> QED BY <1>4, <2>5 DEF todo
<1> QED BY <1>3, <1>4

\* What comes first may be done, and then the rest is left.
LEMMA NextIsLeft ==
  ASSUME NEW what, NEW todo \in Seq(wanted.services), todo # <<>>, NEW done,
         IsLeft(what, todo, done)
  PROVE  /\ Head(todo) \in wanted.services /\ Head(todo) \notin done /\ ~Skips(what, Head(todo))
         /\ \A d \in Needs(Head(todo)) : Skips(what, d) \/ d \in done
         /\ Tail(todo) \in Seq(wanted.services)
         /\ IsLeft(what, Tail(todo), done \cup {Head(todo)})
<1> DEFINE rest == Tail(todo)
<1>1. /\ Head(todo) = todo[1] /\ 1 \in 1..Len(todo) /\ todo[1] \in wanted.services
      /\ rest \in Seq(wanted.services) /\ Len(rest) = Len(todo) - 1 /\ Len(todo) \in Nat
      /\ \A i \in 1..Len(rest) : rest[i] = todo[i + 1] /\ i + 1 \in 1..Len(todo)
  OBVIOUS
<1> HIDE DEF rest
<1>2. Head(todo) \notin done /\ ~Skips(what, Head(todo))
  BY <1>1 DEF IsLeft
<1>3. \A d \in Needs(Head(todo)) : Skips(what, d) \/ d \in done
  <2>1. \A j : j \notin 1..1 - 1
    OBVIOUS
  <2> QED BY <1>1, <2>1 DEF IsLeft
<1>4. NoneTwice(rest)
  BY <1>1 DEF IsLeft, NoneTwice
<1>5. ASSUME NEW i \in 1..Len(rest)
      PROVE  /\ rest[i] \notin done \cup {Head(todo)} /\ ~Skips(what, rest[i])
             /\ \A d \in Needs(rest[i]) :
                  Skips(what, d) \/ d \in done \cup {Head(todo)} \/ \E j \in 1..i - 1 : rest[j] = d
  <2>1. rest[i] = todo[i + 1] /\ i + 1 \in 1..Len(todo) /\ i + 1 # 1
    BY <1>1
  <2>2. rest[i] \notin done \cup {Head(todo)} /\ ~Skips(what, rest[i])
    BY <1>1, <2>1 DEF IsLeft, NoneTwice
  <2>3. ASSUME NEW d \in Needs(rest[i]), ~Skips(what, d), d \notin done, d # Head(todo)
        PROVE  \E j \in 1..i - 1 : rest[j] = d
    <3>1. PICK j \in 1..(i + 1) - 1 : todo[j] = d
      BY <2>1, <2>3 DEF IsLeft
    <3>2. j # 1
      BY <1>1, <2>3, <3>1
    <3>3. j - 1 \in 1..i - 1 /\ j - 1 \in 1..Len(rest) /\ (j - 1) + 1 = j
      BY <1>1, <3>2
    <3> QED BY <1>1, <3>1, <3>3
  <2> QED BY <2>2, <2>3
<1>6. \A s \in wanted.services : Among(todo, s) <=> s = Head(todo) \/ Among(rest, s)
  <2> SUFFICES ASSUME NEW s \in wanted.services
               PROVE  Among(todo, s) <=> s = Head(todo) \/ Among(rest, s)
    OBVIOUS
  <2>1. ASSUME NEW i \in 1..Len(todo), todo[i] = s, s # Head(todo)
        PROVE  Among(rest, s)
    <3>1. i - 1 \in 1..Len(rest) /\ (i - 1) + 1 = i
      BY <1>1, <2>1
    <3> QED BY <1>1, <2>1, <3>1 DEF Among
  <2>2. ASSUME NEW i \in 1..Len(rest), rest[i] = s
        PROVE  Among(todo, s)
    BY <1>1, <2>2 DEF Among
  <2> QED BY <1>1, <2>1, <2>2 DEF Among
<1>7. IsLeft(what, rest, done \cup {Head(todo)})
  BY <1>4, <1>5, <1>6 DEF IsLeft
<1> QED BY <1>1, <1>2, <1>3, <1>7 DEF rest

\* One more entry of the log.
LEMMA LogGrows ==
  ASSUME TargetTypes, NEW entry \in Entries, lifecycleLog' = Append(lifecycleLog, entry)
  PROVE  /\ lifecycleLog' \in Seq(Entries)
         /\ Len(lifecycleLog') = Len(lifecycleLog) + 1 /\ Len(lifecycleLog) \in Nat
         /\ \A i \in 1..Len(lifecycleLog) : lifecycleLog'[i] = lifecycleLog[i]
         /\ lifecycleLog'[Len(lifecycleLog) + 1] = entry
         /\ \A what : \A n \in 0..Len(lifecycleLog) : Done(what, n)' = Done(what, n)
         /\ \A what : DoneSoFar(what)' =
              DoneSoFar(what) \cup (IF what = entry.what THEN {entry.service} ELSE {})
<1> DEFINE L == Len(lifecycleLog)
<1>1. /\ lifecycleLog' \in Seq(Entries)
      /\ Len(lifecycleLog') = L + 1 /\ L \in Nat
      /\ \A i \in 1..L : lifecycleLog'[i] = lifecycleLog[i]
      /\ lifecycleLog'[L + 1] = entry
  BY DEF TargetTypes
<1> HIDE DEF L
<1>2. \A what : \A n \in 0..L : Done(what, n)' = Done(what, n)
  <2> SUFFICES ASSUME NEW what, NEW n \in 0..L
               PROVE  Done(what, n)' = Done(what, n)
    OBVIOUS
  <2>1. \A i \in 1..n : lifecycleLog'[i] = lifecycleLog[i]
    BY <1>1
  <2> QED BY <2>1 DEF Done
<1>3. ASSUME NEW what
      PROVE  DoneSoFar(what)' =
               DoneSoFar(what) \cup (IF what = entry.what THEN {entry.service} ELSE {})
  <2>1. \A s : s \in DoneSoFar(what) <=>
                 \E i \in 1..L : lifecycleLog[i].what = what /\ lifecycleLog[i].service = s
    BY DEF DoneSoFar, Done, L
  <2>2. \A s : s \in DoneSoFar(what)' <=>
                 \E i \in 1..L + 1 : lifecycleLog'[i].what = what /\ lifecycleLog'[i].service = s
    BY <1>1 DEF DoneSoFar, Done
  <2>3. \A i \in 1..L + 1 : i = L + 1 \/ i \in 1..L
    BY <1>1
  <2>4. L + 1 \in 1..L + 1 /\ \A i \in 1..L : i \in 1..L + 1
    BY <1>1
  <2>5. \A s : s \in DoneSoFar(what)' <=>
                 s \in DoneSoFar(what) \/ (what = entry.what /\ s = entry.service)
    BY <1>1, <2>1, <2>2, <2>3, <2>4
  <2> QED BY <2>5
<1> QED BY <1>1, <1>2, <1>3 DEF L

-----------------------------------------------------------------------------
(* What a step leaves alone *)

\* The manifest does not change, nor what is said of it.
LEMMA ManifestStays ==
  ASSUME wanted' = wanted
  PROVE  /\ (Sound' <=> Sound) /\ (Declared' <=> Declared) /\ Final' = Final
         /\ Calls' = Calls /\ Entries' = Entries
         /\ \A s : Needs(s)' = Needs(s)
         /\ \A what, s : (Skips(what, s)' <=> Skips(what, s))
         /\ \A seq : (InOrder(seq)' <=> InOrder(seq))
         /\ \A what, todo, done : (IsLeft(what, todo, done)' <=> IsLeft(what, todo, done))
<1>1. \A s : Needs(s)' = Needs(s)
  BY DEF Needs, Known, Closed
<1>2. \A what, s : (Skips(what, s)' <=> Skips(what, s))
  BY DEF Skips, ReleaseOnly, Acted
<1>3. (Sound' <=> Sound)
  BY <1>1 DEF Sound
<1>4. (Declared' <=> Declared) /\ Final' = Final /\ Calls' = Calls /\ Entries' = Entries
  BY DEF Declared, Final, Calls, Entries, Acted
<1>5. \A seq : (InOrder(seq)' <=> InOrder(seq))
  BY DEF InOrder, NoneTwice
<1>6. \A what, todo, done : (IsLeft(what, todo, done)' <=> IsLeft(what, todo, done))
  BY <1>1, <1>2 DEF IsLeft, NoneTwice, Among
<1> QED BY <1>1, <1>2, <1>3, <1>4, <1>5, <1>6

\* A command that works does not change the order any more.
LEMMA OrderIsKept ==
  ASSUME OrderIsMade, UNCHANGED <<wanted, orderVars>>, targetPhase \in Works,
         targetPhase' \in Works \cup {"failed", "done"}
  PROVE  OrderIsMade'
<1>1. (Declared' <=> Declared) /\ (InOrder(ordered)' <=> InOrder(ordered))
  BY ManifestStays DEF InOrder, NoneTwice, orderVars
<1>2. \A s : (Among(ordered, s)' <=> Among(ordered, s))
  BY DEF Among, orderVars
<1>3. targetPhase' \notin {"resolve", "order", "refused"}
  BY DEF Works, Deploys
<1> QED BY <1>1, <1>2, <1>3 DEF OrderIsMade, OrderIsComplete, orderVars

\* What release --deploy deploys is what it has built.
TagIsBuilt(entry) ==
  wanted.command = "release --deploy" => entry.tag = builtTags[entry.service]

\* What the log says of its earlier entries does not change when it grows; the new one
\* is in its turn if the service is, when it is done.
LEMMA OneMoreEntry ==
  ASSUME TargetTypes, wanted' = wanted, NEW entry \in Entries,
         lifecycleLog' = Append(lifecycleLog, entry),
         \A i \in 1..Len(lifecycleLog) : InItsTurn(i),
         builtTags' = builtTags
           \/ \A i \in 1..Len(lifecycleLog) : lifecycleLog[i].what = "release",
         ~Skips(entry.what, entry.service), entry.service \notin DoneSoFar(entry.what),
         wanted.command # "deploy" \/ entry.what = "deploy" =>
           \A d \in Needs(entry.service) :
             Skips(entry.what, d) \/ d \in DoneSoFar(entry.what),
         entry.what = "deploy" => builtTags' = builtTags /\ TagIsBuilt(entry)
  PROVE  \A i \in 1..Len(lifecycleLog') : InItsTurn(i)'
<1>1. PICK L \in Nat : /\ L = Len(lifecycleLog)
                       /\ Len(lifecycleLog') = L + 1
                       /\ \A i \in 1..L : lifecycleLog'[i] = lifecycleLog[i]
                       /\ lifecycleLog'[L + 1] = entry
                       /\ \A what : \A n \in 0..L : Done(what, n)' = Done(what, n)
  BY LogGrows
<1>2. /\ \A s : Needs(s)' = Needs(s)
      /\ \A what, s : (Skips(what, s)' <=> Skips(what, s))
  BY ManifestStays
<1>3. ASSUME NEW i \in 1..L PROVE InItsTurn(i)'
  <2>1. i - 1 \in 0..L
    BY <1>1
  <2>2. lifecycleLog'[i] = lifecycleLog[i] /\ \A what : Done(what, i - 1)' = Done(what, i - 1)
    BY <1>1, <2>1
  <2>3. builtTags' = builtTags \/ lifecycleLog[i].what # "deploy"
    BY <1>1
  <2>4. InItsTurn(i)
    BY <1>1
  <2> QED BY <1>2, <2>2, <2>3, <2>4 DEF InItsTurn
<1>4. InItsTurn(L + 1)'
  <2>1. (L + 1) - 1 = L /\ L \in 0..L
    BY <1>1
  <2>2. \A what : Done(what, (L + 1) - 1)' = Done(what, L)
    <3>1. \A what : Done(what, L)' = Done(what, L)
      BY <1>1, <2>1
    <3> QED BY <2>1, <3>1
  <2>3. DoneSoFar(entry.what) = Done(entry.what, L)
    BY <1>1 DEF DoneSoFar
  <2>4. lifecycleLog'[L + 1] = entry
    BY <1>1
  <2>5. ASSUME entry.what = "deploy", wanted.command = "release --deploy"
        PROVE  entry.tag = builtTags'[entry.service]
    BY <2>5, Zenon DEF TagIsBuilt
  <2>6. /\ ~Skips(entry.what, entry.service)'
        /\ entry.service \notin Done(entry.what, (L + 1) - 1)'
    BY <1>2, <2>2, <2>3
  <2>7. wanted'.command # "deploy" \/ entry.what = "deploy" =>
          \A d \in Needs(entry.service)' :
            Skips(entry.what, d)' \/ d \in Done(entry.what, (L + 1) - 1)'
    BY <1>2, <2>2, <2>3
  <2> QED BY <2>4, <2>5, <2>6, <2>7, Zenon DEF InItsTurn
<1>5. \A i \in 1..L + 1 : i \in 1..L \/ i = L + 1
  BY <1>1
<1> QED BY <1>1, <1>3, <1>4, <1>5

\* What is left to a command after its next service.
LEMMA TurnIsTaken ==
  ASSUME TargetTypes, wanted' = wanted, NEW what, NEW entry \in Entries,
         lifecycleLog' = Append(lifecycleLog, entry), entry.what = what,
         pendingServices # <<>>, entry.service = Head(pendingServices),
         pendingServices' = Tail(pendingServices),
         IsLeft(what, pendingServices, DoneSoFar(what))
  PROVE  /\ entry.service \notin DoneSoFar(what) /\ ~Skips(what, entry.service)
         /\ \A d \in Needs(entry.service) : Skips(what, d) \/ d \in DoneSoFar(what)
         /\ IsLeft(what, pendingServices, DoneSoFar(what))'
<1>1. pendingServices \in Seq(wanted.services)
  BY DEF TargetTypes
<1>2. /\ entry.service \notin DoneSoFar(what) /\ ~Skips(what, entry.service)
      /\ \A d \in Needs(entry.service) : Skips(what, d) \/ d \in DoneSoFar(what)
      /\ IsLeft(what, Tail(pendingServices), DoneSoFar(what) \cup {entry.service})
  <2>1. /\ Head(pendingServices) \notin DoneSoFar(what) /\ ~Skips(what, Head(pendingServices))
        /\ \A d \in Needs(Head(pendingServices)) : Skips(what, d) \/ d \in DoneSoFar(what)
        /\ IsLeft(what, Tail(pendingServices), DoneSoFar(what) \cup {Head(pendingServices)})
    BY <1>1, NextIsLeft
  <2> QED BY <2>1
<1>3. DoneSoFar(what)' = DoneSoFar(what) \cup {entry.service}
  BY LogGrows
<1>4. PICK todo, done : todo = pendingServices' /\ done = DoneSoFar(what)'
  OBVIOUS
<1>5. IsLeft(what, todo, done)'
  <2>1. IsLeft(what, todo, done)
    BY <1>2, <1>3, <1>4
  <2> QED BY <2>1, ManifestStays
<1>6. IsLeft(what, pendingServices, DoneSoFar(what))'
  <2>1. pendingServices' = todo /\ DoneSoFar(what)' = done
    BY <1>4
  <2> HIDE DEF DoneSoFar
  <2> QED BY <1>5, <2>1 DEF IsLeft
<1> QED BY <1>2, <1>6

\* Releases are numbered, with or without another one.
LEMMA TagsStay ==
  ASSUME TagTypes, UNCHANGED <<wanted, latestTag, keptTags, builtTags>>
  PROVE  TagTypes'
BY DEF TagTypes

\* NextTag is a new number.
LEMMA TagsAreReleased ==
  ASSUME TagTypes, wanted' = wanted, NEW s \in wanted.services, Released(s, NextTag(s)),
         \/ builtTags' = builtTags
         \/ builtTags' = [builtTags EXCEPT ![s] = NextTag(s)]
  PROVE  NextTag(s) \in Nat \ {0} /\ TagTypes'
<1> DEFINE T == keptTags[s] \cup {0, latestTag[s]}
<1>1. /\ latestTag \in [wanted.services -> Nat] /\ builtTags \in [wanted.services -> Nat]
      /\ keptTags \in [wanted.services -> SUBSET Nat]
      /\ \A r \in wanted.services : \E n \in Nat : \A t \in keptTags[r] : t <= n
  BY DEF TagTypes
<1>2. PICK n \in Nat : \A t \in keptTags[s] : t <= n
  BY <1>1
<1>3. T \in SUBSET Nat /\ 0 \in T
  BY <1>1
<1>4. PICK b \in Nat : \A t \in T : t <= b
  <2>1. CASE latestTag[s] <= n
    <3>1. \A t \in T : t <= n
      BY <1>2, <2>1
    <3> QED BY <3>1
  <2>2. CASE ~(latestTag[s] <= n)
    <3>1. latestTag[s] \in Nat /\ \A t \in T : t <= latestTag[s]
      BY <1>1, <1>2, <2>2
    <3> QED BY <3>1
  <2> QED BY <2>1, <2>2
<1> HIDE DEF T
<1>5. Max(T) \in T /\ \A t \in T : Max(T) >= t
  BY <1>3, <1>4, GreatestNumber
<1>6. NextTag(s) = Max(T) + 1
  BY DEF NextTag, T
<1>7. PICK next \in Nat \ {0} : next = NextTag(s) /\ \A t \in keptTags[s] : t <= next
  <2>1. Max(T) + 1 \in Nat \ {0}
    BY <1>3, <1>5
  <2>2. \A t \in keptTags[s] : t \in T
    BY DEF T
  <2>3. \A t \in T : t <= Max(T) + 1
    <3>1. \A t \in T : t \in Nat /\ Max(T) \in Nat /\ Max(T) >= t
      BY <1>3, <1>5
    <3> QED BY <3>1
  <2> QED BY <1>6, <2>1, <2>2, <2>3
<1>8. /\ latestTag' = [latestTag EXCEPT ![s] = next]
      /\ keptTags' = [keptTags EXCEPT ![s] = keptTags[s] \cup {next}]
  BY <1>7 DEF Released
<1>9. latestTag' \in [wanted.services -> Nat] /\ keptTags' \in [wanted.services -> SUBSET Nat]
  BY <1>1, <1>8
<1>10. builtTags' \in [wanted.services -> Nat]
  BY <1>1, <1>7
<1>11. \A r \in wanted.services : \E m \in Nat : \A t \in keptTags'[r] : t <= m
  <2> SUFFICES ASSUME NEW r \in wanted.services
               PROVE  \E m \in Nat : \A t \in keptTags'[r] : t <= m
    OBVIOUS
  <2>1. CASE r = s
    <3>1. keptTags'[r] = keptTags[s] \cup {next}
      BY <1>1, <1>8, <2>1
    <3> QED BY <1>7, <3>1
  <2>2. CASE r # s
    <3>1. keptTags'[r] = keptTags[r]
      BY <1>1, <1>8, <2>2
    <3> QED BY <1>1, <3>1
  <2> QED BY <2>1, <2>2
<1> QED BY <1>7, <1>9, <1>10, <1>11 DEF TagTypes

LEMMA TagsAreRemoved ==
  ASSUME TagTypes, UNCHANGED <<wanted, builtTags>>, NEW s \in wanted.services,
         latestTag' = [latestTag EXCEPT ![s] = 0], keptTags' = [keptTags EXCEPT ![s] = {}]
  PROVE  TagTypes'
<1>1. /\ latestTag \in [wanted.services -> Nat] /\ builtTags \in [wanted.services -> Nat]
      /\ keptTags \in [wanted.services -> SUBSET Nat]
      /\ \A r \in wanted.services : \E n \in Nat : \A t \in keptTags[r] : t <= n
  BY DEF TagTypes
<1>2. latestTag' \in [wanted.services -> Nat] /\ keptTags' \in [wanted.services -> SUBSET Nat]
  BY <1>1
<1>3. \A r \in wanted.services : \E m \in Nat : \A t \in keptTags'[r] : t <= m
  <2> SUFFICES ASSUME NEW r \in wanted.services
               PROVE  \E m \in Nat : \A t \in keptTags'[r] : t <= m
    OBVIOUS
  <2>1. \A t \in keptTags'[r] : t \in keptTags[r]
    BY <1>1
  <2> QED BY <1>1, <2>1
<1> QED BY <1>1, <1>2, <1>3 DEF TagTypes

\* As long as the log is empty.
LEMMA NothingDone ==
  ASSUME lifecycleLog' = <<>>, targetPhase' # "done"
  PROVE  LogIsRight' /\ \A what : DoneSoFar(what)' = {}
<1>1. Len(lifecycleLog') = 0 /\ \A i : i \notin 1..0
  OBVIOUS
<1>2. \A i \in 1..Len(lifecycleLog') : FALSE
  BY <1>1
<1>3. LogIsRight'
  BY <1>2 DEF LogIsRight, NoneLeftOut
<1>4. \A what : DoneSoFar(what)' = {}
  BY <1>1 DEF DoneSoFar, Done
<1> QED BY <1>3, <1>4

LEMMA TargetsStart ==
  ASSUME NEW targets, \A w \in targets : IsTarget(w), TargetsInit(targets)
  PROVE  TargetsInv
<1>1. IsTarget(wanted)
  BY DEF TargetsInit
<1>2. TagTypes
  <2>1. /\ \/ latestTag = [s \in wanted.services |-> 0]
           \/ latestTag = [s \in wanted.services |-> 1]
        /\ builtTags = [s \in wanted.services |-> 0]
        /\ keptTags = [s \in wanted.services |-> IF latestTag[s] = 0 THEN {} ELSE {1}]
    BY DEF TargetsInit
  <2>2. \A s \in wanted.services : keptTags[s] \in SUBSET {1}
    BY <2>1
  <2>3. \A s \in wanted.services : \A t \in keptTags[s] : t <= 1
    BY <2>2
  <2> QED BY <2>1, <2>2, <2>3 DEF TagTypes
<1>3. /\ targetPhase = "resolve" /\ lifecycleLog = <<>>
      /\ marks = [s \in wanted.services |-> 0] /\ visits = <<>> /\ ordered = <<>>
      /\ pendingServices = <<>>
  BY DEF TargetsInit
<1>4. TargetTypes
  BY <1>1, <1>2, <1>3 DEF TargetTypes
<1>5. OrderIsMade
  BY <1>3 DEF OrderIsMade, Works, Deploys
<1>6. WorkIsLeft
  BY <1>3 DEF WorkIsLeft, Works, Deploys
<1>7. CommandsKeepTo /\ ReleasesAreKnown
  BY <1>3 DEF CommandsKeepTo, ReleasesAreKnown, Works, Deploys
<1>8. LogIsRight
  BY <1>3 DEF LogIsRight, NoneLeftOut
<1> QED BY <1>4, <1>5, <1>6, <1>7, <1>8 DEF TargetsInv

-----------------------------------------------------------------------------
(* One lemma for each action *)

LEMMA OneIsSequence ==
  ASSUME NEW T, NEW x \in T
  PROVE  <<x>> \in Seq(T) /\ Len(<<x>>) = 1 /\ <<x>>[1] = x
OBVIOUS

\* The target is resolved.
LEMMA ResolveKeeps ==
  ASSUME TargetsInv, ResolveTarget
  PROVE  TargetsInv'
<1>1. TargetTypes /\ OrderIsMade /\ WorkIsLeft
  BY DEF TargetsInv
<1>2. /\ targetPhase = "resolve" /\ lifecycleLog' = <<>>
      /\ UNCHANGED <<wanted, latestTag, keptTags, builtTags>>
      /\ marks' = [s \in wanted.services |-> 0] /\ visits' = <<>> /\ ordered' = <<>>
  BY <1>1 DEF ResolveTarget, Stop, OrderIsMade, WorkIsLeft, orderVars
<1>3. \/ wanted.target = All /\ targetPhase' = "order" /\ pendingServices' = pendingServices
      \/ wanted.target # All /\ targetPhase' = "refused" /\ pendingServices' = pendingServices
      \/ /\ wanted.target # All /\ targetPhase' = "begin" /\ pendingServices' = <<OnlyTarget>>
         /\ wanted.target = None => Cardinality(wanted.services) = 1
  <2>1. CASE wanted.target = All
    <3>1. wanted.releaseOnly \subseteq Nat \ {0}
      BY <1>1 DEF TargetTypes, IsTarget
    <3>2. wanted.target # None /\ OnlyTarget = All
      BY <2>1 DEF OnlyTarget, All, None
    <3>3. ~ReleaseOnly(OnlyTarget)
      BY <3>1, <3>2 DEF ReleaseOnly, All
    <3> QED BY <2>1, <3>2, <3>3 DEF ResolveTarget, Stop
  <2>2. CASE wanted.target # All /\ targetPhase' = "refused"
    BY <2>2 DEF ResolveTarget, Stop
  <2>3. CASE wanted.target # All /\ targetPhase' # "refused"
    <3>1. targetPhase' = "begin" /\ pendingServices' = <<OnlyTarget>>
      BY <2>3 DEF ResolveTarget, Stop
    <3>2. wanted.target = None => Cardinality(wanted.services) = 1
      BY <2>3 DEF ResolveTarget, Stop
    <3> QED BY <2>3, <3>1, <3>2
  <2> QED BY <2>1, <2>2, <2>3
<1>4. TagTypes' /\ IsTarget(wanted)'
  BY <1>1, <1>2, TagsStay DEF TargetTypes, IsTarget
<1>5. Calls' = Calls /\ Entries' = Entries
  BY <1>2, ManifestStays
<1>6. targetPhase' = "begin" => OnlyTarget \in wanted.services
  <2> SUFFICES ASSUME targetPhase' = "begin" PROVE OnlyTarget \in wanted.services
    OBVIOUS
  <2>1. CASE wanted.target = None
    <3>1. PICK n \in Nat : wanted.services = 1..n
      BY <1>1 DEF TargetTypes, IsTarget
    <3>2. Cardinality(1..n) = n
      BY FS_Interval
    <3>3. Cardinality(wanted.services) = 1
      BY <1>3, <2>1
    <3>4. n = 1
      BY <3>1, <3>2, <3>3
    <3> QED BY <2>1, <3>1, <3>4 DEF OnlyTarget
  <2>2. CASE wanted.target # None
    BY <1>1, <1>3, <2>2 DEF TargetTypes, IsTarget, OnlyTarget
  <2> QED BY <2>1, <2>2
<1>7. TargetTypes'
  <2>1. /\ visits' \in Seq(Calls) /\ ordered' \in Seq(wanted.services)
        /\ lifecycleLog' \in Seq(Entries)
    BY <1>2
  <2>2. marks' \in [wanted.services -> {0, 1, 2}]
    BY <1>2
  <2>3. pendingServices' \in Seq(wanted.services)
    <3>1. pendingServices \in Seq(wanted.services)
      BY <1>1 DEF TargetTypes
    <3>2. CASE pendingServices' = <<OnlyTarget>> /\ OnlyTarget \in wanted.services
      <4>1. PICK s \in wanted.services : pendingServices' = <<s>>
        BY <3>2
      <4> QED BY <4>1, OneIsSequence
    <3> QED BY <1>3, <1>6, <3>1, <3>2
  <2>4. targetPhase' \in {"order", "refused"} \cup Works
    BY <1>3 DEF Works
  <2> QED BY <1>2, <1>4, <1>5, <2>1, <2>2, <2>3, <2>4 DEF TargetTypes, Works, Deploys
<1>8. OrderIsMade'
  <2>1. \A i \in 1..Len(visits') : FALSE
    BY <1>2
  <2>2. \A i \in 1..Len(visits') - 1 : FALSE
    BY <1>2
  <2>3. \A i \in 1..Len(ordered') : FALSE
    BY <1>2
  <2>4. PathIsVisited'
    BY <2>1, <2>2 DEF PathIsVisited
  <2>5. InOrder(ordered)' /\ \A s : ~Among(ordered, s)'
    BY <2>3 DEF InOrder, NoneTwice, Among
  <2>6. \A s \in wanted.services : marks'[s] # 1 /\ marks'[s] # 2
    BY <1>2
  <2>7. wanted.target = All => OrderSoFar'
    BY <1>2, <2>1, <2>4, <2>5, <2>6 DEF OrderSoFar
  <2> QED BY <1>2, <1>3, <2>7 DEF OrderIsMade, Works, Deploys
<1>9. WorkIsLeft'
  BY <1>2, <1>3 DEF WorkIsLeft, Works, Deploys
<1>10. CommandsKeepTo'
  BY <1>2, <1>3, <1>6 DEF CommandsKeepTo, Works, Deploys, OnlyTarget
<1>11. ReleasesAreKnown' /\ LogIsRight'
  <2>1. LogIsRight'
    BY <1>2, <1>3, NothingDone
  <2> QED BY <1>2, <1>3, <2>1 DEF ReleasesAreKnown, Works, Deploys
<1> QED BY <1>7, <1>8, <1>9, <1>10, <1>11 DEF TargetsInv

\* The order is not made yet, or the command is refused: nothing is done.
LEMMA OrderingKeeps ==
  ASSUME TargetsInv, targetPhase = "order", targetPhase' \in {"order", "refused"},
         UNCHANGED <<wanted, latestTag, keptTags, builtTags, pendingServices, lifecycleLog>>,
         OrderIsMade', visits' \in Seq(Calls), ordered' \in Seq(wanted.services),
         marks' \in [wanted.services -> {0, 1, 2}]
  PROVE  TargetsInv'
<1>1. TargetTypes /\ WorkIsLeft
  BY DEF TargetsInv
<1>2. TagTypes' /\ IsTarget(wanted)'
  BY <1>1, TagsStay DEF TargetTypes, IsTarget
<1>3. Calls' = Calls /\ Entries' = Entries
  BY ManifestStays
<1>4. TargetTypes'
  BY <1>1, <1>2, <1>3 DEF TargetTypes
<1>5. lifecycleLog' = <<>>
  BY <1>1 DEF WorkIsLeft
<1>6. WorkIsLeft' /\ CommandsKeepTo' /\ ReleasesAreKnown'
  BY <1>5 DEF WorkIsLeft, CommandsKeepTo, ReleasesAreKnown, Works, Deploys
<1>7. LogIsRight'
  BY <1>5, NothingDone
<1> QED BY <1>4, <1>6, <1>7 DEF TargetsInv

LEMMA VisitNextKeeps ==
  ASSUME TargetsInv, VisitNext
  PROVE  TargetsInv'
<1>1. /\ TargetTypes /\ OrderSoFar /\ wanted.target = All /\ lifecycleLog = <<>>
      /\ targetPhase = "order" /\ visits = <<>>
      /\ UNCHANGED <<wanted, latestTag, keptTags, builtTags, lifecycleLog>>
  BY DEF TargetsInv, OrderIsMade, OrderSoFar, WorkIsLeft, VisitNext, Stop
<1>2. /\ visits \in Seq(Calls) /\ ordered \in Seq(wanted.services)
      /\ marks \in [wanted.services -> {0, 1, 2}] /\ pendingServices \in Seq(wanted.services)
      /\ TagTypes /\ IsTarget(wanted)
  BY <1>1 DEF TargetTypes
<1>3. (Sound' <=> Sound) /\ (Declared' <=> Declared) /\ Calls' = Calls /\ Entries' = Entries
  BY <1>1, ManifestStays
<1>4. CASE \E s \in wanted.services : UndeclaredNeeds(s) # {}
  <2>1. targetPhase' = "refused" /\ UNCHANGED orderVars /\ pendingServices' = pendingServices
    BY <1>4 DEF VisitNext, Stop
  <2>2. ~Sound
    BY <1>1, <1>4, UndeclaredIsUnsound
  <2>3. OrderIsMade'
    BY <1>3, <2>1, <2>2 DEF OrderIsMade, Works, Deploys
  <2> QED BY <1>1, <1>2, <2>1, <2>3, OrderingKeeps DEF orderVars
<1>5. CASE ~\E s \in wanted.services : UndeclaredNeeds(s) # {}
  <2> DEFINE left == {s \in wanted.services : marks[s] = 0}
  <2>1. Declared
    BY <1>5 DEF Declared, UndeclaredNeeds
  <2>2. CASE left = {}
    <3>1. /\ targetPhase' = "begin" /\ UNCHANGED orderVars
          /\ pendingServices' = IF DeployableOnly THEN Deployable(ordered) ELSE ordered
      BY <1>5, <2>2 DEF VisitNext
    <3>2. \A s \in wanted.services : Among(ordered, s)
      <4> SUFFICES ASSUME NEW s \in wanted.services PROVE Among(ordered, s)
        OBVIOUS
      <4>1. marks[s] # 0
        BY <2>2
      <4>2. \A i \in 1..Len(visits) : FALSE
        BY <1>1
      <4>3. marks[s] # 1
        BY <1>1, <4>2 DEF OrderSoFar
      <4>4. marks[s] = 2
        BY <1>2, <4>1, <4>3
      <4> QED BY <1>1, <4>4 DEF OrderSoFar
    <3>3. OrderIsComplete
      BY <1>1, <2>1, <3>2 DEF OrderSoFar, OrderIsComplete
    <3>4. OrderIsComplete'
      <4>1. (InOrder(ordered)' <=> InOrder(ordered))
            /\ \A s : Among(ordered, s)' <=> Among(ordered, s)
        BY <1>1, <3>1 DEF InOrder, NoneTwice, Among, orderVars
      <4> QED BY <1>1, <1>3, <3>3, <4>1 DEF OrderIsComplete
    <3>5. OrderIsMade'
      BY <1>1, <3>1, <3>4 DEF OrderIsMade, Works, Deploys
    <3>6. PICK what \in {"release"} \cup Acted :
            what = (IF DeployableOnly THEN wanted.command ELSE "release")
      BY <1>2 DEF DeployableOnly, Acted, IsTarget
    <3>7. Doing' = what /\ (DeployableOnly <=> what \in Acted)
      BY <1>1, <1>2, <3>1, <3>6 DEF Doing, DeployableOnly, IsTarget, Acted
    <3>8. IF what \in Acted THEN IsLeft(what, Deployable(ordered), {})
          ELSE IsLeft(what, ordered, {})
      BY <1>1, <1>2, <2>1, <3>2, AllIsLeft DEF OrderSoFar
    <3>9. pendingServices' \in Seq(wanted.services)
      <4>1. Deployable(ordered) \in Seq(wanted.services)
        BY <1>1, <1>2, DeployableKeeps DEF OrderSoFar, InOrder
      <4> QED BY <1>2, <3>1, <4>1
    <3>10. LogIsRight' /\ DoneSoFar(what)' = {}
      BY <1>1, <3>1, NothingDone
    <3>11. IsLeft(what, pendingServices, {})'
      <4>1. PICK todo : todo = pendingServices'
        OBVIOUS
      <4>2. IsLeft(what, todo, {})
        BY <3>1, <3>7, <3>8, <4>1
      <4>3. IsLeft(what, todo, {})'
        BY <1>1, <4>2, ManifestStays
      <4> QED BY <4>1, <4>3 DEF IsLeft
    <3>12. IsLeft(Doing, pendingServices, DoneSoFar(Doing))'
      BY <3>7, <3>10, <3>11 DEF IsLeft
    <3>13. WorkIsLeft'
      BY <1>1, <3>1, <3>12 DEF WorkIsLeft, Works, Deploys
    <3>14. TargetTypes'
      <4>1. TagTypes' /\ IsTarget(wanted)'
        BY <1>1, <1>2, TagsStay DEF IsTarget
      <4> QED BY <1>1, <1>2, <1>3, <3>1, <3>9, <4>1 DEF TargetTypes, Works, orderVars
    <3>15. CommandsKeepTo' /\ ReleasesAreKnown'
      BY <1>1, <3>1 DEF CommandsKeepTo, ReleasesAreKnown, Works, Deploys
    <3> QED BY <3>5, <3>10, <3>13, <3>14, <3>15 DEF TargetsInv
  <2>3. CASE left # {}
    <3>1. left \in SUBSET Nat
      <4>1. PICK n \in Nat : wanted.services = 1..n
        BY <1>2 DEF IsTarget
      <4> QED BY <4>1
    <3>2. PICK s \in wanted.services : s = Min(left) /\ marks[s] = 0
      <4>1. Min(left) \in left
        <5> HIDE DEF left
        <5> QED BY <2>3, <3>1, LeastNumber
      <4> QED BY <4>1
    <3>3. PICK call \in Calls : call = [service |-> s, deps |-> wanted.dependsOn[s]]
      BY <1>2 DEF Calls, IsTarget
    <3>4. /\ marks' = [marks EXCEPT ![s] = 1] /\ visits' = <<call>>
          /\ UNCHANGED <<targetPhase, ordered, pendingServices>>
      BY <1>5, <2>3, <3>2, <3>3 DEF VisitNext
    <3> HIDE DEF left
    <3>5. visits' \in Seq(Calls) /\ Len(visits') = 1 /\ visits'[1] = call
      BY <3>4, OneIsSequence
    <3>6. /\ \A i \in 1..Len(visits') : i = 1 /\ visits'[i] = call
          /\ 1 \in 1..Len(visits') /\ \A i : i \notin 1..Len(visits') - 1
      BY <3>5
    <3>7. PathIsVisited'
      BY <1>1, <3>3, <3>6 DEF PathIsVisited
    <3>8. ASSUME NEW r \in wanted.services
          PROVE  /\ marks'[r] = 1 <=> \E i \in 1..Len(visits') : visits'[i].service = r
                 /\ marks'[r] = 2 <=> Among(ordered, r)
      <4>1. /\ marks[r] # 1
            /\ marks[r] = 2 <=> Among(ordered, r)
        <5>1. \A i \in 1..Len(visits) : FALSE
          BY <1>1
        <5> QED BY <1>1, <5>1 DEF OrderSoFar
      <4>2. (\E i \in 1..Len(visits') : visits'[i].service = r) <=> r = s
        BY <3>3, <3>6
      <4>3. CASE r = s
        BY <1>2, <3>2, <3>4, <4>1, <4>2, <4>3
      <4>4. CASE r # s
        BY <1>2, <3>4, <4>1, <4>2, <4>4
      <4> QED BY <4>3, <4>4
    <3>9. OrderSoFar'
      <4>1. InOrder(ordered)' /\ \A r : Among(ordered, r)' <=> Among(ordered, r)
        BY <1>1, <3>4 DEF OrderSoFar, InOrder, NoneTwice, Among
      <4> QED BY <1>1, <1>3, <2>1, <3>7, <3>8, <4>1 DEF OrderSoFar
    <3>10. OrderIsMade'
      BY <1>1, <3>4, <3>9 DEF OrderIsMade, Works, Deploys
    <3>11. marks' \in [wanted.services -> {0, 1, 2}]
      BY <1>2, <3>4
    <3> QED BY <1>1, <1>2, <3>4, <3>5, <3>10, <3>11, OrderingKeeps
  <2> QED BY <2>2, <2>3
<1> QED BY <1>4, <1>5

LEMMA CallIsThrough ==
  ASSUME NEW call \in Calls, NEW rest
  PROVE  [call EXCEPT !.deps = rest] = [service |-> call.service, deps |-> rest]
BY DEF Calls

\* What visit is at: the last call, and its next dependency.
LEMMA NextDependency ==
  ASSUME TargetTypes, OrderSoFar, visits # <<>>, Last(visits).deps # {}
  PROVE  \E L \in Nat \ {0}, rest \in Seq(Calls), dep \in wanted.services :
           /\ L = Len(visits) /\ Len(rest) = L
           /\ dep = Min(Last(visits).deps) /\ dep \in visits[L].deps
           /\ dep \in wanted.dependsOn[visits[L].service]
           /\ rest = [visits EXCEPT ![Len(visits)].deps = @ \ {dep}]
           /\ \A i \in 1..L : /\ rest[i].service = visits[i].service
                              /\ i # L => rest[i].deps = visits[i].deps
           /\ rest[L].deps = visits[L].deps \ {dep}
<1>1. visits \in Seq(Calls)
  BY DEF TargetTypes
<1>2. PICK L \in Nat \ {0} : L = Len(visits)
  BY <1>1
<1>3. PICK call \in Calls : call = visits[L] /\ call = Last(visits)
  BY <1>1, <1>2 DEF Last
<1>4. call.service \in wanted.services /\ call.deps \in SUBSET Nat
  BY DEF Calls
<1>5. Min(call.deps) \in call.deps
  BY <1>3, <1>4, LeastNumber
<1>6. call.deps \subseteq wanted.dependsOn[call.service]
  <2>1. L \in 1..Len(visits)
    BY <1>2
  <2>2. visits[L].deps \subseteq wanted.dependsOn[visits[L].service]
    BY <2>1 DEF OrderSoFar, PathIsVisited
  <2> QED BY <1>3, <2>2
<1>7. PICK dep \in wanted.services : dep = Min(call.deps) /\ dep \in call.deps
                                     /\ dep \in wanted.dependsOn[call.service]
  BY <1>4, <1>5, <1>6 DEF OrderSoFar, Declared
<1>8. PICK less \in Calls : less = [service |-> call.service, deps |-> call.deps \ {dep}]
  BY <1>4 DEF Calls
<1>9. PICK rest : rest = [visits EXCEPT ![L] = less]
  OBVIOUS
<1>10. rest \in Seq(Calls) /\ Len(rest) = L /\ rest[L] = less
       /\ \A i \in 1..L : i # L => rest[i] = visits[i]
  BY <1>1, <1>2, <1>9
<1>11. rest = [visits EXCEPT ![Len(visits)].deps = @ \ {dep}]
  <2>1. [call EXCEPT !.deps = call.deps \ {dep}] = less
    BY <1>8, CallIsThrough, Zenon
  <2> QED BY <1>2, <1>3, <1>9, <2>1
<1>12. \A i \in 1..L : /\ rest[i].service = visits[i].service
                       /\ i # L => rest[i].deps = visits[i].deps
  <2>1. less.service = call.service
    BY <1>8
  <2>2. rest[L].service = visits[L].service
    BY <1>3, <1>10, <2>1
  <2> QED BY <1>10, <2>2
<1>13. rest[L].deps = visits[L].deps \ {dep}
  <2>1. less.deps = call.deps \ {dep}
    BY <1>8
  <2> QED BY <1>3, <1>10, <2>1
<1>14. dep = Min(Last(visits).deps) /\ dep \in visits[L].deps
  BY <1>3, <1>7
<1>15. dep \in wanted.dependsOn[visits[L].service]
  BY <1>3, <1>7
<1>16. /\ L = Len(visits) /\ Len(rest) = L
       /\ dep = Min(Last(visits).deps) /\ dep \in visits[L].deps
       /\ dep \in wanted.dependsOn[visits[L].service]
       /\ rest = [visits EXCEPT ![Len(visits)].deps = @ \ {dep}]
       /\ \A i \in 1..L : /\ rest[i].service = visits[i].service
                          /\ i # L => rest[i].deps = visits[i].deps
       /\ rest[L].deps = visits[L].deps \ {dep}
  BY <1>2, <1>10, <1>11, <1>12, <1>13, <1>14, <1>15, Zenon
<1>17. L \in Nat \ {0} /\ rest \in Seq(Calls) /\ dep \in wanted.services
  BY <1>10
<1> QED BY <1>16, <1>17, Zenon

LEMMA VisitDependencyKeeps ==
  ASSUME TargetsInv, VisitDependency
  PROVE  TargetsInv'
<1>1. /\ TargetTypes /\ OrderSoFar /\ wanted.target = All /\ Declared
      /\ targetPhase = "order" /\ visits # <<>> /\ Last(visits).deps # {}
      /\ UNCHANGED <<wanted, latestTag, keptTags>>
  <2>1. /\ targetPhase = "order" /\ visits # <<>> /\ Last(visits).deps # {}
        /\ UNCHANGED <<wanted, latestTag, keptTags>>
    BY DEF VisitDependency
  <2>2. TargetTypes /\ OrderSoFar /\ wanted.target = All /\ Declared
    BY <2>1 DEF TargetsInv, OrderIsMade, OrderSoFar
  <2> QED BY <2>1, <2>2
<1>2. /\ visits \in Seq(Calls) /\ ordered \in Seq(wanted.services)
      /\ marks \in [wanted.services -> {0, 1, 2}]
      /\ TagTypes /\ IsTarget(wanted)
  BY <1>1 DEF TargetTypes
<1>3. (Sound' <=> Sound) /\ (Declared' <=> Declared) /\ Calls' = Calls
  BY <1>1, ManifestStays
<1>4. PICK L \in Nat \ {0}, rest \in Seq(Calls), dep \in wanted.services :
        /\ L = Len(visits) /\ Len(rest) = L
        /\ dep = Min(Last(visits).deps) /\ dep \in visits[L].deps
        /\ dep \in wanted.dependsOn[visits[L].service]
        /\ rest = [visits EXCEPT ![Len(visits)].deps = @ \ {dep}]
        /\ \A i \in 1..L : /\ rest[i].service = visits[i].service
                           /\ i # L => rest[i].deps = visits[i].deps
        /\ rest[L].deps = visits[L].deps \ {dep}
  BY <1>1, NextDependency
<1>5. /\ UNCHANGED <<builtTags, lifecycleLog, pendingServices>>
      /\ \/ marks[dep] = 1 /\ targetPhase' = "refused" /\ UNCHANGED orderVars
         \/ /\ marks[dep] = 2 /\ visits' = rest
            /\ UNCHANGED <<targetPhase, marks, ordered>>
         \/ /\ marks[dep] = 0 /\ marks' = [marks EXCEPT ![dep] = 1]
            /\ visits' = Append(rest, [service |-> dep, deps |-> wanted.dependsOn[dep]])
            /\ UNCHANGED <<targetPhase, ordered>>
  <2>1. marks[dep] \in {0, 1, 2}
    BY <1>2
  <2>2. CASE marks[dep] = 0
    BY <1>4, <2>2 DEF VisitDependency, Stop
  <2>3. CASE marks[dep] = 1
    BY <1>4, <2>3 DEF VisitDependency, Stop
  <2>4. CASE marks[dep] = 2
    BY <1>4, <2>4 DEF VisitDependency, Stop
  <2> QED BY <2>1, <2>2, <2>3, <2>4
<1>6. /\ \A r \in wanted.services :
           /\ marks[r] = 1 <=> \E i \in 1..L : visits[i].service = r
           /\ marks[r] = 2 <=> Among(ordered, r)
      /\ \A i, j \in 1..L : visits[i].service = visits[j].service => i = j
      /\ \A i \in 1..L - 1 : visits[i + 1].service \in wanted.dependsOn[visits[i].service]
      /\ \A i \in 1..L :
           /\ visits[i].deps \subseteq wanted.dependsOn[visits[i].service]
           /\ \A d \in wanted.dependsOn[visits[i].service] \ visits[i].deps :
                Among(ordered, d) \/ (i < L /\ d = visits[i + 1].service)
  BY <1>1, <1>4 DEF OrderSoFar, PathIsVisited
<1>7. CASE marks[dep] = 1
  <2>1. targetPhase' = "refused" /\ UNCHANGED orderVars
    BY <1>5, <1>7
  <2>2. PICK j \in 1..Len(visits) : visits[j].service = dep
    BY <1>4, <1>6, <1>7
  <2>3. ~Sound
    BY <1>1, <1>4, <2>2, CyclesAreUnsound DEF OrderSoFar
  <2>4. OrderIsMade'
    BY <1>3, <2>1, <2>3 DEF OrderIsMade, Works, Deploys
  <2> QED BY <1>1, <1>2, <1>5, <2>1, <2>4, OrderingKeeps DEF orderVars
<1>8. CASE marks[dep] = 2
  <2>1. visits' = rest /\ UNCHANGED <<targetPhase, marks, ordered>>
    BY <1>5, <1>8
  <2>2. Len(visits') = L /\ visits' # <<>> /\ visits' \in Seq(Calls)
    BY <1>4, <2>1
  <2>3. \A s : Among(ordered, s)' <=> Among(ordered, s)
    BY <2>1 DEF Among
  <2>4. ASSUME NEW i \in 1..L
        PROVE  /\ visits'[i].deps \subseteq wanted.dependsOn[visits'[i].service]
               /\ \A d \in wanted.dependsOn[visits'[i].service] \ visits'[i].deps :
                    Among(ordered, d) \/ (i < L /\ d = visits'[i + 1].service)
    <3>1. /\ visits'[i].service = visits[i].service
          /\ visits'[i].deps \subseteq visits[i].deps
          /\ \A d : d \in visits[i].deps /\ d \notin visits'[i].deps => d = dep
      BY <1>4, <2>1
    <3>2. i < L => visits'[i + 1].service = visits[i + 1].service
      <4>1. i < L => i + 1 \in 1..L
        BY <1>4
      <4> QED BY <1>4, <2>1, <4>1
    <3>3. Among(ordered, dep)
      BY <1>6, <1>8
    <3> QED BY <1>6, <3>1, <3>2, <3>3
  <2>5. /\ \A i, j \in 1..L : visits'[i].service = visits'[j].service => i = j
        /\ \A i \in 1..L - 1 : visits'[i + 1].service \in wanted.dependsOn[visits'[i].service]
    <3>1. \A i \in 1..L : visits'[i].service = visits[i].service
      BY <1>4, <2>1
    <3>2. \A i \in 1..L - 1 : i \in 1..L /\ i + 1 \in 1..L
      BY <1>4
    <3> QED BY <1>6, <3>1, <3>2
  <2>6. PathIsVisited'
    BY <1>1, <2>2, <2>3, <2>4, <2>5 DEF PathIsVisited
  <2>7. \A r \in wanted.services :
          marks'[r] = 1 <=> \E i \in 1..Len(visits') : visits'[i].service = r
    <3>1. \A i \in 1..L : visits'[i].service = visits[i].service
      BY <1>4, <2>1
    <3>2. \A r \in wanted.services :
            (\E i \in 1..L : visits'[i].service = r) <=> \E i \in 1..L : visits[i].service = r
      BY <3>1
    <3>3. marks' = marks
      BY <2>1
    <3> QED BY <1>6, <2>2, <3>2, <3>3
  <2>8. OrderSoFar'
    <3>1. InOrder(ordered)'
      <4>1. InOrder(ordered)' <=> InOrder(ordered)
        BY <1>1, <2>1 DEF InOrder, NoneTwice
      <4> QED BY <1>1, <4>1 DEF OrderSoFar
    <3> QED BY <1>1, <1>3, <1>6, <2>1, <2>3, <2>6, <2>7, <3>1 DEF OrderSoFar
  <2>9. OrderIsMade'
    BY <1>1, <2>1, <2>8 DEF OrderIsMade, Works, Deploys
  <2> QED BY <1>1, <1>2, <1>5, <2>1, <2>2, <2>9, OrderingKeeps
<1>9. CASE marks[dep] = 0
  <2>1. PICK call \in Calls : call = [service |-> dep, deps |-> wanted.dependsOn[dep]]
    BY <1>2 DEF Calls, IsTarget
  <2>2. /\ marks' = [marks EXCEPT ![dep] = 1] /\ visits' = Append(rest, call)
        /\ UNCHANGED <<targetPhase, ordered>>
    BY <1>5, <1>9, <2>1
  <2>3. /\ Len(visits') = L + 1 /\ visits' # <<>> /\ visits' \in Seq(Calls)
        /\ visits'[L + 1] = call
        /\ \A i \in 1..L : visits'[i] = rest[i]
    BY <1>4, <2>2
  <2>4. /\ call.service = dep /\ call.deps = wanted.dependsOn[dep]
        /\ \A i \in 1..L : visits[i].service # dep
    BY <1>6, <1>9, <2>1
  <2>5. \A i \in 1..L + 1 : visits'[i].service = IF i = L + 1 THEN dep ELSE visits[i].service
    <3>1. \A i \in 1..L : visits'[i].service = visits[i].service
      BY <1>4, <2>3
    <3>2. visits'[L + 1].service = dep
      BY <2>3, <2>4
    <3>3. \A i \in 1..L + 1 : i = L + 1 \/ (i # L + 1 /\ i \in 1..L)
      OBVIOUS
    <3> QED BY <3>1, <3>2, <3>3
  <2>6. \A s : Among(ordered, s)' <=> Among(ordered, s)
    BY <2>2 DEF Among
  <2>7. ASSUME NEW i \in 1..L + 1
        PROVE  /\ visits'[i].deps \subseteq wanted.dependsOn[visits'[i].service]
               /\ \A d \in wanted.dependsOn[visits'[i].service] \ visits'[i].deps :
                    Among(ordered, d) \/ (i < L + 1 /\ d = visits'[i + 1].service)
    <3>1. CASE i = L + 1
      <4>1. visits'[i].service = dep /\ visits'[i].deps = wanted.dependsOn[dep]
        BY <2>3, <2>4, <3>1
      <4> QED BY <4>1
    <3>2. CASE i = L
      <4>1. L \in 1..L /\ ~(L < L) /\ L < L + 1
        OBVIOUS
      <4>2. visits'[L] = rest[L] /\ visits'[L + 1].service = dep
        BY <2>3, <2>4, <4>1
      <4>3. /\ visits'[L].service = visits[L].service
            /\ visits'[L].deps = visits[L].deps \ {dep}
        BY <1>4, <4>1, <4>2
      <4>4. /\ visits[L].deps \subseteq wanted.dependsOn[visits[L].service]
            /\ \A d \in wanted.dependsOn[visits[L].service] \ visits[L].deps : Among(ordered, d)
        BY <1>6, <4>1
      <4>5. /\ visits'[L].deps \subseteq wanted.dependsOn[visits'[L].service]
            /\ \A d \in wanted.dependsOn[visits'[L].service] \ visits'[L].deps :
                 Among(ordered, d) \/ (L < L + 1 /\ d = visits'[L + 1].service)
        BY <4>1, <4>2, <4>3, <4>4
      <4> QED BY <3>2, <4>5
    <3>3. CASE i \in 1..L - 1
      <4>1. /\ visits'[i].service = visits[i].service
            /\ visits'[i].deps = visits[i].deps
            /\ visits'[i + 1].service = visits[i + 1].service
            /\ i < L /\ i < L + 1 /\ i \in 1..L
        BY <1>4, <2>3, <2>5, <3>3
      <4> QED BY <1>6, <4>1
    <3> QED BY <3>1, <3>2, <3>3
  <2>8. \A i, j \in 1..L + 1 : visits'[i].service = visits'[j].service => i = j
    BY <1>6, <2>4, <2>5
  <2>9. \A i \in 1..(L + 1) - 1 : visits'[i + 1].service \in wanted.dependsOn[visits'[i].service]
    <3> SUFFICES ASSUME NEW i \in 1..L
                 PROVE  visits'[i + 1].service \in wanted.dependsOn[visits'[i].service]
      BY <1>4
    <3>1. CASE i = L
      BY <1>4, <2>5, <3>1
    <3>2. CASE i # L
      <4>1. i \in 1..L - 1 /\ i + 1 \in 1..L + 1 /\ i + 1 # L + 1 /\ i \in 1..L + 1 /\ i # L + 1
        BY <3>2
      <4> QED BY <1>6, <2>5, <4>1
    <3> QED BY <3>1, <3>2
  <2>10. PathIsVisited'
    BY <1>1, <2>3, <2>6, <2>7, <2>8, <2>9 DEF PathIsVisited
  <2>11. ASSUME NEW r \in wanted.services
         PROVE  /\ marks'[r] = 1 <=> \E i \in 1..Len(visits') : visits'[i].service = r
                /\ marks'[r] = 2 <=> Among(ordered, r)
    <3>1. (\E i \in 1..Len(visits') : visits'[i].service = r)
            <=> r = dep \/ \E i \in 1..L : visits[i].service = r
      <4>1. \A i \in 1..L : i \in 1..L + 1 /\ i # L + 1
        OBVIOUS
      <4>2. L + 1 \in 1..L + 1 /\ \A i \in 1..L + 1 : i = L + 1 \/ i \in 1..L
        OBVIOUS
      <4> QED BY <2>3, <2>5, <4>1, <4>2
    <3>2. CASE r = dep
      BY <1>2, <1>6, <1>9, <2>2, <3>1, <3>2
    <3>3. CASE r # dep
      BY <1>2, <1>6, <2>2, <3>1, <3>3
    <3> QED BY <3>2, <3>3
  <2>12. OrderSoFar'
    <3>1. InOrder(ordered)'
      <4>1. InOrder(ordered)' <=> InOrder(ordered)
        BY <1>1, <2>2 DEF InOrder, NoneTwice
      <4> QED BY <1>1, <4>1 DEF OrderSoFar
    <3> QED BY <1>1, <1>3, <2>6, <2>10, <2>11, <3>1 DEF OrderSoFar
  <2>13. OrderIsMade'
    BY <1>1, <2>2, <2>12 DEF OrderIsMade, Works, Deploys
  <2>14. marks' \in [wanted.services -> {0, 1, 2}]
    BY <1>2, <2>2
  <2> QED BY <1>1, <1>2, <1>5, <2>2, <2>3, <2>13, <2>14, OrderingKeeps
<1> QED BY <1>5, <1>7, <1>8, <1>9

LEMMA VisitReturnsKeeps ==
  ASSUME TargetsInv, VisitReturns
  PROVE  TargetsInv'
<1>1. /\ targetPhase = "order" /\ visits # <<>> /\ Last(visits).deps = {}
      /\ UNCHANGED <<wanted, latestTag, keptTags, targetPhase, pendingServices, builtTags,
                     lifecycleLog>>
  BY DEF VisitReturns
<1>2. TargetTypes /\ OrderSoFar /\ wanted.target = All /\ Declared
  BY <1>1 DEF TargetsInv, OrderIsMade, OrderSoFar
<1>3. /\ visits \in Seq(Calls) /\ ordered \in Seq(wanted.services)
      /\ marks \in [wanted.services -> {0, 1, 2}]
  BY <1>2 DEF TargetTypes
<1>4. (Declared' <=> Declared) /\ Calls' = Calls
  BY <1>1, ManifestStays
<1>5. PICK L \in Nat \ {0} : L = Len(visits)
  BY <1>1, <1>3
<1>6. PICK s \in wanted.services : s = Last(visits).service /\ visits[L].service = s
  <2>1. visits[L] \in Calls /\ Last(visits) = visits[L]
    BY <1>3, <1>5 DEF Last
  <2> QED BY <2>1 DEF Calls
<1>7. /\ marks' = [marks EXCEPT ![s] = 2] /\ ordered' = Append(ordered, s)
      /\ visits' = Front(visits)
  BY <1>6 DEF VisitReturns, Visited
<1>8. /\ visits' \in Seq(Calls) /\ Len(visits') = L - 1
      /\ \A i \in 1..L - 1 : visits'[i] = visits[i] /\ i \in 1..L
  <2>1. visits' = SubSeq(visits, 1, Len(visits) - 1)
    BY <1>7 DEF Front
  <2> QED BY <1>3, <1>5, <2>1
<1>9. PICK K \in Nat :
        /\ K = Len(ordered) /\ Len(ordered') = K + 1 /\ ordered' \in Seq(wanted.services)
        /\ ordered'[K + 1] = s /\ \A i \in 1..K : ordered'[i] = ordered[i]
  BY <1>3, <1>7
<1>10. \A i \in 1..K + 1 : i = K + 1 \/ (i # K + 1 /\ i \in 1..K)
  BY <1>9
<1>11. /\ \A r \in wanted.services :
            /\ marks[r] = 1 <=> \E i \in 1..L : visits[i].service = r
            /\ marks[r] = 2 <=> Among(ordered, r)
       /\ \A i, j \in 1..L : visits[i].service = visits[j].service => i = j
       /\ \A i \in 1..L - 1 : visits[i + 1].service \in wanted.dependsOn[visits[i].service]
       /\ \A i \in 1..L :
            /\ visits[i].deps \subseteq wanted.dependsOn[visits[i].service]
            /\ \A d \in wanted.dependsOn[visits[i].service] \ visits[i].deps :
                 Among(ordered, d) \/ (i < L /\ d = visits[i + 1].service)
  BY <1>2, <1>5 DEF OrderSoFar, PathIsVisited
<1>12. L \in 1..L /\ ~(L < L)
  OBVIOUS
<1>13. \A r : Among(ordered, r)' <=> Among(ordered, r) \/ r = s
  <2>1. \A r : Among(ordered, r)' <=> \E i \in 1..K + 1 : ordered'[i] = r
    BY <1>9 DEF Among
  <2>2. \A r : Among(ordered, r) <=> \E i \in 1..K : ordered[i] = r
    BY <1>9 DEF Among
  <2>3. K + 1 \in 1..K + 1 /\ \A i \in 1..K : i \in 1..K + 1
    OBVIOUS
  <2>4. ASSUME NEW r PROVE Among(ordered, r)' => Among(ordered, r) \/ r = s
    BY <1>9, <1>10, <2>1, <2>2
  <2>5. ASSUME NEW r PROVE Among(ordered, r) \/ r = s => Among(ordered, r)'
    BY <1>9, <2>1, <2>2, <2>3
  <2> QED BY <2>4, <2>5
<1>14. /\ \A d \in wanted.dependsOn[s] : Among(ordered, d)
       /\ ~Among(ordered, s)
       /\ \A i \in 1..L - 1 : visits[i].service # s
  <2>1. \A d \in wanted.dependsOn[s] : Among(ordered, d)
    <3>1. visits[L].deps = {}
      BY <1>1, <1>5 DEF Last
    <3> QED BY <1>6, <1>11, <1>12, <3>1
  <2>2. marks[s] = 1
    BY <1>6, <1>11, <1>12
  <2>3. \A i \in 1..L - 1 : i \in 1..L /\ i # L
    OBVIOUS
  <2> QED BY <1>6, <1>11, <1>12, <2>1, <2>2, <2>3
<1>15. InOrder(ordered)'
  <2>1. /\ \A i, j \in 1..K : ordered[i] = ordered[j] => i = j
        /\ \A i \in 1..K : \A d \in wanted.dependsOn[ordered[i]] :
             \E j \in 1..i - 1 : ordered[j] = d
    BY <1>2, <1>9 DEF OrderSoFar, InOrder, NoneTwice
  <2>2. \A i \in 1..K : ordered[i] # s
    BY <1>9, <1>14 DEF Among
  <2>3. \A i, j \in 1..K + 1 : ordered'[i] = ordered'[j] => i = j
    BY <1>9, <1>10, <2>1, <2>2
  <2>4. ASSUME NEW i \in 1..K + 1, NEW d \in wanted.dependsOn[ordered'[i]]
        PROVE  \E j \in 1..i - 1 : ordered'[j] = d
    <3>1. CASE i = K + 1
      <4>1. d \in wanted.dependsOn[s]
        BY <1>9, <3>1
      <4>2. PICK j \in 1..K : ordered[j] = d
        BY <1>9, <1>14, <4>1 DEF Among
      <4>3. j \in 1..i - 1 /\ ordered'[j] = d
        BY <1>9, <3>1, <4>2
      <4> QED BY <4>3
    <3>2. CASE i # K + 1
      <4>1. i \in 1..K /\ d \in wanted.dependsOn[ordered[i]]
        BY <1>9, <1>10, <3>2
      <4>2. PICK j \in 1..i - 1 : ordered[j] = d
        BY <2>1, <4>1
      <4>3. j \in 1..K
        BY <4>1
      <4> QED BY <1>9, <4>2, <4>3
    <3> QED BY <3>1, <3>2
  <2> QED BY <1>1, <1>9, <2>3, <2>4 DEF InOrder, NoneTwice
<1>16. PathIsVisited'
  <2>1. \A i, j \in 1..L - 1 : visits'[i].service = visits'[j].service => i = j
    BY <1>8, <1>11
  <2>2. \A i \in 1..(L - 1) - 1 : visits'[i + 1].service \in wanted.dependsOn[visits'[i].service]
    <3>1. \A i \in 1..(L - 1) - 1 : i \in 1..L - 1 /\ i + 1 \in 1..L - 1
      OBVIOUS
    <3> QED BY <1>8, <1>11, <3>1
  <2>3. ASSUME NEW i \in 1..L - 1
        PROVE  /\ visits'[i].deps \subseteq wanted.dependsOn[visits'[i].service]
               /\ \A d \in wanted.dependsOn[visits'[i].service] \ visits'[i].deps :
                    Among(ordered, d)' \/ (i < L - 1 /\ d = visits'[i + 1].service)
    <3>1. visits'[i] = visits[i] /\ i \in 1..L
      BY <1>8
    <3>2. i + 1 = L \/ (i < L - 1 /\ i + 1 \in 1..L - 1)
      OBVIOUS
    <3>3. visits[i + 1].service = s \/ (i < L - 1 /\ visits'[i + 1].service = visits[i + 1].service)
      <4>1. CASE i + 1 = L
        BY <1>6, <4>1
      <4>2. CASE i < L - 1 /\ i + 1 \in 1..L - 1
        BY <1>8, <4>2
      <4> QED BY <3>2, <4>1, <4>2
    <3> QED BY <1>11, <1>13, <3>1, <3>3
  <2> QED BY <1>1, <1>8, <2>1, <2>2, <2>3 DEF PathIsVisited
<1>17. ASSUME NEW r \in wanted.services
       PROVE  /\ marks'[r] = 1 <=> \E i \in 1..Len(visits') : visits'[i].service = r
              /\ marks'[r] = 2 <=> Among(ordered, r)'
  <2>1. CASE r = s
    <3>1. marks'[r] = 2
      BY <1>3, <1>7, <2>1
    <3> QED BY <1>8, <1>13, <1>14, <2>1, <3>1
  <2>2. CASE r # s
    <3>1. marks'[r] = marks[r]
      BY <1>3, <1>7, <2>2
    <3>2. (\E i \in 1..L - 1 : visits'[i].service = r) <=> \E i \in 1..L : visits[i].service = r
      <4>1. \A i \in 1..L : i = L \/ i \in 1..L - 1
        OBVIOUS
      <4> QED BY <1>6, <1>8, <2>2, <4>1
    <3> QED BY <1>8, <1>11, <1>13, <2>2, <3>1, <3>2
  <2> QED BY <2>1, <2>2
<1>18. OrderIsMade'
  <2>1. OrderSoFar'
    BY <1>1, <1>2, <1>4, <1>15, <1>16, <1>17 DEF OrderSoFar
  <2> QED BY <1>1, <2>1 DEF OrderIsMade, Works, Deploys
<1>19. marks' \in [wanted.services -> {0, 1, 2}]
  BY <1>3, <1>7
<1> QED BY <1>1, <1>8, <1>9, <1>18, <1>19, OrderingKeeps

\* A command that works, or has ended.
LEMMA WorkKeeps ==
  ASSUME TargetsInv, targetPhase \in Works, targetPhase' \in Works \cup {"failed", "done"},
         UNCHANGED <<wanted, orderVars>>, TagTypes', pendingServices' \in Seq(wanted.services),
         lifecycleLog' \in Seq(Entries)
  PROVE  TargetTypes' /\ OrderIsMade'
<1>1. TargetTypes /\ OrderIsMade
  BY DEF TargetsInv
<1>2. OrderIsMade'
  BY <1>1, OrderIsKept
<1>3. Calls' = Calls /\ Entries' = Entries /\ IsTarget(wanted)'
  BY <1>1, ManifestStays DEF TargetTypes, IsTarget
<1>4. /\ marks \in [wanted.services -> {0, 1, 2}] /\ visits \in Seq(Calls)
      /\ ordered \in Seq(wanted.services)
  BY <1>1 DEF TargetTypes
<1>5. TargetTypes'
  BY <1>3, <1>4 DEF TargetTypes, orderVars
<1> QED BY <1>2, <1>5

LEMMA LogStays ==
  ASSUME UNCHANGED <<wanted, builtTags, lifecycleLog>>
  PROVE  /\ \A what : DoneSoFar(what)' = DoneSoFar(what)
         /\ \A i : InItsTurn(i)' <=> InItsTurn(i)
<1>1. \A what, n : Done(what, n)' = Done(what, n)
  BY DEF Done
<1>2. /\ \A s : Needs(s)' = Needs(s)
      /\ \A what, s : Skips(what, s)' <=> Skips(what, s)
  BY ManifestStays
<1>3. \A what : DoneSoFar(what)' = DoneSoFar(what)
  BY <1>1 DEF DoneSoFar
<1>4. \A i : InItsTurn(i)' <=> InItsTurn(i)
  BY <1>1, <1>2 DEF InItsTurn
<1> QED BY <1>3, <1>4

LEMMA DoneAreServices ==
  ASSUME TargetTypes, NEW what
  PROVE  DoneSoFar(what) \subseteq wanted.services
<1>1. \A i \in 1..Len(lifecycleLog) : lifecycleLog[i] \in Entries
  BY DEF TargetTypes
<1>2. \A i \in 1..Len(lifecycleLog) : lifecycleLog[i].service \in wanted.services
  BY <1>1 DEF Entries
<1> QED BY <1>2 DEF DoneSoFar, Done

LEMMA EndKeeps ==
  ASSUME TargetsInv, targetPhase \in Works, targetPhase' \in {"failed", "done"},
         UNCHANGED <<wanted, orderVars, latestTag, keptTags, builtTags, pendingServices,
                     lifecycleLog>>,
         targetPhase' = "done" /\ wanted.target = All => NoneLeftOut'
  PROVE  TargetsInv'
<1>1. TargetTypes /\ LogIsRight
  BY DEF TargetsInv
<1>2. TagTypes'
  BY <1>1, TagsStay DEF TargetTypes
<1>3. TargetTypes' /\ OrderIsMade'
  <2>1. pendingServices' \in Seq(wanted.services) /\ lifecycleLog' \in Seq(Entries)
    BY <1>1 DEF TargetTypes
  <2> QED BY <1>2, <2>1, WorkKeeps
<1>4. WorkIsLeft' /\ CommandsKeepTo' /\ ReleasesAreKnown'
  BY DEF WorkIsLeft, CommandsKeepTo, ReleasesAreKnown, Works, Deploys
<1>5. LogIsRight'
  <2>1. \A i : InItsTurn(i)' <=> InItsTurn(i)
    BY LogStays
  <2>2. wanted.target = All => NoneLeftOut'
    BY DEF NoneLeftOut
  <2> QED BY <1>1, <2>1, <2>2 DEF LogIsRight
<1> QED BY <1>3, <1>4, <1>5 DEF TargetsInv

\* What is left to a command whose phase changes but not what it does.
LEMMA LeftStays ==
  ASSUME UNCHANGED <<wanted, pendingServices, builtTags, lifecycleLog>>, NEW what
  PROVE  IsLeft(what, pendingServices, DoneSoFar(what))' <=>
           IsLeft(what, pendingServices, DoneSoFar(what))
<1>1. PICK todo, done : /\ todo = pendingServices /\ done = DoneSoFar(what)
                        /\ todo = pendingServices' /\ done = DoneSoFar(what)'
  BY LogStays
<1>2. IsLeft(what, todo, done)' <=> IsLeft(what, todo, done)
  BY ManifestStays
<1> QED BY <1>1, <1>2 DEF IsLeft

LEMMA BeginKeeps ==
  ASSUME TargetsInv, BeginServices
  PROVE  TargetsInv'
<1>1. /\ targetPhase = "begin"
      /\ UNCHANGED <<wanted, orderVars, latestTag, keptTags, builtTags, pendingServices,
                     lifecycleLog>>
  BY DEF BeginServices, Stop
<1>2. TargetTypes /\ OrderIsMade /\ WorkIsLeft /\ CommandsKeepTo
  BY DEF TargetsInv
<1>3. CASE targetPhase' = "failed"
  <2>1. targetPhase \in Works
    BY <1>1 DEF Works
  <2> QED BY <1>1, <1>3, <2>1, EndKeeps
<1>4. CASE targetPhase' # "failed"
  <2>1. wanted.command \in {"deploy", "release", "release --deploy", "remove", "rollback"}
    BY <1>2 DEF TargetTypes, IsTarget
  <2>2. /\ targetPhase' \in {"release", "deploy", "remove", "rollback"}
        /\ targetPhase' = "release" <=> wanted.command \in {"release", "release --deploy"}
        /\ targetPhase' # "release" => targetPhase' = wanted.command
    <3>1. CASE wanted.command \in {"release", "release --deploy"}
      BY <3>1 DEF BeginServices, Stop
    <3>2. CASE wanted.command = "deploy"
      BY <1>4, <3>2 DEF BeginServices, Stop
    <3>3. CASE wanted.command \in {"remove", "rollback"}
      BY <3>3 DEF BeginServices, Stop
    <3> QED BY <2>1, <3>1, <3>2, <3>3
  <2>3. TargetTypes' /\ OrderIsMade'
    <3>1. TagTypes'
      BY <1>1, <1>2, TagsStay DEF TargetTypes
    <3>2. targetPhase \in Works /\ targetPhase' \in Works
      BY <1>1, <2>2 DEF Works, Deploys
    <3>3. pendingServices' \in Seq(wanted.services) /\ lifecycleLog' \in Seq(Entries)
      BY <1>1, <1>2 DEF TargetTypes
    <3> QED BY <1>1, <3>1, <3>2, <3>3, WorkKeeps
  <2>4. lifecycleLog' = <<>> /\ lifecycleLog = <<>>
    BY <1>1, <1>2 DEF WorkIsLeft
  <2>5. PICK what : what = Doing /\ what = Doing'
    <3>1. Doing = (IF wanted.command = "release --deploy" THEN "release" ELSE wanted.command)
      BY <1>1 DEF Doing
    <3>2. Doing' = (IF targetPhase' = "deploy" THEN "deploy" ELSE targetPhase')
      BY <2>2 DEF Doing, Deploys
    <3>3. Doing' = Doing
      BY <2>1, <2>2, <3>1, <3>2
    <3> QED BY <3>3
  <2>6. WorkIsLeft'
    <3>1. wanted.target = All => IsLeft(what, pendingServices, DoneSoFar(what))
      BY <1>1, <1>2, <2>5 DEF WorkIsLeft, Works
    <3>2. wanted.target = All => IsLeft(what, pendingServices, DoneSoFar(what))'
      BY <1>1, <3>1, LeftStays
    <3>3. wanted.target = All => IsLeft(Doing, pendingServices, DoneSoFar(Doing))'
      BY <2>5, <3>2 DEF IsLeft, DoneSoFar, Done
    <3> QED BY <1>1, <2>4, <3>3 DEF WorkIsLeft
  <2>7. \A what_1 : DoneSoFar(what_1)' = {}
    BY <2>2, <2>4, NothingDone
  <2>8. LogIsRight'
    BY <2>2, <2>4, NothingDone
  <2>9. CommandsKeepTo'
    <3>1. wanted.target # All => OnlyTarget \in wanted.services
      BY <1>1, <1>2 DEF CommandsKeepTo, Works
    <3>2. \A i \in 1..Len(lifecycleLog') : FALSE
      BY <2>4
    <3>3. OnlyTarget' = OnlyTarget
      BY <1>1 DEF OnlyTarget
    <3> QED BY <1>1, <2>2, <3>1, <3>2, <3>3 DEF CommandsKeepTo, Deploys
  <2>10. ReleasesAreKnown'
    BY <1>1, <2>2, <2>7 DEF ReleasesAreKnown, Deploys
  <2> QED BY <2>3, <2>6, <2>8, <2>9, <2>10 DEF TargetsInv
<1> QED BY <1>3, <1>4

LEMMA ReleaseKeeps ==
  ASSUME TargetsInv, ReleaseService
  PROVE  TargetsInv'
<1>1. /\ targetPhase = "release" /\ pendingServices # <<>> /\ UNCHANGED <<wanted, orderVars>>
      /\ targetPhase \in Works /\ Doing = "release"
  BY DEF ReleaseService, Works, Doing, Deploys
<1>2. TargetTypes /\ WorkIsLeft /\ CommandsKeepTo /\ ReleasesAreKnown /\ LogIsRight
  BY DEF TargetsInv
<1>3. PICK s \in wanted.services : s = Head(pendingServices)
  BY <1>1, <1>2 DEF TargetTypes
<1>4. CASE Stop("failed") /\ UNCHANGED <<latestTag, keptTags>>
  BY <1>1, <1>4, EndKeeps DEF Stop
<1>5. CASE /\ Released(s, NextTag(s)) /\ builtTags' = [builtTags EXCEPT ![s] = NextTag(s)]
           /\ Log("release", s, NextTag(s))
           /\ pendingServices' = Tail(pendingServices) /\ UNCHANGED targetPhase
  <2>1. NextTag(s) \in Nat \ {0} /\ TagTypes'
    BY <1>1, <1>2, <1>5, TagsAreReleased DEF TargetTypes
  <2>2. PICK tag \in Nat \ {0} : tag = NextTag(s)
    BY <2>1
  <2>3. PICK entry \in Entries : entry = [what |-> "release", service |-> s, tag |-> tag]
    BY DEF Entries
  <2>4. lifecycleLog' = Append(lifecycleLog, entry)
    BY <1>5, <2>2, <2>3 DEF Log
  <2>5. entry.what = "release" /\ entry.service = s
    BY <2>3
  <2>6. /\ lifecycleLog' \in Seq(Entries) /\ Len(lifecycleLog) \in Nat
        /\ Len(lifecycleLog') = Len(lifecycleLog) + 1
        /\ \A i \in 1..Len(lifecycleLog) : lifecycleLog'[i] = lifecycleLog[i]
        /\ lifecycleLog'[Len(lifecycleLog) + 1] = entry
        /\ \A what : DoneSoFar(what)' =
             DoneSoFar(what) \cup (IF what = "release" THEN {s} ELSE {})
    BY <1>2, <2>4, <2>5, LogGrows
  <2>7. pendingServices' \in Seq(wanted.services)
    BY <1>1, <1>2, <1>5 DEF TargetTypes
  <2>8. TargetTypes' /\ OrderIsMade'
    BY <1>1, <1>5, <2>1, <2>6, <2>7, WorkKeeps
  <2>9. /\ wanted.command \in {"release", "release --deploy"}
        /\ \A i \in 1..Len(lifecycleLog) : lifecycleLog[i].what = "release"
        /\ wanted.target # All => OnlyTarget \in wanted.services
    BY <1>1, <1>2 DEF CommandsKeepTo
  <2>10. CommandsKeepTo'
    <3>1. OnlyTarget' = OnlyTarget
      BY <1>1 DEF OnlyTarget
    <3>2. \A i \in 1..Len(lifecycleLog') : lifecycleLog'[i].what = "release"
      <4>1. \A i \in 1..Len(lifecycleLog') :
              i \in 1..Len(lifecycleLog) \/ i = Len(lifecycleLog) + 1
        BY <2>6
      <4> QED BY <2>5, <2>6, <2>9, <4>1
    <3> QED BY <1>1, <1>5, <2>9, <3>1, <3>2 DEF CommandsKeepTo, Deploys
  <2>11. ReleasesAreKnown'
    <3> SUFFICES ASSUME wanted.target = All, wanted.command = "release --deploy",
                        NEW r \in DoneSoFar("release")'
                 PROVE  builtTags'[r] # 0
      BY <1>1, <1>5, <2>9 DEF ReleasesAreKnown, Deploys
    <3>1. CASE r = s
      BY <1>2, <1>5, <2>2, <3>1 DEF TargetTypes, TagTypes
    <3>2. CASE r # s
      <4>1. r \in DoneSoFar("release")
        BY <2>6, <3>2
      <4>2. builtTags[r] # 0
        BY <1>1, <1>2, <4>1 DEF ReleasesAreKnown
      <4>3. builtTags'[r] = builtTags[r]
        <5>1. r \in wanted.services
          BY <1>2, <4>1, DoneAreServices
        <5> QED BY <1>2, <1>5, <2>2, <3>2, <5>1 DEF TargetTypes, TagTypes
      <4> QED BY <4>2, <4>3
    <3> QED BY <3>1, <3>2
  <2>12. CASE wanted.target # All
    <3>1. WorkIsLeft' /\ LogIsRight'
      BY <1>1, <1>5, <2>12 DEF WorkIsLeft, LogIsRight
    <3> QED BY <2>8, <2>10, <2>11, <3>1 DEF TargetsInv
  <2>13. CASE wanted.target = All
    <3>1. IsLeft("release", pendingServices, DoneSoFar("release"))
      BY <1>1, <1>2, <2>13 DEF WorkIsLeft
    <3>2. /\ s \notin DoneSoFar("release") /\ ~Skips("release", s)
          /\ \A d \in Needs(s) : Skips("release", d) \/ d \in DoneSoFar("release")
          /\ IsLeft("release", pendingServices, DoneSoFar("release"))'
      BY <1>1, <1>2, <1>3, <1>5, <2>4, <2>5, <3>1, TurnIsTaken
    <3>3. Doing' = "release"
      BY <1>1, <1>5 DEF Doing, Deploys
    <3>4. WorkIsLeft'
      BY <1>1, <1>5, <3>2, <3>3 DEF WorkIsLeft, IsLeft, DoneSoFar, Done
    <3>5. \A i \in 1..Len(lifecycleLog') : InItsTurn(i)'
      <4>1. \A i \in 1..Len(lifecycleLog) : InItsTurn(i)
        BY <1>2, <2>13 DEF LogIsRight
      <4>2. /\ ~Skips(entry.what, entry.service) /\ entry.service \notin DoneSoFar(entry.what)
            /\ \A d \in Needs(entry.service) :
                 Skips(entry.what, d) \/ d \in DoneSoFar(entry.what)
        BY <2>5, <3>2
      <4>3. entry.what # "deploy"
        BY <2>5
      <4> QED BY <1>1, <1>2, <2>4, <2>9, <4>1, <4>2, <4>3, OneMoreEntry
    <3>6. LogIsRight'
      BY <1>1, <1>5, <3>5 DEF LogIsRight, NoneLeftOut
    <3> QED BY <2>8, <2>10, <2>11, <3>4, <3>6 DEF TargetsInv
  <2> QED BY <2>12, <2>13
<1> QED BY <1>3, <1>4, <1>5 DEF ReleaseService

LEMMA ReleasesDoneKeeps ==
  ASSUME TargetsInv, ReleasesDone
  PROVE  TargetsInv'
<1>1. /\ targetPhase = "release" /\ pendingServices = <<>> /\ Doing = "release"
      /\ UNCHANGED <<wanted, orderVars, latestTag, keptTags, builtTags, lifecycleLog>>
      /\ targetPhase \in Works
  BY DEF ReleasesDone, Stop, Works, Doing, Deploys
<1>2. TargetTypes /\ OrderIsMade /\ WorkIsLeft /\ CommandsKeepTo /\ ReleasesAreKnown /\ LogIsRight
  BY DEF TargetsInv
<1>3. /\ wanted.command \in {"release", "release --deploy"}
      /\ \A i \in 1..Len(lifecycleLog) : lifecycleLog[i].what = "release"
      /\ wanted.target # All => OnlyTarget \in wanted.services
  BY <1>1, <1>2 DEF CommandsKeepTo, Works
<1>4. PICK names : names = (IF wanted.target = All THEN ordered ELSE <<OnlyTarget>>)
  OBVIOUS
<1>5. names \in Seq(wanted.services) /\ NoneTwice(names)
  <2>1. CASE wanted.target = All
    BY <1>1, <1>2, <1>4, <2>1
    DEF TargetTypes, OrderIsMade, OrderIsComplete, InOrder
  <2>2. CASE wanted.target # All
    <3>1. PICK s \in wanted.services : names = <<s>>
      BY <1>3, <1>4, <2>2
    <3>2. names \in Seq(wanted.services) /\ Len(names) = 1
      BY <3>1, OneIsSequence
    <3> QED BY <3>2 DEF NoneTwice
  <2> QED BY <2>1, <2>2
<1>6. Deployable(names) \in Seq(wanted.services)
  BY <1>5, DeployableKeeps
<1>7. DoneSoFar("deploy") = {}
  BY <1>3 DEF DoneSoFar, Done
<1>8. wanted.target = All => /\ IsLeft("deploy", Deployable(ordered), {})
                             /\ IsLeft("release", <<>>, DoneSoFar("release"))
                             /\ names = ordered
  <2> SUFFICES ASSUME wanted.target = All
               PROVE  /\ IsLeft("deploy", Deployable(ordered), {})
                      /\ IsLeft("release", <<>>, DoneSoFar("release")) /\ names = ordered
    OBVIOUS
  <2>1. OrderIsComplete /\ ordered \in Seq(wanted.services)
    BY <1>1, <1>2 DEF OrderIsMade, TargetTypes
  <2>2. IsLeft("deploy", Deployable(ordered), {})
    BY <2>1, AllIsLeft DEF OrderIsComplete, Acted
  <2>3. IsLeft("release", <<>>, DoneSoFar("release"))
    BY <1>1, <1>2 DEF WorkIsLeft
  <2> QED BY <1>4, <2>2, <2>3
<1>9. \A s : ~Among(<<>>, s)
  BY DEF Among
<1>10. ASSUME targetPhase' = "done", wanted.target = All
       PROVE  NoneLeftOut'
  <2>1. wanted.command = "release" \/ Deployable(names) = <<>>
    BY <1>4, <1>10 DEF ReleasesDone, Stop
  <2>2. DoneSoFar("release") \subseteq wanted.services
    BY <1>2, DoneAreServices
  <2>3. DoneSoFar(Final) = {s \in wanted.services : ~Skips(Final, s)}
    <3>1. CASE wanted.command = "release"
      <4>1. Final = "release"
        BY <3>1 DEF Final
      <4>2. \A s \in wanted.services : ~Skips("release", s) <=> s \in DoneSoFar("release")
        BY <1>8, <1>9, <1>10 DEF IsLeft
      <4> QED BY <2>2, <4>1, <4>2
    <3>2. CASE wanted.command = "release --deploy"
      <4>1. Final = "deploy" /\ IsLeft("deploy", <<>>, {})
        BY <1>8, <1>10, <2>1, <3>2 DEF Final
      <4>2. \A s \in wanted.services : Skips("deploy", s)
        BY <1>9, <4>1 DEF IsLeft
      <4> QED BY <1>7, <4>1, <4>2
    <3> QED BY <1>3, <3>1, <3>2
  <2>4. PICK final : final = Final /\ final = Final' /\ DoneSoFar(final)' = DoneSoFar(final)
    BY <1>1, ManifestStays, LogStays
  <2>5. \A s : Skips(final, s)' <=> Skips(final, s)
    BY <1>1, ManifestStays
  <2> QED BY <1>1, <2>3, <2>4, <2>5 DEF NoneLeftOut, DoneSoFar
<1>11. CASE targetPhase' \in {"failed", "done"}
  <2>1. pendingServices' = pendingServices
    BY <1>11 DEF ReleasesDone, Stop
  <2> QED BY <1>1, <1>10, <1>11, <2>1, EndKeeps
<1>12. CASE targetPhase' \notin {"failed", "done"}
  <2>1. /\ targetPhase' = "deploy" /\ pendingServices' = Deployable(names)
        /\ wanted.command = "release --deploy"
    BY <1>3, <1>4, <1>12 DEF ReleasesDone, Stop
  <2>2. TargetTypes' /\ OrderIsMade'
    <3>1. TagTypes'
      BY <1>1, <1>2, TagsStay DEF TargetTypes
    <3>2. lifecycleLog' \in Seq(Entries)
      BY <1>1, <1>2 DEF TargetTypes
    <3> QED BY <1>1, <1>6, <2>1, <3>1, <3>2, WorkKeeps DEF Works, Deploys
  <2>3. DoneSoFar("deploy")' = {}
    BY <1>1, <1>7, LogStays
  <2>4. WorkIsLeft'
    <3> SUFFICES ASSUME wanted.target = All
                 PROVE  IsLeft("deploy", pendingServices, DoneSoFar("deploy"))'
      BY <1>1, <2>1 DEF WorkIsLeft, Doing, Deploys
    <3>1. PICK todo : todo = pendingServices' /\ IsLeft("deploy", todo, {})
      BY <1>8, <2>1
    <3>2. IsLeft("deploy", todo, {})'
      BY <1>1, <3>1, ManifestStays
    <3> QED BY <2>3, <3>1, <3>2 DEF IsLeft
  <2>5. CommandsKeepTo'
    BY <1>1, <1>3, <2>1 DEF CommandsKeepTo, Works, Deploys, OnlyTarget
  <2>6. ReleasesAreKnown'
    <3> SUFFICES ASSUME wanted.target = All, NEW s \in wanted.services
                 PROVE  builtTags[s] # 0
      BY <1>1, <2>1 DEF ReleasesAreKnown
    <3>1. s \in DoneSoFar("release")
      BY <1>8, <1>9 DEF IsLeft, Skips, Acted
    <3> QED BY <1>1, <1>2, <2>1, <3>1 DEF ReleasesAreKnown
  <2>7. LogIsRight'
    <3>1. \A i : InItsTurn(i)' <=> InItsTurn(i)
      BY <1>1, LogStays
    <3> QED BY <1>1, <1>2, <2>1, <3>1 DEF LogIsRight, NoneLeftOut
  <2> QED BY <2>2, <2>4, <2>5, <2>6, <2>7 DEF TargetsInv
<1> QED BY <1>11, <1>12

LEMMA ServicesDoneKeeps ==
  ASSUME TargetsInv, ServicesDone
  PROVE  TargetsInv'
<1>1. /\ targetPhase \in {"deploy", "remove", "rollback"} /\ pendingServices = <<>>
      /\ targetPhase' = "done" /\ targetPhase \in Works
      /\ UNCHANGED <<wanted, orderVars, latestTag, keptTags, builtTags, lifecycleLog,
                     pendingServices>>
  BY DEF ServicesDone, Stop, Works, Deploys
<1>2. TargetTypes /\ WorkIsLeft /\ CommandsKeepTo
  BY DEF TargetsInv
<1>3. ASSUME wanted.target = All PROVE NoneLeftOut'
  <2>1. PICK what : what = targetPhase /\ what = Final
    BY <1>1, <1>2 DEF CommandsKeepTo, Final, Deploys
  <2>2. what = Doing
    BY <1>1, <2>1 DEF Doing, Deploys
  <2>3. IsLeft(what, <<>>, DoneSoFar(what))
    BY <1>1, <1>2, <1>3, <2>2 DEF WorkIsLeft
  <2>4. \A s \in wanted.services : ~Skips(what, s) <=> s \in DoneSoFar(what)
    <3>1. \A s : ~Among(<<>>, s)
      BY DEF Among
    <3> QED BY <2>3, <3>1 DEF IsLeft
  <2>5. DoneSoFar(what) = {s \in wanted.services : ~Skips(what, s)}
    BY <1>2, <2>4, DoneAreServices
  <2>6. what = Final' /\ DoneSoFar(what)' = DoneSoFar(what)
    BY <1>1, <2>1, ManifestStays, LogStays
  <2>7. \A s : Skips(what, s)' <=> Skips(what, s)
    BY <1>1, ManifestStays
  <2> QED BY <1>1, <2>5, <2>6, <2>7 DEF NoneLeftOut, DoneSoFar
<1> QED BY <1>1, <1>3, EndKeeps

LEMMA LeftToDoing ==
  ASSUME NEW what, Doing' = what, IsLeft(what, pendingServices, DoneSoFar(what))'
  PROVE  IsLeft(Doing, pendingServices, DoneSoFar(Doing))'
BY DEF IsLeft, DoneSoFar, Done

LEMMA HeadIsService ==
  ASSUME TargetTypes, pendingServices # <<>>
  PROVE  /\ Head(pendingServices) \in wanted.services
         /\ Tail(pendingServices) \in Seq(wanted.services)
BY DEF TargetTypes

\* A service is deployed, removed or rolled back.
LEMMA ActionKeeps ==
  ASSUME TargetsInv, NEW what \in Acted, Doing = what, targetPhase \in Works \ {"begin"},
         targetPhase' \in Works \ {"begin", "release", "retry", "release missing"},
         Doing' = what, UNCHANGED <<wanted, orderVars, builtTags>>, TagTypes',
         what = "deploy" <=> wanted.command \in {"deploy", "release --deploy"},
         NEW entry \in Entries, entry.what = what, pendingServices # <<>>,
         entry.service = Head(pendingServices), pendingServices' = Tail(pendingServices),
         lifecycleLog' = Append(lifecycleLog, entry),
         wanted.target = All /\ what = "deploy" => TagIsBuilt(entry),
         targetPhase' \in {"remove", "rollback"} => targetPhase' = wanted.command
  PROVE  TargetsInv'
<1>1. /\ TargetTypes /\ WorkIsLeft /\ CommandsKeepTo /\ ReleasesAreKnown /\ LogIsRight
      /\ targetPhase \in Works
  BY DEF TargetsInv
<1>2. /\ targetPhase' \in {"deploy", "remove", "rollback"} /\ targetPhase' \in Works
      /\ targetPhase' = what
  BY DEF Works, Deploys, Doing
<1>3. /\ targetPhase \in Deploys \cup {"remove", "rollback"}
      /\ targetPhase \in Deploys <=> what = "deploy"
  BY DEF Works, Deploys, Doing, Acted
<1>4. PICK s \in wanted.services : s = Head(pendingServices)
  BY <1>1, HeadIsService
<1>5. /\ lifecycleLog' \in Seq(Entries)
      /\ \A kind : DoneSoFar(kind)' = DoneSoFar(kind) \cup (IF kind = what THEN {s} ELSE {})
  BY <1>1, <1>4, LogGrows
<1>6. TargetTypes' /\ OrderIsMade'
  <2>1. pendingServices' \in Seq(wanted.services)
    BY <1>1, HeadIsService
  <2> QED BY <1>1, <1>2, <1>5, <2>1, WorkKeeps
<1>7. CommandsKeepTo'
  <2>1. OnlyTarget' = OnlyTarget
    BY DEF OnlyTarget
  <2>2. wanted.target # All => OnlyTarget \in wanted.services
    BY <1>1 DEF CommandsKeepTo
  <2> QED BY <1>2, <2>1, <2>2 DEF CommandsKeepTo, Deploys
<1>8. CASE wanted.target # All
  BY <1>6, <1>7, <1>8 DEF TargetsInv, WorkIsLeft, ReleasesAreKnown, LogIsRight, Works, Deploys
<1>9. CASE wanted.target = All
  <2>1. IsLeft(what, pendingServices, DoneSoFar(what))
    BY <1>1, <1>9 DEF WorkIsLeft
  <2>2. /\ entry.service \notin DoneSoFar(what) /\ ~Skips(what, entry.service)
        /\ \A d \in Needs(entry.service) : Skips(what, d) \/ d \in DoneSoFar(what)
        /\ IsLeft(what, pendingServices, DoneSoFar(what))'
    BY <1>1, <2>1, TurnIsTaken
  <2>3. WorkIsLeft'
    <3>1. IsLeft(Doing, pendingServices, DoneSoFar(Doing))'
      BY <2>2, LeftToDoing
    <3> QED BY <1>2, <3>1 DEF WorkIsLeft
  <2>4. LogIsRight'
    <3>1. \A i \in 1..Len(lifecycleLog) : InItsTurn(i)
      BY <1>1, <1>9 DEF LogIsRight
    <3>2. \A i \in 1..Len(lifecycleLog') : InItsTurn(i)'
      BY <1>1, <1>9, <2>2, <3>1, OneMoreEntry
    <3> QED BY <1>2, <3>2 DEF LogIsRight, NoneLeftOut
  <2>5. ReleasesAreKnown'
    <3>1. wanted.command = "release --deploy" => \A r \in wanted.services : builtTags[r] # 0
      BY <1>1, <1>3, <1>9 DEF ReleasesAreKnown
    <3>2. ASSUME wanted.command = "deploy", NEW r \in DoneSoFar("release")'
          PROVE  r \in DoneSoFar("deploy")'
      <4>1. r \in DoneSoFar("release") /\ what = "deploy"
        BY <1>5, <3>2
      <4>2. r \in DoneSoFar("deploy") \/ r = s
        BY <1>1, <1>3, <1>4, <1>9, <3>2, <4>1 DEF ReleasesAreKnown
      <4> QED BY <1>5, <4>1, <4>2
    <3> QED BY <1>2, <3>1, <3>2 DEF ReleasesAreKnown, Deploys
  <2> QED BY <1>6, <1>7, <2>3, <2>4, <2>5 DEF TargetsInv
<1> QED BY <1>8, <1>9

LEMMA DeployKeeps ==
  ASSUME TargetsInv, DeployService
  PROVE  TargetsInv'
<1>1. /\ targetPhase \in {"deploy", "retry"} /\ pendingServices # <<>>
      /\ UNCHANGED <<wanted, orderVars, latestTag, keptTags>>
      /\ targetPhase \in Works \ {"begin"} /\ Doing = "deploy"
  BY DEF DeployService, Works, Doing, Deploys
<1>2. TargetTypes /\ WorkIsLeft /\ CommandsKeepTo /\ ReleasesAreKnown /\ LogIsRight
  BY DEF TargetsInv
<1>3. PICK s \in wanted.services : s = Head(pendingServices)
  BY <1>1, <1>2 DEF TargetTypes
<1>4. wanted.command \in {"deploy", "release --deploy"}
  BY <1>1, <1>2 DEF CommandsKeepTo, Deploys
<1>5. PICK tag \in Nat : tag = DeployTag(s)
  BY <1>2 DEF DeployTag, TargetTypes, TagTypes
<1>6. CASE Stop("failed")
  BY <1>1, <1>6, EndKeeps DEF Stop
<1>7. CASE Deployed(s)
  <2>1. PICK entry \in Entries : entry = [what |-> "deploy", service |-> s, tag |-> tag]
    BY DEF Entries, Acted
  <2>2. /\ lifecycleLog' = Append(lifecycleLog, entry) /\ targetPhase' = "deploy"
        /\ pendingServices' = Tail(pendingServices) /\ builtTags' = builtTags
    BY <1>5, <1>7, <2>1 DEF Deployed, Log
  <2>3. /\ entry.what = "deploy" /\ entry.service = s /\ entry.service = Head(pendingServices)
        /\ entry.tag = DeployTag(s)
    BY <1>3, <1>5, <2>1
  <2>4. wanted.target = All => TagIsBuilt(entry)
    <3> SUFFICES ASSUME wanted.target = All, wanted.command = "release --deploy"
                 PROVE  entry.tag = builtTags[s]
      BY <2>3, Zenon DEF TagIsBuilt
    <3>1. builtTags[s] # 0
      BY <1>1, <1>2 DEF ReleasesAreKnown, Deploys
    <3>2. DeployTag(s) = builtTags[s]
      BY <3>1 DEF DeployTag
    <3> QED BY <2>3, <3>2, Zenon
  <2>5. TagTypes'
    BY <1>1, <1>2, <2>2, TagsStay DEF TargetTypes
  <2>6. /\ Doing' = "deploy" /\ "deploy" \in Acted
        /\ targetPhase' \in Works \ {"begin", "release", "retry", "release missing"}
    BY <2>2 DEF Doing, Works, Deploys, Acted
  <2>7. targetPhase' \notin {"remove", "rollback"}
    BY <2>2
  <2> QED BY <1>1, <1>4, <2>2, <2>3, <2>4, <2>5, <2>6, <2>7, ActionKeeps
<1>8. CASE Stop("release missing") /\ targetPhase = "deploy" /\ DeployTag(s) = 0
  <2>1. UNCHANGED <<pendingServices, builtTags, lifecycleLog>> /\ targetPhase' = "release missing"
    BY <1>8 DEF Stop
  <2>2. TargetTypes' /\ OrderIsMade'
    <3>1. TagTypes'
      BY <1>1, <1>2, <2>1, TagsStay DEF TargetTypes
    <3>2. pendingServices' \in Seq(wanted.services) /\ lifecycleLog' \in Seq(Entries)
      BY <1>2, <2>1 DEF TargetTypes
    <3>3. targetPhase' \in Works
      BY <2>1 DEF Works, Deploys
    <3> QED BY <1>1, <3>1, <3>2, <3>3, WorkKeeps
  <2>3. WorkIsLeft'
    <3>1. wanted.target = All => IsLeft("deploy", pendingServices, DoneSoFar("deploy"))
      BY <1>1, <1>2 DEF WorkIsLeft
    <3>2. wanted.target = All => IsLeft("deploy", pendingServices, DoneSoFar("deploy"))'
      BY <1>1, <2>1, <3>1, LeftStays
    <3>3. Doing' = "deploy"
      BY <2>1 DEF Doing, Deploys
    <3>4. wanted.target = All => IsLeft(Doing, pendingServices, DoneSoFar(Doing))'
      BY <3>2, <3>3, LeftToDoing
    <3> QED BY <1>1, <2>1, <3>4 DEF WorkIsLeft
  <2>4. CommandsKeepTo'
    <3>1. wanted.target # All => OnlyTarget \in wanted.services
      BY <1>1, <1>2 DEF CommandsKeepTo
    <3>2. OnlyTarget' = OnlyTarget
      BY <1>1 DEF OnlyTarget
    <3> QED BY <1>1, <1>4, <2>1, <3>1, <3>2 DEF CommandsKeepTo, Deploys
  <2>5. ReleasesAreKnown'
    <3> SUFFICES ASSUME wanted.target = All
                 PROVE  ReleasesAreKnown'
      BY <1>1 DEF ReleasesAreKnown
    <3>1. wanted.command # "release --deploy"
      <4> SUFFICES ASSUME wanted.command = "release --deploy" PROVE FALSE
        OBVIOUS
      <4>1. builtTags[s] # 0
        BY <1>1, <1>2 DEF ReleasesAreKnown, Deploys
      <4> QED BY <1>8, <4>1 DEF DeployTag
    <3>2. \A r \in DoneSoFar("release") : r \in DoneSoFar("deploy")
      BY <1>1, <1>2, <1>4, <1>8, <3>1 DEF ReleasesAreKnown, Deploys
    <3>3. \A what : DoneSoFar(what)' = DoneSoFar(what)
      BY <1>1, <2>1, LogStays
    <3> QED BY <1>1, <3>1, <3>2, <3>3 DEF ReleasesAreKnown
  <2>6. LogIsRight'
    <3>1. \A i : InItsTurn(i)' <=> InItsTurn(i)
      BY <1>1, <2>1, LogStays
    <3> QED BY <1>1, <1>2, <2>1, <3>1 DEF LogIsRight, NoneLeftOut
  <2> QED BY <2>2, <2>3, <2>4, <2>5, <2>6 DEF TargetsInv
<1>9. Stop("failed") \/ Deployed(s)
        \/ (Stop("release missing") /\ targetPhase = "deploy" /\ DeployTag(s) = 0)
  BY <1>1, <1>3 DEF DeployService
<1> QED BY <1>6, <1>7, <1>8, <1>9

LEMMA ReleaseMissingKeeps ==
  ASSUME TargetsInv, ReleaseMissing
  PROVE  TargetsInv'
<1>1. /\ targetPhase = "release missing" /\ targetPhase \in Works /\ Doing = "deploy"
      /\ UNCHANGED <<wanted, orderVars>>
  BY DEF ReleaseMissing, Works, Doing, Deploys
<1>2. TargetTypes /\ WorkIsLeft /\ CommandsKeepTo /\ ReleasesAreKnown /\ LogIsRight
  BY DEF TargetsInv
<1>3. /\ pendingServices # <<>> /\ wanted.command \in {"deploy", "release --deploy"}
      /\ wanted.target # All => OnlyTarget \in wanted.services
  BY <1>1, <1>2 DEF CommandsKeepTo, Deploys
<1>4. PICK s \in wanted.services : s = Head(pendingServices)
  BY <1>2, <1>3, HeadIsService
<1>5. CASE Stop("failed") /\ UNCHANGED <<latestTag, keptTags>>
  BY <1>1, <1>5, EndKeeps DEF Stop
<1>6. CASE /\ Released(s, NextTag(s)) /\ Log("release", s, NextTag(s))
           /\ targetPhase' = "retry" /\ UNCHANGED <<pendingServices, builtTags>>
  <2>1. NextTag(s) \in Nat \ {0} /\ TagTypes'
    BY <1>1, <1>2, <1>6, TagsAreReleased DEF TargetTypes
  <2>2. PICK tag \in Nat \ {0} : tag = NextTag(s)
    BY <2>1
  <2>3. PICK entry \in Entries : entry = [what |-> "release", service |-> s, tag |-> tag]
    BY DEF Entries
  <2>4. lifecycleLog' = Append(lifecycleLog, entry)
    BY <1>6, <2>2, <2>3 DEF Log
  <2>5. entry.what = "release" /\ entry.service = s
    BY <2>3
  <2>6. /\ lifecycleLog' \in Seq(Entries)
        /\ \A what : DoneSoFar(what)' =
             DoneSoFar(what) \cup (IF what = "release" THEN {s} ELSE {})
    BY <1>2, <2>4, <2>5, LogGrows
  <2>7. TargetTypes' /\ OrderIsMade'
    <3>1. pendingServices' \in Seq(wanted.services)
      BY <1>2, <1>6 DEF TargetTypes
    <3>2. targetPhase' \in Works
      BY <1>6 DEF Works, Deploys
    <3> QED BY <1>1, <2>1, <2>6, <3>1, <3>2, WorkKeeps
  <2>8. CommandsKeepTo'
    <3>1. OnlyTarget' = OnlyTarget
      BY <1>1 DEF OnlyTarget
    <3> QED BY <1>1, <1>3, <1>6, <3>1 DEF CommandsKeepTo, Deploys
  <2>9. CASE wanted.target # All
    <3>1. WorkIsLeft' /\ LogIsRight' /\ ReleasesAreKnown'
      BY <1>1, <1>6, <2>9 DEF WorkIsLeft, LogIsRight, ReleasesAreKnown
    <3> QED BY <2>7, <2>8, <3>1 DEF TargetsInv
  <2>10. CASE wanted.target = All
    <3>1. wanted.command = "deploy"
      BY <1>1, <1>2, <1>3, <2>10 DEF ReleasesAreKnown, Deploys
    <3>2. IsLeft("deploy", pendingServices, DoneSoFar("deploy"))
      BY <1>1, <1>2, <2>10 DEF WorkIsLeft
    <3>3. WorkIsLeft'
      <4>1. PICK todo, done : /\ todo = pendingServices /\ todo = pendingServices'
                              /\ done = DoneSoFar("deploy") /\ done = DoneSoFar("deploy")'
        BY <1>6, <2>6
      <4>2. IsLeft("deploy", todo, done)'
        BY <1>1, <3>2, <4>1, ManifestStays
      <4>3. IsLeft("deploy", pendingServices, DoneSoFar("deploy"))'
        BY <4>1, <4>2 DEF IsLeft
      <4>4. Doing' = "deploy"
        BY <1>6 DEF Doing, Deploys
      <4>5. IsLeft(Doing, pendingServices, DoneSoFar(Doing))'
        BY <4>3, <4>4, LeftToDoing
      <4> QED BY <1>6, <4>5 DEF WorkIsLeft
    <3>4. \A r \in DoneSoFar("release") : r \in DoneSoFar("deploy")
      BY <1>1, <1>2, <2>10, <3>1 DEF ReleasesAreKnown, Deploys
    <3>5. s \notin DoneSoFar("release")
      <4>1. s \notin DoneSoFar("deploy")
        <5>1. pendingServices \in Seq(wanted.services)
          BY <1>2 DEF TargetTypes
        <5> QED BY <1>3, <1>4, <3>2, <5>1, NextIsLeft
      <4> QED BY <3>4, <4>1
    <3>6. ReleasesAreKnown'
      <4>1. \A r \in DoneSoFar("release")' : r \in DoneSoFar("deploy")' \/ r = s
        BY <2>6, <3>4
      <4>2. s = Head(pendingServices)'
        BY <1>4, <1>6
      <4> QED BY <1>1, <1>6, <3>1, <4>1, <4>2 DEF ReleasesAreKnown
    <3>7. LogIsRight'
      <4>1. \A i \in 1..Len(lifecycleLog) : InItsTurn(i)
        BY <1>2, <2>10 DEF LogIsRight
      <4>2. ~Skips(entry.what, entry.service) /\ entry.service \notin DoneSoFar(entry.what)
        BY <2>5, <3>5 DEF Skips, Acted
      <4>3. entry.what # "deploy"
        BY <2>5
      <4>4. \A i \in 1..Len(lifecycleLog') : InItsTurn(i)'
        BY <1>1, <1>2, <1>6, <2>4, <3>1, <4>1, <4>2, <4>3, OneMoreEntry
      <4> QED BY <1>6, <4>4 DEF LogIsRight, NoneLeftOut
    <3> QED BY <2>7, <2>8, <3>3, <3>6, <3>7 DEF TargetsInv
  <2> QED BY <2>9, <2>10
<1> QED BY <1>4, <1>5, <1>6 DEF ReleaseMissing

LEMMA OtherServiceKeeps ==
  ASSUME TargetsInv, OtherService
  PROVE  TargetsInv'
<1>1. /\ targetPhase \in {"remove", "rollback"} /\ pendingServices # <<>>
      /\ UNCHANGED <<wanted, orderVars>> /\ targetPhase \in Works \ {"begin"}
  BY DEF OtherService, Works
<1>2. TargetTypes /\ CommandsKeepTo
  BY DEF TargetsInv
<1>3. PICK s \in wanted.services : s = Head(pendingServices)
  BY <1>1, <1>2, HeadIsService
<1>4. CASE Stop("failed") /\ UNCHANGED <<latestTag, keptTags>>
  BY <1>1, <1>4, EndKeeps DEF Stop
<1>5. CASE /\ Log(targetPhase, s, 0) /\ pendingServices' = Tail(pendingServices)
           /\ \/ /\ latestTag' = [latestTag EXCEPT ![s] = 0]
                 /\ keptTags' = [keptTags EXCEPT ![s] = {}]
              \/ UNCHANGED <<latestTag, keptTags>>
           /\ UNCHANGED <<targetPhase, builtTags>>
  <2>1. PICK what \in Acted : /\ what = targetPhase /\ Doing = what /\ Doing' = what
                              /\ what # "deploy" /\ wanted.command = what
    BY <1>1, <1>2, <1>5 DEF Acted, Doing, Deploys, CommandsKeepTo
  <2>2. PICK entry \in Entries : entry = [what |-> what, service |-> s, tag |-> 0]
    BY DEF Entries, Acted
  <2>3. lifecycleLog' = Append(lifecycleLog, entry)
    BY <1>5, <2>1, <2>2 DEF Log
  <2>4. entry.what = what /\ entry.service = Head(pendingServices)
    BY <1>3, <2>2
  <2>5. TagTypes'
    BY <1>1, <1>2, <1>5, TagsAreRemoved, TagsStay DEF TargetTypes
  <2>6. /\ targetPhase' \in Works \ {"begin", "release", "retry", "release missing"}
        /\ targetPhase' = wanted.command
        /\ what = "deploy" <=> wanted.command \in {"deploy", "release --deploy"}
    BY <1>1, <1>5, <2>1 DEF Works
  <2> QED BY <1>1, <1>5, <2>1, <2>3, <2>4, <2>5, <2>6, ActionKeeps
<1> QED BY <1>3, <1>4, <1>5 DEF OtherService

LEMMA OtherCommandKeeps ==
  ASSUME TargetsInv, OtherCommand
  PROVE  TargetsInv'
<1>1. /\ targetPhase \in {"release", "deploy", "retry", "release missing"}
      /\ UNCHANGED <<wanted, targetPhase, orderVars, pendingServices, builtTags, lifecycleLog>>
      /\ targetPhase \in Works
  BY DEF OtherCommand, Works, Deploys
<1>2. TargetTypes /\ WorkIsLeft /\ CommandsKeepTo /\ ReleasesAreKnown /\ LogIsRight
  BY DEF TargetsInv
<1>3. TagTypes'
  <2>1. PICK s \in wanted.services :
          \/ Released(s, NextTag(s))
          \/ /\ latestTag' = [latestTag EXCEPT ![s] = 0]
             /\ keptTags' = [keptTags EXCEPT ![s] = {}]
    BY DEF OtherCommand
  <2> QED BY <1>1, <1>2, <2>1, TagsAreReleased, TagsAreRemoved DEF TargetTypes
<1>4. TargetTypes' /\ OrderIsMade'
  <2>1. pendingServices' \in Seq(wanted.services) /\ lifecycleLog' \in Seq(Entries)
    BY <1>1, <1>2 DEF TargetTypes
  <2> QED BY <1>1, <1>3, <2>1, WorkKeeps
<1>5. /\ \A what : DoneSoFar(what)' = DoneSoFar(what)
      /\ \A i : InItsTurn(i)' <=> InItsTurn(i)
  BY <1>1, LogStays
<1>6. WorkIsLeft'
  <2>1. PICK what : what = Doing /\ what = Doing'
    BY <1>1 DEF Doing
  <2>2. wanted.target = All => IsLeft(what, pendingServices, DoneSoFar(what))
    BY <1>1, <1>2, <2>1 DEF WorkIsLeft
  <2>3. wanted.target = All => IsLeft(what, pendingServices, DoneSoFar(what))'
    BY <1>1, <2>2, LeftStays
  <2>4. wanted.target = All => IsLeft(Doing, pendingServices, DoneSoFar(Doing))'
    BY <2>1, <2>3, LeftToDoing
  <2> QED BY <1>1, <1>2, <2>4 DEF WorkIsLeft
<1>7. CommandsKeepTo'
  <2>1. OnlyTarget' = OnlyTarget
    BY <1>1 DEF OnlyTarget
  <2> QED BY <1>1, <1>2, <2>1 DEF CommandsKeepTo
<1>8. ReleasesAreKnown'
  BY <1>1, <1>2, <1>5 DEF ReleasesAreKnown
<1>9. LogIsRight'
  BY <1>1, <1>2, <1>5 DEF LogIsRight, NoneLeftOut
<1> QED BY <1>4, <1>6, <1>7, <1>8, <1>9 DEF TargetsInv

LEMMA TargetsRest ==
  ASSUME TargetsInv, UNCHANGED targetVars
  PROVE  TargetsInv'
<1>1. UNCHANGED <<wanted, latestTag, keptTags, targetPhase, marks, visits, ordered,
                  pendingServices, builtTags, lifecycleLog>>
  BY DEF targetVars
<1>2. TargetTypes /\ OrderIsMade /\ WorkIsLeft /\ CommandsKeepTo /\ ReleasesAreKnown /\ LogIsRight
  BY DEF TargetsInv
<1>3. TargetTypes'
  <2>1. TagTypes' /\ IsTarget(wanted)' /\ Calls' = Calls /\ Entries' = Entries
    BY <1>1, <1>2, TagsStay, ManifestStays DEF TargetTypes, IsTarget
  <2> QED BY <1>1, <1>2, <2>1 DEF TargetTypes
<1>4. /\ Sound' <=> Sound
      /\ Declared' <=> Declared
      /\ InOrder(ordered)' <=> InOrder(ordered)
      /\ \A s : Among(ordered, s)' <=> Among(ordered, s)
  BY <1>1, ManifestStays DEF InOrder, NoneTwice, Among
<1>5. OrderIsMade'
  <2>1. OrderSoFar' <=> OrderSoFar
    BY <1>1, <1>4 DEF OrderSoFar, PathIsVisited
  <2>2. OrderIsComplete' <=> OrderIsComplete
    BY <1>1, <1>4 DEF OrderIsComplete
  <2> QED BY <1>1, <1>2, <1>4, <2>1, <2>2 DEF OrderIsMade
<1>6. /\ \A what : DoneSoFar(what)' = DoneSoFar(what)
      /\ \A i : InItsTurn(i)' <=> InItsTurn(i)
  BY <1>1, LogStays
<1>7. WorkIsLeft'
  <2>1. PICK what : what = Doing /\ what = Doing'
    BY <1>1 DEF Doing
  <2>2. targetPhase \in Works /\ wanted.target = All =>
          IsLeft(what, pendingServices, DoneSoFar(what))'
    BY <1>1, <1>2, <2>1, LeftStays DEF WorkIsLeft
  <2>3. targetPhase \in Works /\ wanted.target = All =>
          IsLeft(Doing, pendingServices, DoneSoFar(Doing))'
    BY <2>1, <2>2, LeftToDoing
  <2> QED BY <1>1, <1>2, <2>3 DEF WorkIsLeft
<1>8. CommandsKeepTo' /\ ReleasesAreKnown'
  <2>1. OnlyTarget' = OnlyTarget
    BY <1>1 DEF OnlyTarget
  <2> QED BY <1>1, <1>2, <1>6, <2>1 DEF CommandsKeepTo, ReleasesAreKnown
<1>9. LogIsRight'
  <2>1. Final' = Final /\ \A what, s : Skips(what, s)' <=> Skips(what, s)
    BY <1>1, ManifestStays
  <2>2. NoneLeftOut' <=> NoneLeftOut
    BY <1>1, <2>1 DEF NoneLeftOut, Done
  <2> QED BY <1>1, <1>2, <1>6, <2>2 DEF LogIsRight
<1> QED BY <1>3, <1>5, <1>7, <1>8, <1>9 DEF TargetsInv

LEMMA TargetsStep ==
  ASSUME TargetsInv, [TargetsNext]_targetVars
  PROVE  TargetsInv'
BY ResolveKeeps, VisitNextKeeps, VisitDependencyKeeps, VisitReturnsKeeps, BeginKeeps,
   ReleaseKeeps, ReleasesDoneKeeps, DeployKeeps, ReleaseMissingKeeps, OtherServiceKeeps,
   ServicesDoneKeeps, OtherCommandKeeps, TargetsRest DEF TargetsNext

LEMMA TargetsInvImplies ==
  ASSUME TargetsInv
  PROVE  DependenciesFirst
<1> SUFFICES ASSUME wanted.target = All PROVE RefusesUnsound
  BY DEF TargetsInv, LogIsRight, DependenciesFirst
<1>1. TargetTypes /\ OrderIsMade
  BY DEF TargetsInv
<1>2. CASE targetPhase \in Works \cup {"failed", "done"}
  <2>1. OrderIsComplete /\ ordered \in Seq(wanted.services)
    BY <1>1, <1>2 DEF OrderIsMade, TargetTypes
  <2>2. Sound
    BY <2>1, OrdersAreSound DEF OrderIsComplete
  <2> QED BY <1>2, <2>2 DEF RefusesUnsound, Works, Deploys
<1>3. CASE targetPhase = "refused"
  BY <1>1, <1>3 DEF OrderIsMade, RefusesUnsound
<1>4. CASE targetPhase \in {"resolve", "order"}
  BY <1>4 DEF RefusesUnsound
<1> QED BY <1>1, <1>2, <1>3, <1>4 DEF TargetTypes

\* For any services with any dependencies on any services, declared or not, whichever of
\* them are release-only, for any command and target, and however often other commands
\* release and remove the same services.
THEOREM TargetsInvariant ==
  ASSUME NEW CONSTANT targets, \A w \in targets : IsTarget(w)
  PROVE  TargetsInit(targets) /\ [][TargetsNext]_targetVars => []DependenciesFirst
<1>1. TargetsInit(targets) => TargetsInv
  BY TargetsStart
<1>2. TargetsInv /\ [TargetsNext]_targetVars => TargetsInv'
  BY TargetsStep
<1>3. TargetsInv => DependenciesFirst
  BY TargetsInvImplies
<1> QED BY <1>1, <1>2, <1>3, PTL

LEMMA TargetsInvTypes ==
  ASSUME TargetsInv
  PROVE  TargetsTypeOK
<1>1. TargetTypes
  BY DEF TargetsInv
<1>2. marks \in [wanted.services -> 0..2]
  <2>1. 0..2 = {0, 1, 2}
    OBVIOUS
  <2> QED BY <1>1, <2>1 DEF TargetTypes
<1>3. Range(ordered) \cup Range(pendingServices) \subseteq wanted.services
  BY <1>1 DEF TargetTypes, Range
<1>4. ASSUME NEW s \in wanted.services
      PROVE  keptTags[s] \cup {latestTag[s], builtTags[s]} \subseteq Nat
  BY <1>1 DEF TargetTypes, TagTypes
<1> QED BY <1>1, <1>2, <1>3, <1>4 DEF TargetsTypeOK, TargetTypes, Works, Deploys

\* A command keeps to the services of its manifest and to numbered releases of them.
THEOREM TargetsAreTyped ==
  ASSUME NEW CONSTANT targets, \A w \in targets : IsTarget(w)
  PROVE  TargetsInit(targets) /\ [][TargetsNext]_targetVars => []TargetsTypeOK
<1>1. TargetsInit(targets) => TargetsInv
  BY TargetsStart
<1>2. TargetsInv /\ [TargetsNext]_targetVars => TargetsInv'
  BY TargetsStep
<1>3. TargetsInv => TargetsTypeOK
  BY TargetsInvTypes
<1> QED BY <1>1, <1>2, <1>3, PTL

LEMMA GraphsAreTargets ==
  ASSUME NEW graphs, NEW kinds \in SUBSET {All, None, 1},
         \A g \in graphs : Len(g) \in Nat \ {0} /\ g \in [1..Len(g) -> SUBSET Nat]
  PROVE  \A w \in Targets(graphs, kinds) : IsTarget(w)
<1> DEFINE R == {{}, {1}, {2}}
           C == {"deploy", "release", "release --deploy", "remove", "rollback"}
           Make(g, r, c, t) == [services |-> 1..Len(g), dependsOn |-> g, releaseOnly |-> r,
                                command |-> c, target |-> t]
<1>1. Targets(graphs, kinds) = {Make(g, r, c, t) : g \in graphs, r \in R, c \in C, t \in kinds}
  BY DEF Targets
<1>2. ASSUME NEW g \in graphs, NEW r \in R, NEW c \in C, NEW t \in kinds
      PROVE  IsTarget(Make(g, r, c, t))
  <2>1. Len(g) \in Nat \ {0} /\ g \in [1..Len(g) -> SUBSET Nat]
    OBVIOUS
  <2>2. 1 \in 1..Len(g) /\ t \in {All, None, 1}
    <3> HIDE DEF R, C, Make
    <3>1. 1 \in 1..Len(g)
      BY <2>1
    <3>2. t \in {All, None, 1}
      OBVIOUS
    <3> QED BY <3>1, <3>2
  <2>3. t \in {All, None} \cup 1..Len(g)
    <3> HIDE DEF R, C, Make
    <3> QED BY <2>2
  <2>4. r \subseteq Nat \ {0}
    <3> HIDE DEF C, Make
    <3> QED OBVIOUS
  <2> QED BY <2>1, <2>3, <2>4 DEF IsTarget
<1> HIDE DEF R, C, Make
<1>3. \A w \in {Make(g, r, c, t) : g \in graphs, r \in R, c \in C, t \in kinds} : IsTarget(w)
  BY <1>2
<1> QED BY <1>1, <1>3

LEMMA TripleIsTuple ==
  ASSUME NEW A, NEW B, NEW C, NEW g \in A \X B \X C
  PROVE  g = <<g[1], g[2], g[3]>> /\ g[1] \in A /\ g[2] \in B /\ g[3] \in C
OBVIOUS

LEMMA TripleIsFunction ==
  ASSUME NEW T, NEW a \in T, NEW b \in T, NEW c \in T
  PROVE  Len(<<a, b, c>>) = 3 /\ <<a, b, c>> \in [1..3 -> T]
OBVIOUS

LEMMA AllAreTargets == \A w \in AllTargets : IsTarget(w)
<1> DEFINE Three == (SUBSET {2, 3}) \X (SUBSET {1, 3}) \X (SUBSET {1, 2})
           Other == {<<{}>>, <<{2}, {2}, {1}>>, <<{2}, {}, {2, Ghost}>>}
           Few   == {<<{}>>, <<{2}, {3}, {}>>}
<1>1. \A g \in Three \cup Other \cup Few :
        Len(g) \in Nat \ {0} /\ g \in [1..Len(g) -> SUBSET Nat]
  <2>1. ASSUME NEW a \in SUBSET Nat, NEW b \in SUBSET Nat, NEW c \in SUBSET Nat
        PROVE  Len(<<a, b, c>>) = 3 /\ <<a, b, c>> \in [1..3 -> SUBSET Nat]
    <3> HIDE DEF Three, Other, Few
    <3> QED BY TripleIsFunction
  <2>2. ASSUME NEW g \in Three
        PROVE  Len(g) = 3 /\ g \in [1..3 -> SUBSET Nat]
    <3>1. /\ g = <<g[1], g[2], g[3]>>
          /\ g[1] \in SUBSET {2, 3} /\ g[2] \in SUBSET {1, 3} /\ g[3] \in SUBSET {1, 2}
      BY TripleIsTuple
    <3>2. g[1] \in SUBSET Nat /\ g[2] \in SUBSET Nat /\ g[3] \in SUBSET Nat
      BY <3>1
    <3> QED BY <2>1, <3>1, <3>2
  <2>3. /\ Len(<<{2}, {2}, {1}>>) = 3 /\ <<{2}, {2}, {1}>> \in [1..3 -> SUBSET Nat]
        /\ Len(<<{2}, {}, {2, 9}>>) = 3 /\ <<{2}, {}, {2, 9}>> \in [1..3 -> SUBSET Nat]
        /\ Len(<<{2}, {3}, {}>>) = 3 /\ <<{2}, {3}, {}>> \in [1..3 -> SUBSET Nat]
    OBVIOUS
  <2>4. Len(<<{}>>) = 1 /\ <<{}>> \in [1..1 -> SUBSET Nat]
    OBVIOUS
  <2>5. \A g \in Other \cup Few : \/ (Len(g) = 3 /\ g \in [1..3 -> SUBSET Nat])
                                \/ (Len(g) = 1 /\ g \in [1..1 -> SUBSET Nat])
    <3>1. Ghost = 9
      BY DEF Ghost
    <3> SUFFICES ASSUME NEW g \in Other \cup Few
                 PROVE  \/ (Len(g) = 3 /\ g \in [1..3 -> SUBSET Nat])
                        \/ (Len(g) = 1 /\ g \in [1..1 -> SUBSET Nat])
      OBVIOUS
    <3>2. \/ g = <<{2}, {2}, {1}>> \/ g = <<{2}, {}, {2, 9}>>
          \/ g = <<{2}, {3}, {}>> \/ g = <<{}>>
      BY <3>1, Zenon
    <3> HIDE DEF Other, Few
    <3> QED BY <2>3, <2>4, <3>2, Zenon
  <2> HIDE DEF Three, Other, Few
  <2>6. ASSUME NEW g \in Three \cup Other \cup Few
        PROVE  Len(g) \in Nat \ {0} /\ g \in [1..Len(g) -> SUBSET Nat]
    <3>1. \/ (Len(g) = 3 /\ g \in [1..3 -> SUBSET Nat])
          \/ (Len(g) = 1 /\ g \in [1..1 -> SUBSET Nat])
      BY <2>2, <2>5
    <3>2. CASE Len(g) = 3 /\ g \in [1..3 -> SUBSET Nat]
      BY <3>2
    <3>3. CASE Len(g) = 1 /\ g \in [1..1 -> SUBSET Nat]
      BY <3>3
    <3> QED BY <3>1, <3>2, <3>3
  <2> QED BY <2>6
<1> HIDE DEF Three, Other, Few
<1>2. AllTargets = Targets(Three \cup Other, {All}) \cup Targets(Few, {None, 1})
  BY Zenon DEF AllTargets, Three, Other, Few
<1>3. \A w \in Targets(Three \cup Other, {All}) : IsTarget(w)
  BY <1>1, GraphsAreTargets
<1>4. \A w \in Targets(Few, {None, 1}) : IsTarget(w)
  BY <1>1, GraphsAreTargets
<1> QED BY <1>2, <1>3, <1>4

\* The manifests, commands and targets of the runs are among them.
THEOREM DependenciesComeFirst == TargetsSpec => []DependenciesFirst
<1>1. TargetsInit(AllTargets) /\ [][TargetsNext]_targetVars => []DependenciesFirst
  BY AllAreTargets, TargetsInvariant
<1> QED BY <1>1 DEF TargetsSpec
=============================================================================
