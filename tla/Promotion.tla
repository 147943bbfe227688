------------------------------ MODULE Promotion ------------------------------
(***************************************************************************)
(* What a deployment of an app promises, without journal, locks, ingress    *)
(* or failures: at every moment the app has a set of live stacks, and the   *)
(* current one, of its newest successful deployment, is replaced in one     *)
(* step by another live stack.  Deploy implements this (DeployRefines).     *)
(***************************************************************************)
CONSTANTS Apps, Stacks, NoStack

VARIABLES
  live,      \* stacks that exist
  current,   \* the stack on record, or NoStack
  retiring   \* apps whose removal is under way

vars == <<live, current, retiring>>

Init ==
  /\ live = [a \in Apps |-> {}]
  /\ current = [a \in Apps |-> NoStack]
  /\ retiring = {}

Provision(a, s) ==
  /\ a \notin retiring
  /\ live' = [live EXCEPT ![a] = @ \cup {s}]
  /\ UNCHANGED <<current, retiring>>

\* Candidates and superseded stacks may go at any time, the current one not.
Discard(a) ==
  /\ a \notin retiring
  /\ \E kept \in SUBSET live[a] :
       /\ current[a] \in live[a] => current[a] \in kept
       /\ live' = [live EXCEPT ![a] = kept]
  /\ UNCHANGED <<current, retiring>>

Commit(a, s) ==
  /\ a \notin retiring
  /\ s \in live[a]
  /\ current' = [current EXCEPT ![a] = s]
  /\ UNCHANGED <<live, retiring>>

StartRemoval(a) ==
  /\ retiring' = retiring \cup {a}
  /\ UNCHANGED <<live, current>>

\* A removal takes one stack away: the current one, when there is one.
Retire(a) ==
  /\ a \in retiring
  /\ \E s \in Stacks :
       /\ current[a] \in {s, NoStack}
       /\ live' = [live EXCEPT ![a] = @ \ {s}]
  /\ UNCHANGED <<current, retiring>>

\* It ends early, or with the records, perhaps not all of them.
EndRemoval(a) ==
  /\ retiring' = retiring \ {a}
  /\ \/ UNCHANGED current
     \/ /\ current[a] \notin live[a]
        /\ \E s \in Stacks \cup {NoStack} : current' = [current EXCEPT ![a] = s]
  /\ UNCHANGED live

Next ==
  \E a \in Apps :
    \/ \E s \in Stacks : Provision(a, s) \/ Commit(a, s)
    \/ Discard(a) \/ StartRemoval(a) \/ Retire(a) \/ EndRemoval(a)

Spec == Init /\ [][Next]_vars
=============================================================================
