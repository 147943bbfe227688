----------------------------- MODULE MCAppNames -----------------------------
(***************************************************************************)
(* Two services that may be renamed to each other, and one whose name      *)
(* reads as a candidate of the first, for TLC.                             *)
(***************************************************************************)
EXTENDS AppNames

ThreeNames == {<<"a">>, <<"b">>, <<"a", "redis">>}
OneDomain(name) == IF Len(name) = 1 THEN "app.example" ELSE "redis.example"

Services(a, b, redis) ==
  [n \in ThreeNames |-> CASE n = <<"a">> -> a [] n = <<"b">> -> b [] OTHER -> redis]

\* Each service in a manifest of its own, of which one may not be in apps.yml.
Separate == [p |-> Services("git", Undeclared, Undeclared),
             q |-> Services(Undeclared, "git", Undeclared)]
\* Two services of one repository in one manifest.
Replicas == [p |-> Services("git", "git", Undeclared),
             q |-> Services(Undeclared, Undeclared, "image")]
\* An app next to one whose name goes on.
Beside   == [p |-> Services("git", Undeclared, Undeclared),
             q |-> Services(Undeclared, Undeclared, "image")]

SomeWorkspaces ==
  {[declared |-> Separate, catalogued |-> c, deployed |-> {<<"a">>, <<"b">>}] :
     c \in {{"p", "q"}, {"p"}}}
    \cup {[declared |-> Replicas, catalogued |-> {"p", "q"}, deployed |-> {<<"b">>}]}
SideBySide ==
  {[declared |-> Beside, catalogued |-> {"p", "q"}, deployed |-> {<<"a">>, <<"a", "redis">>}]}
ShortNames == {<<"a">>, <<"b">>}
=============================================================================
