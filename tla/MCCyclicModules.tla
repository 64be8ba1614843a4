--------------------------- MODULE MCCyclicModules ---------------------------
(* TLC instances of CyclicModules. *)
EXTENDS CyclicModuleProperties

CONSTANTS a, b, c, d

\* Import lists without repetition (_requestedModules is a set) of at most two.
Lists == {<<>>} \cup {<<m>> : m \in {a, b, c}}
         \cup {<<p[1], p[2]>> : p \in {q \in {a, b, c} \X {a, b, c} : q[1] # q[2]}}

\* Every graph of a, b and c in which a imports two modules and each other one
\* at most one.
ThreeGraphs == {g \in [{a, b, c} -> Lists] : \A m \in {b, c} : Len(g[m]) <= 1}

\* Four modules: a imports b and c; c imports one of them or is in a cycle with
\* a; d, which nobody imports, imports c or a and is left to a body.
FourGraphs ==
  {[m \in {a, b, c, d} |-> CASE m = a -> <<b, c>> [] m = b -> <<>> [] m = c -> <<t>> [] m = d -> <<u>>] :
     t \in {a, b}, u \in {a, c}}

\* What ToInt32 makes of the value of a body: any integer, negative ones too.
Completions == {-2, 1}

AllGraphs == ThreeGraphs \cup FourGraphs
=============================================================================
