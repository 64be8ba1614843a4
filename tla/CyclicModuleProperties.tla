----------------------- MODULE CyclicModuleProperties -----------------------
(* What should hold of linking and evaluating modules; see CyclicModules. *)
EXTENDS CyclicModules

Order == INSTANCE EvaluationOrder

Frames == [module : Modules, next : Nat \ {0}, body : BOOLEAN]
Outcomes == [module : Modules \cup {NoModule}, ok : BOOLEAN]

\* Every variable has its type.
TypeOK ==
  /\ requests \in Graphs
  /\ status \in [Modules -> Statuses]
  /\ dfsIndex \in [Modules -> Int]
  /\ dfsAncestor \in [Modules -> Int]
  /\ cycleRoot \in [Modules -> Modules \cup {NoModule}]
  /\ evalError \subseteq Modules
  /\ initialized \subseteq Modules
  /\ \A i \in DOMAIN imports :
       /\ imports[i].module \in Modules /\ imports[i].op \in {"link", "eval"}
       /\ imports[i].index \in Int
       /\ ToSet(imports[i].dfs) \subseteq Modules
       /\ ToSet(imports[i].work) \subseteq Frames
  /\ ToSet(contexts) \subseteq Modules
  /\ answer \in Outcomes
  /\ calls \in 0 .. MaxCalls
  /\ body \in [Modules -> {"not started", "running", "returned", "threw"}]
  /\ fault \subseteq {"link evaluating", "link stack", "link index", "not linked", "eval unlinked",
                     "eval other search", "eval root", "eval index", "not evaluated"}

LinkingOnStack == \A m \in Modules :
  status[m] = "Linking" <=> (imports # <<>> /\ Top.op = "link" /\ m \in ToSet(Top.dfs))
OnOneStack == \A i, j \in DOMAIN imports :
  \A k \in DOMAIN imports[i].dfs, l \in DOMAIN imports[j].dfs :
    imports[i].dfs[k] = imports[j].dfs[l] => i = j /\ k = l
KnownFaults == {"link evaluating", "eval other search"}

\* Searches that interrupt each other keep apart: no module is on the stacks of
\* two, or twice on one; a module is Linking exactly while the innermost call's
\* Link has it on its stack, also after a link that failed half-way
\* (CyclicModuleRecord.cs:59-82); and of the assertions of the searches only
\* two can fail, which a dynamic import reaches: linking against a module that
\* is being evaluated, and evaluating a linked module whose dependency another
\* search is evaluating.
SearchesSound == LinkingOnStack /\ OnOneStack /\ fault \subseteq KnownFaults

\* An error is recorded only on a module that imports, directly or not, a
\* module whose body threw: a failing dynamic import must not spoil the
\* modules of the search it interrupts.
BlameReaches == \A m \in evalError :
  \E r \in Modules : body[r] = "threw" /\ (r = m \/ Order!Reaches(m, r))

\* When ImportModule has just linked and evaluated a module, the bodies of the
\* module and of all it imports have run.
ImportDone == [][\A m \in Modules :
  (/\ imports # <<>> /\ imports'= Front(imports) /\ answer'.ok /\ answer'.module = m)
  => /\ status'[m] = "Evaluated" /\ body'[m] = "returned"
     /\ \A r \in ToSet(requests[m]) : body'[r] \in {"returned", "threw"}]_vars

\* Bodies start once and after what they import: see EvaluationOrder.
ImplementsOrder == Order!Spec

\* Every import ends: cycles are entered once and left.
ImportsEnd == (imports # <<>>) ~> (imports = <<>>)

-----------------------------------------------------------------------------
(* What the repository says of modules and the code does not keep *)

\* Modules that import each other and are evaluated without an error belong to
\* one cycle (InnerModuleEvaluation gives every module of a component the same
\* _cycleRoot, CyclicModuleRecord.cs:373-391).
OneCycleRoot == imports = <<>> => \A m, n \in Modules :
  (/\ status[m] = "Evaluated" /\ status[n] = "Evaluated"
   /\ {m, n} \cap evalError = {}
   /\ Order!Reaches(m, n) /\ Order!Reaches(n, m)) => cycleRoot[m] = cycleRoot[n]
=============================================================================
