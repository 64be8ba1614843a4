--------------------------- MODULE MCEngineStacks ---------------------------
(* TLC instances of EngineStacks: which functions there are, and the limits. *)
EXTENDS EngineStackProperties

\* The default of MaxRecursionDepth: no check.
NoRecursionLimit == -1
=============================================================================
