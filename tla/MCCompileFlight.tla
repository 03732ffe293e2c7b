--------------------------- MODULE MCCompileFlight --------------------------
(***************************************************************************)
(* Small instances of CompileFlight: two keys that compile and, in the      *)
(* larger one, one that does not.                                          *)
(***************************************************************************)
EXTENDS CompileFlight, TLC

CONSTANTS good1, good2, bad, p1, p2

MCKeys == {good1, good2, bad}
MCCompiled == good1 :> p1 @@ good2 :> p2 @@ bad :> CompileError

MCTwoKeys == {good1, good2}
MCTwoCompiled == good1 :> p1 @@ good2 :> p2

=============================================================================
