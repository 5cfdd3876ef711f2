----------------------------- MODULE MCCallSurface -----------------------------
(* CallSurface on small instances.                                              *)
EXTENDS CallSurface, TLC

(* The safe base, the production surface, the admin surface beside it, the       *)
(* generic writes over the safe base.                                           *)
MCDeployment == {{"readonly"}, {"validated"}, {"validated", "all_crud"}, {"readonly", "writes"}}

Symmetry == Permutations(Call) \cup Permutations(Writer)
================================================================================
