---------------------------- MODULE MCShareRegistry ----------------------------
(* Model-checking instance of ShareRegistry: calls, options and values are    *)
(* model values, interchangeable within each set.                             *)
EXTENDS ShareRegistry, TLC

Symmetry == Permutations(Call) \cup Permutations(Value)

===============================================================================
