-------------------------- MODULE MCSessionLifecycle --------------------------
(* Model-checking instance of SessionLifecycle: the sets of actors are model  *)
(* values, interchangeable within each set.                                   *)
EXTENDS SessionLifecycle, TLC

Symmetry == Permutations(Sid) \cup Permutations(Req)

===============================================================================
