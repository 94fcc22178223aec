------------------------------- MODULE MCSignIn --------------------------------
(* Two sign-ins at once, two accounts behind one address; the limits are     *)
(* reached by a sequence as well as by two sign-ins that run together.       *)
EXTENDS SignIn, TLC

Symmetry == Permutations(Client) \cup Permutations(User)

===============================================================================
