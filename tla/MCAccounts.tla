------------------------------ MODULE MCAccounts ------------------------------
(* Model-checking instance of Accounts. *)
EXTENDS Accounts, TLC

Symmetry == Permutations(Admin)

\* Every flag alone, both set, and the two that fall to different administrators.
MCSendable == {<<{}, {}>>, <<{"disabled"}, {}>>, <<{}, {"disabled"}>>, <<{"dont_expire"}, {}>>,
               <<{"dont_expire"}, {"disabled"}>>}

===============================================================================
