----------------------------- MODULE MCPermissions -----------------------------
(* Model-checking instance of Permissions: two rights, everyone and a trustee *)
(* that is relative to a domain.                                              *)
EXTENDS Permissions, TLC

CONSTANTS everyone, domainAdmins, read, write

Symmetry == Permutations(Editor)

MCStanding == {{"change", "take"}, {"take"}}

MCAccount == [e \in Editor |-> everyone]

\* One entry of each sort: allowing and denying, generic and exact, relative to a
\* domain, with letters the parser does not know, with a condition.
Plain(t, k, m) == [trustee |-> t, kind |-> k, mask |-> m,
                   odd |-> FALSE, condition |-> FALSE, inherited |-> FALSE, below |-> FALSE]
MCHeld == {Plain(everyone, "allow", {"GENERIC_ALL"}), Plain(everyone, "deny", {write})}
MCHanded == {Plain(domainAdmins, "allow", {read})}

\* Rights spelled with letters the parser does not know, and a condition.
MCHeldOddly == {[Plain(everyone, "allow", {read}) EXCEPT !.odd = TRUE],
                [Plain(everyone, "deny", {write}) EXCEPT !.condition = TRUE]}

\* Full control of what lies below, and what is denied here.
MCHeldBelow == {[Plain(everyone, "allow", {"GENERIC_ALL"}) EXCEPT !.below = TRUE],
                Plain(everyone, "deny", {write})}

===============================================================================
