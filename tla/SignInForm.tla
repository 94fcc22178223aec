------------------------------ MODULE SignInForm -------------------------------
(***************************************************************************)
(* An administrator before the sign-in form: submits it, is refused, does  *)
(* what the refusal asks for and submits it again.  What a submission      *)
(* leads to is Resolution's; what a refusal asks for is its hint           *)
(* (srv/targets.py, _require_decision).                                    *)
(***************************************************************************)
EXTENDS Resolution

VARIABLES
    question,   \* the form, the settings, and the server with what it answers
    outcome,    \* nothing yet, a refusal, or the mode the sign-in goes on in
    refusals    \* history: how often this administrator was refused

vars == <<question, outcome, refusals>>

\* The refusals an administrator can do something about in the form.
Answerable == {"mode_undecided", "missing_realm", "kerberos_needs_a_name"}

Init ==
    /\ question \in Question
    /\ outcome = Nothing
    /\ refusals = 0

Submit ==
    /\ outcome = Nothing
    /\ IF Refusal(question) = Nothing
       THEN outcome' = Target(question).mode /\ UNCHANGED refusals
       ELSE outcome' = Refusal(question) /\ refusals' = refusals + 1
    /\ UNCHANGED question

\* Say which it is: who administers a server knows.
SayMode ==
    /\ outcome = "mode_undecided"
    /\ question' = [question EXCEPT !.form.mode =
                        IF question.server.kind = "member" THEN "ad_member" ELSE "standalone"]

\* Enter the realm, where there is one.
SayRealm ==
    /\ outcome = "missing_realm" /\ question.server.kind = "member"
    /\ question' = [question EXCEPT !.form.realm = "given"]

\* Enter the server's name instead of its address, or of what a profile says.
SayName ==
    /\ outcome = "kerberos_needs_a_name"
    /\ question' = [question EXCEPT !.host = "name", !.typed = TRUE,
                                    !.configured = [mode |-> "auto", realm |-> Nothing]]

Amend ==
    /\ SayMode \/ SayRealm \/ SayName
    /\ outcome' = Nothing
    /\ UNCHANGED refusals

Next == Submit \/ Amend

Spec == Init /\ [][Next]_vars

-------------------------------------------------------------------------------
(* What resolution promises.                                                 *)

TypeOK ==
    /\ question \in Question
    /\ outcome \in Modes \cup Answerable \cup
            {Nothing, "custom_servers_disabled", "server_unreachable", "standalone_disabled"}
    /\ refusals \in Nat

\* A mode that nobody chose is the server's: a password is never held for a
\* member of a realm, and, unless somebody gave a realm, no ticket is asked for
\* in a domain that has none (_decide_mode, _require_decision).
ModeIsTrue ==
    ~Decided(question) =>
        /\ outcome = "standalone" => question.server.kind # "member"
        /\ outcome = "ad_member" /\ question.form.realm = Nothing /\ question.configured.realm = Nothing
            => question.server.kind = "member"

\* Reverse DNS names a member only when the server neither reported a dotted
\* name nor gave both its own name and its realm (_reverse_lookup).
ReverseDnsYields ==
    outcome = "ad_member" /\ question.server.kind = "member" /\ KerberosHost(question) = "ptr" =>
        /\ question.server.srvsvc # "dotted"
        /\ ~(NetbiosKnown(question.server) /\ FoundRealm(question.server) # Nothing)

\* Whoever does what the refusals of a member's sign-in ask for is let through
\* after three of them at the latest (the mode, the realm, the name), whatever the
\* server answers; and who has said the mode need not argue with a probe that
\* nothing answers (_require_decision, _enrich).
RefusalsLeadIn ==
    (/\ question.customAllowed /\ question.standaloneAllowed
     /\ question.server.kind = "member"
     /\ Reachable(question.server) \/ Decided(question))
    => /\ outcome \in Modes \cup Answerable \cup {Nothing}
       /\ refusals <= 3

-------------------------------------------------------------------------------
(* The inductive strengthening the proofs use.                               *)

\* What the administrator sees is about the form as it stands.
OutcomeInv ==
    outcome # Nothing =>
        outcome = IF Refusal(question) = Nothing THEN Target(question).mode ELSE Refusal(question)

\* Each refusal that was answered has put something into the form that stays there.
One(said) == IF said THEN 1 ELSE 0

RefusalsInv ==
    refusals <= One(question.form.mode \in Modes) + One(question.form.realm # Nothing)
                    + One(question.host = "name") + One(outcome \notin Modes \cup {Nothing})

FormInv == TypeOK /\ OutcomeInv /\ RefusalsInv

===============================================================================
