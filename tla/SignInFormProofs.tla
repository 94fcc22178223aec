--------------------------- MODULE SignInFormProofs ----------------------------
(* Proofs about SignInForm: that a mode nobody chose is the server's, when    *)
(* reverse DNS names a server, and that the refusals of a sign-in lead in.    *)
EXTENDS SignInForm, TLAPS

(***************************************************************************)
(* What is asked, and what a server answers.                               *)
(***************************************************************************)
\* The parts of a question, whether or not a configuration may speak for it.
AnyQuestion ==
    [server : Server, host : {"name", "address"}, form : Form, typed : BOOLEAN,
     configured : Form, customAllowed : BOOLEAN, standaloneAllowed : BOOLEAN]

LEMMA QuestionParts ==
  ASSUME NEW q \in Question
  PROVE  /\ q \in AnyQuestion
         /\ q.server \in Server /\ q.host \in {"name", "address"}
         /\ q.form \in Form /\ q.configured \in Form
         /\ q.typed \in BOOLEAN /\ q.customAllowed \in BOOLEAN /\ q.standaloneAllowed \in BOOLEAN
<1>1. [mode |-> "auto", realm |-> Nothing] \in Form
  BY DEF Form
<1>2. {[mode |-> "auto", realm |-> Nothing]} \subseteq Form
  BY <1>1
<1>3. {TRUE} \subseteq BOOLEAN /\ {FALSE} \subseteq BOOLEAN
  OBVIOUS
<1>4. CASE q \in [server : Server, host : {"name", "address"}, form : Form,
                  typed : {TRUE}, configured : {[mode |-> "auto", realm |-> Nothing]},
                  customAllowed : BOOLEAN, standaloneAllowed : BOOLEAN]
  BY <1>2, <1>3, <1>4 DEF AnyQuestion
<1>5. CASE q \in [server : Server, host : {"name", "address"}, form : Form,
                  typed : {FALSE}, configured : Form,
                  customAllowed : BOOLEAN, standaloneAllowed : BOOLEAN]
  BY <1>3, <1>5 DEF AnyQuestion
<1>6. q \in AnyQuestion
  BY <1>4, <1>5 DEF Question
<1> QED BY <1>6 DEF AnyQuestion

\* A member of a realm answers for its domain; no server of another kind does so with
\* a realm.
LEMMA ServerParts ==
  ASSUME NEW s \in Server
  PROVE  /\ s.kind \in {"member", "nt4", "standalone"} /\ s.account \in BOOLEAN
         /\ s.srvsvc \in {"refused", "plain", "dotted"} /\ s.ptr \in BOOLEAN
         /\ DnsRead(s) => s.dns \in DnsReplies(s.kind)
         /\ s.kind = "member" /\ DnsRead(s) =>
               FoundRealm(s) # Nothing /\ Workgroup(s) # "self"
         /\ s.kind # "member" /\ FoundRealm(s) # Nothing => Workgroup(s) = "self"
<1>1. PICK k \in {"member", "nt4", "standalone"} :
        s \in [kind : {k}, lsa : {"no pipe", "no policy", "policy"}, account : BOOLEAN,
               dns : DnsReplies(k) \cup {Refused}, srvsvc : {"refused", "plain", "dotted"},
               ptr : BOOLEAN]
  BY DEF Server
<1>2. s.kind = k /\ s.dns \in DnsReplies(k) \cup {Refused}
  BY <1>1
<1>3. DnsRead(s) => s.dns \in DnsReplies(s.kind)
  BY <1>2 DEF DnsRead
<1>4. /\ \A r \in DnsReplies("member") : r.realm = "server's" /\ r.workgroup = "domain"
      /\ \A r \in DnsReplies("nt4") : r.realm = Nothing
      /\ \A r \in DnsReplies("standalone") : r.realm # Nothing => r.workgroup = "self"
  BY DEF DnsReplies
<1>5. s.kind = "member" /\ DnsRead(s) => FoundRealm(s) # Nothing /\ Workgroup(s) # "self"
  BY <1>3, <1>4 DEF FoundRealm, Workgroup, Nothing
<1>6. s.kind # "member" /\ FoundRealm(s) # Nothing => Workgroup(s) = "self"
  BY <1>1, <1>2, <1>3, <1>4 DEF FoundRealm, Workgroup, Nothing
<1> QED BY <1>1, <1>3, <1>5, <1>6

\* What the probe finds is a mode or nothing.
LEMMA ModeTypes ==
  ASSUME NEW q \in Question
  PROVE  /\ FoundMode(q.server) \in Modes \cup {"auto"}
         /\ Chosen(q).mode \in Modes \cup {"auto"} /\ Enriched(q).mode \in Modes \cup {"auto"}
         /\ Enriched(q).mode = IF Decided(q) \/ ~Reachable(q.server) THEN Chosen(q).mode
                               ELSE FoundMode(q.server)
<1>1. FoundMode(q.server) \in Modes \cup {"auto"}
  BY DEF FoundMode, Modes
<1>2. q.form.mode \in Modes \cup {"auto"} /\ q.configured.mode \in Modes \cup {"auto"}
  BY QuestionParts DEF Form
<1>3. Chosen(q).mode \in Modes \cup {"auto"}
  BY <1>2 DEF Chosen, PickMode
<1>4. Enriched(q).mode = IF Decided(q) \/ ~Reachable(q.server) THEN Chosen(q).mode
                         ELSE FoundMode(q.server)
  BY DEF Enriched, Decided, PickMode
<1> QED BY <1>1, <1>3, <1>4

\* What each refusal is about, and that no other outcome is possible.
LEMMA RefusalParts ==
  ASSUME NEW q \in Question
  PROVE  /\ Refusal(q) \in Answerable \cup
               {Nothing, "custom_servers_disabled", "server_unreachable", "standalone_disabled"}
         /\ Refusal(q) = "custom_servers_disabled" => ~q.customAllowed
         /\ Refusal(q) = "server_unreachable" => ~Reachable(q.server) /\ ~Decided(q)
         /\ Refusal(q) = "mode_undecided" => q.form.mode \notin Modes
         /\ Refusal(q) = "kerberos_needs_a_name" => q.host = "address"
         /\ Refusal(q) = "missing_realm" => q.form.realm = Nothing
         /\ Refusal(q) = "standalone_disabled" => ~q.standaloneAllowed
         /\ Refusal(q) = Nothing =>
               /\ Target(q).mode = Enriched(q).mode /\ Enriched(q).mode \in Modes
               /\ Decided(q) \/ Reachable(q.server)
               /\ Enriched(q).mode = "ad_member" => Enriched(q).realm # Nothing
<1>1. Refusal(q) \in Answerable \cup
               {Nothing, "custom_servers_disabled", "server_unreachable", "standalone_disabled"}
  BY DEF Refusal, Answerable
<1>2. q.form.mode \in Modes => Enriched(q).mode # "auto"
  BY ModeTypes DEF Chosen, Decided, PickMode, Modes
<1>3. KerberosHost(q) = "address" => q.host = "address"
  BY DEF KerberosHost, Enriched, FoundName, Nothing
<1>4. q.form.realm # Nothing => Enriched(q).realm # Nothing
  BY DEF Enriched, Chosen, Either
<1>5. Refusal(q) = Nothing => Target(q).mode = Enriched(q).mode
  BY DEF Target
<1>6. /\ Refusal(q) = "custom_servers_disabled" => ~q.customAllowed
      /\ Refusal(q) = "server_unreachable" => ~Reachable(q.server) /\ ~Decided(q)
      /\ Refusal(q) = "mode_undecided" => Enriched(q).mode = "auto"
      /\ Refusal(q) = "kerberos_needs_a_name" => KerberosHost(q) = "address"
      /\ Refusal(q) = "missing_realm" => Enriched(q).realm = Nothing
      /\ Refusal(q) = "standalone_disabled" => ~q.standaloneAllowed
      /\ Refusal(q) = Nothing =>
               /\ Enriched(q).mode # "auto" /\ (Decided(q) \/ Reachable(q.server))
               /\ Enriched(q).mode = "ad_member" => Enriched(q).realm # Nothing
  BY DEF Refusal, Undecided, Nothing
<1> QED BY <1>1, <1>2, <1>3, <1>4, <1>5, <1>6, ModeTypes

\* A mode the probe found is the server's; where a domain has no realm, nobody signs
\* in with a ticket unless a realm was given.
LEMMA FoundModeIsTrue ==
  ASSUME NEW q \in Question, Refusal(q) = Nothing, ~Decided(q)
  PROVE  /\ Target(q).mode = "standalone" => q.server.kind # "member"
         /\ Target(q).mode = "ad_member" /\ q.form.realm = Nothing /\ q.configured.realm = Nothing
               => q.server.kind = "member"
<1> DEFINE s == q.server
<1>1. s \in Server
  BY QuestionParts
<1>2. Reachable(s) /\ Target(q).mode = FoundMode(s)
  BY RefusalParts, ModeTypes
<1>3. FoundMode(s) = "standalone" => DnsRead(s) /\ ~(FoundRealm(s) # Nothing /\ Workgroup(s) # "self")
  BY DEF FoundMode
<1>4. ASSUME FoundMode(s) = "ad_member", q.form.realm = Nothing, q.configured.realm = Nothing
      PROVE  s.kind = "member"
  <2>1. FoundRealm(s) # Nothing
    <3>1. Enriched(q).realm # Nothing
      BY <1>2, <1>4, RefusalParts
    <3> QED BY <1>2, <1>4, <3>1 DEF Enriched, Chosen, Either
  <2>2. DnsRead(s)
    BY <2>1 DEF FoundRealm
  <2>3. Workgroup(s) # "self"
    BY <1>4, <2>2 DEF FoundMode
  <2> QED BY <1>1, <2>1, <2>3, ServerParts
<1> QED BY <1>1, <1>2, <1>3, <1>4, ServerParts

\* Reverse DNS comes after every name the server can be known by.
LEMMA ReverseDnsIsLast ==
  ASSUME NEW q \in Question, q.server.kind = "member", KerberosHost(q) = "ptr"
  PROVE  /\ q.server.srvsvc # "dotted"
         /\ ~(NetbiosKnown(q.server) /\ FoundRealm(q.server) # Nothing)
<1> DEFINE s == q.server
<1>1. s \in Server /\ q.host \in {"name", "address"}
  BY QuestionParts
<1>2. FoundName(s, q.host) = "ptr"
  BY <1>1 DEF KerberosHost, Enriched, Nothing
<1>3. /\ s.srvsvc # "dotted"
      /\ ~(FoundMode(s) = "ad_member" /\ NetbiosKnown(s) /\ FoundRealm(s) # Nothing)
  BY <1>2 DEF FoundName, Nothing
<1>4. NetbiosKnown(s) /\ FoundRealm(s) # Nothing => FoundMode(s) = "ad_member"
  <2>1. FoundRealm(s) # Nothing => DnsRead(s)
    BY DEF FoundRealm
  <2> QED BY <1>1, <2>1, ServerParts DEF FoundMode
<1> QED BY <1>3, <1>4

(***************************************************************************)
(* The inductive invariant.                                                *)
(***************************************************************************)
\* Before the first submission.
LEMMA InitInv == Init => FormInv
<1> SUFFICES ASSUME Init PROVE FormInv
  OBVIOUS
<1>1. TypeOK /\ OutcomeInv
  BY DEF Init, TypeOK, OutcomeInv
<1>2. RefusalsInv
  BY DEF Init, RefusalsInv, One
<1> QED BY <1>1, <1>2 DEF FormInv

\* A submission is let through or refused for something the form does not say yet.
LEMMA SubmitKeeps ==
  ASSUME FormInv, Submit
  PROVE  FormInv'
<1>1. question \in Question /\ refusals \in Nat /\ outcome = Nothing /\ question' = question
  BY DEF FormInv, TypeOK, Submit
<1>2. \/ Refusal(question) = Nothing /\ outcome' = Target(question).mode /\ refusals' = refusals
      \/ Refusal(question) # Nothing /\ outcome' = Refusal(question) /\ refusals' = refusals + 1
  BY DEF Submit
<1>3. TypeOK'
  BY <1>1, <1>2, RefusalParts DEF TypeOK
<1>4. (Refusal(question) = Refusal(question)' /\ Target(question) = Target(question)')
  BY <1>1
<1>5. OutcomeInv'
  BY <1>2, <1>4 DEF OutcomeInv
<1>6. RefusalsInv'
  <2>1. refusals <= One(question.form.mode \in Modes) + One(question.form.realm # Nothing)
                        + One(question.host = "name")
    BY <1>1 DEF FormInv, RefusalsInv, One, Nothing
  <2>2. CASE Refusal(question) = Nothing
    BY <1>1, <1>2, <2>1, <2>2 DEF RefusalsInv, One
  <2>3. CASE Refusal(question) # Nothing
    <3>1. outcome' \notin Modes \cup {Nothing}
      BY <1>1, <1>2, <2>3, RefusalParts DEF Answerable, Modes, Nothing
    <3> QED BY <1>1, <1>2, <2>1, <2>3, <3>1 DEF RefusalsInv, One
  <2> QED BY <2>2, <2>3
<1> QED BY <1>3, <1>5, <1>6 DEF FormInv

\* Whoever answers a refusal puts something into the form that was not there.
LEMMA AmendKeeps ==
  ASSUME FormInv, Amend
  PROVE  FormInv'
<1>1. /\ question \in Question /\ refusals \in Nat /\ refusals' = refusals /\ outcome' = Nothing
      /\ outcome \in Answerable /\ outcome = Refusal(question)
  BY RefusalParts, ModeTypes
     DEF FormInv, TypeOK, OutcomeInv, Amend, SayMode, SayRealm, SayName, Answerable, Modes, Nothing
<1>2. refusals <= One(question.form.mode \in Modes) + One(question.form.realm # Nothing)
                        + One(question.host = "name") + 1
  BY <1>1 DEF FormInv, RefusalsInv, One
<1>3. question.form \in Form /\ question \in AnyQuestion
  BY <1>1, QuestionParts
<1>4. CASE SayMode
  <2>1. PICK m \in Modes : question' = [question EXCEPT !.form.mode = m]
    BY <1>4 DEF SayMode, Modes
  <2>2. question' \in Question
    BY <1>1, <2>1 DEF Question, Form
  <2>3. /\ question'.form.mode \in Modes /\ question'.form.realm = question.form.realm
        /\ question'.host = question.host
    BY <1>3, <2>1 DEF AnyQuestion, Form
  <2>4. question.form.mode \notin Modes
    BY <1>1, <1>4, RefusalParts DEF SayMode
  <2> QED BY <1>1, <1>2, <2>2, <2>3, <2>4 DEF FormInv, TypeOK, OutcomeInv, RefusalsInv, One
<1>5. CASE SayRealm
  <2>1. question' = [question EXCEPT !.form.realm = "given"]
    BY <1>5 DEF SayRealm
  <2>2. question' \in Question
    BY <1>1, <2>1 DEF Question, Form
  <2>3. /\ question'.form.mode = question.form.mode /\ question'.form.realm # Nothing
        /\ question'.host = question.host
    BY <1>3, <2>1 DEF AnyQuestion, Form, Nothing
  <2>4. question.form.realm = Nothing
    BY <1>1, <1>5, RefusalParts DEF SayRealm
  <2> QED BY <1>1, <1>2, <2>2, <2>3, <2>4 DEF FormInv, TypeOK, OutcomeInv, RefusalsInv, One
<1>6. CASE SayName
  <2>1. question' = [question EXCEPT !.host = "name", !.typed = TRUE,
                                     !.configured = [mode |-> "auto", realm |-> Nothing]]
    BY <1>6 DEF SayName
  <2>2. question' \in Question
    BY <1>1, <2>1 DEF Question
  <2>3. question'.form = question.form /\ question'.host = "name"
    BY <1>3, <2>1 DEF AnyQuestion
  <2>4. question.host = "address"
    BY <1>1, <1>6, RefusalParts DEF SayName
  <2> QED BY <1>1, <1>2, <2>2, <2>3, <2>4 DEF FormInv, TypeOK, OutcomeInv, RefusalsInv, One
<1> QED BY <1>4, <1>5, <1>6 DEF Amend

LEMMA StepInv == FormInv /\ [Next]_vars => FormInv'
<1> SUFFICES ASSUME FormInv, [Next]_vars PROVE FormInv'
  OBVIOUS
<1>1. CASE UNCHANGED vars
  <2>1. UNCHANGED <<question, outcome, refusals>>
    BY <1>1 DEF vars
  <2>2. Refusal(question)' = Refusal(question) /\ Target(question)' = Target(question)
    BY <2>1
  <2> QED BY <2>1, <2>2 DEF FormInv, TypeOK, OutcomeInv, RefusalsInv
<1> QED BY <1>1, SubmitKeeps, AmendKeeps DEF Next

\* The inductive invariant holds of every execution.
THEOREM FormInvariant == Spec => []FormInv
BY InitInv, StepInv, PTL DEF Spec

(***************************************************************************)
(* What follows from it.                                                   *)
(***************************************************************************)
\* Every variable keeps its type.
THEOREM FormTypeCorrect == Spec => []TypeOK
<1>1. FormInv => TypeOK
  BY DEF FormInv
<1> QED BY <1>1, FormInvariant, PTL

\* Whatever the server answers and is silent about, a sign-in whose mode nobody chose
\* goes on in the server's own (_decide_mode, _require_decision).
THEOREM UnchosenModeIsTheServers == Spec => []ModeIsTrue
<1>1. FormInv => ModeIsTrue
  <2> SUFFICES ASSUME FormInv, ~Decided(question), outcome \in Modes
               PROVE  /\ outcome = "standalone" => question.server.kind # "member"
                      /\ outcome = "ad_member" /\ question.form.realm = Nothing
                           /\ question.configured.realm = Nothing => question.server.kind = "member"
    BY DEF ModeIsTrue, Modes
  <2>1. question \in Question
    BY DEF FormInv, TypeOK
  <2>2. Refusal(question) = Nothing /\ outcome = Target(question).mode
    BY <2>1, RefusalParts DEF FormInv, OutcomeInv, Modes, Nothing, Answerable
  <2> QED BY <2>1, <2>2, FoundModeIsTrue
<1> QED BY <1>1, FormInvariant, PTL

\* A member is called what reverse DNS says only when it said too little about itself
\* (_reverse_lookup).
THEOREM ReverseDnsComesLast == Spec => []ReverseDnsYields
<1>1. FormInv => ReverseDnsYields
  BY ReverseDnsIsLast DEF FormInv, TypeOK, ReverseDnsYields
<1> QED BY <1>1, FormInvariant, PTL

\* Three refusals at the most stand between a member's administrator and the sign-in
\* (_require_decision, _enrich).
THEOREM ThreeRefusalsAtMost == Spec => []RefusalsLeadIn
<1>1. FormInv => RefusalsLeadIn
  <2> SUFFICES ASSUME FormInv, question.customAllowed, question.standaloneAllowed,
                      Reachable(question.server) \/ Decided(question)
               PROVE  outcome \in Modes \cup Answerable \cup {Nothing} /\ refusals <= 3
    BY DEF RefusalsLeadIn
  <2>1. question \in Question /\ refusals \in Nat
    BY DEF FormInv, TypeOK
  <2>2. outcome = Nothing \/ (Refusal(question) = Nothing /\ outcome \in Modes)
            \/ (outcome = Refusal(question) /\ outcome \in Answerable)
    BY <2>1, RefusalParts DEF FormInv, OutcomeInv
  <2>3. outcome \in Answerable =>
          \/ question.form.mode \notin Modes
          \/ question.form.realm = Nothing
          \/ question.host # "name"
    BY <2>1, <2>2, RefusalParts DEF Answerable, Modes, Nothing
  <2>4. refusals <= One(question.form.mode \in Modes) + One(question.form.realm # Nothing)
                        + One(question.host = "name") + One(outcome \notin Modes \cup {Nothing})
    BY DEF FormInv, RefusalsInv
  <2> QED BY <2>1, <2>2, <2>3, <2>4 DEF One
<1> QED BY <1>1, FormInvariant, PTL

===============================================================================
