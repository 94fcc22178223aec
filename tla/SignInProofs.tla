----------------------------- MODULE SignInProofs ------------------------------
(* Proofs about SignIn: how many failures the throttle lets through, and what *)
(* a write of the Kerberos configuration keeps.                               *)
EXTENDS SignIn, FiniteSetTheorems, WellFoundedInduction, TLAPS

(***************************************************************************)
(* What resolution hands to a sign-in.                                     *)
(***************************************************************************)
\* The realm of a question is the server's or a given one, or there is none.
LEMMA EnrichedRealm ==
  ASSUME NEW q \in Question
  PROVE  Enriched(q).realm \in Realm \cup {Nothing}
<1> DEFINE Typed == [server : Server, host : {"name", "address"}, form : Form,
                     typed : {TRUE}, configured : {[mode |-> "auto", realm |-> Nothing]},
                     customAllowed : BOOLEAN, standaloneAllowed : BOOLEAN]
           Picked == [server : Server, host : {"name", "address"}, form : Form,
                      typed : {FALSE}, configured : Form,
                      customAllowed : BOOLEAN, standaloneAllowed : BOOLEAN]
<1>0. /\ q.server \in Server /\ q.form \in Form
      /\ q.configured \in Form \cup {[mode |-> "auto", realm |-> Nothing]}
  <2>1. q \in Typed \/ q \in Picked
    BY DEF Question
  <2>2. CASE q \in Typed
    BY <2>2
  <2>3. CASE q \in Picked
    BY <2>3
  <2> QED BY <2>1, <2>2, <2>3
<1>1. q.form.realm \in {Nothing, "given"} /\ q.configured.realm \in {Nothing, "given"}
  <2>1. \A f \in Form : f.realm \in {Nothing, "given"}
    BY DEF Form
  <2> QED BY <1>0, <2>1
<1>2. Chosen(q).realm \in {Nothing, "given"}
  BY <1>1 DEF Chosen, Either
<1>3. DnsRead(q.server) => q.server.dns.realm \in {Nothing, "server's"}
  <2> DEFINE Of(k) == [kind : {k}, lsa : {"no pipe", "no policy", "policy"}, account : BOOLEAN,
                       dns : DnsReplies(k) \cup {Refused},
                       srvsvc : {"refused", "plain", "dotted"}, ptr : BOOLEAN]
  <2>1. PICK k \in {"member", "nt4", "standalone"} : q.server \in Of(k)
    BY <1>0 DEF Server
  <2>2. q.server.dns \in DnsReplies(k) \cup {Refused}
    BY <2>1
  <2>3. \A r \in DnsReplies(k) : r.realm \in {Nothing, "server's"}
    BY DEF DnsReplies
  <2> QED BY <2>2, <2>3 DEF DnsRead
<1>4. FoundRealm(q.server) \in {Nothing, "server's"}
  BY <1>3 DEF FoundRealm
<1> QED BY <1>2, <1>4 DEF Enriched, Either, Realm

\* A member is not accepted without a realm.
LEMMA AcceptedRealm ==
  ASSUME NEW t \in Accepted
  PROVE  /\ t.realm \in Realm \cup {Nothing}
         /\ t.mode = "ad_member" => t.realm \in Realm
<1>1. PICK q \in Question : t = Target(q)
  BY DEF Accepted, Targets
<1>2. Refusal(q) = Nothing
  BY <1>1 DEF Accepted, Target
<1>3. t = [mode |-> Enriched(q).mode,
           realm |-> IF Enriched(q).mode = "ad_member" THEN Enriched(q).realm ELSE Nothing]
  BY <1>1, <1>2 DEF Target
<1>4. Enriched(q).mode = "ad_member" => Enriched(q).realm # Nothing
  BY <1>2 DEF Refusal, Nothing
<1> QED BY <1>3, <1>4, EnrichedRealm

(***************************************************************************)
(* Types, with what the file may hold.                                     *)
(***************************************************************************)
TypeInv == ThrottleTypeOK /\ KerberosTypeOK

LEMMA LimitsAreNumbers ==
  /\ MaxAttempts \in Nat \ {0} /\ Lockout \in Nat \ {0}
  /\ Cardinality(Client) \in Nat
BY SignInAssumption, FS_CardinalityType DEF SignInAssumption

\* Counting a failure keeps the entries what they are.
LEMMA RecordKeepsType ==
  ASSUME failures \in [Key -> [count : Nat, age : 0..(Lockout + 1)]], NEW keys,
         RecordFailure(keys) \/ RecordSuccess(keys)
  PROVE  failures' \in [Key -> [count : Nat, age : 0..(Lockout + 1)]]
<1>1. 0 \in 0..(Lockout + 1)
  BY LimitsAreNumbers
<1>2. \A k \in Key : failures[k].count \in Nat
  OBVIOUS
<1>3. CASE RecordFailure(keys)
  BY <1>1, <1>2, <1>3 DEF RecordFailure
<1>4. CASE RecordSuccess(keys)
  BY <1>1, <1>4 DEF RecordSuccess, NoEntry
<1> QED BY <1>3, <1>4

LEMMA InitType == Init => TypeInv
<1> SUFFICES ASSUME Init PROVE TypeInv
  OBVIOUS
<1>1. ThrottleTypeOK
  BY LimitsAreNumbers DEF Init, ThrottleTypeOK, Attempt, NoEntry
<1>2. KerberosTypeOK
  BY DEF Init, KerberosTypeOK, UnderWay, Empty
<1> QED BY <1>1, <1>2 DEF TypeInv

LEMMA NextType == TypeInv /\ [Next]_vars => TypeInv'
<1> SUFFICES ASSUME TypeInv, [Next]_vars PROVE TypeInv'
  OBVIOUS
<1> USE DEF TypeInv
<1>a. /\ attempt \in [Client -> Attempt]
      /\ failures \in [Key -> [count : Nat, age : 0..(Lockout + 1)]]
  BY DEF ThrottleTypeOK
<1>b. NotUnderWay \in Attempt
  BY DEF Attempt
<1>c. \A c \in Client : UnderWay(c) =>
        attempt[c] \in [at : Stages, user : User, address : Address, realm : Realm \cup {Nothing}]
  BY <1>a DEF UnderWay, Attempt
<1>1. ASSUME NEW c \in Client, NEW user \in User, NEW address \in Address, Begin(c, user, address)
      PROVE  TypeInv'
  <2>1. failures' \in [Key -> [count : Nat, age : 0..(Lockout + 1)]]
    BY <1>a, <1>1, LimitsAreNumbers DEF Begin, NoEntry
  <2>2. CASE UNCHANGED attempt
    BY <1>1, <2>1, <2>2 DEF Begin, ThrottleTypeOK, KerberosTypeOK, UnderWay
  <2>3. CASE ~UNCHANGED attempt
    <3>1. PICK t \in Accepted : attempt' = [attempt EXCEPT ![c] =
              [at |-> IF t.mode = "ad_member" THEN "register" ELSE "connect",
               user |-> user, address |-> address, realm |-> t.realm]]
      BY <1>1, <2>3 DEF Begin
    <3>2. attempt'[c] \in Attempt
      BY <1>a, <3>1, AcceptedRealm DEF Attempt, Stages
    <3>3. attempt' \in [Client -> Attempt]
      BY <1>a, <3>1, <3>2
    <3>4. attempt'[c].at = "register" => attempt'[c].realm \in Realm
      BY <1>a, <3>1, AcceptedRealm
    <3> QED BY <1>a, <1>1, <2>1, <3>1, <3>3, <3>4 DEF Begin, ThrottleTypeOK, KerberosTypeOK, UnderWay
  <2> QED BY <2>2, <2>3
<1>2. ASSUME NEW c \in Client, NEW stage \in {"ticket", "connect"}, UnderWay(c), Proceed(c, stage)
      PROVE  /\ attempt' \in [Client -> Attempt]
             /\ attempt'[c].at # "register"
             /\ \A d \in Client : d # c => attempt'[d] = attempt[d]
  <2>1. attempt'[c] \in [at : Stages, user : User, address : Address, realm : Realm \cup {Nothing}]
    BY <1>a, <1>c, <1>2 DEF Proceed, Stages
  <2> QED BY <1>a, <1>2, <2>1 DEF Proceed, Attempt
<1>3. ASSUME NEW c \in Client, attempt' = [attempt EXCEPT ![c] = NotUnderWay]
      PROVE  /\ attempt' \in [Client -> Attempt]
             /\ attempt'[c] = NotUnderWay
             /\ \A d \in Client : d # c => attempt'[d] = attempt[d]
  BY <1>a, <1>b, <1>3
<1>4. ASSUME NEW c \in Client, Register(c)
      PROVE  TypeInv'
  <2>1. CASE ~conf.made /\ setting # Nothing
    <3>1. /\ Fail(c) /\ conf' = [conf EXCEPT !.made = TRUE]
          /\ UNCHANGED <<setting, file>>
      BY <1>4, <2>1 DEF Register
    <3>2. failures' \in [Key -> [count : Nat, age : 0..(Lockout + 1)]]
      BY <1>a, <3>1, RecordKeepsType DEF Fail
    <3>3. conf' \in [made : BOOLEAN, known : [realms : SUBSET Realm, default : Realm \cup {Nothing}]]
      BY <3>1 DEF KerberosTypeOK
    <3> QED BY <1>3, <3>1, <3>2, <3>3 DEF Fail, ThrottleTypeOK, KerberosTypeOK, UnderWay
  <2>2. CASE ~(~conf.made /\ setting # Nothing)
    <3>1. Proceed(c, "ticket") /\ EnsureRealm(attempt[c].realm) /\ UNCHANGED <<failures, setting>>
      BY <1>4, <2>2 DEF Register
    <3>2. UnderWay(c) /\ attempt[c].realm \in Realm
      BY <1>4 DEF Register, KerberosTypeOK
    <3> DEFINE known == [realms |-> conf.known.realms \cup {attempt[c].realm},
                         default |-> Either(conf.known.default, attempt[c].realm)]
               Known == [realms : SUBSET Realm, default : Realm \cup {Nothing}]
    <3>3. conf \in [made : BOOLEAN, known : Known] /\ file \in Known
      BY DEF KerberosTypeOK
    <3>4. known \in Known
      BY <3>2, <3>3 DEF Either
    <3>5. \/ UNCHANGED <<conf, file>>
          \/ conf' = [made |-> TRUE, known |-> known] /\ file' \in {known, file}
      BY <3>1 DEF EnsureRealm, Rendered
    <3>6. conf' \in [made : BOOLEAN, known : Known] /\ file' \in Known
      <4> HIDE DEF known, Known
      <4>1. CASE UNCHANGED <<conf, file>>
        BY <3>3, <4>1
      <4>2. CASE conf' = [made |-> TRUE, known |-> known] /\ file' \in {known, file}
        BY <3>3, <3>4, <4>2
      <4> QED BY <3>5, <4>1, <4>2
    <3> QED BY <1>2, <1>a, <3>1, <3>2, <3>6 DEF ThrottleTypeOK, KerberosTypeOK, UnderWay
  <2> QED BY <2>1, <2>2
<1>5. ASSUME NEW c \in Client, Ticket(c) \/ Connect(c)
      PROVE  TypeInv'
  <2>1. UnderWay(c) /\ UNCHANGED <<setting, conf, file>>
    BY <1>5 DEF Ticket, Connect
  <2>2. CASE Proceed(c, "connect") /\ UNCHANGED failures
    BY <1>a, <1>2, <2>1, <2>2 DEF ThrottleTypeOK, KerberosTypeOK, UnderWay
  <2>3. CASE attempt' = [attempt EXCEPT ![c] = NotUnderWay] /\
             (RecordFailure(Keys(c)) \/ RecordSuccess(Keys(c)))
    <3>1. failures' \in [Key -> [count : Nat, age : 0..(Lockout + 1)]]
      BY <1>a, <2>3, RecordKeepsType
    <3> QED BY <1>3, <2>1, <2>3, <3>1 DEF ThrottleTypeOK, KerberosTypeOK, UnderWay
  <2> QED BY <1>5, <2>2, <2>3 DEF Ticket, Connect, Fail
<1>6. ASSUME Tick
      PROVE  TypeInv'
  <2>1. \A k \in Key : failures[k].age \in 0..(Lockout + 1)
    BY <1>a
  <2>2. \A k \in Key : Older(failures[k].age, Lockout + 1) \in 0..(Lockout + 1)
    BY <2>1, LimitsAreNumbers DEF Older
  <2>3. failures' \in [Key -> [count : Nat, age : 0..(Lockout + 1)]]
    BY <1>a, <1>6, <2>2, LimitsAreNumbers DEF Tick, NoEntry
  <2> QED BY <1>6, <2>3 DEF Tick, ThrottleTypeOK, KerberosTypeOK, UnderWay
<1>7. CASE Probe
  BY <1>7 DEF Probe, ThrottleTypeOK, KerberosTypeOK, UnderWay
<1>8. CASE UNCHANGED vars
  BY <1>8 DEF vars, ThrottleTypeOK, KerberosTypeOK, UnderWay
<1> QED BY <1>1, <1>4, <1>5, <1>6, <1>7, <1>8 DEF Next

\* The throttle and the Kerberos configuration keep their types, for any numbers of
\* clients, accounts and addresses and any limits.
LEMMA SignInTypeCorrect == Spec => [](ThrottleTypeOK /\ KerberosTypeOK)
<1> QED BY InitType, NextType, PTL DEF Spec, TypeInv

(***************************************************************************)
(* How many failures the throttle lets through.                            *)
(***************************************************************************)
\* Sign-ins under way are a part of the clients, and so there are finitely many.
LEMMA PendingIsFinite ==
  ASSUME NEW k
  PROVE  /\ IsFiniteSet(Pending(k)) /\ Cardinality(Pending(k)) \in Nat
         /\ Cardinality(Pending(k)) <= Cardinality(Client)
<1>1. Pending(k) \subseteq Client
  BY DEF Pending
<1> QED BY <1>1, SignInAssumption, FS_Subset, FS_CardinalityType DEF SignInAssumption

LEMMA PendingAfter ==
  ASSUME NEW k
  PROVE  Cardinality(Pending(k)') \in Nat /\ Cardinality(Pending(k)') <= Cardinality(Client)
<1>1. Pending(k)' \subseteq Client
  BY DEF Pending
<1> QED BY <1>1, SignInAssumption, FS_Subset, FS_CardinalityType DEF SignInAssumption

\* Nobody is paused who starts: the entries of a sign-in that begins are below the
\* limit, or gone.
LEMMA BeginsBelowLimit ==
  ASSUME TypeInv, NEW c \in Client, NEW user \in User, NEW address \in Address,
         Begin(c, user, address), ~(Paused(user) \/ Paused(address)),
         NEW k \in {user, address}
  PROVE  failures'[k].count <= MaxAttempts - 1
<1>1. k \in Key /\ k \in Seen(user, address) /\ ~Paused(k)
  BY DEF Key, Seen
<1>2. failures[k].count \in Nat
  BY <1>1 DEF TypeInv, ThrottleTypeOK
<1>3. failures'[k] = IF Expired(k) THEN NoEntry ELSE failures[k]
  BY <1>1 DEF Begin
<1>4. CASE Expired(k)
  BY <1>3, <1>4, LimitsAreNumbers DEF NoEntry
<1>5. CASE ~Expired(k)
  <2>1. ~(failures[k].count >= MaxAttempts)
    BY <1>1, <1>5 DEF Paused
  <2> QED BY <1>2, <1>3, <1>5, <2>1, LimitsAreNumbers
<1> QED BY <1>4, <1>5

\* A sign-in that fails is counted once more and is no longer under way.
LEMMA FailKeepsLimit ==
  ASSUME TypeInv, LimitInv, NEW c \in Client, UnderWay(c), Fail(c)
  PROVE  LimitInv'
<1> SUFFICES ASSUME NEW k \in Key
             PROVE  failures'[k].count + Cardinality(Pending(k)') <= MaxAttempts + Cardinality(Client) - 1
  BY DEF LimitInv
<1>1. failures[k].count + Cardinality(Pending(k)) <= MaxAttempts + Cardinality(Client) - 1
  BY DEF LimitInv
<1>2. failures[k].count \in Nat
  BY DEF TypeInv, ThrottleTypeOK
<1>3. attempt' = [attempt EXCEPT ![c] = NotUnderWay] /\ attempt \in [Client -> Attempt]
  BY DEF Fail, TypeInv, ThrottleTypeOK
<1>4. failures'[k] = IF k \notin Keys(c) THEN failures[k]
                     ELSE [count |-> IF Expired(k) THEN 1 ELSE failures[k].count + 1, age |-> 0]
  BY DEF Fail, RecordFailure
<1>5. CASE k \in Keys(c)
  <2>1. c \in Pending(k) /\ Pending(k)' = Pending(k) \ {c}
    BY <1>3, <1>5 DEF Pending, UnderWay, Keys
  <2>2. Cardinality(Pending(k)') = Cardinality(Pending(k)) - 1
    BY <2>1, PendingIsFinite, FS_RemoveElement
  <2>3. failures'[k].count \in Nat /\ failures'[k].count <= failures[k].count + 1
    BY <1>2, <1>4, <1>5
  <2> QED BY <1>1, <1>2, <2>2, <2>3, PendingIsFinite, LimitsAreNumbers
<1>6. CASE k \notin Keys(c)
  <2>1. Pending(k)' = Pending(k)
    BY <1>3, <1>6 DEF Pending, UnderWay, Keys
  <2> QED BY <1>1, <1>4, <1>6, <2>1
<1> QED BY <1>5, <1>6

LEMMA NextLimit == TypeInv /\ LimitInv /\ [Next]_vars => LimitInv'
<1> SUFFICES ASSUME TypeInv, LimitInv, [Next]_vars PROVE LimitInv'
  OBVIOUS
<1>a. /\ attempt \in [Client -> Attempt]
      /\ \A k \in Key : failures[k].count \in Nat
      /\ failures \in [Key -> [count : Nat, age : 0..(Lockout + 1)]]
  BY DEF TypeInv, ThrottleTypeOK
\* No entry grows, and nobody more is under way.
<1>b. ASSUME \A k \in Key : failures'[k].count \in Nat /\ failures'[k].count <= failures[k].count,
             \A k \in Key : Pending(k)' = Pending(k)
      PROVE  LimitInv'
  <2> SUFFICES ASSUME NEW k \in Key
               PROVE  failures'[k].count + Cardinality(Pending(k)') <= MaxAttempts + Cardinality(Client) - 1
    BY DEF LimitInv
  <2> QED BY <1>a, <1>b, PendingIsFinite, LimitsAreNumbers DEF LimitInv
<1>1. ASSUME NEW c \in Client, NEW user \in User, NEW address \in Address, Begin(c, user, address)
      PROVE  LimitInv'
  <2>0. \A k \in Key : failures'[k].count \in Nat /\ failures'[k].count <= failures[k].count
    <3> SUFFICES ASSUME NEW k \in Key
                 PROVE  failures'[k].count \in Nat /\ failures'[k].count <= failures[k].count
      OBVIOUS
    <3>1. failures'[k] = failures[k] \/ failures'[k].count = 0
      BY <1>1 DEF Begin, NoEntry
    <3> QED BY <1>a, <3>1
  <2>1. CASE Paused(user) \/ Paused(address)
    BY <1>1, <1>b, <2>0, <2>1 DEF Begin, Pending, UnderWay, Keys
  <2>2. CASE ~(Paused(user) \/ Paused(address))
    <3> SUFFICES ASSUME NEW k \in Key
                 PROVE  failures'[k].count + Cardinality(Pending(k)') <= MaxAttempts + Cardinality(Client) - 1
      BY DEF LimitInv
    <3>1. CASE k \in {user, address}
      BY <1>1, <2>0, <2>2, <3>1, BeginsBelowLimit, PendingAfter, LimitsAreNumbers
    <3>2. CASE k \notin {user, address}
      <4>1. PICK t : attempt' = [attempt EXCEPT ![c] =
                [at |-> IF t.mode = "ad_member" THEN "register" ELSE "connect",
                 user |-> user, address |-> address, realm |-> t.realm]]
        BY <1>1, <2>2 DEF Begin
      <4>2. \A d \in Client : d # c => attempt'[d] = attempt[d]
        BY <1>a, <4>1
      <4>3. attempt'[c].user = user /\ attempt'[c].address = address
        BY <1>a, <4>1
      <4>4. attempt[c] = NotUnderWay
        BY <1>1 DEF Begin, UnderWay
      <4>5. Pending(k)' = Pending(k)
        BY <3>2, <4>2, <4>3, <4>4 DEF Pending, UnderWay, Keys
      <4> QED BY <1>a, <2>0, <4>5, PendingIsFinite, LimitsAreNumbers DEF LimitInv
    <3> QED BY <3>1, <3>2
  <2> QED BY <2>1, <2>2
<1>2. ASSUME NEW c \in Client, NEW stage \in {"ticket", "connect"}, UnderWay(c), Proceed(c, stage),
             UNCHANGED failures
      PROVE  LimitInv'
  <2>1. \A d \in Client : d # c => attempt'[d] = attempt[d]
    BY <1>a, <1>2 DEF Proceed
  <2>2. attempt[c] \in [at : Stages, user : User, address : Address, realm : Realm \cup {Nothing}]
    BY <1>a, <1>2 DEF UnderWay, Attempt
  <2>3. /\ attempt'[c].user = attempt[c].user /\ attempt'[c].address = attempt[c].address
        /\ attempt'[c].at = stage
        /\ attempt'[c] \in [at : Stages, user : User, address : Address, realm : Realm \cup {Nothing}]
    BY <1>a, <1>2, <2>2 DEF Proceed, Stages
  <2>4. attempt'[c] # NotUnderWay
    BY <2>3 DEF NotUnderWay, Stages
  <2>5. \A k \in Key : Pending(k)' = Pending(k)
    BY <1>2, <2>1, <2>3, <2>4 DEF Pending, UnderWay, Keys
  <2> QED BY <1>a, <1>2, <1>b, <2>5
<1>3. ASSUME NEW c \in Client, Connect(c), RecordSuccess(Keys(c)),
             attempt' = [attempt EXCEPT ![c] = NotUnderWay]
      PROVE  LimitInv'
  <2> SUFFICES ASSUME NEW k \in Key
               PROVE  failures'[k].count + Cardinality(Pending(k)') <= MaxAttempts + Cardinality(Client) - 1
    BY DEF LimitInv
  <2>1. failures'[k] = IF k \in Keys(c) THEN NoEntry ELSE failures[k]
    BY <1>3 DEF RecordSuccess
  <2>2. CASE k \in Keys(c)
    BY <2>1, <2>2, PendingAfter, LimitsAreNumbers DEF NoEntry
  <2>3. CASE k \notin Keys(c)
    <3>1. Pending(k)' = Pending(k)
      BY <1>a, <1>3, <2>3 DEF Pending, UnderWay, Keys
    <3> QED BY <2>1, <2>3, <3>1 DEF LimitInv
  <2> QED BY <2>2, <2>3
<1>4. ASSUME NEW c \in Client, Register(c)
      PROVE  LimitInv'
  <2>1. CASE ~conf.made /\ setting # Nothing
    BY <1>4, <2>1, FailKeepsLimit DEF Register
  <2>2. CASE ~(~conf.made /\ setting # Nothing)
    BY <1>2, <1>4, <2>2 DEF Register
  <2> QED BY <2>1, <2>2
<1>5. ASSUME NEW c \in Client, Ticket(c)
      PROVE  LimitInv'
  BY <1>2, <1>5, FailKeepsLimit DEF Ticket
<1>6. ASSUME NEW c \in Client, Connect(c)
      PROVE  LimitInv'
  BY <1>3, <1>6, FailKeepsLimit DEF Connect
<1>7. CASE Tick
  <2>1. \A k \in Key : failures'[k].count = failures[k].count
    BY <1>a, <1>7 DEF Tick, NoEntry
  <2>2. \A k \in Key : Pending(k)' = Pending(k)
    BY <1>7 DEF Tick, Pending, UnderWay, Keys
  <2> QED BY <1>a, <1>b, <2>1, <2>2
<1>8. CASE Probe \/ UNCHANGED vars
  <2>1. UNCHANGED <<attempt, failures>>
    BY <1>8 DEF Probe, vars
  <2>2. \A k \in Key : Pending(k)' = Pending(k)
    BY <2>1 DEF Pending, UnderWay, Keys
  <2> QED BY <1>a, <1>b, <2>1, <2>2
<1> QED BY <1>1, <1>4, <1>5, <1>6, <1>7, <1>8 DEF Next

LEMMA InitLimit == Init => LimitInv
<1> SUFFICES ASSUME Init, NEW k \in Key
             PROVE  failures[k].count + Cardinality(Pending(k)) <= MaxAttempts + Cardinality(Client) - 1
  BY DEF LimitInv
<1>1. failures[k].count = 0
  BY DEF Init, NoEntry
<1> QED BY <1>1, PendingIsFinite, LimitsAreNumbers

LEMMA LimitBounds == TypeInv /\ LimitInv => FailuresAreBounded
<1> SUFFICES ASSUME TypeInv, LimitInv, NEW k \in Key
             PROVE  failures[k].count <= MaxAttempts + Cardinality(Client) - 1
  BY DEF FailuresAreBounded
<1>1. failures[k].count \in Nat
  BY DEF TypeInv, ThrottleTypeOK
<1> QED BY <1>1, PendingIsFinite, LimitsAreNumbers DEF LimitInv

\* Whatever runs at once, no account and no address ever sees more failures than the
\* limit and the sign-ins that can run beside the one that reaches it.
THEOREM FailuresBounded == Spec => []FailuresAreBounded
<1>1. Init => TypeInv /\ LimitInv
  BY InitType, InitLimit
<1>2. TypeInv /\ LimitInv /\ [Next]_vars => (TypeInv /\ LimitInv)'
  BY NextType, NextLimit
<1> QED BY <1>1, <1>2, LimitBounds, PTL DEF Spec

(***************************************************************************)
(* What a write of the Kerberos configuration keeps.                       *)
(***************************************************************************)
\* Only a sign-in that registers its realm touches the configuration or its file.
LEMMA OnlyRegisterWrites ==
  ASSUME [Next]_vars, ~UNCHANGED <<conf, file>>
  PROVE  \E c \in Client : Register(c)
<1>1. ASSUME NEW c \in Client, NEW user \in User, NEW address \in Address, Begin(c, user, address)
      PROVE  FALSE
  BY <1>1 DEF Begin
<1>2. ASSUME NEW c \in Client, Ticket(c) \/ Connect(c)
      PROVE  FALSE
  BY <1>2 DEF Ticket, Connect
<1>3. ~(Probe \/ Tick \/ UNCHANGED vars)
  BY DEF Probe, Tick, vars
<1> QED BY <1>1, <1>2, <1>3 DEF Next

\* The whole configuration is what a write leaves in the file.
LEMMA WriteIsWhole ==
  ASSUME TypeInv, FileInv, NEW c \in Client, Register(c)
  PROVE  /\ FileInv'
         /\ file' # file => file.realms \subseteq file'.realms /\ file' = conf'.known
<1>1. CASE ~conf.made /\ setting # Nothing
  <2>1. UNCHANGED file /\ conf' = [conf EXCEPT !.made = TRUE]
    BY <1>1 DEF Register
  <2>2. conf'.known = conf.known
    BY <2>1 DEF TypeInv, KerberosTypeOK
  <2> QED BY <2>1, <2>2 DEF FileInv
<1>2. CASE ~(~conf.made /\ setting # Nothing)
  <2> DEFINE known == [realms |-> conf.known.realms \cup {attempt[c].realm},
                       default |-> Either(conf.known.default, attempt[c].realm)]
  <2>1. \/ UNCHANGED <<conf, file>>
        \/ conf' = [made |-> TRUE, known |-> known] /\ file' \in {known, file}
    BY <1>2 DEF Register, EnsureRealm, Rendered
  <2>2. conf.known.realms \subseteq known.realms
    OBVIOUS
  <2> HIDE DEF known
  <2>3. CASE UNCHANGED <<conf, file>>
    BY <2>3 DEF FileInv
  <2>4. CASE conf' = [made |-> TRUE, known |-> known] /\ file' \in {known, file}
    BY <2>2, <2>4 DEF FileInv
  <2> QED BY <2>1, <2>3, <2>4
<1> QED BY <1>1, <1>2

\* Every write of krb5.conf is the whole configuration and takes no realm out, although
\* any number of writes may have failed before it.
THEOREM WritesBringAll == Spec => EveryWriteBringsAll
<1>1. Init => TypeInv /\ FileInv
  BY InitType DEF Init, FileInv, Empty
<1>2. TypeInv /\ FileInv /\ [Next]_vars =>
        /\ (TypeInv /\ FileInv)'
        /\ [file' # file => file.realms \subseteq file'.realms /\ file' = conf'.known]_vars
  <2> SUFFICES ASSUME TypeInv, FileInv, [Next]_vars
               PROVE  /\ FileInv'
                      /\ file' # file => file.realms \subseteq file'.realms /\ file' = conf'.known
    BY NextType
  <2>1. CASE UNCHANGED <<conf, file>>
    BY <2>1 DEF FileInv
  <2>2. CASE ~UNCHANGED <<conf, file>>
    BY <2>2, OnlyRegisterWrites, WriteIsWhole
  <2> QED BY <2>1, <2>2
<1> QED BY <1>1, <1>2, PTL DEF Spec, EveryWriteBringsAll

(***************************************************************************)
(* The limiter of the server probe.                                        *)
(***************************************************************************)
\* A set of naturals with a member has a least one.
LEMMA Least == ASSUME NEW T \in SUBSET Nat, T # {}
               PROVE  \E n \in T : \A m \in T : ~(m < n)
<1> DEFINE R == {p \in Nat \X Nat : p[1] < p[2]}
<1>1. IsWellFoundedOn(R, Nat)
  <2>1. IsWellFoundedOn(OpToRel(<, Nat), Nat) BY NatLessThanWellFounded
  <2>2. OpToRel(<, Nat) = R BY DEF OpToRel
  <2> QED BY <2>1, <2>2
<1> HIDE DEF R
<1>2. \E n \in T : \A m \in T : ~(<<m, n>> \in R) BY <1>1, WFMin
<1> QED BY <1>2 DEF R

LEMMA WindowsAreNumbers == Window \in Nat \ {0} /\ ProbeLimit \in Nat \ {0}
BY SignInAssumption

\* The loop that drops old probes stops at the first that is not old.
LEMMA LeftStops ==
  ASSUME bucket \in Seq(0..(Window + 1))
  PROVE  /\ Left \in 0..Len(bucket)
         /\ \A i \in 1..Left : bucket[i] > Window
         /\ Left < Len(bucket) => bucket[Left + 1] <= Window
<1> DEFINE Stops(n) == /\ \A i \in 1..n : bucket[i] > Window
                       /\ n < Len(bucket) => bucket[n + 1] <= Window
           T == {n \in 0..Len(bucket) : n < Len(bucket) => bucket[n + 1] <= Window}
<1>1. Len(bucket) \in Nat /\ \A i \in 1..Len(bucket) : bucket[i] \in Nat
  <2>1. PICK S : S = 0..(Window + 1)
    OBVIOUS
  <2>a. bucket \in Seq(S)
    BY <2>1
  <2>2. Len(bucket) \in Nat /\ \A i \in 1..Len(bucket) : bucket[i] \in S
    BY <2>a
  <2>3. \A x \in S : x \in Nat
    BY <2>1, WindowsAreNumbers
  <2> QED BY <2>2, <2>3
<1>2. T \in SUBSET Nat /\ Len(bucket) \in T
  BY <1>1
<1>3. PICK n \in T : \A m \in T : ~(m < n)
  BY <1>2, Least
<1>4. \A i \in 1..n : bucket[i] > Window
  <2> SUFFICES ASSUME NEW i \in 1..n PROVE bucket[i] > Window
    OBVIOUS
  <2>1. n \in 0..Len(bucket) /\ n \in Nat /\ i \in Nat /\ 1 <= i /\ i <= n
    BY <1>1, <1>2, <1>3
  <2>2. i - 1 \in 0..Len(bucket) /\ i - 1 < n /\ i \in 1..Len(bucket)
    BY <1>1, <2>1
  <2>3. i - 1 \notin T
    BY <1>3, <2>2
  <2>4. ~(bucket[(i - 1) + 1] <= Window)
    BY <2>2, <2>3
  <2> QED BY <1>1, <2>1, <2>2, <2>4, WindowsAreNumbers
<1>5. Stops(n) /\ n \in 0..Len(bucket)
  BY <1>3, <1>4
<1>6. Left = CHOOSE m \in 0..Len(bucket) : Stops(m)
  BY DEF Left
<1> HIDE DEF Stops
<1>7. Left \in 0..Len(bucket) /\ Stops(Left)
  BY <1>5, <1>6
<1> QED BY <1>7 DEF Stops

\* What is left of the bucket: as long as no probe is dropped, and as many shorter.
LEMMA FreshBucket ==
  ASSUME bucket \in Seq(0..(Window + 1))
  PROVE  /\ Fresh \in Seq(0..(Window + 1)) /\ Len(Fresh) = Len(bucket) - Left
         /\ Len(Fresh) > 0 => Fresh[1] \in 0..Window
<1>1. Len(bucket) \in Nat /\ Left \in 0..Len(bucket)
  BY LeftStops
<1>2. PICK n \in Nat : n = Left
  BY <1>1
<1>3. Fresh = SubSeq(bucket, n + 1, Len(bucket))
  BY <1>2 DEF Fresh
<1>4. n + 1 \in 1..(Len(bucket) + 1) /\ n <= Len(bucket)
  BY <1>1, <1>2
<1>5. Fresh \in Seq(0..(Window + 1)) /\ Len(Fresh) = Len(bucket) - n
  <2>1. PICK S : S = 0..(Window + 1)
    OBVIOUS
  <2>2. bucket \in Seq(S)
    BY <2>1
  <2>3. Fresh \in Seq(S) /\ Len(Fresh) = Len(bucket) - n
    BY <1>1, <1>3, <1>4, <2>2
  <2> QED BY <2>1, <2>3
<1>6. ASSUME Len(Fresh) > 0 PROVE Fresh[1] \in 0..Window
  <2>1. n < Len(bucket) /\ n + 1 \in 1..Len(bucket)
    BY <1>1, <1>4, <1>5, <1>6
  <2>2. Fresh[1] = bucket[n + 1]
    BY <1>1, <1>3, <1>4, <2>1
  <2>3. bucket[n + 1] <= Window /\ bucket[n + 1] \in 0..(Window + 1)
    <3>1. bucket[n + 1] <= Window
      BY <1>2, <2>1, LeftStops
    <3>2. PICK S : S = 0..(Window + 1)
      OBVIOUS
    <3>3. bucket \in Seq(S)
      BY <3>2
    <3>4. bucket[n + 1] \in S
      BY <2>1, <3>3
    <3> QED BY <3>1, <3>2, <3>4
  <2> QED BY <2>2, <2>3, WindowsAreNumbers
<1> QED BY <1>2, <1>5, <1>6

\* The wait that was told ends with the age at which the oldest probe is dropped.
WaitInv == told # NotTold => Len(bucket) > 0 /\ told + bucket[1] = Window + 1

LEMMA ProbeKeepsLimiter ==
  ASSUME LimiterTypeOK, Probe
  PROVE  LimiterTypeOK' /\ WaitInv'
<1>1. bucket \in Seq(0..(Window + 1)) /\ Len(bucket) <= ProbeLimit
  BY DEF LimiterTypeOK
<1>2. PICK fresh \in Seq(0..(Window + 1)) : fresh = Fresh
  BY <1>1, FreshBucket
<1>3. Len(fresh) \in Nat /\ Len(fresh) <= ProbeLimit
  <2>1. Len(fresh) = Len(bucket) - Left /\ Left \in 0..Len(bucket) /\ Len(bucket) \in Nat
    BY <1>1, <1>2, FreshBucket, LeftStops
  <2> QED BY <1>1, <2>1, WindowsAreNumbers
<1>4. CASE Full
  <2>1. bucket' = fresh /\ told' = (Window - fresh[1]) + 1
    BY <1>2, <1>4 DEF Probe, RetryAfter
  <2>2. Len(fresh) > 0
    BY <1>2, <1>3, <1>4, WindowsAreNumbers DEF Full
  <2>3. fresh[1] \in 0..Window
    BY <1>1, <1>2, <2>2, FreshBucket
  <2>4. told' \in 0..NotTold /\ told' + bucket'[1] = Window + 1
    BY <2>1, <2>3, WindowsAreNumbers DEF NotTold
  <2> QED BY <1>3, <2>1, <2>2, <2>4 DEF LimiterTypeOK, WaitInv
<1>5. CASE ~Full
  <2>1. bucket' = Append(fresh, 0) /\ told' = NotTold
    BY <1>2, <1>5 DEF Probe
  <2>2. Len(fresh) < ProbeLimit
    BY <1>2, <1>3, <1>5, WindowsAreNumbers DEF Full
  <2>3. 0 \in 0..(Window + 1) /\ NotTold \in 0..NotTold
    BY WindowsAreNumbers DEF NotTold
  <2>4. Append(fresh, 0) \in Seq(0..(Window + 1)) /\ Len(Append(fresh, 0)) = Len(fresh) + 1
    BY <2>3
  <2>5. Len(fresh) + 1 <= ProbeLimit
    BY <1>3, <2>2, WindowsAreNumbers
  <2> QED BY <2>1, <2>3, <2>4, <2>5 DEF LimiterTypeOK, WaitInv
<1> QED BY <1>4, <1>5

\* A tick makes the oldest probe older and the wait shorter, until both are over.
LEMMA TickKeepsLimiter ==
  ASSUME LimiterTypeOK, WaitInv, Tick
  PROVE  LimiterTypeOK' /\ WaitInv'
<1>1. PICK w \in Nat \ {0} : w = Window
  BY WindowsAreNumbers
<1>2. bucket \in Seq(0..(w + 1)) /\ Len(bucket) <= ProbeLimit /\ Len(bucket) \in Nat
  BY <1>1 DEF LimiterTypeOK
<1>3. \A i \in 1..Len(bucket) : bucket[i] \in 0..(w + 1)
  BY <1>2
<1>4. bucket' = [i \in 1..Len(bucket) |-> IF bucket[i] < w + 1 THEN bucket[i] + 1 ELSE bucket[i]]
  BY <1>1, <1>2 DEF Tick, Older
<1>5. \A i \in 1..Len(bucket) : bucket'[i] \in 0..(w + 1)
  BY <1>3, <1>4
<1>6. bucket' \in [1..Len(bucket) -> 0..(w + 1)]
  BY <1>4, <1>5
<1>7. bucket' \in Seq(0..(w + 1)) /\ Len(bucket') = Len(bucket)
  BY <1>2, <1>6
<1>8. told \in 0..(w + 2) /\ told' = IF told \in 1..(w + 1) THEN told - 1 ELSE told
  BY <1>1 DEF LimiterTypeOK, NotTold, Tick
<1>9. told' \in 0..(w + 2)
  BY <1>8
<1>10. WaitInv'
  <2>1. CASE told = w + 2
    BY <1>1, <1>8, <2>1 DEF WaitInv, NotTold
  <2>2. CASE told # w + 2
    <3>1. Len(bucket) > 0 /\ told + bucket[1] = w + 1 /\ 1 \in 1..Len(bucket)
      BY <1>1, <1>2, <2>2 DEF WaitInv, NotTold
    <3>2. bucket'[1] = IF bucket[1] < w + 1 THEN bucket[1] + 1 ELSE bucket[1]
      BY <1>4, <3>1
    <3>3. told' + bucket'[1] = w + 1
      BY <1>3, <1>8, <3>1, <3>2
    <3> QED BY <1>1, <1>7, <3>1, <3>3 DEF WaitInv
  <2> QED BY <2>1, <2>2
<1> QED BY <1>1, <1>2, <1>7, <1>9, <1>10 DEF LimiterTypeOK, NotTold

LEMMA NextLimiter == LimiterTypeOK /\ WaitInv /\ [Next]_vars => LimiterTypeOK' /\ WaitInv'
<1> SUFFICES ASSUME LimiterTypeOK, WaitInv, [Next]_vars PROVE LimiterTypeOK' /\ WaitInv'
  OBVIOUS
<1>1. ASSUME UNCHANGED <<bucket, told>> PROVE LimiterTypeOK' /\ WaitInv'
  BY <1>1 DEF LimiterTypeOK, WaitInv
<1>2. ASSUME NEW c \in Client, NEW user \in User, NEW address \in Address, Begin(c, user, address)
      PROVE  LimiterTypeOK' /\ WaitInv'
  BY <1>1, <1>2 DEF Begin
<1>3. ASSUME NEW c \in Client, Register(c) \/ Ticket(c) \/ Connect(c)
      PROVE  LimiterTypeOK' /\ WaitInv'
  <2>1. UNCHANGED <<bucket, told>>
    BY <1>3 DEF Register, Ticket, Connect
  <2> QED BY <1>1, <2>1
<1>4. CASE UNCHANGED vars
  BY <1>1, <1>4 DEF vars
<1> QED BY <1>2, <1>3, <1>4, ProbeKeepsLimiter, TickKeepsLimiter DEF Next

LEMMA InitLimiter == Init => LimiterTypeOK /\ WaitInv
<1>1. <<>> \in Seq(0..(Window + 1)) /\ Len(<<>>) = 0
  OBVIOUS
<1>2. NotTold \in 0..NotTold /\ 0 <= ProbeLimit
  BY WindowsAreNumbers DEF NotTold
<1> QED BY <1>1, <1>2 DEF Init, LimiterTypeOK, WaitInv

\* Every reachable state of sign-ins, configuration and limiter has its type.
THEOREM TypeCorrect == Spec => []TypeOK
<1>1. Init => LimiterTypeOK /\ WaitInv
  BY InitLimiter
<1>2. (LimiterTypeOK /\ WaitInv) /\ [Next]_vars => (LimiterTypeOK /\ WaitInv)'
  BY NextLimiter
<1>3. ThrottleTypeOK /\ KerberosTypeOK /\ LimiterTypeOK => TypeOK
  BY DEF TypeOK
<1> QED BY <1>1, <1>2, <1>3, SignInTypeCorrect, PTL DEF Spec

\* The oldest probe has left the window when the wait is over, and there were no
\* more than the limit.
LEMMA WaitedIsEnough == LimiterTypeOK /\ WaitInv => WaitIsEnough
<1> SUFFICES ASSUME LimiterTypeOK, WaitInv, told = 0 PROVE Len(Fresh) < ProbeLimit
  BY DEF WaitIsEnough
<1>1. bucket \in Seq(0..(Window + 1)) /\ Len(bucket) \in Nat /\ Len(bucket) <= ProbeLimit
  BY DEF LimiterTypeOK
<1>2. Len(bucket) > 0 /\ bucket[1] = Window + 1
  <2>1. told # NotTold
    BY WindowsAreNumbers DEF NotTold
  <2>2. Len(bucket) > 0 /\ 0 + bucket[1] = Window + 1
    BY <2>1 DEF WaitInv
  <2>3. bucket[1] \in 0..(Window + 1)
    <3>1. PICK S : S = 0..(Window + 1)
      OBVIOUS
    <3>2. bucket \in Seq(S) /\ 1 \in 1..Len(bucket)
      BY <1>1, <2>2, <3>1
    <3>3. bucket[1] \in S
      BY <3>2
    <3> QED BY <3>1, <3>3
  <2> QED BY <2>2, <2>3
<1>3. Left \in 0..Len(bucket) /\ Left # 0
  <2>1. Left \in 0..Len(bucket) /\ (Left < Len(bucket) => bucket[Left + 1] <= Window)
    BY <1>1, LeftStops
  <2>2. ASSUME Left = 0 PROVE FALSE
    BY <1>2, <2>1, <2>2, WindowsAreNumbers
  <2> QED BY <2>1, <2>2
<1>4. Len(Fresh) = Len(bucket) - Left
  BY <1>1, FreshBucket
<1> QED BY <1>1, <1>3, <1>4, WindowsAreNumbers

\* Whoever waits as long as a refused probe was told to is not refused again, for
\* any limit and any window.
THEOREM WaitingHelps == Spec => []WaitIsEnough
<1>1. Init => LimiterTypeOK /\ WaitInv
  BY InitLimiter
<1>2. (LimiterTypeOK /\ WaitInv) /\ [Next]_vars => (LimiterTypeOK /\ WaitInv)'
  BY NextLimiter
<1> QED BY <1>1, <1>2, WaitedIsEnough, PTL DEF Spec

===============================================================================
