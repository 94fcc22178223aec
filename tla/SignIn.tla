-------------------------------- MODULE SignIn ---------------------------------
(***************************************************************************)
(* What stands before a session: the throttle of failed sign-ins           *)
(* (LoginThrottle in auth/session.py), the Kerberos configuration file     *)
(* that sign-ins write together (auth/krb5conf.py), the stretch of         *)
(* api/v1/auth.py login() that uses both, and the limiter of the server    *)
(* probe (core/ratelimit.py).                                              *)
(*                                                                         *)
(* Time is kept as ages, which stop counting once they are past what       *)
(* matters.  Workers, tickets and sessions are in SessionLifecycle.        *)
(***************************************************************************)
EXTENDS Resolution, Sequences, FiniteSets

CONSTANTS
    Client,         \* sign-ins that may be under way at once
    User, Address,  \* account names, and where sign-ins come from
    MaxAttempts,    \* login_max_attempts
    Lockout,        \* login_lockout_minutes, in ticks
    ProbeLimit,     \* probe_limiter's max_events
    Window          \* and its window, in ticks

ASSUME SignInAssumption ==
    /\ IsFiniteSet(Client)
    /\ User \cap Address = {}
    /\ {MaxAttempts, Lockout, ProbeLimit, Window} \subseteq Nat \ {0}

VARIABLES
    attempt,    \* each client's sign-in: how far it is, as whom, from where, with which target
    failures,   \* LoginThrottle._failures, by account and by address; a count of 0 is no entry
    setting,    \* SAMFSCON_REALM
    conf,       \* Krb5Configuration, and whether there is one yet
    file,       \* what krb5.conf says
    bucket,     \* when the probes of one address were admitted, oldest first
    told        \* history: how much of the wait told with the last refusal is left

vars == <<attempt, failures, setting, conf, file, bucket, told>>

Key == User \cup Address
Realm == {"server's", "given"}
NoEntry == [count |-> 0, age |-> 0]
Empty == [realms |-> {}, default |-> Nothing]
NotTold == Window + 2

NotUnderWay == [at |-> "idle"]
Stages == {"register", "ticket", "connect"}
Attempt == {NotUnderWay} \cup [at : Stages, user : User, address : Address, realm : Realm \cup {Nothing}]

UnderWay(c) == attempt[c] # NotUnderWay
Keys(c) == {attempt[c].user, attempt[c].address}

Init ==
    /\ attempt = [c \in Client |-> NotUnderWay]
    /\ failures = [k \in Key |-> NoEntry]
    /\ setting \in {Nothing, "given"}
    /\ conf = [made |-> FALSE, known |-> Empty]
    /\ file = Empty
    /\ bucket = <<>>
    /\ told = NotTold

-------------------------------------------------------------------------------
(* The throttle.                                                             *)

Expired(k) == failures[k].count > 0 /\ failures[k].age > Lockout

\* Mutant of Paused: the limit itself is let through.
PausedAboveLimit(k) == ~Expired(k) /\ failures[k].count > MaxAttempts

Paused(k) == ~Expired(k) /\ failures[k].count >= MaxAttempts

\* The keys check() comes to: it stops at the first that is paused.
Seen(user, address) ==
    IF Paused(user) THEN {} ELSE {user} \cup {k \in {address} : ~Paused(k)}

RecordFailure(keys) ==
    failures' = [k \in Key |->
        IF k \notin keys THEN failures[k]
        ELSE [count |-> IF Expired(k) THEN 1 ELSE failures[k].count + 1, age |-> 0]]

RecordSuccess(keys) == failures' = [k \in Key |-> IF k \in keys THEN NoEntry ELSE failures[k]]

-------------------------------------------------------------------------------
(* One sign-in.                                                              *)

\* The target has been resolved (a refusal ends the sign-in and is no failure)
\* and the throttle lets it through or not.  What comes next is awaited.
Begin(c, user, address) ==
    /\ ~UnderWay(c)
    /\ failures' = [k \in Key |-> IF k \in Seen(user, address) /\ Expired(k) THEN NoEntry ELSE failures[k]]
    /\ IF Paused(user) \/ Paused(address)
       THEN UNCHANGED attempt
       ELSE \E t \in Accepted :
              attempt' = [attempt EXCEPT ![c] =
                  [at |-> IF t.mode = "ad_member" THEN "register" ELSE "connect",
                   user |-> user, address |-> address, realm |-> t.realm]]
    /\ UNCHANGED <<setting, conf, file, bucket, told>>

Proceed(c, stage) == attempt' = [attempt EXCEPT ![c].at = stage]

Fail(c) ==
    /\ RecordFailure(Keys(c))
    /\ attempt' = [attempt EXCEPT ![c] = NotUnderWay]

\* Mutant of Rendered: only the realm that is new is written.
RenderedNew(known, realm) == [realms |-> {realm}, default |-> known.default]

\* The file is rendered as a whole.
Rendered(known, realm) == known

\* ensure_realm.  Writing may fail, which is logged; the realm is remembered.
EnsureRealm(realm) ==
    IF realm \in conf.known.realms THEN UNCHANGED <<conf, file>>
    ELSE LET known == [realms |-> conf.known.realms \cup {realm},
                       default |-> Either(conf.known.default, realm)] IN
         /\ conf' = [made |-> TRUE, known |-> known]
         /\ file' \in {Rendered(known, realm), file}

\* acquire_ticket, up to the exchange.  Whoever makes the configuration first
\* asks the settings for dc_hosts, which they do not have, if a realm is set.
Register(c) ==
    /\ UnderWay(c) /\ attempt[c].at = "register"
    /\ IF ~conf.made /\ setting # Nothing
       THEN /\ conf' = [conf EXCEPT !.made = TRUE]
            /\ Fail(c)
            /\ UNCHANGED file
       ELSE /\ EnsureRealm(attempt[c].realm)
            /\ Proceed(c, "ticket")
            /\ UNCHANGED failures
    /\ UNCHANGED <<setting, bucket, told>>

\* The exchange issues a ticket, or fails or takes too long.
Ticket(c) ==
    /\ UnderWay(c) /\ attempt[c].at = "ticket"
    /\ \/ Proceed(c, "connect") /\ UNCHANGED failures
       \/ Fail(c)
    /\ UNCHANGED <<setting, conf, file, bucket, told>>

\* The first connection, which is where a password is refused by a server
\* without Kerberos.
Connect(c) ==
    /\ UnderWay(c) /\ attempt[c].at = "connect"
    /\ \/ /\ RecordSuccess(Keys(c))
          /\ attempt' = [attempt EXCEPT ![c] = NotUnderWay]
       \/ Fail(c)
    /\ UNCHANGED <<setting, conf, file, bucket, told>>

-------------------------------------------------------------------------------
(* The probe of the sign-in form, and time.                                  *)

\* How many probes have left the window, from the oldest up to the first that has not.
Left ==
    CHOOSE n \in 0..Len(bucket) :
        /\ \A i \in 1..n : bucket[i] > Window
        /\ n < Len(bucket) => bucket[n + 1] <= Window

Fresh == SubSeq(bucket, Left + 1, Len(bucket))

\* Mutant of RetryAfter: the wait ends when the window does.
RetryAfterWindow(age) == Window - age

RetryAfter(age) == (Window - age) + 1

\* Mutant of Full: one probe more than the limit.
FullAboveLimit == Len(Fresh) > ProbeLimit

Full == Len(Fresh) >= ProbeLimit

Probe ==
    /\ IF Full
       THEN bucket' = Fresh /\ told' = RetryAfter(Fresh[1])
       ELSE bucket' = Append(Fresh, 0) /\ told' = NotTold
    /\ UNCHANGED <<attempt, failures, setting, conf, file>>

Older(age, most) == IF age < most THEN age + 1 ELSE age

Tick ==
    /\ failures' = [k \in Key |-> IF failures[k].count = 0 THEN NoEntry
                                  ELSE [failures[k] EXCEPT !.age = Older(@, Lockout + 1)]]
    /\ bucket' = [i \in DOMAIN bucket |-> Older(bucket[i], Window + 1)]
    /\ told' = IF told \in 1..(Window + 1) THEN told - 1 ELSE told
    /\ UNCHANGED <<attempt, setting, conf, file>>

Next ==
    \/ \E c \in Client :
        \/ \E user \in User, address \in Address : Begin(c, user, address)
        \/ Register(c) \/ Ticket(c) \/ Connect(c)
    \/ Probe
    \/ Tick

Spec == Init /\ [][Next]_vars

-------------------------------------------------------------------------------
(* What is promised.                                                         *)

ThrottleTypeOK ==
    /\ attempt \in [Client -> Attempt]
    /\ failures \in [Key -> [count : Nat, age : 0..(Lockout + 1)]]

KerberosTypeOK ==
    /\ setting \in {Nothing, "given"}
    /\ conf \in [made : BOOLEAN, known : [realms : SUBSET Realm, default : Realm \cup {Nothing}]]
    /\ file \in [realms : SUBSET Realm, default : Realm \cup {Nothing}]
    /\ \A c \in Client : UnderWay(c) /\ attempt[c].at = "register" => attempt[c].realm \in Realm

LimiterTypeOK ==
    /\ bucket \in Seq(0..(Window + 1)) /\ Len(bucket) <= ProbeLimit
    /\ told \in 0..NotTold

TypeOK == ThrottleTypeOK /\ KerberosTypeOK /\ LimiterTypeOK

\* Sign-ins that run at once all pass the check before any of them is counted.
\* They are the only ones that do: an account, or an address, never sees more
\* failures than the limit and the sign-ins that can run beside the last one
\* (check and record_failure, two awaits apart in login()).
FailuresAreBounded ==
    \A k \in Key : failures[k].count <= MaxAttempts + Cardinality(Client) - 1

\* A realm that the file could not be written for is in it with the next write,
\* and no write takes out a realm that sign-ins use: the file is always one the
\* whole configuration was rendered to (ensure_realm, _write).
EveryWriteBringsAll ==
    [][file' # file => file.realms \subseteq file'.realms /\ file' = conf'.known]_vars

\* Whoever waits as long as a refused probe was told to is not refused again
\* (RateLimiter.check, retry_after).
WaitIsEnough == told = 0 => Len(Fresh) < ProbeLimit

\* The inductive strengthening of FailuresAreBounded: what is under way counts as
\* if it had failed already.
Pending(k) == {c \in Client : UnderWay(c) /\ k \in Keys(c)}
LimitInv ==
    \A k \in Key :
        failures[k].count + Cardinality(Pending(k)) <= MaxAttempts + Cardinality(Client) - 1

\* The file never has a realm the configuration does not know, which is what makes a
\* rewrite lose nothing.
FileInv == file.realms \subseteq conf.known.realms

\* The realm of the default server "should be usable from the first request,
\* before anyone signs in" (get_krb5_configuration).
ConfiguredRealmIsKnown ==
    conf.made /\ setting # Nothing => setting \in conf.known.realms

===============================================================================
