----------------------------- MODULE GlobalConfig -----------------------------
(***************************************************************************)
(* The [global] section a server keeps in its registry, read and changed   *)
(* by the console (srv/globalconf.py, api/v1/config.py).                   *)
(*                                                                         *)
(* A change reads the section and what the server reports, judges itself   *)
(* against that one read and then makes a call per option.  Several        *)
(* administrators do so at once, any call can fail, and smbd reads its     *)
(* configuration when it likes, if it reads the registry at all.           *)
(***************************************************************************)
EXTENDS Naturals, Sequences

CONSTANTS
    Admin,          \* signed-in administrators
    Dialects,       \* the SMB dialects, 1..Dialects, oldest first
    ConsoleFloor,   \* settings.smb_min_protocol
    Servers,        \* bound: kinds of server, the include, the text's string, the names
    Requests,       \* bound: what is sent, as sequences of <<option, value>>
    Tokens,         \* bound: the confirmations that come with it
    MaxCalls,       \* bound: reads and writes begun
    None            \* a value that is not there; in a request, its removal

min == "server min protocol"
max == "server max protocol"
allow == "hosts allow"
deny == "hosts deny"
string == "server string"

\* The tokens that lift a refusal, beside the names of the options.
UNDECIDABLE_CONFIRM_FOR == [o \in {allow, deny} |-> o \o ":undecidable"]

ADDRESS_UNKNOWN_CONFIRM == "own address:unknown"

\* A hosts list: what it names, and what an EXCEPT takes away from that.  A name
\* is any entry the console cannot decide.
HostEntry == {"us", "other", "name"}
HostsList == [names : SUBSET HostEntry, except : SUBSET HostEntry]

\* One option of each kind the catalogue has.
CATALOGUE == {min, max, allow, deny, string, "netbios name", "workgroup", "winbind enum users"}

Value(option) ==
    CASE option \in {min, max} -> 1..Dialects
      [] option \in {allow, deny} -> HostsList
      [] option = string -> {"Samba", "Dateiserver"}
      [] OTHER -> {"yes"}

\* What Samba does where nothing sets the option.
Default == "Samba"

\* A request is a dictionary, in some order: an option is there once.  A value its option does not
\* take is refused before anything else (_validate_one) and left out.
ASSUME GlobalAssumption ==
    /\ Dialects \in Nat \ {0, 1} /\ ConsoleFloor \in 1..Dialects
    /\ MaxCalls \in Nat
    /\ <<>> \in Requests
    /\ \A sent \in Requests :
          /\ sent \in Seq({sent[i] : i \in DOMAIN sent})
          /\ \A i \in DOMAIN sent :
                /\ sent[i][1] \in CATALOGUE => sent[i][2] \in Value(sent[i][1]) \cup {None}
                /\ \A j \in DOMAIN sent : sent[i][1] = sent[j][1] => i = j
    /\ Servers \subseteq [mode : {"standalone", "ad_member"}, reads : BOOLEAN,
                          text : {"Samba", "Dateiserver"}, resolves : BOOLEAN]

Address == {"known", "unknown"}

Mode == {"standalone", "ad_member"}

VARIABLES
    mode,       \* what kind of server it is
    reads,      \* the text smb.conf includes the registry
    text,       \* the server string the text smb.conf comes to
    resolves,   \* a name in a hosts list stands for this console
    exists,     \* the registry has a global section
    stored,     \* the section's values
    live,       \* the server string smbd reports
    op,         \* op[a]: what a's worker is doing, or Idle
    calls,      \* operations begun
    disturbed   \* history: disturbed[a], the section changed under a's operation

vars == <<mode, reads, text, resolves, exists, stored, live, op, calls, disturbed>>

Idle == [at |-> "idle"]

Unset == [o \in CATALOGUE |-> None]

-------------------------------------------------------------------------------
(* smbd.                                                                     *)

InForce == IF reads /\ stored[string] # None THEN stored[string] ELSE text

\* An entry matches the console's address.
Matches(entry) == entry = "us" \/ (entry = "name" /\ resolves)

InList(list) == (\E e \in list.names : Matches(e)) /\ ~ \E e \in list.except : Matches(e)

Listed(list) == list # None /\ list.names # {}

\* smbd's rule: an allow list that matches admits, then a deny list that matches
\* refuses; an allow list alone admits nobody else.
Admitted(section) ==
    \/ Listed(section[allow]) /\ InList(section[allow])
    \/ ~Listed(section[allow]) /\ (Listed(section[deny]) => ~InList(section[deny]))
    \/ Listed(section[allow]) /\ Listed(section[deny]) /\ ~InList(section[deny])

\* smbd reads its configuration again.
Reload ==
    /\ live # InForce
    /\ live' = InForce
    /\ UNCHANGED <<mode, reads, text, resolves, exists, stored, op, calls, disturbed>>

-------------------------------------------------------------------------------
(* What is decided without asking the server.                                *)

\* Mutant of hosts_verdict: the entries before an EXCEPT count as they stand.
hosts_verdictIgnoringExcept(list, address) ==
    IF "us" \in list.names THEN "covered"
    ELSE IF "name" \in list.names \cup list.except THEN "undecidable" ELSE "excluded"

\* An entry that matches covers; excluded is said only where every entry could be
\* decided.
hosts_verdict(list, address) ==
    IF address = "unknown" THEN "address"
    ELSE IF list.except # {} THEN "undecidable"
    ELSE IF "us" \in list.names THEN "covered"
    ELSE IF "name" \in list.names THEN "undecidable"
    ELSE "excluded"

\* Shown and not offered, on this kind of server.
ReadOnly(option) == option = "netbios name" \/ (option = "workgroup" /\ mode = "ad_member")

NotHere(option) == option = "winbind enum users" /\ mode # "ad_member"

Risky(option) == option \in {min, max, allow, deny, "workgroup"}

Sends(o, option) == \E i \in DOMAIN o.sent : o.sent[i][1] = option

Sent(o, option) == o.sent[CHOOSE i \in DOMAIN o.sent : o.sent[i][1] = option][2]

\* validate: every option is one that can be written here, and confirmed if need be.
Offered(o) ==
    \A i \in DOMAIN o.sent :
        LET option == o.sent[i][1] IN
        /\ option \in CATALOGUE /\ ~NotHere(option) /\ ~ReadOnly(option)
        /\ Risky(option) /\ o.sent[i][2] # None => option \in o.confirm

\* A floor above the ceiling, of the two that are sent.
_check_dialect_window(low, high) == low <= high

Window(o) ==
    Sends(o, min) /\ Sends(o, max) =>
        (Sent(o, min) # None /\ Sent(o, max) # None => _check_dialect_window(Sent(o, min), Sent(o, max)))

\* Mutant of check_console_floor: the option that is compared is the minimum.
check_console_floorOfFloor(o) == Sends(o, min) /\ Sent(o, min) # None => Sent(o, min) >= ConsoleFloor

check_console_floor(o) == Sends(o, max) /\ Sent(o, max) # None => Sent(o, max) >= ConsoleFloor

\* As the pair will stand after the change.
Effective(o, option) == IF Sends(o, option) THEN Sent(o, option) ELSE o.stored[option]

\* What lifts a refusal: each list's own token, and one for an unknown address.
Waived(verdict, option, confirm) ==
    \/ verdict = "undecidable" /\ UNDECIDABLE_CONFIRM_FOR[option] \in confirm
    \/ verdict = "address" /\ ADDRESS_UNKNOWN_CONFIRM \in confirm

\* An allow list settles it; the deny list is judged where there is none, and the
\* other way round.
_check_hosts(o, address) ==
    LET a == Effective(o, allow)
        d == Effective(o, deny) IN
    \/ ~Sends(o, allow) /\ ~Sends(o, deny)
    \/ /\ Listed(a)
       /\ LET v == hosts_verdict(a, address) IN v = "covered" \/ Waived(v, allow, o.confirm)
    \/ ~Listed(a) /\ ~Listed(d)
    \/ /\ ~Listed(a) /\ Listed(d)
       /\ LET v == hosts_verdict(d, address) IN v = "excluded" \/ Waived(v, deny, o.confirm)

\* Mutant of in_force_check: agreement is agreement.
in_force_checkOnDefault(section, reported) ==
    IF section[string] = None \/ reported = None THEN "undecided"
    ELSE IF section[string] = reported THEN "confirms" ELSE "contradicts"

\* Whether the server reads the section, by the one option that can be compared.
in_force_check(section, reported) ==
    IF \/ section[string] = None \/ reported = None
       \/ section[string] = Default /\ reported = Default
    THEN "undecided"
    ELSE IF section[string] = reported THEN "confirms" ELSE "contradicts"

-------------------------------------------------------------------------------
Init ==
    /\ \E s \in Servers : mode = s.mode /\ reads = s.reads /\ text = s.text /\ resolves = s.resolves
    /\ exists \in BOOLEAN
    /\ stored \in {Unset} \cup
          IF exists
          THEN {[Unset EXCEPT ![max] = Dialects - 1, ![deny] = [names |-> {"us", "other"}, except |-> {}],
                              ![allow] = [names |-> {"us"}, except |-> {}]],
                [Unset EXCEPT ![string] = "Dateiserver"]}
          ELSE {}
    /\ live = InForce
    /\ op = [a \in Admin |-> Idle]
    /\ calls = 0
    /\ disturbed = [a \in Admin |-> FALSE]

\* What the screen has of an operation that went through; another leaves an error.
Over(o, result) == [at |-> "over", verdict |-> o.verdict, result |-> result]

unchangedServer == UNCHANGED <<mode, reads, text, resolves, exists, stored, live>>

\* Bound: no confirmation comes with a request that has no use for it.
About(sent) ==
    LET options == {sent[i][1] : i \in DOMAIN sent} IN
    options \cup (IF options \cap {allow, deny} = {} THEN {}
                  ELSE {UNDECIDABLE_CONFIRM_FOR[allow], UNDECIDABLE_CONFIRM_FOR[deny], ADDRESS_UNKNOWN_CONFIRM})

\* GET and PATCH; a request without options is the GET.
Begin(a) ==
    /\ op[a] = Idle /\ calls < MaxCalls
    /\ calls' = calls + 1
    /\ \E sent \in Requests, tokens \in Tokens, create \in {FALSE, ~exists} :
        LET confirm == tokens \cap About(sent) IN
        /\ sent = <<>> => ~create
        /\ op' = [op EXCEPT ![a] =
              [at |-> "sections", sent |-> sent, confirm |-> confirm, create |-> create,
               present |-> "unknown", read |-> FALSE, stored |-> Unset, verdict |-> "none",
               todo |-> <<>>]]
    /\ disturbed' = [disturbed EXCEPT ![a] = FALSE]
    /\ unchangedServer

\* The capabilities, then the section list; an unreadable list is not an answer.
ReadSections(a) ==
    /\ op[a].at = "sections"
    /\ \E present \in {IF exists THEN "yes" ELSE "no", "unknown"} :
        op' = [op EXCEPT ![a].present = present,
                         ![a].at = IF present = "no" THEN "judge" ELSE "stored",
                         ![a].read = (present = "no")]
    /\ unchangedServer
    /\ UNCHANGED <<calls, disturbed>>

\* A section that cannot be read costs a note, and counts as empty.
ReadStored(a) ==
    /\ op[a].at = "stored"
    /\ \/ op' = [op EXCEPT ![a].at = "judge", ![a].stored = stored, ![a].read = TRUE]
       \/ op' = [op EXCEPT ![a].at = "judge"]
    /\ unchangedServer
    /\ UNCHANGED <<calls, disturbed>>

\* The tests of write, in its order; their order decides only which error is shown.
Accepted(o, address) ==
    /\ Offered(o) /\ Window(o) /\ check_console_floor(o) /\ _check_hosts(o, address)
    /\ o.present = "yes" \/ (o.present = "no" /\ o.create)

\* The live values and the address, which ends a GET; then the judgement.
Judge(a) ==
    /\ op[a].at = "judge"
    /\ \E reported \in {live, None}, address \in Address :
        LET o == op[a]
            seen == [o EXCEPT !.verdict = in_force_check(o.stored, reported)] IN
        op' = [op EXCEPT ![a] =
            IF o.sent = <<>> THEN Over(seen, "read")
            ELSE IF Accepted(o, address) THEN [seen EXCEPT !.at = "open"]
            ELSE Idle]
    /\ unchangedServer
    /\ UNCHANGED <<calls, disturbed>>

Disturbing(a) ==
    disturbed' = [b \in Admin |->
        disturbed[b] \/ (b # a /\ op[b] # Idle /\ (stored' # stored \/ exists' # exists))]

\* Mutant of Open: an open that makes no key.
OpenWithoutCreate(a) ==
    /\ op[a].at = "open"
    /\ op' = [op EXCEPT ![a].at = "write", ![a].stored = stored, ![a].todo = op[a].sent]
    /\ UNCHANGED <<mode, reads, text, resolves, exists, stored, live, calls, disturbed>>

\* write_options: the key is made if need be, and its values are read.
Open(a) ==
    /\ op[a].at = "open"
    /\ exists' = TRUE
    /\ op' = [op EXCEPT ![a].at = "write", ![a].stored = stored, ![a].todo = op[a].sent]
    /\ UNCHANGED <<mode, reads, text, resolves, stored, live, calls>>
    /\ Disturbing(a)

Due(o) == o.stored[Head(o.todo)[1]] # Head(o.todo)[2]

\* An option that has its value already is left alone.
Skip(a) ==
    /\ op[a].at = "write" /\ op[a].todo # <<>> /\ ~Due(op[a])
    /\ op' = [op EXCEPT ![a].todo = Tail(@)]
    /\ unchangedServer
    /\ UNCHANGED <<calls, disturbed>>

\* One SetValue or DeleteValue.
Write(a) ==
    /\ op[a].at = "write" /\ op[a].todo # <<>> /\ Due(op[a])
    /\ stored' = [stored EXCEPT ![Head(op[a].todo)[1]] = Head(op[a].todo)[2]]
    /\ \/ op' = [op EXCEPT ![a].todo = Tail(@)]
       \/ op' = [op EXCEPT ![a] = Idle]
    /\ UNCHANGED <<mode, reads, text, resolves, exists, live, calls>>
    /\ Disturbing(a)

\* A call of the worker fails and does nothing.
Fail(a) ==
    /\ op[a].at \in {"sections", "open", "write"}
    /\ op' = [op EXCEPT ![a] = Idle]
    /\ unchangedServer
    /\ UNCHANGED <<calls, disturbed>>

\* _verify: what the server reports now, beside what was written.
Verify(a) ==
    /\ op[a].at = "write" /\ op[a].todo = <<>>
    /\ \E reported \in {live, None} :
        op' = [op EXCEPT ![a] = Over(@,
            IF ~Sends(@, string) \/ reported = None THEN "not_comparable"
            ELSE IF Sent(@, string) = None THEN "not_comparable"
            ELSE IF Sent(@, string) = reported THEN "applied_confirmed"
            ELSE "not_yet_visible")]
    /\ unchangedServer
    /\ UNCHANGED <<calls, disturbed>>

\* The answer is on the screen.
Answer(a) ==
    /\ op[a].at = "over"
    /\ op' = [op EXCEPT ![a] = Idle]
    /\ unchangedServer
    /\ UNCHANGED <<calls, disturbed>>

Next ==
    \/ Reload
    \/ \E a \in Admin :
        \/ Begin(a) \/ ReadSections(a) \/ ReadStored(a) \/ Judge(a)
        \/ Open(a) \/ Skip(a) \/ Write(a) \/ Fail(a) \/ Verify(a) \/ Answer(a)

Spec == Init /\ [][Next]_vars

-------------------------------------------------------------------------------
(* What a change to the global section promises.                             *)

HasType(section) ==
    /\ DOMAIN section = CATALOGUE
    /\ \A o \in CATALOGUE : section[o] = None \/ section[o] \in Value(o)

TypeOK ==
    /\ mode \in Mode
    /\ reads \in BOOLEAN /\ text \in Value(string) /\ resolves \in BOOLEAN /\ exists \in BOOLEAN
    /\ HasType(stored) /\ (~exists => stored = Unset)
    /\ live \in Value(string)
    /\ DOMAIN op = Admin
    /\ \A a \in Admin :
        \/ op[a] = Idle
        \/ op[a] \in [at : {"over"}, verdict : {"none", "undecided", "confirms", "contradicts"},
                      result : {"read", "not_comparable", "applied_confirmed", "not_yet_visible"}]
        \/ /\ op[a].at \in {"sections", "stored", "judge", "open", "write"}
           /\ op[a].sent \in Requests /\ op[a].confirm \in {t \cap About(op[a].sent) : t \in Tokens} /\ op[a].create \in BOOLEAN
           /\ op[a].present \in {"yes", "no", "unknown"} /\ op[a].read \in BOOLEAN
           /\ HasType(op[a].stored)
           /\ op[a].verdict \in {"none", "undecided", "confirms", "contradicts"}
    /\ calls \in 0..MaxCalls /\ disturbed \in [Admin -> BOOLEAN]

\* The calls of a change that nobody disturbed have all been made.
Completed(a) ==
    op[a] # Idle /\ op[a].at = "write" /\ op[a].todo = <<>> /\ ~disturbed[a]

NothingWaived(o) ==
    o.confirm \cap {UNDECIDABLE_CONFIRM_FOR[allow], UNDECIDABLE_CONFIRM_FOR[deny], ADDRESS_UNKNOWN_CONFIRM} = {}

\* A change of the hosts lists that was judged against what is stored, without anything
\* waived, leaves lists that admit this console: whatever names resolve to, whatever
\* an EXCEPT takes away, and though only one list of the pair was sent.  (_check_hosts)
HostsKeepConsole ==
    \A a \in Admin :
        Completed(a) /\ op[a].read /\ NothingWaived(op[a]) /\ (Sends(op[a], allow) \/ Sends(op[a], deny))
            => Admitted(stored)

\* A change that sends a ceiling, or both ends, leaves a window this console gets
\* through.  (check_console_floor, _check_dialect_window)
DialectsKeepConsole ==
    \A a \in Admin :
        Completed(a) /\ Sends(op[a], max) /\ stored[max] # None =>
            /\ stored[max] >= ConsoleFloor
            /\ Sends(op[a], min) /\ stored[min] # None => stored[min] <= stored[max]

\* The console says that the registry is read only of a server that reads it, unless
\* the text file says the same of its own.  (in_force_check: "agreement on the default
\* proves nothing")
ConfirmedIsRead ==
    \A a \in Admin :
        op[a] # Idle /\ op[a].verdict = "confirms" => reads \/ text # Default

-------------------------------------------------------------------------------
(* The inductive strengthening the proofs use.                               *)

UnderWay(o) == o.at \in {"sections", "stored", "judge", "open", "write"}

\* An operation under way has all its fields.
Shaped(o) ==
    UnderWay(o) => DOMAIN o = {"at", "sent", "confirm", "create", "present", "read", "stored", "verdict", "todo"}

\* What a change was judged by, once it may open the section: its own values, and the
\* lists as they will stand.
Judged(a) ==
    op[a].at \in {"open", "write"} =>
        /\ Offered(op[a]) /\ Window(op[a]) /\ check_console_floor(op[a])
        /\ op[a].read /\ ~disturbed[a] => \E address \in Address : _check_hosts(op[a], address)

\* Until it writes, what an undisturbed operation has read is what is stored.
UpToDate(a) ==
    /\ op[a].at \in {"sections", "stored"} => op[a].stored = Unset /\ ~op[a].read
    /\ op[a].at \in {"judge", "open"} /\ op[a].read /\ ~disturbed[a] => op[a].stored = stored

\* While it writes, the options before its todo have what was sent and the others what
\* it read.
Written(a) ==
    LET sent == op[a].sent
        todo == op[a].todo
        n == Len(sent) - Len(todo) IN
    op[a].at = "write" =>
        /\ exists /\ todo \in Seq({sent[i] : i \in DOMAIN sent}) /\ Len(todo) <= Len(sent)
        /\ \A j \in DOMAIN todo : todo[j] = sent[n + j]
        /\ ~disturbed[a] =>
              /\ \A i \in 1..n : stored[sent[i][1]] = sent[i][2]
              /\ \A option \in CATALOGUE :
                    (\A i \in 1..n : sent[i][1] # option) => stored[option] = op[a].stored[option]

ChangeInv == \A a \in Admin : Shaped(op[a]) /\ Judged(a) /\ UpToDate(a) /\ Written(a)

\* A server that does not read the registry reports what its text file comes to.
LiveInv == ~reads => live = text

-------------------------------------------------------------------------------
(* What the comments of the code say, and the code does not do.              *)

\* srv/globalconf.py:1013, "Refuse a floor above the ceiling.  Not a warning": no change
\* that nobody disturbed leaves an empty window in a section that had none.
WindowIsNeverEmpty ==
    \A a \in Admin :
        Completed(a) /\ op[a].read /\ (Sends(op[a], min) \/ Sends(op[a], max))
            /\ stored[min] # None /\ stored[max] # None
            => stored[min] <= stored[max]

===============================================================================
