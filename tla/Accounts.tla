------------------------------- MODULE Accounts -------------------------------
(***************************************************************************)
(* A local account and a local group of a standalone server, and the audit *)
(* trail of the calls that change them (srv/accounts.py,                   *)
(* api/v1/accounts.py, core/audit.py, srv_write of srv/access.py).         *)
(*                                                                         *)
(* SAMR has one call per field: an operation of the console is a list of   *)
(* calls to the server, and the operations of administrators in different  *)
(* sessions interleave between them.  Any call can fail, and a call that   *)
(* failed may have been carried out (the reply was lost).  A request that  *)
(* is given up after its timeout goes on in its worker.                    *)
(***************************************************************************)
EXTENDS Naturals, Sequences, FiniteSets

CONSTANTS
    Admin,          \* signed-in administrators: one worker, one call at a time each
    Text,           \* full_name, description: one call each
    Sid,            \* whom the group may contain
    Sendable,       \* bound: the flags a request sets and clears, as pairs of sets
    MaxCalls,       \* bound: operations begun
    None

ASSUME AccountsAssumption ==
    /\ IsFiniteSet(Admin) /\ IsFiniteSet(Text) /\ IsFiniteSet(Sid)
    /\ \A p \in Sendable : p[1] \cap p[2] = {}
    /\ MaxCalls \in Nat
    /\ None \notin Admin

Flag == {"normal", "disabled", "dont_expire"}

\* What a name stands for.  A name that is deleted and made again has another rid.
Account == [rid : Nat, password : Admin \cup {None}, flags : SUBSET Flag,
            text : [Text -> Admin \cup {None}]]
Gone == [rid |-> 0, password |-> None, flags |-> {}, text |-> [t \in Text |-> None]]

\* What a request sends: texts, the flags to set and those to clear; members.
Sent == [texts : SUBSET Text, set : SUBSET {"disabled", "dont_expire"},
         clear : SUBSET {"disabled", "dont_expire"}, add : SUBSET Sid, remove : SUBSET Sid]

VARIABLES
    standalone, \* the server owns its accounts (not conn.target.uses_kerberos)
    protected,  \* the name is one of PROTECTED_ACCOUNTS
    sam,        \* the account of that name, or Gone
    group,      \* the members of the one group
    made,       \* accounts made so far: the last rid
    op,         \* op[a]: what a's worker is doing, or Idle
    calls,      \* operations begun
    trail,      \* the audit entries, as stdout has them
    file,       \* those of them the audit file has
    degraded,   \* the audit file could not be written once
    disturbed,  \* history: disturbed[a], another changed what a's operation is about
    opened      \* history: an update was asked to enable the account

vars == <<standalone, protected, sam, group, made, op, calls, trail, file, degraded, disturbed, opened>>

Kind == {"create", "update", "password", "delete", "members"}

Idle == [kind |-> "none"]

-------------------------------------------------------------------------------
(* The operations, as the calls they make.                                   *)

\* The elements of a set, in some order: the request lists them.
Listed(S) == CHOOSE q \in [1..Cardinality(S) -> S] : \A s \in S : \E i \in DOMAIN q : q[i] = s

Calls(what, S) == [i \in 1..Cardinality(S) |-> <<what, Listed(S)[i]>>]

\* Mutant of create_user: enabled before it has a password.
create_userEnablingFirst(s) ==
    <<<<"create">>, <<"flags">>, <<"password">>>> \o Calls("text", s.texts)

create_user(s) == <<<<"create">>, <<"password">>, <<"flags">>>> \o Calls("text", s.texts)

update_user(s) ==
    <<<<"lookup">>, <<"read">>>> \o Calls("text", s.texts)
        \o (IF s.set \cup s.clear = {} THEN <<>> ELSE <<<<"flags">>>>)

set_password == <<<<"lookup">>, <<"password">>>>

delete_user == <<<<"lookup">>, <<"delete">>>>

\* Mutant of set_members: the removals come first.
set_membersRemovingFirst(s) == Calls("remove", s.remove) \o Calls("add", s.add)

\* The group is looked up and opened as well; it is always there.
set_members(s) == Calls("add", s.add) \o Calls("remove", s.remove)

Todo(kind, s) ==
    CASE kind = "create" -> create_user(s)
      [] kind = "update" -> update_user(s)
      [] kind = "password" -> set_password
      [] kind = "delete" -> delete_user
      [] kind = "members" -> set_members(s)

\* What the request models let through for each route.
Request(kind) ==
    {s \in Sent :
        /\ <<s.set, s.clear>> \in Sendable
        /\ kind \notin {"create", "update"} => s.texts = {} /\ s.set \cup s.clear = {}
        /\ kind = "create" => s.clear = {}
        /\ kind # "members" => s.add \cup s.remove = {}}

\* Mutant of Flags: what was read is not kept.
FlagsFromNothing(o) == {"normal"} \cup o.sent.set

\* The flags that are sent.  A creation starts from ACB_NORMAL, an update from
\* what it read.
Flags(o) == (o.read \ o.sent.clear) \cup o.sent.set

-------------------------------------------------------------------------------
(* The audit trail.                                                          *)

\* Mutant of Entry: the record goes into the entry as it is.
EntryOfAll(a, result, record) ==
    [admin |-> a, kind |-> op[a].kind, result |-> result, said |-> record]

\* AuditLog.operation takes three keys of the record the handler fills.
Entry(a, result, record) ==
    [admin |-> a, kind |-> op[a].kind, result |-> result,
     said |-> {k \in record : k \in {"changes", "extra", "target"}}]

\* What a handler puts into the record when its operation has succeeded.
Filled(kind) ==
    {"target"} \cup
    CASE kind = "create" -> {"disabled", "password_never_expires"}
      [] kind = "update" -> {"changes"}
      [] kind = "members" -> {"applied"}
      [] OTHER -> {}

\* Mutant of record: a failed write is forgotten.
recordTryingAgain(entry) ==
    /\ trail' = Append(trail, entry)
    /\ \/ file' = Append(file, entry) /\ degraded' = FALSE
       \/ UNCHANGED file /\ degraded' = FALSE

\* AuditLog.record: every entry goes to stdout; the file gets it until it fails once.
record(entry) ==
    /\ trail' = Append(trail, entry)
    /\ \/ ~degraded /\ file' = Append(file, entry) /\ UNCHANGED degraded
       \/ UNCHANGED file /\ degraded' = TRUE

unrecorded == UNCHANGED <<trail, file, degraded>>

-------------------------------------------------------------------------------
Init ==
    /\ standalone \in BOOLEAN
    /\ sam \in {Gone} \cup
          {[rid |-> 1, password |-> p, flags |-> f, text |-> [t \in Text |-> None]] :
              p \in Admin, f \in {{"normal"}, {"normal", "disabled"}}}
    /\ protected \in BOOLEAN /\ (protected => sam # Gone)
    /\ group \in SUBSET Sid
    /\ made = 1
    /\ op = [a \in Admin |-> Idle]
    /\ calls = 0
    /\ trail = <<>> /\ file = <<>> /\ degraded = FALSE
    /\ disturbed = [a \in Admin |-> FALSE]
    /\ opened = FALSE

\* A request reaches the worker.  before is history: what the operation found.
Begin(a) ==
    /\ op[a] = Idle /\ calls < MaxCalls
    /\ calls' = calls + 1
    /\ \E kind \in Kind, s \in UNION {Request(k) : k \in Kind} :
        /\ s \in Request(kind)
        /\ op' = [op EXCEPT ![a] =
              [kind |-> kind, sent |-> s, todo |-> Todo(kind, s), rid |-> 0,
               read |-> {"normal"}, applied |-> {}, failed |-> FALSE, waiting |-> TRUE,
               before |-> [account |-> sam, group |-> group]]]
        /\ opened' = (opened \/ (kind = "update" /\ "disabled" \in s.clear))
    /\ disturbed' = [disturbed EXCEPT ![a] = FALSE]
    /\ UNCHANGED <<standalone, protected, sam, group, made, trail, file, degraded>>

\* Mutant of Finish: an operation that was given up is recorded again at its end.
FinishTwice(a, result) ==
    /\ op' = [op EXCEPT ![a] = Idle]
    /\ record(Entry(a, result, {"target"}))

\* The operation is over.  The handler records it, unless it gave up before.
Finish(a, result) ==
    /\ op' = [op EXCEPT ![a] = Idle]
    /\ IF op[a].waiting
       THEN record(Entry(a, result, IF result = "ok" THEN Filled(op[a].kind) ELSE {"target"}))
       ELSE unrecorded

\* _require_standalone, and the accounts that are not deleted.
Admitted(o) == standalone /\ (o.kind = "delete" => ~protected)

Refuse(a) ==
    /\ op[a] # Idle
    /\ ~Admitted(op[a])
    /\ Finish(a, "error")
    /\ UNCHANGED <<standalone, protected, sam, group, made, calls, disturbed, opened>>

\* The request's timeout: an error for the administrator, nothing for the worker.
GiveUp(a) ==
    /\ op[a] # Idle /\ op[a].waiting
    /\ op' = [op EXCEPT ![a].waiting = FALSE]
    /\ record(Entry(a, "error", {"target"}))
    /\ UNCHANGED <<standalone, protected, sam, group, made, calls, disturbed, opened>>

-------------------------------------------------------------------------------
(* One call to the server.                                                   *)

Running(a) == op[a] # Idle /\ op[a].todo # <<>> /\ Admitted(op[a])

\* The handle of an operation, or its rid, still stands for an account.
Open(o) == sam # Gone /\ sam.rid = o.rid

\* The server can do what the next call asks.
Possible(o) ==
    CASE Head(o.todo)[1] = "create" -> sam = Gone
      [] Head(o.todo)[1] = "lookup" -> sam # Gone
      [] Head(o.todo)[1] = "add" -> Head(o.todo)[2] \notin group
      [] Head(o.todo)[1] = "remove" -> Head(o.todo)[2] \in group
      [] OTHER -> Open(o)

\* What carrying out the next call makes of the account.
Changed(a, o) ==
    CASE Head(o.todo)[1] = "create" ->
            [rid |-> made + 1, password |-> None, flags |-> {"normal", "disabled"},
             text |-> [t \in Text |-> None]]
      [] Head(o.todo)[1] = "password" -> [sam EXCEPT !.password = a]
      [] Head(o.todo)[1] = "flags" -> [sam EXCEPT !.flags = Flags(o)]
      [] Head(o.todo)[1] = "text" -> [sam EXCEPT !.text[Head(o.todo)[2]] = a]
      [] Head(o.todo)[1] \in {"delete", "rollback"} -> Gone
      [] OTHER -> sam

Members(o) ==
    CASE Head(o.todo)[1] = "add" -> group \cup {Head(o.todo)[2]}
      [] Head(o.todo)[1] = "remove" -> group \ {Head(o.todo)[2]}
      [] OTHER -> group

\* The server carries the next call out.
Carried(a) ==
    LET o == op[a] IN
    /\ Possible(o)
    /\ sam' = Changed(a, o)
    /\ group' = Members(o)
    /\ made' = IF Head(o.todo)[1] = "create" THEN made + 1 ELSE made
    /\ disturbed' = [b \in Admin |->
          disturbed[b] \/ (/\ b # a /\ op[b] # Idle
                           /\ sam' # sam \/ group' # group)]

\* What the operation learns from the answer.
Learnt(o) ==
    CASE Head(o.todo)[1] = "create" -> [o EXCEPT !.rid = made + 1]
      [] Head(o.todo)[1] = "lookup" -> [o EXCEPT !.rid = sam.rid]
      [] Head(o.todo)[1] = "read" -> [o EXCEPT !.read = sam.flags]
      [] Head(o.todo)[1] \in {"add", "remove"} -> [o EXCEPT !.applied = @ \cup {Head(o.todo)}]
      [] OTHER -> o

Advanced(o) == [Learnt(o) EXCEPT !.todo = Tail(o.todo)]

Answered(a) ==
    /\ Running(a) /\ Carried(a)
    /\ op' = [op EXCEPT ![a] = Advanced(op[a])]
    /\ unrecorded
    /\ UNCHANGED <<standalone, protected, calls, opened>>

\* already_member, not_a_member: the state asked for is reached either way.
Skipped(a) ==
    /\ Running(a) /\ Head(op[a].todo)[1] \in {"add", "remove"} /\ ~Possible(op[a])
    /\ op' = [op EXCEPT ![a].todo = Tail(@)]
    /\ unrecorded
    /\ UNCHANGED <<standalone, protected, sam, group, made, calls, disturbed, opened>>

\* Mutant of RollsBack: only a refused password is worth it.
RollsBackPassword(o) == o.kind = "create" /\ Head(o.todo)[1] = "password"

\* A creation that has its handle takes the account back.
RollsBack(o) == o.kind = "create" /\ Head(o.todo)[1] \notin {"create", "rollback"}

\* A call fails: it was not carried out, or its answer was lost.
Failed(a) ==
    /\ Running(a)
    /\ Carried(a) \/ UNCHANGED <<sam, group, made, disturbed>>
    /\ IF RollsBack(op[a])
       THEN op' = [op EXCEPT ![a].todo = <<<<"rollback">>>>, ![a].failed = TRUE] /\ unrecorded
       ELSE Finish(a, "error")
    /\ UNCHANGED <<standalone, protected, calls, opened>>

\* Nothing is left to do; after a rollback that is an error all the same.
Done(a) ==
    /\ op[a] # Idle /\ op[a].todo = <<>> /\ Admitted(op[a])
    /\ Finish(a, IF op[a].failed THEN "error" ELSE "ok")
    /\ UNCHANGED <<standalone, protected, sam, group, made, calls, disturbed, opened>>

Next ==
    \E a \in Admin :
        \/ Begin(a) \/ Refuse(a) \/ GiveUp(a)
        \/ Answered(a) \/ Skipped(a) \/ Failed(a) \/ Done(a)

Spec == Init /\ [][Next]_vars

-------------------------------------------------------------------------------
(* What the account routes promise.                                          *)

Step ==
    {<<c>> : c \in {"create", "lookup", "read", "password", "flags", "delete", "rollback"}}
        \cup {"text"} \X Text \cup {"add", "remove"} \X Sid

Operation ==
    [kind : Kind, sent : Sent, todo : Seq(Step),
     rid : Nat, read : SUBSET Flag, applied : SUBSET ({"add", "remove"} \X Sid),
     failed : BOOLEAN, waiting : BOOLEAN,
     before : [account : Account, group : SUBSET Sid]]

AuditEntry ==
    [admin : Admin, kind : Kind, result : {"ok", "error"},
     said : SUBSET {"changes", "extra", "target"}]

TypeOK ==
    /\ standalone \in BOOLEAN
    /\ protected \in BOOLEAN /\ sam \in Account /\ group \in SUBSET Sid /\ made \in Nat
    /\ op \in [Admin -> Operation \cup {Idle}]
    /\ calls \in 0..MaxCalls
    /\ trail \in Seq(AuditEntry) /\ file \in Seq(AuditEntry) /\ degraded \in BOOLEAN
    /\ disturbed \in [Admin -> BOOLEAN] /\ opened \in BOOLEAN

\* However operations interleave and fail, no account is usable without a password,
\* unless an update was asked to enable it.  (accounts.create_user: "an account that
\* existed for a moment with an empty password and login enabled".)
NoOpenDoor ==
    ~opened /\ sam # Gone /\ sam.password = None => "disabled" \in sam.flags

\* A creation that ends in an error after its account was made has either taken the
\* account back or failed to: it never just leaves it.
HalfMadeIsTakenBack ==
    [][\A a \in Admin :
        op[a] # Idle /\ op'[a] = Idle =>
            (op[a].kind = "create" /\ op[a].rid # 0 /\ sam'.rid = op[a].rid
                => \/ op[a].todo = <<>> /\ ~op[a].failed
                   \/ op[a].todo = <<<<"rollback">>>>)]_vars

\* An operation nobody disturbed that is reported as done has done exactly what was
\* sent, and nothing else.
Asked(a, o) ==
    LET was == o.before.account IN
    CASE o.kind = "create" ->
            [rid |-> o.rid, password |-> a, flags |-> {"normal"} \cup o.sent.set,
             text |-> [t \in Text |-> IF t \in o.sent.texts THEN a ELSE None]]
      [] o.kind = "update" ->
            [was EXCEPT !.flags = (@ \ o.sent.clear) \cup o.sent.set,
                        !.text = [t \in Text |-> IF t \in o.sent.texts THEN a ELSE @[t]]]
      [] o.kind = "password" -> [was EXCEPT !.password = a]
      [] o.kind = "delete" -> Gone
      [] o.kind = "members" -> was

ReportedIsDone ==
    [][\A a \in Admin :
        (/\ op[a] # Idle /\ op'[a] = Idle /\ ~disturbed[a]
         /\ Len(trail') > Len(trail) /\ trail'[Len(trail')].result = "ok")
        => /\ sam = Asked(a, op[a])
           /\ group = (op[a].before.group \cup op[a].sent.add) \ op[a].sent.remove]_vars

\* The audit file has every entry up to the one it lost: a reader who finds a later
\* one misses none before it.
AuditFileHasNoGaps == file = SubSeq(trail, 1, Len(file)) /\ (~degraded => file = trail)

\* Every operation is on record once: when it ended or when it was given up,
\* whichever came first.
RecordedOnce == Len(trail) + Cardinality({a \in Admin : op[a] # Idle /\ op[a].waiting}) = calls

-------------------------------------------------------------------------------
(* The inductive strengthening the proofs use.                               *)

\* The order of an operation's calls: flags are read before they are written, and a
\* creation writes them directly after the password.
InOrder(o) ==
    /\ o.failed => o.todo = <<>> \/ o.todo = <<<<"rollback">>>>
    /\ \A i \in DOMAIN o.todo :
        /\ o.todo[i][1] = "create" => i = 1 /\ o.rid = 0 /\ o.kind = "create"
        /\ o.todo[i][1] = "lookup" =>
              i = 1 /\ o.kind # "create" /\ (o.kind = "update" => 2 \in DOMAIN o.todo /\ o.todo[2][1] = "read")
        /\ o.todo[i][1] = "read" => i = 1 \/ (i = 2 /\ o.todo[1][1] = "lookup")
        /\ o.todo[i][1] = "flags" =>
              o.kind \in {"create", "update"} /\ (o.kind = "create" /\ i # 1 => o.todo[i - 1][1] = "password")
        /\ o.todo[i][1] = "rollback" => o.todo = <<<<"rollback">>>>

\* What an operation that has its account knows of it: a creation about to write the
\* flags has set a password, an update that has read the flags knows an account
\* without one to be disabled, and a creation that was taken back is gone.
Knows(o) ==
    /\ o.rid \in 0..made
    /\ o.rid # 0 => standalone
    /\ Open(o) /\ o.kind = "create" /\ o.todo # <<>> /\ Head(o.todo)[1] = "flags" => sam.password # None
    /\ ~opened /\ Open(o) /\ o.kind = "update" /\ (\A i \in DOMAIN o.todo : o.todo[i][1] # "read")
          => sam.password # None \/ "disabled" \in o.read
    /\ o.failed /\ o.todo = <<>> /\ o.rid # 0 => sam.rid # o.rid

DoorInv ==
    /\ sam = Gone \/ sam.rid \in 1..made
    /\ \A a \in Admin : op[a] # Idle =>
          /\ InOrder(op[a]) /\ Knows(op[a])
          /\ op[a].kind = "update" /\ "disabled" \in op[a].sent.clear => opened

\* The calls of an operation, in no order, and those it still has to make.
CallsOf(kind, s) ==
    {<<c>> : c \in CASE kind = "create" -> {"create", "password", "flags"}
                     [] kind = "update" ->
                            {"lookup", "read"} \cup {c \in {"flags"} : s.set \cup s.clear # {}}
                     [] kind = "password" -> {"lookup", "password"}
                     [] kind = "delete" -> {"lookup", "delete"}
                     [] kind = "members" -> {}}
        \cup {"text"} \X s.texts \cup {"add"} \X s.add \cup {"remove"} \X s.remove

Left(o) == {o.todo[i] : i \in DOMAIN o.todo}

\* An operation goes by what was sent: members are added before any is removed, an
\* account is made before anything else, flags are those that were read.
ByRequest(o) ==
    /\ o.sent \in Request(o.kind) /\ Left(o) \subseteq CallsOf(o.kind, o.sent)
    /\ \A i, j \in DOMAIN o.todo : o.todo[i][1] = "add" /\ o.todo[j][1] = "remove" => i < j
    /\ <<"create">> \in Left(o) => Left(o) = CallsOf(o.kind, o.sent)
    /\ o.kind = "create" => o.read = {"normal"}
    /\ o.kind = "update" =>
          IF <<"read">> \in Left(o) THEN sam.flags = o.before.account.flags
          ELSE o.read = o.before.account.flags

\* Whatever it does not still have to do to the account is as asked.
AccountSoFar(a, o) ==
    LET asked == Asked(a, o) IN
    /\ o.kind \in {"create", "update", "password"} /\ <<"create">> \notin Left(o) =>
          /\ sam.rid = asked.rid
          /\ <<"password">> \notin Left(o) => sam.password = asked.password
          /\ <<"flags">> \notin Left(o) => sam.flags = asked.flags
          /\ \A t \in Text : <<"text", t>> \notin Left(o) => sam.text[t] = asked.text[t]
    /\ o.kind = "delete" /\ <<"delete">> \notin Left(o) => sam = Gone
    /\ o.kind = "members" => sam = o.before.account

\* The same of each member of the group.
GroupSoFar(o) ==
    \A m \in Sid :
        /\ m \notin o.sent.add \cup o.sent.remove => (m \in group <=> m \in o.before.group)
        /\ m \in o.sent.add \ o.sent.remove /\ <<"add", m>> \notin Left(o) => m \in group
        /\ m \in o.sent.remove /\ <<"remove", m>> \notin Left(o) =>
              m \notin group /\ \A c \in Left(o) : c[1] # "add"

SoFarInv ==
    \A a \in Admin : op[a] # Idle /\ ~op[a].failed /\ ~disturbed[a] =>
        ByRequest(op[a]) /\ AccountSoFar(a, op[a]) /\ GroupSoFar(op[a])

-------------------------------------------------------------------------------
(* What the comments of the code say, and the code does not do.              *)

\* srv/accounts.py:317, "Change an account. Only what was sent is changed": when an update
\* writes flags, the ones it was not sent keep the value they have, also when another
\* administrator changes the account at the same time.
OnlyWhatWasSent ==
    [][\A a \in Admin :
        (op[a] # Idle /\ op'[a] # op[a] /\ \A b \in Admin : op[b] # Idle => op[b].kind = "update") =>
            LET kept == Flag \ (op[a].sent.set \cup op[a].sent.clear) IN
            sam' # Gone => sam'.flags \cap kept = sam.flags \cap kept]_vars

\* core/audit.py:4, the trail keeps "which attributes changed": an entry of a change of
\* members that succeeded says which.
TrailNamesMembers ==
    \A i \in DOMAIN trail :
        trail[i].kind = "members" /\ trail[i].result = "ok" => trail[i].said \ {"target"} # {}

===============================================================================
