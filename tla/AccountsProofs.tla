---------------------------- MODULE AccountsProofs -----------------------------
(* Proofs about Accounts: that no account is left usable without a password,  *)
(* that a half-made one is taken back, and what the audit trail and its file  *)
(* have, for any number of administrators and operations.                     *)
EXTENDS Accounts, FiniteSetTheorems, SequenceTheorems, TLAPS

(***************************************************************************)
(* The calls an operation is made of.                                      *)
(***************************************************************************)
\* A call is told by its name, and names a text or a member where it has one.
LEMMA StepParts ==
  ASSUME NEW x \in Step
  PROVE  /\ x[1] \in {"create", "lookup", "read", "password", "flags", "delete", "rollback",
                      "text", "add", "remove"}
         /\ x[1] = "text" => x[2] \in Text
         /\ x[1] \in {"add", "remove"} => x[2] \in Sid /\ x \in {"add", "remove"} \X Sid
         /\ x[1] = "rollback" => x = <<"rollback">>
<1>1. CASE x \in {<<c>> : c \in {"create", "lookup", "read", "password", "flags", "delete", "rollback"}}
  BY <1>1
<1>2. CASE x \in {"text"} \X Text
  BY <1>2
<1>3. CASE x \in {"add", "remove"} \X Sid
  BY <1>3
<1> QED BY <1>1, <1>2, <1>3 DEF Step

\* The elements of a finite set can be listed.
LEMMA ListedElements ==
  ASSUME NEW S, IsFiniteSet(S)
  PROVE  /\ Cardinality(S) \in Nat
         /\ \A i \in 1..Cardinality(S) : Listed(S)[i] \in S
<1>1. Cardinality(S) \in Nat
  BY FS_CardinalityType
<1>2. ExistsBijection(1..Cardinality(S), S)
  BY FS_CardinalityType, FS_CountingElements
<1>3. PICK f \in Bijection(1..Cardinality(S), S) : TRUE
  BY <1>2 DEF ExistsBijection
<1>4. /\ f \in [1..Cardinality(S) -> S]
      /\ \A s \in S : \E i \in DOMAIN f : f[i] = s
  BY <1>3 DEF Bijection, Injection, Surjection
<1>5. Listed(S) \in [1..Cardinality(S) -> S]
  BY <1>4 DEF Listed
<1> QED BY <1>1, <1>5

\* One call per element.
LEMMA CallsAreSteps ==
  ASSUME NEW S, IsFiniteSet(S), NEW what,
         \/ what = "text" /\ S \subseteq Text
         \/ what \in {"add", "remove"} /\ S \subseteq Sid
  PROVE  /\ Calls(what, S) \in Seq(Step)
         /\ \A i \in DOMAIN Calls(what, S) : Calls(what, S)[i][1] = what
<1>1. Cardinality(S) \in Nat /\ \A i \in 1..Cardinality(S) : Listed(S)[i] \in S
  BY ListedElements
<1>2. \A i \in 1..Cardinality(S) : <<what, Listed(S)[i]>> \in Step
  BY <1>1 DEF Step
<1> QED BY <1>1, <1>2, IsASeq DEF Calls

\* An element of two sequences after one another is one of either.
LEMMA ConcatElements ==
  ASSUME NEW S, NEW p \in Seq(S), NEW q \in Seq(S), NEW i \in DOMAIN (p \o q)
  PROVE  \/ i \in DOMAIN p /\ (p \o q)[i] = p[i]
         \/ i \notin DOMAIN p /\ i - Len(p) \in DOMAIN q /\ (p \o q)[i] = q[i - Len(p)]
OBVIOUS

LEMMA ConcatBegins ==
  ASSUME NEW S, NEW p \in Seq(S), NEW q \in Seq(S), Len(p) = 2
  PROVE  /\ 1 \in DOMAIN (p \o q) /\ (p \o q)[1] = p[1]
         /\ 2 \in DOMAIN (p \o q) /\ (p \o q)[2] = p[2]
<1>1. Len(p) \in Nat /\ Len(q) \in Nat
  OBVIOUS
<1>2. p \o q \in Seq(S) /\ Len(p \o q) = Len(p) + Len(q)
  BY ConcatProperties
<1>3. DOMAIN (p \o q) = 1..Len(p \o q)
  BY <1>2
<1>4. \A i \in 1..Len(p) + Len(q) : (p \o q)[i] = IF i <= Len(p) THEN p[i] ELSE q[i - Len(p)]
  BY ConcatProperties
<1>5. 1 \in 1..Len(p) + Len(q) /\ 2 \in 1..Len(p) + Len(q) /\ 1 <= Len(p) /\ 2 <= Len(p)
  BY <1>1
<1> QED BY <1>2, <1>3, <1>4, <1>5

\* The order of the calls of an operation that begins.
Begins(kind, q) ==
  \A i \in DOMAIN q :
      /\ q[i][1] = "create" => i = 1 /\ kind = "create"
      /\ q[i][1] = "lookup" =>
            i = 1 /\ kind # "create" /\ (kind = "update" => 2 \in DOMAIN q /\ q[2][1] = "read")
      /\ q[i][1] = "read" => i = 2 /\ q[1][1] = "lookup"
      /\ q[i][1] = "flags" =>
            kind \in {"create", "update"} /\ (kind = "create" => i # 1 /\ q[i - 1][1] = "password")
      /\ q[i][1] # "rollback"

\* The calls of an operation that begins, and their order.
LEMMA TodoInOrder ==
  ASSUME NEW kind \in Kind, NEW s \in Sent
  PROVE  Todo(kind, s) \in Seq(Step) /\ Begins(kind, Todo(kind, s))
<1> DEFINE q == Todo(kind, s)
<1>0. /\ s.texts \subseteq Text /\ s.add \subseteq Sid /\ s.remove \subseteq Sid
      /\ IsFiniteSet(s.texts) /\ IsFiniteSet(s.add) /\ IsFiniteSet(s.remove)
  <2>1. s.texts \subseteq Text /\ s.add \subseteq Sid /\ s.remove \subseteq Sid
    BY DEF Sent
  <2> QED BY <2>1, AccountsAssumption, FS_Subset DEF AccountsAssumption
<1>a. \A c \in {"create", "lookup", "read", "password", "flags", "delete", "rollback"} : <<c>> \in Step
  BY DEF Step
<1> DEFINE texts == Calls("text", s.texts)
<1>b. texts \in Seq(Step) /\ \A i \in DOMAIN texts : texts[i][1] = "text"
  BY <1>0, CallsAreSteps
<1>1. CASE kind = "create"
  <2> DEFINE first == <<<<"create">>, <<"password">>, <<"flags">>>>
  <2>1. first \in Seq(Step) /\ Len(first) = 3 /\ DOMAIN first = 1..3
    BY <1>a
  <2>2. q = first \o texts
    BY <1>1 DEF Todo, create_user
  <2>3. q \in Seq(Step)
    BY <1>b, <2>1, <2>2
  <2>4. ASSUME NEW i \in DOMAIN q
        PROVE  \/ i = 1 /\ q[i][1] = "create"
               \/ i = 2 /\ q[i][1] = "password"
               \/ i = 3 /\ q[i][1] = "flags"
               \/ q[i][1] = "text"
    <3>1. \/ i \in DOMAIN first /\ q[i] = first[i]
          \/ i - Len(first) \in DOMAIN texts /\ q[i] = texts[i - Len(first)]
      <4> HIDE DEF first, texts, q
      <4> QED BY <2>1, <2>2, <2>4, <1>b, ConcatElements
    <3>2. CASE i \in DOMAIN first /\ q[i] = first[i]
      BY <2>1, <3>2
    <3>3. CASE i - Len(first) \in DOMAIN texts /\ q[i] = texts[i - Len(first)]
      BY <1>b, <3>3
    <3> QED BY <3>1, <3>2, <3>3
  <2>5. 3 \in DOMAIN q => 2 \in DOMAIN q /\ q[2][1] = "password"
    <3>1. 3 \in DOMAIN q => 2 \in DOMAIN q
      <4> HIDE DEF q
      <4> QED BY <2>3
    <3> QED BY <2>1, <2>2, <1>b, <3>1
  <2> HIDE DEF q, first, texts
  <2> QED BY <1>1, <2>3, <2>4, <2>5 DEF q, Begins
<1>2. CASE kind = "update"
  <2> DEFINE first == <<<<"lookup">>, <<"read">>>>
             last == IF s.set \cup s.clear = {} THEN <<>> ELSE <<<<"flags">>>>
  <2>1. first \in Seq(Step) /\ Len(first) = 2 /\ DOMAIN first = 1..2
    BY <1>a
  <2>2. last \in Seq(Step) /\ \A i \in DOMAIN last : last[i][1] = "flags"
    BY <1>a
  <2>3. q = (first \o texts) \o last
    BY <1>2 DEF Todo, update_user
  <2>4. q \in Seq(Step) /\ first \o texts \in Seq(Step)
    BY <1>b, <2>1, <2>2, <2>3
  <2>5. ASSUME NEW i \in DOMAIN (first \o texts)
        PROVE  \/ i = 1 /\ (first \o texts)[i][1] = "lookup"
               \/ i = 2 /\ (first \o texts)[i][1] = "read"
               \/ (first \o texts)[i][1] = "text"
    <3>1. \/ i \in DOMAIN first /\ (first \o texts)[i] = first[i]
          \/ i - Len(first) \in DOMAIN texts /\ (first \o texts)[i] = texts[i - Len(first)]
      <4> HIDE DEF first, texts
      <4> QED BY <2>1, <1>b, <2>5, ConcatElements
    <3>2. CASE i \in DOMAIN first /\ (first \o texts)[i] = first[i]
      BY <2>1, <3>2
    <3>3. CASE i - Len(first) \in DOMAIN texts /\ (first \o texts)[i] = texts[i - Len(first)]
      BY <1>b, <3>3
    <3> QED BY <3>1, <3>2, <3>3
  <2>6. ASSUME NEW i \in DOMAIN q
        PROVE  \/ i = 1 /\ q[i][1] = "lookup"
               \/ i = 2 /\ q[i][1] = "read"
               \/ q[i][1] \in {"text", "flags"}
    <3>1. \/ i \in DOMAIN (first \o texts) /\ q[i] = (first \o texts)[i]
          \/ i - Len(first \o texts) \in DOMAIN last /\ q[i] = last[i - Len(first \o texts)]
      <4> HIDE DEF first, texts, last, q
      <4> QED BY <2>2, <2>3, <2>4, <2>6, ConcatElements
    <3> HIDE DEF first, texts, last, q
    <3> QED BY <2>2, <2>5, <3>1
  <2>7. 1 \in DOMAIN q /\ q[1][1] = "lookup" /\ 2 \in DOMAIN q /\ q[2][1] = "read"
    <3>1. /\ 1 \in DOMAIN (first \o texts) /\ (first \o texts)[1] = first[1]
          /\ 2 \in DOMAIN (first \o texts) /\ (first \o texts)[2] = first[2]
      <4> HIDE DEF first, texts
      <4> QED BY <2>1, <1>b, ConcatBegins
    <3>2. first[1] = <<"lookup">> /\ first[2] = <<"read">>
      OBVIOUS
    <3>3. /\ 1 \in DOMAIN q /\ q[1] = (first \o texts)[1]
          /\ 2 \in DOMAIN q /\ q[2] = (first \o texts)[2]
      <4> HIDE DEF first, texts, last, q
      <4> QED BY <2>2, <2>3, <2>4, <3>1
    <3> HIDE DEF first, texts, last, q
    <3> QED BY <3>1, <3>2, <3>3
  <2> HIDE DEF q, first, texts, last
  <2> QED BY <1>2, <2>4, <2>6, <2>7 DEF q, Begins
<1>3. CASE kind \in {"password", "delete"}
  <2>1. q = IF kind = "password" THEN <<<<"lookup">>, <<"password">>>> ELSE <<<<"lookup">>, <<"delete">>>>
    BY <1>3 DEF Todo, set_password, delete_user
  <2>2. q \in Seq(Step)
    BY <1>a, <1>3, <2>1
  <2> QED BY <1>3, <2>1, <2>2 DEF Begins
<1>4. CASE kind = "members"
  <2> DEFINE in == Calls("add", s.add)
             out == Calls("remove", s.remove)
  <2>1. in \in Seq(Step) /\ \A i \in DOMAIN in : in[i][1] = "add"
    BY <1>0, CallsAreSteps
  <2>2. out \in Seq(Step) /\ \A i \in DOMAIN out : out[i][1] = "remove"
    BY <1>0, CallsAreSteps
  <2>3. q = in \o out
    BY <1>4 DEF Todo, set_members
  <2> HIDE DEF in, out, q
  <2>4. q \in Seq(Step)
    BY <2>1, <2>2, <2>3
  <2>5. \A i \in DOMAIN q : q[i][1] \in {"add", "remove"}
    BY <2>1, <2>2, <2>3, ConcatElements
  <2> QED BY <1>4, <2>4, <2>5 DEF q, Begins
<1> QED BY <1>1, <1>2, <1>3, <1>4 DEF Kind

(***************************************************************************)
(* Types.                                                                  *)
(***************************************************************************)
LEMMA AtWork ==
  ASSUME TypeOK, NEW a \in Admin
  PROVE  /\ op[a] # Idle => op[a] \in Operation
         /\ Running(a) => /\ op[a] \in Operation /\ Head(op[a].todo) \in Step
                          /\ Tail(op[a].todo) \in Seq(Step)
         /\ op[a] \in Operation => op[a].kind \in Kind /\ op[a] # Idle
<1>1. op[a] \in Operation \cup {Idle}
  BY DEF TypeOK
<1>2. op[a] \in Operation => op[a].kind \in Kind /\ op[a].todo \in Seq(Step)
  BY DEF Operation
<1>3. Idle.kind \notin Kind
  BY DEF Idle, Kind
<1>4. \A q \in Seq(Step) : q # <<>> => Head(q) \in Step /\ Tail(q) \in Seq(Step)
  OBVIOUS
<1> QED BY <1>1, <1>2, <1>3, <1>4 DEF Running

LEMMA RecordType ==
  ASSUME TypeOK, NEW entry \in AuditEntry, record(entry)
  PROVE  /\ trail' \in Seq(AuditEntry) /\ file' \in Seq(AuditEntry) /\ degraded' \in BOOLEAN
         /\ Len(trail') = Len(trail) + 1
<1>1. trail \in Seq(AuditEntry) /\ file \in Seq(AuditEntry) /\ degraded \in BOOLEAN
  BY DEF TypeOK
<1>2. /\ Append(trail, entry) \in Seq(AuditEntry) /\ Len(Append(trail, entry)) = Len(trail) + 1
      /\ Append(file, entry) \in Seq(AuditEntry)
  BY <1>1, AppendProperties
<1> QED BY <1>1, <1>2 DEF record

LEMMA EntryType ==
  ASSUME TypeOK, NEW a \in Admin, op[a] # Idle, NEW result \in {"ok", "error"}, NEW said
  PROVE  Entry(a, result, said) \in AuditEntry
<1>1. op[a].kind \in Kind
  BY AtWork
<1> QED BY <1>1 DEF Entry, AuditEntry

\* An operation that ends leaves one entry, unless it was given up before.
LEMMA FinishType ==
  ASSUME TypeOK, NEW a \in Admin, op[a] # Idle, NEW result \in {"ok", "error"}, Finish(a, result)
  PROVE  /\ trail' \in Seq(AuditEntry) /\ file' \in Seq(AuditEntry) /\ degraded' \in BOOLEAN
         /\ op' \in [Admin -> Operation \cup {Idle}]
         /\ op'[a] = Idle /\ \A b \in Admin \ {a} : op'[b] = op[b]
         /\ Len(trail') = Len(trail) + (IF op[a].waiting THEN 1 ELSE 0)
<1>1. op' = [op EXCEPT ![a] = Idle] /\ op \in [Admin -> Operation \cup {Idle}]
  BY DEF Finish, TypeOK
<1>2. CASE op[a].waiting
  <2>1. PICK entry \in AuditEntry : record(entry)
    BY <1>2, EntryType DEF Finish
  <2> QED BY <1>1, <1>2, <2>1, RecordType
<1>3. CASE ~op[a].waiting
  <2>1. UNCHANGED <<trail, file, degraded>>
    BY <1>3 DEF Finish, unrecorded
  <2>2. trail \in Seq(AuditEntry) /\ file \in Seq(AuditEntry) /\ degraded \in BOOLEAN
    BY DEF TypeOK
  <2> QED BY <1>1, <1>3, <2>1, <2>2
<1> QED BY <1>2, <1>3

LEMMA CarriedType ==
  ASSUME TypeOK, NEW a \in Admin, Running(a), Carried(a)
  PROVE  /\ sam' \in Account /\ group' \in SUBSET Sid
         /\ made' \in Nat /\ made' \in {made, made + 1}
         /\ disturbed' \in [Admin -> BOOLEAN]
<1> DEFINE o == op[a]
           c == Head(o.todo)
<1>1. o \in Operation /\ c \in Step
  BY AtWork
<1>2. /\ sam \in Account /\ group \in SUBSET Sid /\ made \in Nat
      /\ disturbed \in [Admin -> BOOLEAN]
  BY DEF TypeOK
<1>3. Flags(o) \in SUBSET Flag
  BY <1>1 DEF Operation, Sent, Flags, Flag
<1>4. sam' = Changed(a, o) /\ group' = Members(o)
  BY DEF Carried
<1>5. sam' \in Account
  <2>1. CASE c[1] = "create"
    BY <1>2, <1>4, <2>1 DEF Changed, Account, Flag
  <2>2. CASE c[1] = "password"
    BY <1>2, <1>4, <2>2 DEF Changed, Account
  <2>3. CASE c[1] = "flags"
    BY <1>2, <1>3, <1>4, <2>3 DEF Changed, Account
  <2>4. CASE c[1] = "text"
    <3>1. sam' = [sam EXCEPT !.text[c[2]] = a] /\ c[2] \in Text
      BY <1>1, <1>4, <2>4, StepParts DEF Changed
    <3> QED BY <1>2, <3>1 DEF Account
  <2>5. CASE c[1] \in {"delete", "rollback"}
    <3>1. sam' = Gone
      BY <1>4, <2>5 DEF Changed
    <3> QED BY <3>1 DEF Gone, Account
  <2>6. CASE c[1] \notin {"create", "password", "flags", "text", "delete", "rollback"}
    BY <1>2, <1>4, <2>6 DEF Changed
  <2> QED BY <2>1, <2>2, <2>3, <2>4, <2>5, <2>6
<1>6. group' \in SUBSET Sid
  <2>1. c[1] \in {"add", "remove"} => c[2] \in Sid
    BY <1>1, StepParts
  <2> QED BY <1>2, <1>4, <2>1 DEF Members
<1>7. made' \in Nat /\ made' \in {made, made + 1}
  BY <1>2 DEF Carried
<1>8. disturbed' \in [Admin -> BOOLEAN]
  BY <1>2 DEF Carried
<1> QED BY <1>5, <1>6, <1>7, <1>8

LEMMA LearntKeeps ==
  ASSUME TypeOK, NEW a \in Admin, Running(a)
  PROVE  /\ Learnt(op[a]) \in Operation /\ Learnt(op[a]).todo = op[a].todo
         /\ Learnt(op[a]).waiting = op[a].waiting
<1> DEFINE o == op[a]
           c == Head(o.todo)
<1>1. o \in Operation /\ c \in Step /\ Tail(o.todo) \in Seq(Step)
  BY AtWork
<1>2. /\ made + 1 \in Nat /\ sam.rid \in Nat /\ sam.flags \in SUBSET Flag
  BY DEF TypeOK, Account
<1>3. c[1] \in {"add", "remove"} => c \in {"add", "remove"} \X Sid
  BY <1>1, StepParts
<1>4. Learnt(o) \in Operation /\ Learnt(o).todo = o.todo /\ Learnt(o).waiting = o.waiting
  <2>1. CASE c[1] = "create"
    BY <1>1, <1>2, <2>1 DEF Learnt, Operation
  <2>2. CASE c[1] = "lookup"
    BY <1>1, <1>2, <2>2 DEF Learnt, Operation
  <2>3. CASE c[1] = "read"
    BY <1>1, <1>2, <2>3 DEF Learnt, Operation
  <2>4. CASE c[1] \in {"add", "remove"}
    BY <1>1, <1>3, <2>4 DEF Learnt, Operation
  <2>5. CASE c[1] \notin {"create", "lookup", "read", "add", "remove"}
    BY <1>1, <2>5 DEF Learnt
  <2> QED BY <2>1, <2>2, <2>3, <2>4, <2>5
<1> QED BY <1>4

LEMMA LearntType ==
  ASSUME TypeOK, NEW a \in Admin, Running(a)
  PROVE  Advanced(op[a]) \in Operation
<1>1. Tail(op[a].todo) \in Seq(Step)
  BY AtWork
<1> QED BY <1>1, LearntKeeps DEF Advanced, Operation

LEMMA InitTypeOK == Init => TypeOK
<1> SUFFICES ASSUME Init PROVE TypeOK
  OBVIOUS
<1>1. sam \in Account
  <2>1. Gone \in Account
    BY DEF Gone, Account
  <2> QED BY <2>1 DEF Init, Account, Flag
<1>2. protected \in BOOLEAN
  BY DEF Init
<1>3. trail \in Seq(AuditEntry) /\ file \in Seq(AuditEntry)
  BY DEF Init
<1>4. calls \in 0..MaxCalls
  BY AccountsAssumption DEF Init, AccountsAssumption
<1>5. disturbed \in [Admin -> BOOLEAN]
  BY DEF Init
<1>6. op \in [Admin -> Operation \cup {Idle}]
  BY DEF Init
<1>7. standalone \in BOOLEAN /\ group \in SUBSET Sid /\ made \in Nat
  <2>1. standalone \in BOOLEAN /\ group \in SUBSET Sid /\ made = 1
    BY DEF Init
  <2> QED BY <2>1
<1>8. degraded \in BOOLEAN /\ opened \in BOOLEAN
  <2>1. degraded = FALSE /\ opened = FALSE
    BY DEF Init
  <2> QED BY <2>1
<1> QED BY <1>1, <1>2, <1>3, <1>4, <1>5, <1>6, <1>7, <1>8 DEF TypeOK

LEMMA BeginType ==
  ASSUME TypeOK, NEW a \in Admin, Begin(a)
  PROVE  TypeOK'
<1>1. PICK kind \in Kind, s \in UNION {Request(k) : k \in Kind} :
        op' = [op EXCEPT ![a] =
              [kind |-> kind, sent |-> s, todo |-> Todo(kind, s), rid |-> 0,
               read |-> {"normal"}, applied |-> {}, failed |-> FALSE, waiting |-> TRUE,
               before |-> [account |-> sam, group |-> group]]]
        /\ opened' = (opened \/ (kind = "update" /\ "disabled" \in s.clear))
  BY DEF Begin
<1>2. s \in Sent
  BY DEF Request
<1>3. Todo(kind, s) \in Seq(Step)
  BY <1>2, TodoInOrder
<1>4. sam \in Account /\ group \in SUBSET Sid /\ op \in [Admin -> Operation \cup {Idle}]
  BY DEF TypeOK
<1>5. op' \in [Admin -> Operation \cup {Idle}]
  BY <1>1, <1>2, <1>3, <1>4 DEF Operation, Flag
<1>6. calls' \in 0..MaxCalls /\ disturbed' \in [Admin -> BOOLEAN]
  BY AccountsAssumption DEF Begin, TypeOK, AccountsAssumption
<1>7. opened' \in BOOLEAN
  BY <1>1 DEF TypeOK
<1>8. UNCHANGED <<standalone, protected, sam, group, made, trail, file, degraded>>
  BY DEF Begin
<1> QED BY <1>5, <1>6, <1>7, <1>8 DEF TypeOK

LEMMA NextTypeOK == TypeOK /\ [Next]_vars => TypeOK'
<1> SUFFICES ASSUME TypeOK, [Next]_vars PROVE TypeOK'
  OBVIOUS
<1>0. op \in [Admin -> Operation \cup {Idle}]
  BY DEF TypeOK
<1>1. ASSUME NEW a \in Admin, op[a] # Idle, NEW result \in {"ok", "error"}, Finish(a, result),
             UNCHANGED <<standalone, protected, sam, group, made, calls, disturbed, opened>>
      PROVE  TypeOK'
  BY <1>1, FinishType DEF TypeOK
<1>2. ASSUME NEW a \in Admin, Refuse(a) \/ Done(a)
      PROVE  TypeOK'
  <2>1. CASE Refuse(a)
    BY <1>1, <2>1 DEF Refuse
  <2>2. CASE Done(a)
    BY <1>1, <2>2 DEF Done
  <2> QED BY <1>2, <2>1, <2>2
<1>3. ASSUME NEW a \in Admin, GiveUp(a)
      PROVE  TypeOK'
  <2>1. Entry(a, "error", {"target"}) \in AuditEntry /\ record(Entry(a, "error", {"target"}))
    BY <1>3, EntryType DEF GiveUp
  <2>2. op[a] \in Operation /\ op' = [op EXCEPT ![a].waiting = FALSE]
    BY <1>3, AtWork DEF GiveUp
  <2>3. op' \in [Admin -> Operation \cup {Idle}]
    BY <1>0, <2>2 DEF Operation
  <2> QED BY <1>3, <2>1, <2>3, RecordType DEF GiveUp, TypeOK
<1>4. ASSUME NEW a \in Admin, Answered(a)
      PROVE  TypeOK'
  <2>1. Running(a) /\ Carried(a) /\ op' = [op EXCEPT ![a] = Advanced(op[a])]
    BY <1>4 DEF Answered
  <2>2. op' \in [Admin -> Operation \cup {Idle}]
    BY <1>0, <2>1, LearntType
  <2> QED BY <1>4, <2>1, <2>2, CarriedType DEF Answered, unrecorded, TypeOK
<1>5. ASSUME NEW a \in Admin, Skipped(a)
      PROVE  TypeOK'
  <2>1. op[a] \in Operation /\ Tail(op[a].todo) \in Seq(Step)
    BY <1>5, AtWork DEF Skipped
  <2>2. op' \in [Admin -> Operation \cup {Idle}]
    BY <1>0, <1>5, <2>1 DEF Skipped, Operation
  <2> QED BY <1>5, <2>2 DEF Skipped, unrecorded, TypeOK
<1>6. ASSUME NEW a \in Admin, Failed(a)
      PROVE  TypeOK'
  <2>1. Running(a) /\ op[a] # Idle
    BY <1>6 DEF Failed, Running
  <2>2. /\ sam' \in Account /\ group' \in SUBSET Sid /\ made' \in Nat
        /\ disturbed' \in [Admin -> BOOLEAN]
    BY <1>6, <2>1, CarriedType DEF Failed, TypeOK
  <2>3. CASE RollsBack(op[a])
    <3>1. /\ op' = [op EXCEPT ![a].todo = <<<<"rollback">>>>, ![a].failed = TRUE]
          /\ UNCHANGED <<trail, file, degraded>>
      BY <1>6, <2>3 DEF Failed, unrecorded
    <3>2. op[a] \in Operation /\ <<<<"rollback">>>> \in Seq(Step)
      <4>1. <<"rollback">> \in Step
        BY DEF Step
      <4> QED BY <2>1, <4>1, AtWork
    <3>3. op' \in [Admin -> Operation \cup {Idle}]
      BY <1>0, <3>1, <3>2 DEF Operation
    <3> QED BY <1>6, <2>2, <3>1, <3>3 DEF Failed, TypeOK
  <2>4. CASE ~RollsBack(op[a])
    BY <1>6, <2>1, <2>2, <2>4, FinishType DEF Failed, TypeOK
  <2> QED BY <2>3, <2>4
<1>7. CASE UNCHANGED vars
  BY <1>7 DEF vars, TypeOK
<1> QED BY <1>2, <1>3, <1>4, <1>5, <1>6, <1>7, BeginType DEF Next

\* Every variable keeps its type, for any number of administrators and operations.
THEOREM AccountsTypeCorrect == Spec => []TypeOK
<1> QED BY InitTypeOK, NextTypeOK, PTL DEF Spec

(***************************************************************************)
(* The audit trail and its file.                                           *)
(***************************************************************************)
Waiting == {a \in Admin : op[a] # Idle /\ op[a].waiting}

\* A step either leaves trail and file alone or records one entry.
LEMMA RecordsOrNot ==
  ASSUME TypeOK, [Next]_vars
  PROVE  \/ UNCHANGED <<trail, file, degraded>>
         \/ \E entry \in AuditEntry : record(entry)
<1>1. ASSUME NEW a \in Admin, op[a] # Idle, NEW result \in {"ok", "error"}, Finish(a, result)
      PROVE  UNCHANGED <<trail, file, degraded>> \/ \E entry \in AuditEntry : record(entry)
  BY <1>1, EntryType DEF Finish, unrecorded
<1>2. ASSUME NEW a \in Admin, Refuse(a) \/ Done(a)
      PROVE  UNCHANGED <<trail, file, degraded>> \/ \E entry \in AuditEntry : record(entry)
  BY <1>1, <1>2 DEF Refuse, Done
<1>3. ASSUME NEW a \in Admin, GiveUp(a)
      PROVE  UNCHANGED <<trail, file, degraded>> \/ \E entry \in AuditEntry : record(entry)
  BY <1>3, EntryType DEF GiveUp
<1>4. ASSUME NEW a \in Admin, Begin(a) \/ Answered(a) \/ Skipped(a)
      PROVE  UNCHANGED <<trail, file, degraded>>
  BY <1>4 DEF Begin, Answered, Skipped, unrecorded
<1>5. ASSUME NEW a \in Admin, Failed(a)
      PROVE  UNCHANGED <<trail, file, degraded>> \/ \E entry \in AuditEntry : record(entry)
  BY <1>1, <1>5 DEF Failed, Running, unrecorded
<1>6. CASE UNCHANGED vars
  BY <1>6 DEF vars
<1> QED BY <1>2, <1>3, <1>4, <1>5, <1>6 DEF Next

FileInv == AuditFileHasNoGaps /\ Len(file) <= Len(trail)

LEMMA RecordKeepsFile ==
  ASSUME TypeOK, FileInv, NEW entry \in AuditEntry, record(entry)
  PROVE  FileInv'
<1>1. trail \in Seq(AuditEntry) /\ file \in Seq(AuditEntry)
  BY DEF TypeOK
<1>2. trail' = Append(trail, entry)
  BY DEF record
<1>3. /\ trail' \in Seq(AuditEntry) /\ Len(trail') = Len(trail) + 1
      /\ \A i \in 1..Len(trail) : trail'[i] = trail[i]
  BY <1>1, <1>2, AppendProperties
<1>4. CASE ~degraded /\ file' = Append(file, entry) /\ UNCHANGED degraded
  <2>1. file' = trail'
    BY <1>2, <1>4 DEF FileInv, AuditFileHasNoGaps
  <2>2. trail' = SubSeq(trail', 1, Len(trail'))
    BY <1>3, SubSeqFull
  <2>3. Len(file') <= Len(trail')
    BY <1>3, <2>1
  <2> QED BY <2>1, <2>2, <2>3 DEF FileInv, AuditFileHasNoGaps
<1>5. CASE UNCHANGED file /\ degraded' = TRUE
  <2>1. Len(file) \in Nat /\ Len(trail) \in Nat /\ Len(file) <= Len(trail)
    BY <1>1 DEF FileInv
  <2>2. SubSeq(trail', 1, Len(file)) = SubSeq(trail, 1, Len(file))
    <3>1. /\ SubSeq(trail, 1, Len(file)) = [i \in 1..Len(file) |-> trail[i]]
          /\ SubSeq(trail', 1, Len(file)) = [i \in 1..Len(file) |-> trail'[i]]
      BY <1>1, <1>3, <2>1
    <3> QED BY <1>3, <2>1, <3>1
  <2> QED BY <1>3, <1>5, <2>1, <2>2 DEF FileInv, AuditFileHasNoGaps
<1> QED BY <1>4, <1>5 DEF record

\* Whatever writes of the file fail, and whenever: it is the beginning of the trail.
THEOREM AuditFileIsPrefix == Spec => []AuditFileHasNoGaps
<1>1. Init => FileInv
  BY DEF Init, FileInv, AuditFileHasNoGaps
<1>2. TypeOK /\ FileInv /\ [Next]_vars => FileInv'
  <2> SUFFICES ASSUME TypeOK, FileInv, [Next]_vars PROVE FileInv'
    OBVIOUS
  <2>1. CASE UNCHANGED <<trail, file, degraded>>
    BY <2>1 DEF FileInv, AuditFileHasNoGaps
  <2>2. CASE \E entry \in AuditEntry : record(entry)
    BY <2>2, RecordKeepsFile
  <2> QED BY <2>1, <2>2, RecordsOrNot
<1>3. FileInv => AuditFileHasNoGaps
  BY DEF FileInv
<1> QED BY InitTypeOK, NextTypeOK, <1>1, <1>2, <1>3, PTL DEF Spec

\* Each request is counted once: while it is waited for, and then by its entry.
LEMMA NextRecorded == TypeOK /\ RecordedOnce /\ [Next]_vars => RecordedOnce'
<1> SUFFICES ASSUME TypeOK, RecordedOnce, [Next]_vars PROVE RecordedOnce'
  OBVIOUS
<1>0. /\ op \in [Admin -> Operation \cup {Idle}] /\ Len(trail) \in Nat /\ calls \in Nat
      /\ \A b \in Admin : op[b] # Idle => op[b].waiting \in BOOLEAN
  BY AtWork DEF TypeOK, Operation
<1>a. /\ IsFiniteSet(Waiting) /\ Cardinality(Waiting) \in Nat
      /\ Len(trail) + Cardinality(Waiting) = calls
  <2>1. Waiting \subseteq Admin
    BY DEF Waiting
  <2> QED BY <2>1, AccountsAssumption, FS_Subset, FS_CardinalityType
          DEF AccountsAssumption, RecordedOnce, Waiting
<1>b. RecordedOnce' <=> Len(trail') + Cardinality(Waiting') = calls'
  BY DEF RecordedOnce, Waiting
\* Nobody begins or ends to wait.
<1>c. ASSUME UNCHANGED <<trail, calls>>, Waiting' = Waiting
      PROVE  RecordedOnce'
  BY <1>a, <1>b, <1>c
\* One request is not waited for any more, and recorded.
<1>d. ASSUME NEW a \in Admin, a \in Waiting, Waiting' = Waiting \ {a},
             Len(trail') = Len(trail) + 1, UNCHANGED calls
      PROVE  RecordedOnce'
  <2>1. Cardinality(Waiting \ {a}) = Cardinality(Waiting) - 1
    BY <1>a, <1>d, FS_RemoveElement
  <2>2. Cardinality(Waiting') = Cardinality(Waiting) - 1
    BY <1>d, <2>1
  <2> QED BY <1>0, <1>a, <1>b, <1>d, <2>2
<1>1. ASSUME NEW a \in Admin, op[a] # Idle, NEW result \in {"ok", "error"}, Finish(a, result),
             UNCHANGED calls
      PROVE  RecordedOnce'
  <2>1. /\ op'[a] = Idle /\ \A b \in Admin \ {a} : op'[b] = op[b]
        /\ Len(trail') = Len(trail) + (IF op[a].waiting THEN 1 ELSE 0)
    BY <1>1, FinishType
  <2>2. CASE op[a].waiting
    <3>1. a \in Waiting /\ Waiting' = Waiting \ {a}
      BY <1>1, <2>1, <2>2 DEF Waiting
    <3> QED BY <1>1, <1>d, <2>1, <2>2, <3>1
  <2>3. CASE ~op[a].waiting
    <3>1. Waiting' = Waiting
      BY <2>1, <2>3 DEF Waiting
    <3>2. UNCHANGED trail
      BY <1>1, <2>3 DEF Finish, unrecorded
    <3> QED BY <1>1, <1>c, <3>1, <3>2
  <2> QED BY <2>2, <2>3
<1>2. ASSUME NEW a \in Admin, Refuse(a) \/ Done(a)
      PROVE  RecordedOnce'
  BY <1>1, <1>2 DEF Refuse, Done
<1>3. ASSUME NEW a \in Admin, GiveUp(a)
      PROVE  RecordedOnce'
  <2>1. op' = [op EXCEPT ![a].waiting = FALSE] /\ op[a] # Idle /\ op[a].waiting
    BY <1>3 DEF GiveUp
  <2>2. op[a] \in Operation
    BY <2>1, AtWork
  <2>3. ~op'[a].waiting /\ \A b \in Admin \ {a} : op'[b] = op[b]
    BY <1>0, <2>1, <2>2 DEF Operation
  <2>4. a \in Waiting /\ Waiting' = Waiting \ {a}
    BY <2>1, <2>3 DEF Waiting
  <2>5. Len(trail') = Len(trail) + 1
    BY <1>3, <2>1, EntryType, RecordType DEF GiveUp
  <2> QED BY <1>3, <1>d, <2>4, <2>5 DEF GiveUp
\* An operation goes on: it is still there, and waited for as before.
<1>4. ASSUME NEW a \in Admin, op[a] # Idle, op'[a] # Idle, op'[a].waiting = op[a].waiting,
             \A b \in Admin \ {a} : op'[b] = op[b], UNCHANGED <<trail, calls>>
      PROVE  RecordedOnce'
  <2>1. Waiting' = Waiting
    BY <1>4 DEF Waiting
  <2> QED BY <1>4, <1>c, <2>1
<1>5. ASSUME NEW a \in Admin, Answered(a)
      PROVE  RecordedOnce'
  <2>1. op[a] # Idle /\ op[a] \in Operation /\ op' = [op EXCEPT ![a] = Advanced(op[a])]
    BY <1>5, AtWork DEF Answered, Running
  <2>2. Advanced(op[a]) \in Operation
    BY <1>5, LearntType DEF Answered
  <2>3. Advanced(op[a]).waiting = op[a].waiting
    <3>1. Learnt(op[a]) \in Operation /\ Learnt(op[a]).waiting = op[a].waiting
      BY <1>5, LearntKeeps DEF Answered
    <3> QED BY <3>1 DEF Advanced, Operation
  <2>4. Advanced(op[a]) # Idle
    BY <2>2 DEF Operation, Idle, Kind
  <2> QED BY <1>0, <1>4, <1>5, <2>1, <2>3, <2>4 DEF Answered, unrecorded
<1>6. ASSUME NEW a \in Admin, Skipped(a)
      PROVE  RecordedOnce'
  <2>1. op[a] # Idle /\ op[a] \in Operation /\ op' = [op EXCEPT ![a].todo = Tail(@)]
    BY <1>6, AtWork DEF Skipped, Running
  <2>2. op'[a].waiting = op[a].waiting /\ op'[a].kind = op[a].kind
    BY <1>0, <2>1 DEF Operation
  <2>3. op'[a] # Idle
    BY <2>1, <2>2 DEF Operation, Idle, Kind
  <2> QED BY <1>0, <1>4, <1>6, <2>1, <2>2, <2>3 DEF Skipped, unrecorded
<1>7. ASSUME NEW a \in Admin, Failed(a)
      PROVE  RecordedOnce'
  <2>1. op[a] # Idle /\ op[a] \in Operation /\ UNCHANGED calls
    BY <1>7, AtWork DEF Failed, Running
  <2>2. CASE RollsBack(op[a])
    <3>1. op' = [op EXCEPT ![a].todo = <<<<"rollback">>>>, ![a].failed = TRUE] /\ UNCHANGED trail
      BY <1>7, <2>2 DEF Failed, unrecorded
    <3>2. op'[a].waiting = op[a].waiting /\ op'[a].kind = op[a].kind
      BY <1>0, <2>1, <3>1 DEF Operation
    <3>3. op'[a] # Idle
      BY <2>1, <3>2 DEF Operation, Idle, Kind
    <3> QED BY <1>0, <1>4, <2>1, <3>1, <3>2, <3>3
  <2>3. CASE ~RollsBack(op[a])
    BY <1>1, <1>7, <2>1, <2>3 DEF Failed
  <2> QED BY <2>2, <2>3
<1>8. ASSUME NEW a \in Admin, Begin(a)
      PROVE  RecordedOnce'
  <2>1. PICK o : op' = [op EXCEPT ![a] = o] /\ o.waiting /\ o # Idle
    <3>1. PICK kind \in Kind, s \in UNION {Request(k) : k \in Kind} :
            op' = [op EXCEPT ![a] =
              [kind |-> kind, sent |-> s, todo |-> Todo(kind, s), rid |-> 0,
               read |-> {"normal"}, applied |-> {}, failed |-> FALSE, waiting |-> TRUE,
               before |-> [account |-> sam, group |-> group]]]
      BY <1>8 DEF Begin
    <3> DEFINE o == [kind |-> kind, sent |-> s, todo |-> Todo(kind, s), rid |-> 0,
               read |-> {"normal"}, applied |-> {}, failed |-> FALSE, waiting |-> TRUE,
               before |-> [account |-> sam, group |-> group]]
    <3>2. o.kind = kind /\ o.waiting = TRUE
      OBVIOUS
    <3>3. o # Idle
      BY <3>2 DEF Idle, Kind
    <3>4. op' = [op EXCEPT ![a] = o]
      BY <3>1
    <3> HIDE DEF o
    <3> QED BY <3>2, <3>3, <3>4
  <2>2. op[a] = Idle /\ calls' = calls + 1 /\ UNCHANGED trail
    BY <1>8 DEF Begin
  <2>3. a \notin Waiting /\ Waiting' = Waiting \cup {a}
    BY <1>0, <2>1, <2>2 DEF Waiting
  <2>4. Cardinality(Waiting \cup {a}) = Cardinality(Waiting) + 1
    BY <1>a, <2>3, FS_AddElement
  <2>5. Cardinality(Waiting') = Cardinality(Waiting) + 1
    BY <2>3, <2>4
  <2> QED BY <1>0, <1>a, <1>b, <2>2, <2>5
<1>9. CASE UNCHANGED vars
  BY <1>9, <1>c DEF vars, Waiting
<1> QED BY <1>2, <1>3, <1>5, <1>6, <1>7, <1>8, <1>9 DEF Next

\* However requests overlap, fail, or are given up while their operation goes on, each
\* has one entry in the trail.
THEOREM RequestsRecordedOnce == Spec => []RecordedOnce
<1>1. Init => RecordedOnce
  <2> SUFFICES ASSUME Init PROVE RecordedOnce
    OBVIOUS
  <2>1. {a \in Admin : op[a] # Idle /\ op[a].waiting} = {}
    BY DEF Init
  <2>2. Len(trail) = 0 /\ calls = 0
    BY DEF Init
  <2> QED BY <2>1, <2>2, FS_EmptySet DEF RecordedOnce
<1> QED BY InitTypeOK, NextTypeOK, NextRecorded, <1>1, PTL DEF Spec

(***************************************************************************)
(* The account and what the operations know of it.                         *)
(***************************************************************************)
\* Whatever call is taken off an operation's list, the rest is in order.
LEMMA TailInOrder ==
  ASSUME NEW o, o.todo \in Seq(Step), o.todo # <<>>, InOrder(o),
         NEW p, p.todo = Tail(o.todo), p.kind = o.kind, p.failed = o.failed
  PROVE  InOrder(p)
<1> DEFINE q == o.todo
<1>1. /\ Len(q) \in Nat /\ Len(q) # 0 /\ DOMAIN q = 1..Len(q) /\ DOMAIN p.todo = 1..(Len(q) - 1)
      /\ \A i \in 1..(Len(q) - 1) : p.todo[i] = q[i + 1]
  BY HeadTailProperties
<1>2. p.failed => p.todo = <<>>
  <2>1. p.failed => q = <<<<"rollback">>>>
    BY DEF InOrder
  <2>2. q = <<<<"rollback">>>> => Len(q) = 1
    OBVIOUS
  <2>3. Len(q) = 1 => p.todo = <<>>
    BY HeadTailProperties, <1>1
  <2> QED BY <2>1, <2>2, <2>3
<1>3. ASSUME NEW i \in DOMAIN p.todo
      PROVE  /\ i + 1 \in DOMAIN q /\ i + 1 # 1 /\ p.todo[i] = q[i + 1]
             /\ i # 1 => i \in DOMAIN q /\ p.todo[i - 1] = q[i]
             /\ q # <<<<"rollback">>>>
  <2>1. i \in 1..(Len(q) - 1) /\ i \in Nat
    BY <1>1, <1>3
  <2>2. i # 1 => i - 1 \in 1..(Len(q) - 1) /\ (i - 1) + 1 = i
    BY <2>1
  <2>3. q = <<<<"rollback">>>> => Len(q) = 1
    OBVIOUS
  <2>4. i + 1 \in 1..Len(q) /\ i + 1 # 1 /\ i \in 1..Len(q)
    BY <1>1, <2>1
  <2>5. p.todo[i] = q[i + 1]
    BY <1>1, <2>1
  <2>6. i # 1 => p.todo[i - 1] = q[i]
    BY <1>1, <2>2
  <2>7. q # <<<<"rollback">>>>
    <3>1. i <= Len(q) - 1 /\ i >= 1
      BY <2>1
    <3>2. Len(q) # 1
      <4> DEFINE n == Len(q)
      <4>1. n \in Nat /\ i \in Nat /\ i <= n - 1 /\ i >= 1
        BY <1>1, <2>1, <3>1
      <4> HIDE DEF n
      <4>2. n # 1
        BY <4>1
      <4> QED BY <4>2 DEF n
    <3> QED BY <2>3, <3>2
  <2> HIDE DEF q
  <2> QED BY <1>1, <2>4, <2>5, <2>6, <2>7
<1>4. ASSUME NEW i \in DOMAIN p.todo
      PROVE  /\ p.todo[i][1] \notin {"create", "lookup", "rollback"}
             /\ p.todo[i][1] = "read" => i = 1
             /\ p.todo[i][1] = "flags" =>
                  p.kind \in {"create", "update"} /\ (p.kind = "create" /\ i # 1 => p.todo[i - 1][1] = "password")
  <2>1. /\ q[i + 1][1] \notin {"create", "lookup", "rollback"}
        /\ q[i + 1][1] = "read" => i + 1 = 2
        /\ q[i + 1][1] = "flags" =>
             o.kind \in {"create", "update"} /\ (o.kind = "create" => q[(i + 1) - 1][1] = "password")
    BY <1>3 DEF InOrder
  <2>2. i \in Nat /\ (i + 1) - 1 = i
    BY <1>1, <1>4
  <2> QED BY <1>3, <2>1, <2>2
<1> QED BY <1>2, <1>4 DEF InOrder

\* The first call of a list, and the one after it.
LEMMA HeadOfList ==
  ASSUME NEW q \in Seq(Step), q # <<>>
  PROVE  /\ Head(q) = q[1] /\ 1 \in DOMAIN q
         /\ Tail(q) # <<>> => 2 \in DOMAIN q /\ Head(Tail(q)) = q[2]
<1>1. /\ Len(q) \in Nat /\ Len(q) # 0 /\ DOMAIN q = 1..Len(q)
      /\ Head(q) = q[1] /\ 1 \in DOMAIN q
      /\ Tail(q) \in Seq(Step) /\ Len(Tail(q)) = Len(q) - 1
      /\ \A i \in 1..(Len(q) - 1) : Tail(q)[i] = q[i + 1]
  BY HeadTailProperties
<1>2. Tail(q) # <<>> => Len(Tail(q)) # 0
  BY <1>1, EmptySeq
<1>3. Tail(q) # <<>> => Head(Tail(q)) = Tail(q)[1]
  <2> DEFINE rest == Tail(q)
  <2>1. rest \in Seq(Step)
    BY <1>1
  <2> HIDE DEF rest
  <2> QED BY <2>1
<1>4. Tail(q) # <<>> => 2 \in 1..Len(q) /\ 1 \in 1..(Len(q) - 1)
  BY <1>1, <1>2
<1> QED BY <1>1, <1>3, <1>4

\* Once the first call of a list in order is another, no flags are read any more.
LEMMA FirstInOrder ==
  ASSUME NEW o, o.todo \in Seq(Step), o.todo # <<>>, InOrder(o), Head(o.todo)[1] \notin {"lookup", "read"}
  PROVE  /\ \A i \in DOMAIN o.todo : o.todo[i][1] # "read"
         /\ Head(o.todo) = o.todo[1] /\ 1 \in DOMAIN o.todo
<1>1. Head(o.todo) = o.todo[1] /\ 1 \in DOMAIN o.todo
  BY HeadOfList
<1> QED BY <1>1 DEF InOrder

\* No call gives an old account a new identity, or takes a password away.
LEMMA SamAfter ==
  ASSUME TypeOK, DoorInv, NEW a \in Admin, Running(a), Carried(a)
  PROVE  /\ sam' = Gone \/ sam'.rid \in 1..made'
         /\ made' \in Nat /\ made <= made'
         /\ \A r \in 1..made : sam'.rid = r =>
              sam.rid = r /\ sam # Gone /\ (sam.password # None => sam'.password # None)
<1> DEFINE o == op[a]
           c == Head(o.todo)
<1>1. sam \in Account /\ made \in Nat /\ (sam = Gone \/ sam.rid \in 1..made)
  BY DEF TypeOK, DoorInv
<1>2. made' = IF c[1] = "create" THEN made + 1 ELSE made
  BY DEF Carried
<1>3. sam' = Changed(a, o) /\ Possible(o)
  BY DEF Carried
<1>4. Gone.rid = 0
  BY DEF Gone
<1>5. CASE c[1] = "create"
  <2>1. sam'.rid = made + 1
    BY <1>3, <1>5 DEF Changed
  <2> QED BY <1>1, <1>2, <1>5, <2>1
<1>6. CASE c[1] \in {"delete", "rollback"}
  <2>1. sam' = Gone
    BY <1>3, <1>6 DEF Changed
  <2> QED BY <1>1, <1>2, <1>4, <1>6, <2>1
<1>7. CASE c[1] \in {"password", "flags", "text"}
  <2>1. sam # Gone
    BY <1>3, <1>7 DEF Possible, Open
  <2>2. sam'.rid = sam.rid /\ (sam'.password = sam.password \/ sam'.password = a)
    BY <1>1, <1>3, <1>7 DEF Changed, Account
  <2>3. a # None
    BY AccountsAssumption DEF AccountsAssumption
  <2> QED BY <1>1, <1>2, <1>7, <2>1, <2>2, <2>3
<1>8. CASE c[1] \notin {"create", "delete", "rollback", "password", "flags", "text"}
  <2>1. sam' = sam
    BY <1>3, <1>8 DEF Changed
  <2> QED BY <1>1, <1>2, <1>4, <1>8, <2>1
<1> QED BY <1>5, <1>6, <1>7, <1>8

\* What an operation knows stays true when another's call is carried out.
LEMMA OthersKnow ==
  ASSUME TypeOK, DoorInv, NEW a \in Admin, NEW b \in Admin, op[b] # Idle, op'[b] = op[b],
         UNCHANGED standalone, opened => opened',
         (Running(a) /\ Carried(a)) \/ UNCHANGED <<sam, made>>
  PROVE  Knows(op[b])'
<1>1. Knows(op[b]) /\ op[b].rid \in 0..made /\ made \in Nat
  BY DEF DoorInv, Knows, TypeOK
<1>2. CASE UNCHANGED <<sam, made>>
  BY <1>1, <1>2 DEF Knows, Open
<1>3. CASE Running(a) /\ Carried(a)
  <2>1. /\ sam' = Gone \/ sam'.rid \in 1..made'
        /\ made' \in Nat /\ made <= made'
        /\ \A r \in 1..made : sam'.rid = r =>
              sam.rid = r /\ sam # Gone /\ (sam.password # None => sam'.password # None)
    BY <1>3, SamAfter
  <2>2. op[b].rid \in 0..made'
    BY <1>1, <2>1
  <2>3. (sam' # Gone /\ sam'.rid = op[b].rid) => op[b].rid \in 1..made
    BY <1>1, <2>1
  <2>4. (sam' # Gone /\ sam'.rid = op[b].rid) =>
            Open(op[b]) /\ (sam.password # None => sam'.password # None)
    BY <2>1, <2>3 DEF Open
  <2>5. op[b].rid # 0 /\ sam.rid # op[b].rid => sam'.rid # op[b].rid
    BY <1>1, <2>1
  <2> QED BY <1>1, <2>2, <2>4, <2>5 DEF Knows, Open
<1> QED BY <1>2, <1>3

\* What a call that was answered leaves of an operation.
LEMMA AdvancedParts ==
  ASSUME TypeOK, NEW a \in Admin, Running(a)
  PROVE  LET o == op[a]
             p == Advanced(o)
             c == Head(o.todo)[1]
         IN /\ p.todo = Tail(o.todo)
            /\ p.kind = o.kind /\ p.failed = o.failed /\ p.sent = o.sent /\ p.before = o.before
            /\ p.rid = IF c = "create" THEN made + 1 ELSE IF c = "lookup" THEN sam.rid ELSE o.rid
            /\ p.read = IF c = "read" THEN sam.flags ELSE o.read
<1> DEFINE o == op[a]
           c == Head(o.todo)[1]
           l == Learnt(o)
<1>1. o \in Operation /\ l \in Operation /\ l.todo = o.todo
  BY AtWork, LearntKeeps
<1>2. /\ l.kind = o.kind /\ l.failed = o.failed /\ l.sent = o.sent /\ l.before = o.before
      /\ l.rid = IF c = "create" THEN made + 1 ELSE IF c = "lookup" THEN sam.rid ELSE o.rid
      /\ l.read = IF c = "read" THEN sam.flags ELSE o.read
  <2>1. CASE c = "create"
    BY <1>1, <2>1 DEF Learnt, Operation
  <2>2. CASE c = "lookup"
    BY <1>1, <2>2 DEF Learnt, Operation
  <2>3. CASE c = "read"
    BY <1>1, <2>3 DEF Learnt, Operation
  <2>4. CASE c \in {"add", "remove"}
    BY <1>1, <2>4 DEF Learnt, Operation
  <2>5. CASE c \notin {"create", "lookup", "read", "add", "remove"}
    BY <1>1, <2>5 DEF Learnt
  <2> QED BY <2>1, <2>2, <2>3, <2>4, <2>5
<1>3. Advanced(o) = [l EXCEPT !.todo = Tail(o.todo)]
  BY DEF Advanced
<1> HIDE DEF l
<1> QED BY <1>1, <1>2, <1>3 DEF Operation

\* Whichever call is carried out: an account without a password stays disabled.
LEMMA DoorStaysShut ==
  ASSUME TypeOK, DoorInv, NoOpenDoor, NEW a \in Admin, Running(a), Carried(a), UNCHANGED opened
  PROVE  NoOpenDoor'
<1> DEFINE o == op[a]
           c == Head(o.todo)[1]
<1>1. /\ sam' = Changed(a, o) /\ Possible(o)
      /\ sam \in Account /\ o \in Operation /\ o # Idle /\ o.todo \in Seq(Step) /\ o.todo # <<>>
  BY AtWork DEF Carried, TypeOK, Running, Operation
<1>2. InOrder(o) /\ Knows(o) /\ (o.kind = "update" /\ "disabled" \in o.sent.clear => opened)
  BY <1>1 DEF DoorInv
<1>3. CASE c = "create"
  <2>1. "disabled" \in sam'.flags
    BY <1>1, <1>3 DEF Changed
  <2> QED BY <2>1 DEF NoOpenDoor
<1>4. CASE c = "password"
  <2>1. sam'.password = a
    BY <1>1, <1>4 DEF Changed, Account
  <2> QED BY <2>1, AccountsAssumption DEF NoOpenDoor, AccountsAssumption
<1>5. CASE c = "flags"
  <2>1. /\ sam'.password = sam.password /\ sam'.flags = Flags(o)
        /\ Open(o) /\ sam # Gone
    BY <1>1, <1>5 DEF Changed, Account, Possible, Open
  <2>2. /\ \A i \in DOMAIN o.todo : o.todo[i][1] # "read"
        /\ Head(o.todo) = o.todo[1] /\ 1 \in DOMAIN o.todo
    BY <1>1, <1>2, <1>5, FirstInOrder
  <2>3. o.kind \in {"create", "update"}
    BY <1>2, <1>5, <2>2 DEF InOrder
  <2>4. CASE o.kind = "create"
    BY <1>1, <1>2, <1>5, <2>1, <2>4 DEF Knows, NoOpenDoor
  <2>5. CASE o.kind = "update"
    <3>1. ~opened => sam.password # None \/ "disabled" \in o.read
      BY <1>2, <2>1, <2>2, <2>5 DEF Knows
    <3>2. ~opened => "disabled" \notin o.sent.clear
      BY <1>2, <2>5
    <3> QED BY <2>1, <3>1, <3>2 DEF NoOpenDoor, Flags
  <2> QED BY <2>3, <2>4, <2>5
<1>6. CASE c = "text"
  <2>1. sam'.password = sam.password /\ sam'.flags = sam.flags /\ sam # Gone
    BY <1>1, <1>6 DEF Changed, Account, Possible, Open
  <2> QED BY <2>1 DEF NoOpenDoor
<1>7. CASE c \in {"delete", "rollback"}
  <2>1. sam' = Gone
    BY <1>1, <1>7 DEF Changed
  <2>2. Gone' = Gone
    BY DEF Gone
  <2> QED BY <2>1, <2>2 DEF NoOpenDoor
<1>8. CASE c \notin {"create", "password", "flags", "text", "delete", "rollback"}
  <2>1. sam' = sam
    BY <1>1, <1>8 DEF Changed
  <2> QED BY <2>1 DEF NoOpenDoor
<1> QED BY <1>3, <1>4, <1>5, <1>6, <1>7, <1>8

\* An operation whose call was answered is in order and knows its account.
LEMMA AdvancedKnows ==
  ASSUME TypeOK, DoorInv, NoOpenDoor, NEW a \in Admin, Running(a), Carried(a),
         op'[a] = Advanced(op[a]), UNCHANGED <<standalone, opened>>
  PROVE  InOrder(op'[a]) /\ Knows(op[a])'
<1> DEFINE o == op[a]
           c == Head(o.todo)[1]
           p == Advanced(o)
<1>1. /\ sam' = Changed(a, o) /\ sam \in Account /\ made \in Nat
      /\ o \in Operation /\ o # Idle /\ o.todo \in Seq(Step) /\ o.todo # <<>>
      /\ made' = IF c = "create" THEN made + 1 ELSE made
      /\ standalone /\ (c = "lookup" => sam # Gone)
  BY AtWork DEF Carried, TypeOK, Running, Operation, Admitted, Possible
<1>2. InOrder(o) /\ Knows(o) /\ (sam = Gone \/ sam.rid \in 1..made)
  BY <1>1 DEF DoorInv
<1>3. /\ p.todo = Tail(o.todo)
      /\ p.kind = o.kind /\ p.failed = o.failed
      /\ p.rid = IF c = "create" THEN made + 1 ELSE IF c = "lookup" THEN sam.rid ELSE o.rid
      /\ p.read = IF c = "read" THEN sam.flags ELSE o.read
  BY AdvancedParts
<1>4. /\ sam' = Gone \/ sam'.rid \in 1..made'
      /\ \A r \in 1..made : sam'.rid = r =>
            sam.rid = r /\ sam # Gone /\ (sam.password # None => sam'.password # None)
  BY SamAfter
<1>h. /\ o.todo[1] = Head(o.todo) /\ 1 \in DOMAIN o.todo
      /\ Tail(o.todo) # <<>> => 2 \in DOMAIN o.todo /\ Head(Tail(o.todo)) = o.todo[2]
  BY <1>1, HeadOfList
<1>5. InOrder(p)
  BY <1>1, <1>2, <1>3, TailInOrder
<1>6. p.rid \in 0..made'
  BY <1>1, <1>2, <1>3 DEF Knows
<1>7. ASSUME sam' # Gone, sam'.rid = p.rid, p.kind = "create", p.todo # <<>>, Head(p.todo)[1] = "flags"
      PROVE  sam'.password # None
  <2>1. c = "password"
    <3>1. 2 \in DOMAIN o.todo /\ o.todo[2][1] = "flags" /\ o.kind = "create"
      BY <1>3, <1>7, <1>h
    <3>2. o.todo[2 - 1][1] = "password"
      BY <1>2, <3>1 DEF InOrder
    <3> QED BY <1>h, <3>2
  <2>2. sam'.password = a
    BY <1>1, <2>1 DEF Changed, Account
  <2> QED BY <2>2, AccountsAssumption DEF AccountsAssumption
<1>8. ASSUME ~opened, sam' # Gone, sam'.rid = p.rid, p.kind = "update",
             \A i \in DOMAIN p.todo : p.todo[i][1] # "read"
      PROVE  sam'.password # None \/ "disabled" \in p.read
  <2>1. c # "create"
    BY <1>2, <1>3, <1>8, <1>h DEF InOrder
  <2>2. c # "lookup"
    <3>1. c = "lookup" => 2 \in DOMAIN o.todo /\ o.todo[2][1] = "read"
      BY <1>2, <1>3, <1>8, <1>h DEF InOrder
    <3>2. 2 \in DOMAIN o.todo => 1 \in DOMAIN Tail(o.todo) /\ Tail(o.todo)[1] = o.todo[2]
      BY <1>1, HeadTailProperties
    <3> QED BY <1>3, <1>8, <3>1, <3>2
  <2>3. CASE c = "read"
    <3>1. sam' = sam /\ p.read = sam.flags
      BY <1>1, <1>3, <2>3 DEF Changed
    <3>2. sam # Gone
      BY <1>8, <3>1 DEF Gone
    <3> QED BY <1>8, <3>1, <3>2 DEF NoOpenDoor
  <2>4. CASE c # "read"
    <3>1. p.rid = o.rid /\ p.read = o.read
      BY <1>3, <2>1, <2>2, <2>4
    <3>2. \A i \in DOMAIN o.todo : o.todo[i][1] # "read"
      BY <1>1, <1>2, <1>3, <1>8, <2>2, <2>4, FirstInOrder
    <3>3. p.rid \in 1..made
      BY <1>1, <1>4, <1>6, <1>8, <2>1
    <3>4. Open(o) /\ (sam.password # None => sam'.password # None)
      BY <1>4, <1>8, <3>1, <3>3 DEF Open
    <3> QED BY <1>2, <1>3, <1>8, <3>1, <3>2, <3>4 DEF Knows
  <2> QED BY <2>3, <2>4
<1>9. ASSUME p.failed, p.todo = <<>>, p.rid # 0
      PROVE  sam'.rid # p.rid
  <2>1. o.todo = <<<<"rollback">>>>
    BY <1>1, <1>2, <1>3, <1>9 DEF InOrder
  <2>2. sam' = Gone
    BY <1>1, <2>1 DEF Changed
  <2> QED BY <1>9, <2>2 DEF Gone
<1>10. Gone' = Gone
  BY DEF Gone
<1> HIDE DEF p, o
<1>11. op'[a] = p /\ opened' = opened /\ standalone'
  BY <1>1 DEF p, o
<1> QED BY <1>5, <1>6, <1>7, <1>8, <1>9, <1>10, <1>11 DEF Knows, Open

\* One administrator's operation moves: what the others know holds on.
LEMMA OneMoves ==
  ASSUME TypeOK, DoorInv, NEW a \in Admin, \A b \in Admin \ {a} : op'[b] = op[b],
         UNCHANGED standalone, opened => opened',
         (Running(a) /\ Carried(a)) \/ UNCHANGED <<sam, made>>,
         op'[a] # Idle =>
            /\ InOrder(op'[a]) /\ Knows(op[a])'
            /\ op'[a].kind = "update" /\ "disabled" \in op'[a].sent.clear => opened'
  PROVE  DoorInv'
<1>1. (sam = Gone \/ sam.rid \in 1..made)'
  <2>1. CASE Running(a) /\ Carried(a)
    BY <2>1, SamAfter DEF Gone
  <2>2. CASE UNCHANGED <<sam, made>>
    BY <2>2 DEF DoorInv, Gone
  <2> QED BY <2>1, <2>2
<1>2. ASSUME NEW b \in Admin, op'[b] # Idle
      PROVE  /\ InOrder(op'[b]) /\ Knows(op[b])'
             /\ op'[b].kind = "update" /\ "disabled" \in op'[b].sent.clear => opened'
  <2>1. CASE b = a
    BY <1>2, <2>1
  <2>2. CASE b # a
    <3>1. op'[b] = op[b] /\ op[b] # Idle
      BY <1>2, <2>2
    <3>2. Knows(op[b])'
      BY <3>1, OthersKnow
    <3> QED BY <3>1, <3>2 DEF DoorInv
  <2> QED BY <2>1, <2>2
<1>3. Idle' = Idle
  BY DEF Idle
<1> QED BY <1>1, <1>2, <1>3 DEF DoorInv

LEMMA NextShut == TypeOK /\ DoorInv /\ NoOpenDoor /\ [Next]_vars => DoorInv' /\ NoOpenDoor'
<1> SUFFICES ASSUME TypeOK, DoorInv, NoOpenDoor, [Next]_vars PROVE DoorInv' /\ NoOpenDoor'
  OBVIOUS
<1>0. /\ op \in [Admin -> Operation \cup {Idle}] /\ made \in Nat
      /\ \A b \in Admin : op[b] # Idle => op[b] \in Operation /\ InOrder(op[b]) /\ Knows(op[b])
                             /\ (op[b].kind = "update" /\ "disabled" \in op[b].sent.clear => opened)
  BY AtWork DEF TypeOK, DoorInv
\* The account does not change and no update is admitted to enable it.
<1>a. UNCHANGED sam /\ (opened => opened') => NoOpenDoor'
  <2>1. Gone' = Gone
    BY DEF Gone
  <2> QED BY <2>1 DEF NoOpenDoor
<1>1. ASSUME NEW a \in Admin, NEW result, Finish(a, result),
             UNCHANGED <<standalone, sam, made, opened>>
      PROVE  DoorInv' /\ NoOpenDoor'
  <2>1. op'[a] = Idle /\ \A b \in Admin \ {a} : op'[b] = op[b]
    BY <1>0, <1>1 DEF Finish
  <2>2. DoorInv'
    BY <1>1, <2>1, OneMoves
  <2> QED BY <1>1, <1>a, <2>2
<1>2. ASSUME NEW a \in Admin, Refuse(a) \/ Done(a)
      PROVE  DoorInv' /\ NoOpenDoor'
  BY <1>1, <1>2 DEF Refuse, Done
<1>3. ASSUME NEW a \in Admin, GiveUp(a)
      PROVE  DoorInv' /\ NoOpenDoor'
  <2>1. op' = [op EXCEPT ![a].waiting = FALSE] /\ op[a] # Idle
        /\ UNCHANGED <<standalone, sam, made, opened>>
    BY <1>3 DEF GiveUp
  <2>2. op[a] \in Operation /\ InOrder(op[a]) /\ Knows(op[a])
    BY <1>0, <2>1
  <2>3. /\ op'[a].todo = op[a].todo /\ op'[a].rid = op[a].rid /\ op'[a].kind = op[a].kind
        /\ op'[a].failed = op[a].failed /\ op'[a].read = op[a].read /\ op'[a].sent = op[a].sent
        /\ \A b \in Admin \ {a} : op'[b] = op[b]
    BY <1>0, <2>1, <2>2 DEF Operation
  <2>4. InOrder(op'[a])
    BY <2>2, <2>3 DEF InOrder
  <2>5. Knows(op[a])'
    BY <2>1, <2>2, <2>3 DEF Knows, Open, Gone
  <2>6. DoorInv'
    BY <1>0, <2>1, <2>3, <2>4, <2>5, OneMoves
  <2> QED BY <1>a, <2>1, <2>6
<1>4. ASSUME NEW a \in Admin, Answered(a)
      PROVE  DoorInv' /\ NoOpenDoor'
  <2>1. /\ Running(a) /\ Carried(a) /\ op' = [op EXCEPT ![a] = Advanced(op[a])]
        /\ UNCHANGED <<standalone, opened>>
    BY <1>4 DEF Answered
  <2>2. op'[a] = Advanced(op[a]) /\ \A b \in Admin \ {a} : op'[b] = op[b]
    BY <1>0, <2>1
  <2>3. InOrder(op'[a]) /\ Knows(op[a])'
    BY <2>1, <2>2, AdvancedKnows
  <2>4. op'[a].kind = op[a].kind /\ op'[a].sent = op[a].sent /\ op[a] # Idle
    BY <2>1, <2>2, AdvancedParts DEF Running
  <2>5. DoorInv'
    BY <1>0, <2>1, <2>2, <2>3, <2>4, OneMoves
  <2> QED BY <2>1, <2>5, DoorStaysShut
<1>5. ASSUME NEW a \in Admin, Skipped(a)
      PROVE  DoorInv' /\ NoOpenDoor'
  <2>1. /\ op' = [op EXCEPT ![a].todo = Tail(@)] /\ op[a] # Idle /\ op[a].todo # <<>>
        /\ Head(op[a].todo)[1] \in {"add", "remove"}
        /\ UNCHANGED <<standalone, sam, made, opened>>
    BY <1>5 DEF Skipped, Running
  <2>2. op[a] \in Operation /\ InOrder(op[a]) /\ Knows(op[a]) /\ op[a].todo \in Seq(Step)
    BY <1>0, <2>1 DEF Operation
  <2>3. /\ op'[a].todo = Tail(op[a].todo) /\ op'[a].rid = op[a].rid /\ op'[a].kind = op[a].kind
        /\ op'[a].failed = op[a].failed /\ op'[a].read = op[a].read /\ op'[a].sent = op[a].sent
        /\ \A b \in Admin \ {a} : op'[b] = op[b]
    BY <1>0, <2>1, <2>2 DEF Operation
  <2>4. InOrder(op'[a])
    BY <2>1, <2>2, <2>3, TailInOrder
  <2>5. \A i \in DOMAIN op[a].todo : op[a].todo[i][1] # "read"
    BY <2>1, <2>2, FirstInOrder
  <2>6. ~op'[a].failed
    <3>1. op[a].failed => op[a].todo = <<<<"rollback">>>>
      BY <2>1, <2>2 DEF InOrder
    <3> QED BY <2>1, <2>3, <3>1
  <2>7. op'[a].kind = "create" /\ op'[a].todo # <<>> => Head(op'[a].todo)[1] # "flags"
    <3>1. /\ op[a].todo[1] = Head(op[a].todo)
          /\ Tail(op[a].todo) # <<>> => 2 \in DOMAIN op[a].todo /\ Head(Tail(op[a].todo)) = op[a].todo[2]
      BY <2>1, <2>2, HeadOfList
    <3>2. 2 \in DOMAIN op[a].todo /\ op[a].kind = "create" /\ op[a].todo[2][1] = "flags"
            => op[a].todo[2 - 1][1] = "password"
      BY <2>2 DEF InOrder
    <3> QED BY <2>1, <2>3, <3>1, <3>2
  <2>8. Knows(op[a])'
    BY <2>1, <2>2, <2>3, <2>5, <2>6, <2>7 DEF Knows, Open, Gone
  <2>9. DoorInv'
    BY <1>0, <2>1, <2>3, <2>4, <2>8, OneMoves
  <2> QED BY <1>a, <2>1, <2>9
<1>6. ASSUME NEW a \in Admin, Failed(a)
      PROVE  DoorInv' /\ NoOpenDoor'
  <2>1. /\ Running(a) /\ op[a] # Idle /\ standalone
        /\ Carried(a) \/ UNCHANGED <<sam, made>>
        /\ UNCHANGED <<standalone, opened>>
    BY <1>6 DEF Failed, Running, Admitted
  <2>2. op[a] \in Operation /\ Knows(op[a])
    BY <1>0, <2>1
  <2>3. NoOpenDoor'
    BY <1>a, <2>1, DoorStaysShut
  <2>4. CASE RollsBack(op[a])
    <3>1. op' = [op EXCEPT ![a].todo = <<<<"rollback">>>>, ![a].failed = TRUE]
      BY <1>6, <2>4 DEF Failed
    <3>2. /\ op'[a].todo = <<<<"rollback">>>> /\ op'[a].rid = op[a].rid /\ op'[a].kind = "create"
          /\ \A b \in Admin \ {a} : op'[b] = op[b]
      BY <1>0, <2>2, <2>4, <3>1 DEF Operation, RollsBack
    <3>3. InOrder(op'[a])
      BY <3>2 DEF InOrder
    <3>4. op'[a].rid \in 0..made'
      <4>1. made' \in Nat /\ made <= made'
        BY <1>0, <2>1, SamAfter
      <4> QED BY <1>0, <2>2, <3>2, <4>1 DEF Knows
    <3>5. Knows(op[a])'
      BY <2>1, <3>2, <3>4 DEF Knows
    <3>6. DoorInv'
      BY <2>1, <3>2, <3>3, <3>5, OneMoves
    <3> QED BY <2>3, <3>6
  <2>5. CASE ~RollsBack(op[a])
    <3>1. op'[a] = Idle /\ \A b \in Admin \ {a} : op'[b] = op[b]
      BY <1>0, <1>6, <2>5 DEF Failed, Finish
    <3>2. DoorInv'
      BY <2>1, <3>1, OneMoves
    <3> QED BY <2>3, <3>2
  <2> QED BY <2>4, <2>5
<1>7. ASSUME NEW a \in Admin, Begin(a)
      PROVE  DoorInv' /\ NoOpenDoor'
  <2>1. PICK kind \in Kind, s \in UNION {Request(k) : k \in Kind} :
          /\ op' = [op EXCEPT ![a] =
              [kind |-> kind, sent |-> s, todo |-> Todo(kind, s), rid |-> 0,
               read |-> {"normal"}, applied |-> {}, failed |-> FALSE, waiting |-> TRUE,
               before |-> [account |-> sam, group |-> group]]]
          /\ opened' = (opened \/ (kind = "update" /\ "disabled" \in s.clear))
    BY <1>7 DEF Begin
  <2>2. s \in Sent
    BY DEF Request
  <2>3. /\ op'[a].kind = kind /\ op'[a].sent = s /\ op'[a].todo = Todo(kind, s) /\ op'[a].rid = 0
        /\ op'[a].failed = FALSE
        /\ \A b \in Admin \ {a} : op'[b] = op[b]
    BY <1>0, <2>1
  <2>4. UNCHANGED <<standalone, sam, made>>
    BY <1>7 DEF Begin
  <2>5. InOrder(op'[a])
    <3> DEFINE q == Todo(kind, s)
    <3>1. Begins(kind, q)
      BY <2>2, TodoInOrder
    <3>2. op'[a].todo = q
      BY <2>3
    <3> HIDE DEF q
    <3> QED BY <2>3, <3>1, <3>2 DEF InOrder, Begins
  <2>6. Knows(op[a])'
    <3>1. sam = Gone \/ sam.rid # 0
      BY <1>0 DEF DoorInv
    <3>2. (sam # Gone)' => sam'.rid # 0
      BY <2>4, <3>1 DEF Gone
    <3> QED BY <1>0, <2>3, <2>4, <3>2 DEF Knows, Open
  <2>7. DoorInv'
    BY <2>1, <2>3, <2>4, <2>5, <2>6, OneMoves
  <2> QED BY <1>a, <2>1, <2>4, <2>7
<1>8. CASE UNCHANGED vars
  <2>1. DoorInv'
    BY <1>8 DEF vars, DoorInv, Knows, Open, Gone, Idle
  <2> QED BY <1>8, <1>a, <2>1 DEF vars
<1> QED BY <1>2, <1>3, <1>4, <1>5, <1>6, <1>7, <1>8 DEF Next

LEMMA InitShut == Init => DoorInv /\ NoOpenDoor
<1> SUFFICES ASSUME Init PROVE DoorInv /\ NoOpenDoor
  OBVIOUS
<1>1. sam = Gone \/ (sam.rid = 1 /\ sam.password \in Admin)
  BY DEF Init
<1>2. made = 1 /\ \A a \in Admin : op[a] = Idle
  BY DEF Init
<1> QED BY <1>1, <1>2, AccountsAssumption DEF DoorInv, NoOpenDoor, AccountsAssumption

\* However many administrators work on the account, whatever calls fail and whichever
\* answers are lost: it is never enabled without a password, unless an update was asked
\* to enable it.
THEOREM NoDoorIsOpened == Spec => []NoOpenDoor
BY InitTypeOK, NextTypeOK, InitShut, NextShut, PTL DEF Spec

\* An operation's last step, and what is then left of a creation that failed.
LEMMA EndTakesBack ==
  ASSUME TypeOK, DoorInv, [Next]_vars, NEW a \in Admin, op[a] # Idle, op'[a] = Idle,
         op[a].kind = "create", op[a].rid # 0, sam'.rid = op[a].rid
  PROVE  \/ op[a].todo = <<>> /\ ~op[a].failed
         \/ op[a].todo = <<<<"rollback">>>>
<1>0. /\ op \in [Admin -> Operation \cup {Idle}] /\ op[a] \in Operation
      /\ InOrder(op[a]) /\ Knows(op[a]) /\ op[a].todo \in Seq(Step)
  BY AtWork DEF TypeOK, DoorInv, Operation
<1>a. \A o : o.kind \in Kind => o # Idle
  BY DEF Idle, Kind
<1>b. op[a].kind \in Kind
  BY <1>0, AtWork
<1>1. ASSUME NEW b \in Admin, Refuse(b)
      PROVE  FALSE
  <2>1. op' = [op EXCEPT ![b] = Idle] /\ ~Admitted(op[b])
    BY <1>1 DEF Refuse, Finish
  <2>2. b = a
    BY <1>0, <2>1
  <2>3. ~standalone
    BY <2>1, <2>2 DEF Admitted
  <2> QED BY <1>0, <2>3 DEF Knows
<1>2. ASSUME NEW b \in Admin, GiveUp(b)
      PROVE  FALSE
  <2>1. op' = [op EXCEPT ![b].waiting = FALSE]
    BY <1>2 DEF GiveUp
  <2>2. op'[a].kind = op[a].kind
    BY <1>0, <2>1 DEF Operation
  <2> QED BY <1>a, <1>b, <2>2
<1>3. ASSUME NEW b \in Admin, Answered(b)
      PROVE  FALSE
  <2>1. op' = [op EXCEPT ![b] = Advanced(op[b])] /\ Running(b)
    BY <1>3 DEF Answered
  <2>2. op'[a].kind = op[a].kind
    BY <1>0, <2>1, AdvancedParts
  <2> QED BY <1>a, <1>b, <2>2
<1>4. ASSUME NEW b \in Admin, Skipped(b)
      PROVE  FALSE
  <2>1. op' = [op EXCEPT ![b].todo = Tail(@)]
    BY <1>4 DEF Skipped
  <2>2. op'[a].kind = op[a].kind
    BY <1>0, <2>1 DEF Operation
  <2> QED BY <1>a, <1>b, <2>2
<1>5. ASSUME NEW b \in Admin, Failed(b)
      PROVE  op[a].todo = <<<<"rollback">>>>
  <2>1. CASE RollsBack(op[b])
    <3>1. op' = [op EXCEPT ![b].todo = <<<<"rollback">>>>, ![b].failed = TRUE]
      BY <1>5, <2>1 DEF Failed
    <3>2. op'[a].kind = op[a].kind
      BY <1>0, <3>1 DEF Operation
    <3> QED BY <1>a, <1>b, <3>2
  <2>2. CASE ~RollsBack(op[b])
    <3>1. op' = [op EXCEPT ![b] = Idle] /\ Running(b)
      BY <1>5, <2>2 DEF Failed, Finish
    <3>2. b = a
      BY <1>0, <3>1
    <3>3. Head(op[a].todo)[1] \in {"create", "rollback"} /\ op[a].todo # <<>>
      BY <2>2, <3>1, <3>2 DEF RollsBack, Running
    <3>4. Head(op[a].todo) = op[a].todo[1] /\ 1 \in DOMAIN op[a].todo
      BY <1>0, <3>3, HeadOfList
    <3> QED BY <1>0, <3>3, <3>4 DEF InOrder
  <2> QED BY <2>1, <2>2
<1>6. ASSUME NEW b \in Admin, Done(b)
      PROVE  op[a].todo = <<>> /\ ~op[a].failed
  <2>1. op' = [op EXCEPT ![b] = Idle] /\ op[b].todo = <<>> /\ UNCHANGED sam
    BY <1>6 DEF Done, Finish
  <2>2. b = a
    BY <1>0, <2>1
  <2> QED BY <1>0, <2>1, <2>2 DEF Knows
<1>7. ASSUME NEW b \in Admin, Begin(b)
      PROVE  FALSE
  <2>1. op[b] = Idle /\ \A c \in Admin \ {b} : op'[c] = op[c]
    BY <1>0, <1>7 DEF Begin
  <2> QED BY <2>1
<1>8. ~UNCHANGED vars
  BY DEF vars
<1> QED BY <1>1, <1>2, <1>3, <1>4, <1>5, <1>6, <1>7, <1>8 DEF Next

\* A creation that fails once its account was made takes it back, or tried to as its
\* last call: for any number of administrators and failures.
THEOREM FailedCreationIsTakenBack == Spec => HalfMadeIsTakenBack
<1>1. TypeOK /\ DoorInv /\ [Next]_vars =>
        [\A a \in Admin :
            op[a] # Idle /\ op'[a] = Idle =>
                (op[a].kind = "create" /\ op[a].rid # 0 /\ sam'.rid = op[a].rid
                    => \/ op[a].todo = <<>> /\ ~op[a].failed
                       \/ op[a].todo = <<<<"rollback">>>>)]_vars
  BY EndTakesBack
<1> QED BY InitTypeOK, NextTypeOK, InitShut, NextShut, <1>1, PTL DEF Spec, HalfMadeIsTakenBack

(***************************************************************************)
(* What an operation has done so far, and what it has still to do.         *)
(***************************************************************************)
\* The calls a list has.
Elements(q) == {q[i] : i \in DOMAIN q}

\* The list that is left when its first call is taken off.
LEMMA TailOfList ==
  ASSUME NEW q \in Seq(Step), q # <<>>
  PROVE  /\ \A i \in DOMAIN Tail(q) : i \in Nat /\ i + 1 \in DOMAIN q /\ i + 1 # 1 /\ Tail(q)[i] = q[i + 1]
         /\ Elements(q) = {Head(q)} \cup Elements(Tail(q))
<1>1. /\ Len(q) \in Nat /\ Len(q) # 0 /\ DOMAIN q = 1..Len(q)
      /\ Head(q) = q[1] /\ Tail(q) \in Seq(Step) /\ Len(Tail(q)) = Len(q) - 1
      /\ \A i \in 1..(Len(q) - 1) : Tail(q)[i] = q[i + 1]
  BY HeadTailProperties
<1>2. DOMAIN Tail(q) = 1..(Len(q) - 1)
  BY <1>1
<1>3. ASSUME NEW i \in DOMAIN Tail(q)
      PROVE  i \in Nat /\ i + 1 \in DOMAIN q /\ i + 1 # 1 /\ Tail(q)[i] = q[i + 1]
  BY <1>1, <1>2
<1>4. \A i \in DOMAIN q : i = 1 \/ (i - 1 \in DOMAIN Tail(q) /\ Tail(q)[i - 1] = q[i])
  BY <1>1, <1>2
<1>5. 1 \in DOMAIN q
  BY <1>1
<1>6. ASSUME NEW x \in Elements(q) PROVE x = Head(q) \/ x \in Elements(Tail(q))
  <2>1. PICK i \in DOMAIN q : x = q[i]
    BY DEF Elements
  <2>2. CASE i = 1
    BY <1>1, <2>1, <2>2
  <2>3. CASE i # 1
    <3> DEFINE rest == Tail(q)
    <3>1. i - 1 \in DOMAIN rest /\ rest[i - 1] = x
      BY <1>4, <2>1, <2>3
    <3> HIDE DEF rest
    <3>2. x \in Elements(rest)
      BY <3>1 DEF Elements
    <3> QED BY <3>2 DEF rest
  <2> QED BY <2>2, <2>3
<1>7. \A x \in Elements(Tail(q)) : x \in Elements(q)
  BY <1>3 DEF Elements
<1>8. Head(q) \in Elements(q)
  BY <1>1, <1>5 DEF Elements
<1> QED BY <1>3, <1>6, <1>7, <1>8

LEMMA LeftAfter ==
  ASSUME NEW o, NEW p, o.todo \in Seq(Step), o.todo # <<>>, p.todo = Tail(o.todo)
  PROVE  Left(o) = {Head(o.todo)} \cup Left(p)
<1>1. Left(o) = Elements(o.todo) /\ Left(p) = Elements(p.todo)
  BY DEF Left, Elements
<1> QED BY <1>1, TailOfList

\* Every element of a finite set is listed.
LEMMA EveryElementListed ==
  ASSUME NEW S, IsFiniteSet(S), NEW what
  PROVE  Elements(Calls(what, S)) = {what} \X S
<1>1. Cardinality(S) \in Nat
  BY FS_CardinalityType
<1>2. ExistsBijection(1..Cardinality(S), S)
  BY FS_CardinalityType, FS_CountingElements
<1>3. PICK f \in Bijection(1..Cardinality(S), S) : TRUE
  BY <1>2 DEF ExistsBijection
<1>4. /\ f \in [1..Cardinality(S) -> S]
      /\ \A s \in S : \E i \in DOMAIN f : f[i] = s
  BY <1>3 DEF Bijection, Injection, Surjection
<1>5. /\ Listed(S) \in [1..Cardinality(S) -> S]
      /\ \A s \in S : \E i \in DOMAIN Listed(S) : Listed(S)[i] = s
  BY <1>4 DEF Listed
<1>6. DOMAIN Calls(what, S) = 1..Cardinality(S)
      /\ \A i \in 1..Cardinality(S) : Calls(what, S)[i] = <<what, Listed(S)[i]>>
  BY DEF Calls
<1>7. ASSUME NEW c \in {what} \X S PROVE \E i \in DOMAIN Calls(what, S) : c = Calls(what, S)[i]
  <2>1. c = <<what, c[2]>> /\ c[2] \in S
    OBVIOUS
  <2> QED BY <1>5, <1>6, <2>1
<1>8. ASSUME NEW i \in DOMAIN Calls(what, S) PROVE Calls(what, S)[i] \in {what} \X S
  <2>1. i \in 1..Cardinality(S) /\ Listed(S)[i] \in S
    BY <1>5, <1>6
  <2>2. Calls(what, S)[i] = <<what, Listed(S)[i]>>
    BY <1>6, <2>1
  <2> QED BY <2>1, <2>2
<1>9. \A c \in {what} \X S : c \in Elements(Calls(what, S))
  BY <1>7 DEF Elements
<1>10. \A c \in Elements(Calls(what, S)) : c \in {what} \X S
  BY <1>8 DEF Elements
<1> QED BY <1>9, <1>10

\* The calls in two lists after one another are those of either.
LEMMA ConcatCalls ==
  ASSUME NEW p \in Seq(Step), NEW q \in Seq(Step)
  PROVE  Elements(p \o q) = Elements(p) \cup Elements(q)
<1>1. /\ Len(p) \in Nat /\ Len(q) \in Nat /\ DOMAIN p = 1..Len(p) /\ DOMAIN q = 1..Len(q)
      /\ p \o q \in Seq(Step) /\ Len(p \o q) = Len(p) + Len(q)
      /\ DOMAIN (p \o q) = 1..Len(p) + Len(q)
      /\ \A i \in 1..Len(p) + Len(q) : (p \o q)[i] = IF i <= Len(p) THEN p[i] ELSE q[i - Len(p)]
  <2>1. Len(p) \in Nat /\ Len(q) \in Nat /\ DOMAIN p = 1..Len(p) /\ DOMAIN q = 1..Len(q)
    OBVIOUS
  <2>2. /\ p \o q \in Seq(Step) /\ Len(p \o q) = Len(p) + Len(q)
        /\ \A i \in 1..Len(p) + Len(q) : (p \o q)[i] = IF i <= Len(p) THEN p[i] ELSE q[i - Len(p)]
    BY ConcatProperties
  <2>3. DOMAIN (p \o q) = 1..Len(p \o q)
    BY <2>2
  <2> QED BY <2>1, <2>2, <2>3
<1> DEFINE r == p \o q
<1> HIDE DEF r
<1>2. \A i \in DOMAIN r : \/ i \in DOMAIN p /\ r[i] = p[i]
                          \/ i - Len(p) \in DOMAIN q /\ r[i] = q[i - Len(p)]
  BY <1>1 DEF r
<1>3. \A i \in DOMAIN p : i \in DOMAIN r /\ r[i] = p[i]
  BY <1>1 DEF r
<1>4. \A i \in DOMAIN q : i + Len(p) \in DOMAIN r /\ r[i + Len(p)] = q[i]
  BY <1>1 DEF r
<1> QED BY <1>2, <1>3, <1>4 DEF r, Elements

\* The lists of the operations have the calls they are said to have, and members are
\* added before any is removed.
LEMMA TodoIsCalls ==
  ASSUME NEW kind \in Kind, NEW s \in Request(kind)
  PROVE  /\ Elements(Todo(kind, s)) = CallsOf(kind, s)
         /\ \A i, j \in DOMAIN Todo(kind, s) :
               Todo(kind, s)[i][1] = "add" /\ Todo(kind, s)[j][1] = "remove" => i < j
<1> DEFINE q == Todo(kind, s)
           texts == Calls("text", s.texts)
           in == Calls("add", s.add)
           out == Calls("remove", s.remove)
<1>0. /\ s \in Sent /\ IsFiniteSet(s.texts) /\ IsFiniteSet(s.add) /\ IsFiniteSet(s.remove)
      /\ s.texts \subseteq Text /\ s.add \subseteq Sid /\ s.remove \subseteq Sid
  <2>1. s \in Sent
    BY DEF Request
  <2>2. s.texts \subseteq Text /\ s.add \subseteq Sid /\ s.remove \subseteq Sid
    BY <2>1 DEF Sent
  <2> QED BY <2>1, <2>2, AccountsAssumption, FS_Subset DEF AccountsAssumption
<1>a. \A c \in {"create", "lookup", "read", "password", "flags", "delete", "rollback"} : <<c>> \in Step
  BY DEF Step
<1>b. /\ texts \in Seq(Step) /\ Elements(texts) = {"text"} \X s.texts
      /\ in \in Seq(Step) /\ Elements(in) = {"add"} \X s.add
      /\ out \in Seq(Step) /\ Elements(out) = {"remove"} \X s.remove
  BY <1>0, CallsAreSteps, EveryElementListed
<1>c. /\ kind \notin {"create", "update"} => s.texts = {} /\ s.set \cup s.clear = {}
      /\ kind # "members" => s.add = {} /\ s.remove = {}
  BY DEF Request
<1> HIDE DEF q, texts, in, out
<1>1. CASE kind = "create"
  <2> DEFINE first == <<<<"create">>, <<"password">>, <<"flags">>>>
  <2>1. first \in Seq(Step) /\ Elements(first) = {<<"create">>, <<"password">>, <<"flags">>}
    <3>1. /\ DOMAIN first = 1..3 /\ first[1] = <<"create">> /\ first[2] = <<"password">>
          /\ first[3] = <<"flags">>
      OBVIOUS
    <3> QED BY <1>a, <3>1 DEF Elements
  <2>2. q = first \o texts
    BY <1>1 DEF q, texts, Todo, create_user
  <2> HIDE DEF first
  <2>3. Elements(q) = {<<"create">>, <<"password">>, <<"flags">>} \cup {"text"} \X s.texts
    BY <1>b, <2>1, <2>2, ConcatCalls
  <2>4. CallsOf(kind, s) = {<<"create">>, <<"password">>, <<"flags">>} \cup {"text"} \X s.texts
    BY <1>1, <1>c DEF CallsOf
  <2>5. \A i \in DOMAIN q : q[i][1] # "add"
    BY <2>3 DEF Elements
  <2> QED BY <2>3, <2>4, <2>5 DEF q
<1>2. CASE kind = "update"
  <2> DEFINE first == <<<<"lookup">>, <<"read">>>>
             last == IF s.set \cup s.clear = {} THEN <<>> ELSE <<<<"flags">>>>
  <2>1. first \in Seq(Step) /\ Elements(first) = {<<"lookup">>, <<"read">>}
    <3>1. DOMAIN first = 1..2 /\ first[1] = <<"lookup">> /\ first[2] = <<"read">>
      OBVIOUS
    <3> QED BY <1>a, <3>1 DEF Elements
  <2>2. /\ last \in Seq(Step)
        /\ Elements(last) = {<<c>> : c \in {c \in {"flags"} : s.set \cup s.clear # {}}}
    BY <1>a DEF Elements
  <2>3. q = (first \o texts) \o last
    BY <1>2 DEF q, texts, Todo, update_user
  <2> HIDE DEF first, last
  <2>4. /\ first \o texts \in Seq(Step)
        /\ Elements(first \o texts) = {<<"lookup">>, <<"read">>} \cup {"text"} \X s.texts
    BY <1>b, <2>1, ConcatCalls
  <2>5. Elements(q) = {<<"lookup">>, <<"read">>} \cup {"text"} \X s.texts
            \cup {<<c>> : c \in {c \in {"flags"} : s.set \cup s.clear # {}}}
    <3> DEFINE most == first \o texts
    <3> HIDE DEF most
    <3>1. Elements(most \o last) = Elements(most) \cup Elements(last)
      BY <2>2, <2>4, ConcatCalls DEF most
    <3> QED BY <2>2, <2>3, <2>4, <3>1 DEF most
  <2>6. CallsOf(kind, s) = {<<"lookup">>, <<"read">>} \cup {"text"} \X s.texts
            \cup {<<c>> : c \in {c \in {"flags"} : s.set \cup s.clear # {}}}
    BY <1>2, <1>c DEF CallsOf
  <2>7. \A i \in DOMAIN q : q[i][1] # "add"
    BY <2>5 DEF Elements
  <2> QED BY <2>5, <2>6, <2>7 DEF q
<1>3. CASE kind \in {"password", "delete"}
  <2>1. q = IF kind = "password" THEN <<<<"lookup">>, <<"password">>>> ELSE <<<<"lookup">>, <<"delete">>>>
    BY <1>3 DEF q, Todo, set_password, delete_user
  <2>2. Elements(q) = {<<"lookup">>, <<kind>>}
    <3>1. DOMAIN q = 1..2 /\ q[1] = <<"lookup">> /\ q[2] = <<kind>>
      BY <1>3, <2>1
    <3> QED BY <3>1 DEF Elements
  <2>3. CallsOf(kind, s) = {<<"lookup">>, <<kind>>}
    BY <1>3, <1>c DEF CallsOf
  <2>4. \A i \in DOMAIN q : q[i][1] # "add"
    BY <1>3, <2>2 DEF Elements
  <2> QED BY <2>2, <2>3, <2>4 DEF q
<1>4. CASE kind = "members"
  <2>1. q = in \o out
    BY <1>4 DEF q, in, out, Todo, set_members
  <2>2. Elements(q) = {"add"} \X s.add \cup {"remove"} \X s.remove
    BY <1>b, <2>1, ConcatCalls
  <2>3. CallsOf(kind, s) = {"add"} \X s.add \cup {"remove"} \X s.remove
    BY <1>4, <1>c DEF CallsOf
  <2>4. ASSUME NEW i \in DOMAIN q, NEW j \in DOMAIN q, q[i][1] = "add", q[j][1] = "remove"
        PROVE  i < j
    <3>1. \A k \in DOMAIN in : in[k][1] = "add"
      BY <1>b DEF Elements
    <3>2. \A k \in DOMAIN out : out[k][1] = "remove"
      BY <1>b DEF Elements
    <3>3. i \in DOMAIN in
      BY <1>b, <2>1, <2>4, <3>2, ConcatElements
    <3>4. j \notin DOMAIN in /\ j - Len(in) \in DOMAIN out
      BY <1>b, <2>1, <2>4, <3>1, ConcatElements
    <3>5. Len(in) \in Nat /\ DOMAIN in = 1..Len(in) /\ Len(out) \in Nat /\ DOMAIN out = 1..Len(out)
      BY <1>b
    <3>6. j \in Int
      <4>1. q \in Seq(Step)
        BY <1>b, <2>1
      <4> QED BY <4>1
    <3> QED BY <3>3, <3>4, <3>5, <3>6
  <2> QED BY <2>2, <2>3, <2>4 DEF q
<1> QED BY <1>1, <1>2, <1>3, <1>4 DEF Kind

\* Which operation a call belongs to.
LEMMA CallParts ==
  ASSUME NEW kind \in Kind, NEW s \in Request(kind), NEW c \in CallsOf(kind, s)
  PROVE  /\ c[1] \in {"create", "lookup", "read", "password", "flags", "delete", "text", "add", "remove"}
         /\ c[1] = "create" => kind = "create" /\ c = <<"create">>
         /\ c[1] = "lookup" => kind \in {"update", "password", "delete"} /\ c = <<"lookup">>
         /\ c[1] = "read" => kind = "update" /\ c = <<"read">>
         /\ c[1] = "password" => kind \in {"create", "password"} /\ c = <<"password">>
         /\ c[1] = "flags" => kind \in {"create", "update"} /\ c = <<"flags">>
         /\ c[1] = "delete" => kind = "delete" /\ c = <<"delete">>
         /\ c[1] = "text" => kind \in {"create", "update"} /\ c[2] \in s.texts /\ c = <<"text", c[2]>>
         /\ c[1] = "add" => kind = "members" /\ c[2] \in s.add /\ c = <<"add", c[2]>>
         /\ c[1] = "remove" => kind = "members" /\ c[2] \in s.remove /\ c = <<"remove", c[2]>>
<1>1. /\ kind \notin {"create", "update"} => s.texts = {}
      /\ kind # "members" => s.add = {} /\ s.remove = {}
  BY DEF Request
<1>2. CASE c \in {"text"} \X s.texts \cup {"add"} \X s.add \cup {"remove"} \X s.remove
  BY <1>1, <1>2
<1>3. CASE c \notin {"text"} \X s.texts \cup {"add"} \X s.add \cup {"remove"} \X s.remove
  <2>1. \E x \in CASE kind = "create" -> {"create", "password", "flags"}
                   [] kind = "update" ->
                          {"lookup", "read"} \cup {y \in {"flags"} : s.set \cup s.clear # {}}
                   [] kind = "password" -> {"lookup", "password"}
                   [] kind = "delete" -> {"lookup", "delete"}
                   [] kind = "members" -> {} : c = <<x>>
    BY <1>3 DEF CallsOf
  <2> QED BY <2>1 DEF Kind
<1> QED BY <1>2, <1>3

\* What an operation was asked to make of the account, field by field.
LEMMA AskedParts ==
  ASSUME NEW a \in Admin, NEW o \in Operation
  PROVE  LET asked == Asked(a, o)
             was == o.before.account
         IN /\ was \in Account
            /\ o.kind = "create" =>
                  /\ asked.rid = o.rid /\ asked.password = a
                  /\ asked.flags = {"normal"} \cup o.sent.set
                  /\ \A t \in Text : asked.text[t] = IF t \in o.sent.texts THEN a ELSE None
            /\ o.kind = "update" =>
                  /\ asked.rid = was.rid /\ asked.password = was.password
                  /\ asked.flags = (was.flags \ o.sent.clear) \cup o.sent.set
                  /\ \A t \in Text : asked.text[t] = IF t \in o.sent.texts THEN a ELSE was.text[t]
            /\ o.kind = "password" =>
                  /\ asked.rid = was.rid /\ asked.password = a
                  /\ asked.flags = was.flags /\ asked.text = was.text
            /\ o.kind = "delete" => asked = Gone
            /\ o.kind = "members" => asked = was
            /\ asked \in Account
<1> DEFINE was == o.before.account
<1>1. was \in Account /\ o.sent \in Sent /\ o.rid \in Nat /\ o.kind \in Kind
  BY DEF Operation
<1>2. o.sent.set \subseteq Flag
  BY <1>1 DEF Sent, Flag
<1> HIDE DEF was
<1>3. CASE o.kind = "create"
  BY <1>1, <1>2, <1>3 DEF Asked, Account, Flag, was
<1>4. CASE o.kind = "update"
  <2> DEFINE new == [t \in Text |-> IF t \in o.sent.texts THEN a ELSE was.text[t]]
  <2>1. new \in [Text -> Admin \cup {None}]
    BY <1>1 DEF Account
  <2>2. Asked(a, o) = [was EXCEPT !.flags = (was.flags \ o.sent.clear) \cup o.sent.set, !.text = new]
    BY <1>4 DEF Asked, was
  <2>3. \A t \in Text : new[t] = IF t \in o.sent.texts THEN a ELSE was.text[t]
    OBVIOUS
  <2> HIDE DEF new
  <2> QED BY <1>1, <1>2, <1>4, <2>1, <2>2, <2>3 DEF Account, was
<1>5. CASE o.kind = "password"
  BY <1>1, <1>5 DEF Asked, Account, was
<1>6. CASE o.kind = "delete"
  BY <1>1, <1>6 DEF Asked, Account, Gone, was
<1>7. CASE o.kind = "members"
  BY <1>1, <1>7 DEF Asked, was
<1> QED BY <1>1, <1>3, <1>4, <1>5, <1>6, <1>7 DEF Kind, was

\* An operation that goes by what was sent carries on with its request, whichever of
\* its calls has been carried out (or need not be).
LEMMA GoesOnByRequest ==
  ASSUME TypeOK, NEW a \in Admin, op[a] \in Operation, op[a].todo # <<>>, InOrder(op[a]),
         ByRequest(op[a]), sam' = Changed(a, op[a]), sam.flags \in SUBSET Flag,
         op'[a].todo = Tail(op[a].todo), op'[a].kind = op[a].kind, op'[a].sent = op[a].sent,
         op'[a].before = op[a].before,
         op'[a].read = IF Head(op[a].todo)[1] = "read" THEN sam.flags ELSE op[a].read
  PROVE  /\ ByRequest(op[a])'
         /\ <<"create">> \notin Left(op'[a])
         /\ Left(op[a]) = {Head(op[a].todo)} \cup Left(op'[a])
         /\ Head(op[a].todo) \in CallsOf(op[a].kind, op[a].sent)
         /\ op[a].kind = "update" /\ Head(op[a].todo)[1] = "flags" => op[a].read = op[a].before.account.flags
<1> DEFINE o == op[a]
           p == op'[a]
           c == Head(o.todo)
<1>1. o.todo \in Seq(Step) /\ o.kind \in Kind /\ sam \in Account
  BY DEF Operation, TypeOK
<1>2. Left(o) = {c} \cup Left(p)
  BY <1>1, LeftAfter
<1>3. \A i \in DOMAIN p.todo : i \in Nat /\ i + 1 \in DOMAIN o.todo /\ i + 1 # 1 /\ p.todo[i] = o.todo[i + 1]
  BY <1>1, TailOfList
<1>4. <<"create">> \notin Left(p)
  <2>1. ASSUME NEW i \in DOMAIN p.todo PROVE p.todo[i][1] # "create"
    BY <1>3 DEF InOrder
  <2> QED BY <2>1 DEF Left
<1>5. /\ o.sent \in Request(o.kind) /\ Left(o) \subseteq CallsOf(o.kind, o.sent)
      /\ c \in CallsOf(o.kind, o.sent)
  BY <1>2 DEF ByRequest
<1>6. ASSUME NEW i \in DOMAIN p.todo, NEW j \in DOMAIN p.todo, p.todo[i][1] = "add", p.todo[j][1] = "remove"
      PROVE  i < j
  <2>1. i + 1 < j + 1
    BY <1>3, <1>6 DEF ByRequest
  <2> QED BY <1>3, <2>1
<1>7. c[1] = "read" => o.kind = "update" /\ c = <<"read">>
  BY <1>1, <1>5, CallParts
<1>8. o.kind = "update" /\ c[1] = "flags" => <<"read">> \notin Left(o)
  <2>1. c[1] = "flags" => \A i \in DOMAIN o.todo : o.todo[i][1] # "read"
    BY <1>1, FirstInOrder
  <2> QED BY <2>1 DEF Left
<1>9. o.kind = "update" /\ c[1] = "flags" => o.read = o.before.account.flags
  BY <1>8 DEF ByRequest
<1>10. ASSUME o.kind = "update"
       PROVE  IF <<"read">> \in Left(p) THEN sam'.flags = o.before.account.flags
              ELSE p.read = o.before.account.flags
  <2>1. CASE <<"read">> \in Left(p)
    <3>1. sam.flags = o.before.account.flags /\ c[1] # "flags"
      BY <1>2, <1>8, <1>10, <2>1 DEF ByRequest
    <3>2. c[1] \notin {"create", "password", "delete", "rollback"}
      BY <1>1, <1>5, <1>10, CallParts
    <3>3. CASE c[1] = "text"
      <4>1. sam' = [sam EXCEPT !.text[c[2]] = a]
        BY <3>3 DEF Changed
      <4>2. sam'.flags = sam.flags
        BY <1>1, <4>1 DEF Account
      <4> QED BY <2>1, <3>1, <4>2
    <3>4. CASE c[1] # "text"
      <4>1. sam' = sam
        BY <3>1, <3>2, <3>4 DEF Changed
      <4> QED BY <2>1, <3>1, <4>1
    <3> QED BY <2>1, <3>1, <3>3, <3>4
  <2>2. CASE <<"read">> \notin Left(p)
    <3>1. CASE c[1] = "read"
      BY <1>2, <1>7, <1>10, <2>2, <3>1 DEF ByRequest
    <3>2. CASE c[1] # "read"
      <4>1. <<"read">> \notin Left(o)
        BY <1>2, <2>2, <3>2
      <4> QED BY <1>10, <2>2, <3>2, <4>1 DEF ByRequest
    <3> QED BY <3>1, <3>2
  <2> QED BY <2>1, <2>2
<1>11. p.kind = "create" => p.read = {"normal"}
  BY <1>7 DEF ByRequest
<1>12. ByRequest(op[a])'
  <2>1. Left(p) \subseteq CallsOf(p.kind, p.sent) /\ p.sent \in Request(p.kind)
    BY <1>2, <1>5
  <2>2. Left(op[a])' = Left(p)
    BY DEF Left
  <2> HIDE DEF o, p, c
  <2> QED BY <1>4, <1>6, <1>10, <1>11, <2>1, <2>2 DEF ByRequest, o, p
<1> QED BY <1>2, <1>4, <1>5, <1>9, <1>12

\* The account is as far as the calls that were carried out.
LEMMA AccountGoesOn ==
  ASSUME TypeOK, NEW a \in Admin, op[a] \in Operation, op'[a] \in Operation, op[a].todo # <<>>,
         ByRequest(op[a]), AccountSoFar(a, op[a]), sam' = Changed(a, op[a]),
         op'[a].kind = op[a].kind, op'[a].sent = op[a].sent, op'[a].before = op[a].before,
         op'[a].rid = IF Head(op[a].todo)[1] = "create" THEN made + 1
                      ELSE IF Head(op[a].todo)[1] = "lookup" THEN sam.rid ELSE op[a].rid,
         <<"create">> \notin Left(op'[a]),
         Left(op[a]) = {Head(op[a].todo)} \cup Left(op'[a]),
         Head(op[a].todo) \in CallsOf(op[a].kind, op[a].sent),
         op[a].kind = "update" /\ Head(op[a].todo)[1] = "flags" => op[a].read = op[a].before.account.flags
  PROVE  AccountSoFar(a, op[a])'
<1> DEFINE o == op[a]
           p == op'[a]
           c == Head(o.todo)
           L == Left(o)
           M == Left(p)
           asked == Asked(a, o)
           want == Asked(a, p)
<1>1. sam \in Account /\ o.kind \in Kind /\ o.sent \in Request(o.kind)
  BY DEF TypeOK, Operation, ByRequest
<1>2. (Asked(a, op[a]))' = want /\ Left(op[a])' = M
  BY DEF Asked, Left
<1>3. sam' = Changed(a, o)
  OBVIOUS
<1>4. SUFFICES
        /\ o.kind \in {"create", "update", "password"} =>
              /\ sam'.rid = want.rid
              /\ <<"password">> \notin M => sam'.password = want.password
              /\ <<"flags">> \notin M => sam'.flags = want.flags
              /\ \A t \in Text : <<"text", t>> \notin M => sam'.text[t] = want.text[t]
        /\ o.kind = "delete" /\ <<"delete">> \notin M => sam' = Gone
        /\ o.kind = "members" => sam' = o.before.account
  <2>1. Gone' = Gone
    BY DEF Gone
  <2> QED BY <1>2, <2>1 DEF AccountSoFar
<1>5. c[1] \in {"create", "lookup", "read", "password", "flags", "delete", "text", "add", "remove"}
  BY <1>1, CallParts
<1>6. CASE c[1] = "create"
  <2>1. o.kind = "create" /\ c = <<"create">>
    BY <1>1, <1>6, CallParts
  <2>2. L = CallsOf(o.kind, o.sent)
    BY <2>1 DEF ByRequest
  <2>3. /\ <<"password">> \in L /\ <<"flags">> \in L
        /\ \A t \in o.sent.texts : <<"text", t>> \in L
    BY <2>1, <2>2 DEF CallsOf
  <2>4. /\ <<"password">> \in M /\ <<"flags">> \in M
        /\ \A t \in o.sent.texts : <<"text", t>> \in M
    <3>1. <<"password">> # c /\ <<"flags">> # c /\ \A t \in o.sent.texts : <<"text", t>> # c
      BY <2>1
    <3> QED BY <2>3, <3>1
  <2>5. sam'.rid = made + 1 /\ \A t \in Text : sam'.text[t] = None
    BY <1>3, <1>6 DEF Changed
  <2>6. want.rid = made + 1 /\ \A t \in Text \ o.sent.texts : want.text[t] = None
    BY <1>6, <2>1, AskedParts
  <2> HIDE DEF o, p, c, L, M, want
  <2> QED BY <2>1, <2>4, <2>5, <2>6
<1>7. CASE c[1] # "create"
  <2>1. <<"create">> \notin L
    BY <1>7
  <2>2. o.kind = "create" => p.rid = o.rid
    <3>1. o.kind = "create" => c[1] # "lookup"
      BY <1>1, CallParts
    <3> QED BY <1>7, <3>1
  <2>3. /\ want \in Account /\ asked \in Account /\ o.before.account \in Account
        /\ o.kind = "delete" => want = Gone
        /\ o.kind = "members" => want = o.before.account /\ asked = want
        /\ o.kind \in {"create", "update", "password"} =>
              /\ want.rid = asked.rid /\ want.password = asked.password /\ want.flags = asked.flags
              /\ \A t \in Text : want.text[t] = asked.text[t]
    <3>1. want = asked
      <4>1. CASE o.kind = "create"
        BY <2>2, <4>1 DEF Asked
      <4>2. CASE o.kind = "update"
        BY <4>2 DEF Asked
      <4>3. CASE o.kind \in {"password", "delete", "members"}
        BY <4>3 DEF Asked
      <4> QED BY <1>1, <4>1, <4>2, <4>3 DEF Kind
    <3> QED BY <3>1, AskedParts
  <2>4. o.kind \in {"create", "update", "password"} =>
              /\ sam.rid = asked.rid
              /\ <<"password">> \notin L => sam.password = asked.password
              /\ <<"flags">> \notin L => sam.flags = asked.flags
              /\ \A t \in Text : <<"text", t>> \notin L => sam.text[t] = asked.text[t]
    BY <2>1 DEF AccountSoFar
  <2>5. /\ o.kind = "delete" /\ <<"delete">> \notin L => sam = Gone
        /\ o.kind = "members" => sam = o.before.account
    BY DEF AccountSoFar
  <2>6. CASE c[1] = "password"
    <3>1. o.kind \in {"create", "password"} /\ c = <<"password">>
      BY <1>1, <2>6, CallParts
    <3>2. asked.password = a
      BY <3>1, AskedParts
    <3>3. /\ sam'.rid = sam.rid /\ sam'.password = a /\ sam'.flags = sam.flags /\ sam'.text = sam.text
      BY <1>1, <1>3, <2>6 DEF Changed, Account
    <3>4. /\ <<"flags">> \in L => <<"flags">> \in M
          /\ \A t \in Text : <<"text", t>> \in L => <<"text", t>> \in M
      BY <3>1
    <3> HIDE DEF o, p, c, L, M, want, asked
    <3> QED BY <2>3, <2>4, <3>1, <3>2, <3>3, <3>4
  <2>7. CASE c[1] = "flags"
    <3>1. o.kind \in {"create", "update"} /\ c = <<"flags">>
      BY <1>1, <2>7, CallParts
    <3>2. Flags(o) = asked.flags
      <4>1. CASE o.kind = "create"
        <5>1. o.sent.clear = {} /\ o.read = {"normal"}
          BY <1>1, <4>1 DEF Request, ByRequest
        <5>2. asked.flags = {"normal"} \cup o.sent.set
          BY <4>1, AskedParts
        <5> QED BY <5>1, <5>2 DEF Flags
      <4>2. CASE o.kind = "update"
        <5>1. asked.flags = (o.before.account.flags \ o.sent.clear) \cup o.sent.set
          BY <4>2, AskedParts
        <5> QED BY <2>7, <4>2, <5>1 DEF Flags
      <4> QED BY <3>1, <4>1, <4>2
    <3>3. /\ sam'.rid = sam.rid /\ sam'.password = sam.password /\ sam'.flags = Flags(o)
          /\ sam'.text = sam.text
      BY <1>1, <1>3, <2>7 DEF Changed, Account
    <3>4. /\ <<"password">> \in L => <<"password">> \in M
          /\ \A t \in Text : <<"text", t>> \in L => <<"text", t>> \in M
      BY <3>1
    <3> HIDE DEF o, p, c, L, M, want, asked
    <3> QED BY <2>3, <2>4, <3>1, <3>2, <3>3, <3>4
  <2>8. CASE c[1] = "text"
    <3>1. o.kind \in {"create", "update"} /\ c[2] \in o.sent.texts /\ c = <<"text", c[2]>>
      BY <1>1, <2>8, CallParts
    <3>2. asked.text[c[2]] = a /\ c[2] \in Text
      <4>1. c[2] \in Text
        BY <1>1, <3>1 DEF Request, Sent
      <4> QED BY <3>1, <4>1, AskedParts
    <3>3. /\ sam'.rid = sam.rid /\ sam'.password = sam.password /\ sam'.flags = sam.flags
          /\ \A t \in Text : sam'.text[t] = IF t = c[2] THEN a ELSE sam.text[t]
      <4>1. sam' = [sam EXCEPT !.text[c[2]] = a]
        BY <1>3, <2>8 DEF Changed
      <4> QED BY <1>1, <3>2, <4>1 DEF Account
    <3>4. /\ <<"password">> \in L => <<"password">> \in M
          /\ <<"flags">> \in L => <<"flags">> \in M
          /\ \A t \in Text : <<"text", t>> \in L => <<"text", t>> \in M \/ t = c[2]
      BY <3>1
    <3> HIDE DEF o, p, c, L, M, want, asked
    <3> QED BY <2>3, <2>4, <3>1, <3>2, <3>3, <3>4
  <2>9. CASE c[1] = "delete"
    <3>1. o.kind = "delete"
      BY <1>1, <2>9, CallParts
    <3>2. sam' = Gone
      BY <1>3, <2>9 DEF Changed
    <3> QED BY <3>1, <3>2
  <2>10. CASE c[1] \in {"lookup", "read", "add", "remove"}
    <3>1. sam' = sam
      BY <1>3, <2>10 DEF Changed
    <3>2. /\ c[1] = "lookup" => c = <<"lookup">>
          /\ c[1] = "read" => c = <<"read">>
          /\ c[1] \in {"add", "remove"} => c = <<c[1], c[2]>>
      BY <1>1, CallParts
    <3>3. /\ <<"password">> \in L => <<"password">> \in M
          /\ <<"flags">> \in L => <<"flags">> \in M
          /\ <<"delete">> \in L => <<"delete">> \in M
          /\ \A t \in Text : <<"text", t>> \in L => <<"text", t>> \in M
      <4>1. /\ <<"password">> # c /\ <<"flags">> # c /\ <<"delete">> # c
            /\ \A t \in Text : <<"text", t>> # c
        BY <2>10
      <4> QED BY <4>1
    <3> HIDE DEF o, p, c, L, M, want, asked
    <3> QED BY <2>3, <2>4, <2>5, <3>1, <3>3
  <2> QED BY <1>5, <1>7, <2>6, <2>7, <2>8, <2>9, <2>10
<1> QED BY <1>6, <1>7

\* And so is the group.
LEMMA GroupGoesOn ==
  ASSUME TypeOK, NEW a \in Admin, op[a] \in Operation, op[a].todo # <<>>,
         ByRequest(op[a]), GroupSoFar(op[a]), group' = Members(op[a]),
         op'[a].todo = Tail(op[a].todo), op'[a].sent = op[a].sent, op'[a].before = op[a].before,
         Left(op[a]) = {Head(op[a].todo)} \cup Left(op'[a]),
         Head(op[a].todo) \in CallsOf(op[a].kind, op[a].sent)
  PROVE  GroupSoFar(op[a])'
<1> DEFINE o == op[a]
           p == op'[a]
           c == Head(o.todo)
           L == Left(o)
           M == Left(p)
<1>1. /\ o.todo \in Seq(Step) /\ o.kind \in Kind /\ o.sent \in Request(o.kind)
      /\ group' = Members(o)
  BY DEF Operation, ByRequest
<1>2. Left(op[a])' = M
  BY DEF Left
<1>3. ASSUME NEW m \in Sid
      PROVE  /\ m \notin o.sent.add \cup o.sent.remove => (m \in group <=> m \in o.before.group)
             /\ m \in o.sent.add \ o.sent.remove /\ <<"add", m>> \notin L => m \in group
             /\ m \in o.sent.remove /\ <<"remove", m>> \notin L =>
                  m \notin group /\ \A x \in L : x[1] # "add"
  BY DEF GroupSoFar
<1>4. SUFFICES ASSUME NEW m \in Sid
      PROVE  /\ m \notin o.sent.add \cup o.sent.remove => (m \in group' <=> m \in o.before.group)
             /\ m \in o.sent.add \ o.sent.remove /\ <<"add", m>> \notin M => m \in group'
             /\ m \in o.sent.remove /\ <<"remove", m>> \notin M =>
                  m \notin group' /\ \A x \in M : x[1] # "add"
  BY <1>2 DEF GroupSoFar
<1>5. CASE c[1] = "add"
  <2>1. c[2] \in o.sent.add /\ c = <<"add", c[2]>>
    BY <1>1, <1>5, CallParts
  <2>2. group' = group \cup {c[2]}
    BY <1>1, <1>5 DEF Members
  <2>3. c \in L /\ c[1] = "add" /\ M \subseteq L
    BY <1>5
  <2>4. <<"remove", m>> \in L => <<"remove", m>> \in M
    BY <2>1
  <2>5. <<"add", m>> \in L => <<"add", m>> \in M \/ m = c[2]
    BY <2>1
  <2> HIDE DEF o, p, c, L, M
  <2> QED BY <1>3, <2>1, <2>2, <2>3, <2>4, <2>5
<1>6. CASE c[1] = "remove"
  <2>1. c[2] \in o.sent.remove /\ c = <<"remove", c[2]>>
    BY <1>1, <1>6, CallParts
  <2>2. group' = group \ {c[2]}
    BY <1>1, <1>6 DEF Members
  <2>3. <<"add", m>> \in L => <<"add", m>> \in M
    BY <2>1
  <2>4. <<"remove", m>> \in L => <<"remove", m>> \in M \/ m = c[2]
    BY <2>1
  <2>5. \A x \in M : x[1] # "add"
    <3>1. ASSUME NEW i \in DOMAIN p.todo PROVE p.todo[i][1] # "add"
      <4>1. i \in Nat /\ i + 1 \in DOMAIN o.todo /\ p.todo[i] = o.todo[i + 1]
        BY <1>1, TailOfList
      <4>2. 1 \in DOMAIN o.todo /\ o.todo[1] = c
        BY <1>1, HeadOfList
      <4>3. o.todo[i + 1][1] = "add" => i + 1 < 1
        BY <1>6, <4>1, <4>2 DEF ByRequest
      <4> QED BY <4>1, <4>3
    <3> QED BY <3>1 DEF Left
  <2> HIDE DEF o, p, c, L, M
  <2> QED BY <1>3, <2>1, <2>2, <2>3, <2>4, <2>5
<1>7. CASE c[1] \notin {"add", "remove"}
  <2>1. group' = group
    BY <1>1, <1>7 DEF Members
  <2>2. /\ <<"add", m>> \in L => <<"add", m>> \in M
        /\ <<"remove", m>> \in L => <<"remove", m>> \in M
        /\ M \subseteq L
    BY <1>7
  <2> HIDE DEF o, p, c, L, M
  <2> QED BY <1>3, <2>1, <2>2
<1> QED BY <1>5, <1>6, <1>7

\* An operation that begins has done nothing and has all its calls to make.
LEMMA BeginsSoFar ==
  ASSUME TypeOK, NEW a \in Admin, Begin(a)
  PROVE  (ByRequest(op[a]) /\ AccountSoFar(a, op[a]) /\ GroupSoFar(op[a]))'
<1>1. PICK kind \in Kind, s \in UNION {Request(k) : k \in Kind} :
        /\ s \in Request(kind)
        /\ op' = [op EXCEPT ![a] =
              [kind |-> kind, sent |-> s, todo |-> Todo(kind, s), rid |-> 0,
               read |-> {"normal"}, applied |-> {}, failed |-> FALSE, waiting |-> TRUE,
               before |-> [account |-> sam, group |-> group]]]
  BY DEF Begin
<1> DEFINE p == op'[a]
           q == Todo(kind, s)
           all == CallsOf(kind, s)
           want == Asked(a, p)
<1>2. /\ p.kind = kind /\ p.sent = s /\ p.todo = q /\ p.rid = 0
      /\ p.read = {"normal"} /\ p.before.account = sam /\ p.before.group = group
  BY <1>1 DEF TypeOK
<1>3. /\ Elements(q) = all
      /\ \A i, j \in DOMAIN q : q[i][1] = "add" /\ q[j][1] = "remove" => i < j
  BY <1>1, TodoIsCalls
<1>4. Left(op[a])' = all
  BY <1>2, <1>3 DEF Left, Elements
<1>5. UNCHANGED <<sam, group>> /\ sam \in Account
  BY DEF Begin, TypeOK
<1>6. p \in Operation
  <2>1. TypeOK'
    BY BeginType
  <2>2. (op[a] \in Operation \cup {Idle})'
    BY <2>1 DEF TypeOK
  <2>3. (Idle # op[a])'
    BY <1>1 DEF TypeOK, Idle
  <2>4. (op[a] \in Operation)'
    BY <2>2, <2>3
  <2> QED BY <2>4 DEF Operation, Sent, Step, Account
<1>7. /\ kind = "create" => <<"create">> \in all
      /\ kind = "update" => <<"read">> \in all
      /\ kind = "update" /\ <<"flags">> \notin all => s.set = {} /\ s.clear = {}
      /\ kind \in {"create", "update"} => \A t \in s.texts : <<"text", t>> \in all
      /\ kind = "password" => <<"password">> \in all
      /\ kind = "delete" => <<"delete">> \in all
      /\ \A m \in s.add : <<"add", m>> \in all
      /\ \A m \in s.remove : <<"remove", m>> \in all
  BY DEF CallsOf
<1>8. ByRequest(op[a])'
  <2> HIDE DEF p, q, all
  <2>1. op'[a] = p
    BY DEF p
  <2> QED BY <1>1, <1>2, <1>3, <1>4, <1>5, <1>7, <2>1 DEF ByRequest, all
<1>9. AccountSoFar(a, op[a])'
  <2>1. Asked(a, op[a])' = want
    BY DEF Asked
  <2>2. /\ kind = "update" =>
              /\ want.rid = sam.rid /\ want.password = sam.password
              /\ want.flags = (sam.flags \ s.clear) \cup s.set
              /\ \A t \in Text : want.text[t] = IF t \in s.texts THEN a ELSE sam.text[t]
        /\ kind = "password" =>
              want.rid = sam.rid /\ want.flags = sam.flags /\ want.text = sam.text
    BY <1>2, <1>6, AskedParts
  <2> HIDE DEF p, q, all, want
  <2>3. op'[a] = p
    BY DEF p
  <2> QED BY <1>2, <1>4, <1>5, <1>7, <2>1, <2>2, <2>3 DEF AccountSoFar
<1>10. GroupSoFar(op[a])'
  <2> HIDE DEF p, q, all
  <2>1. op'[a] = p
    BY DEF p
  <2> QED BY <1>2, <1>4, <1>5, <1>7, <2>1 DEF GroupSoFar
<1> QED BY <1>8, <1>9, <1>10

\* A call that changes something is noticed by all the others.
LEMMA OthersAreDisturbed ==
  ASSUME TypeOK, NEW a \in Admin, Running(a), Carried(a)
  PROVE  /\ disturbed'[a] = disturbed[a]
         /\ \A b \in Admin \ {a} : op[b] # Idle /\ ~disturbed'[b] =>
               ~disturbed[b] /\ sam' = sam /\ group' = group
BY DEF Carried, TypeOK

\* One administrator's operation moves; the others' are as far as they were, unless
\* they were disturbed.
LEMMA OthersSoFar ==
  ASSUME SoFarInv, NEW a \in Admin, \A b \in Admin \ {a} : op'[b] = op[b],
         \A b \in Admin \ {a} : op[b] # Idle /\ ~disturbed'[b] =>
               ~disturbed[b] /\ sam' = sam /\ group' = group,
         op'[a] # Idle /\ ~op'[a].failed /\ ~disturbed'[a] =>
               (ByRequest(op[a]) /\ AccountSoFar(a, op[a]) /\ GroupSoFar(op[a]))'
  PROVE  SoFarInv'
<1>1. ASSUME NEW b \in Admin \ {a}, op'[b] # Idle, ~op'[b].failed, ~disturbed'[b]
      PROVE  (ByRequest(op[b]) /\ AccountSoFar(b, op[b]) /\ GroupSoFar(op[b]))'
  <2>1. /\ op'[b] = op[b] /\ sam' = sam /\ group' = group
        /\ ByRequest(op[b]) /\ AccountSoFar(b, op[b]) /\ GroupSoFar(op[b])
    BY <1>1 DEF SoFarInv
  <2>2. Left(op[b])' = Left(op[b]) /\ Asked(b, op[b])' = Asked(b, op[b]) /\ Gone' = Gone
    BY <2>1 DEF Left, Asked, Gone
  <2> QED BY <2>1, <2>2 DEF ByRequest, AccountSoFar, GroupSoFar
<1>2. Idle' = Idle
  BY DEF Idle
<1> QED BY <1>1, <1>2 DEF SoFarInv

\* No step takes an operation off its course.
LEMMA NextSoFar == TypeOK /\ DoorInv /\ SoFarInv /\ [Next]_vars => SoFarInv'
<1> SUFFICES ASSUME TypeOK, DoorInv, SoFarInv, [Next]_vars PROVE SoFarInv'
  OBVIOUS
<1>0. /\ op \in [Admin -> Operation \cup {Idle}] /\ sam \in Account /\ group \in SUBSET Sid
      /\ disturbed \in [Admin -> BOOLEAN] /\ sam.flags \in SUBSET Flag
      /\ \A b \in Admin : op[b] # Idle => op[b] \in Operation /\ InOrder(op[b])
  BY AtWork DEF TypeOK, DoorInv, Account
<1>a. ASSUME NEW a \in Admin, op'[a] # Idle PROVE op'[a] \in Operation
  <2>1. TypeOK'
    BY NextTypeOK
  <2>2. op' \in [Admin -> Operation \cup {Idle}]
    <3>1. (op \in [Admin -> Operation \cup {Idle}])'
      BY <2>1 DEF TypeOK
    <3> QED BY <3>1 DEF Operation, Sent, Step, Account, Idle
  <2> QED BY <1>a, <2>2
<1>1. ASSUME NEW a \in Admin, NEW result, Finish(a, result), op[a] # Idle,
             \/ UNCHANGED <<sam, group, disturbed>>
             \/ Running(a) /\ Carried(a)
      PROVE  SoFarInv'
  <2>1. op'[a] = Idle /\ \A b \in Admin \ {a} : op'[b] = op[b]
    BY <1>0, <1>1 DEF Finish
  <2> QED BY <1>1, <2>1, OthersAreDisturbed, OthersSoFar
<1>2. ASSUME NEW a \in Admin, Refuse(a) \/ Done(a)
      PROVE  SoFarInv'
  BY <1>1, <1>2 DEF Refuse, Done
<1>3. ASSUME NEW a \in Admin, GiveUp(a)
      PROVE  SoFarInv'
  <2>1. /\ op' = [op EXCEPT ![a].waiting = FALSE] /\ op[a] # Idle /\ op[a] \in Operation
        /\ UNCHANGED <<sam, group, disturbed>>
    BY <1>0, <1>3 DEF GiveUp
  <2>2. /\ op'[a].todo = op[a].todo /\ op'[a].rid = op[a].rid /\ op'[a].kind = op[a].kind
        /\ op'[a].failed = op[a].failed /\ op'[a].read = op[a].read /\ op'[a].sent = op[a].sent
        /\ op'[a].before = op[a].before
        /\ \A b \in Admin \ {a} : op'[b] = op[b]
    BY <1>0, <2>1 DEF Operation
  <2>3. /\ Left(op[a])' = Left(op[a]) /\ Asked(a, op[a])' = Asked(a, op[a]) /\ Gone' = Gone
    BY <2>2 DEF Left, Asked, Gone
  <2>4. ~op'[a].failed /\ ~disturbed'[a] => ByRequest(op[a])'
    BY <2>1, <2>2, <2>3 DEF SoFarInv, ByRequest
  <2>5. ~op'[a].failed /\ ~disturbed'[a] => AccountSoFar(a, op[a])'
    BY <2>1, <2>2, <2>3 DEF SoFarInv, AccountSoFar
  <2>6. ~op'[a].failed /\ ~disturbed'[a] => GroupSoFar(op[a])'
    BY <2>1, <2>2, <2>3 DEF SoFarInv, GroupSoFar
  <2> QED BY <2>1, <2>2, <2>4, <2>5, <2>6, OthersSoFar
\* A call is carried out, or need not be.
<1>4. ASSUME NEW a \in Admin, op[a] # Idle, op[a].todo # <<>>,
             \A b \in Admin \ {a} : op'[b] = op[b],
             sam' = Changed(a, op[a]), group' = Members(op[a]), op'[a] # Idle,
             op'[a].todo = Tail(op[a].todo), op'[a].kind = op[a].kind, op'[a].sent = op[a].sent,
             op'[a].before = op[a].before, op'[a].failed = op[a].failed,
             op'[a].read = IF Head(op[a].todo)[1] = "read" THEN sam.flags ELSE op[a].read,
             op'[a].rid = IF Head(op[a].todo)[1] = "create" THEN made + 1
                          ELSE IF Head(op[a].todo)[1] = "lookup" THEN sam.rid ELSE op[a].rid,
             disturbed'[a] = disturbed[a],
             \A b \in Admin \ {a} : op[b] # Idle /\ ~disturbed'[b] =>
               ~disturbed[b] /\ sam' = sam /\ group' = group
      PROVE  SoFarInv'
  <2>1. op[a] \in Operation /\ InOrder(op[a]) /\ op'[a] \in Operation
    BY <1>0, <1>4, <1>a
  <2>2. ASSUME ~op'[a].failed, ~disturbed'[a]
        PROVE  (ByRequest(op[a]) /\ AccountSoFar(a, op[a]) /\ GroupSoFar(op[a]))'
    <3>1. ByRequest(op[a]) /\ AccountSoFar(a, op[a]) /\ GroupSoFar(op[a])
      BY <1>4, <2>2 DEF SoFarInv
    <3>2. /\ ByRequest(op[a])'
          /\ <<"create">> \notin Left(op'[a])
          /\ Left(op[a]) = {Head(op[a].todo)} \cup Left(op'[a])
          /\ Head(op[a].todo) \in CallsOf(op[a].kind, op[a].sent)
          /\ op[a].kind = "update" /\ Head(op[a].todo)[1] = "flags" => op[a].read = op[a].before.account.flags
      BY <1>0, <1>4, <2>1, <3>1, GoesOnByRequest
    <3>3. AccountSoFar(a, op[a])'
      BY <1>4, <2>1, <3>1, <3>2, AccountGoesOn
    <3>4. GroupSoFar(op[a])'
      BY <1>4, <2>1, <3>1, <3>2, GroupGoesOn
    <3> QED BY <3>2, <3>3, <3>4
  <2> QED BY <1>4, <2>2, OthersSoFar
<1>5. ASSUME NEW a \in Admin, Answered(a)
      PROVE  SoFarInv'
  <2>1. /\ Running(a) /\ Carried(a) /\ op' = [op EXCEPT ![a] = Advanced(op[a])]
        /\ op[a] # Idle /\ op[a].todo # <<>> /\ sam' = Changed(a, op[a]) /\ group' = Members(op[a])
    BY <1>5 DEF Answered, Running, Carried
  <2>2. op'[a] = Advanced(op[a]) /\ \A b \in Admin \ {a} : op'[b] = op[b]
    BY <1>0, <2>1
  <2>3. op'[a] # Idle
    <3>1. op'[a] \in Operation
      BY <2>1, <2>2, LearntType
    <3>2. \A x \in Operation : x.kind \in Kind
      BY DEF Operation
    <3> QED BY <3>1, <3>2 DEF Idle, Kind
  <2> QED BY <1>4, <2>1, <2>2, <2>3, AdvancedParts, OthersAreDisturbed
<1>6. ASSUME NEW a \in Admin, Skipped(a)
      PROVE  SoFarInv'
  <2>1. /\ op' = [op EXCEPT ![a].todo = Tail(op[a].todo)] /\ op[a] # Idle /\ op[a].todo # <<>>
        /\ Head(op[a].todo)[1] \in {"add", "remove"} /\ ~Possible(op[a])
        /\ UNCHANGED <<sam, group, disturbed>> /\ op[a] \in Operation
    BY <1>0, <1>6 DEF Skipped, Running
  <2>2. /\ op'[a].todo = Tail(op[a].todo) /\ op'[a].rid = op[a].rid /\ op'[a].kind = op[a].kind
        /\ op'[a].failed = op[a].failed /\ op'[a].read = op[a].read /\ op'[a].sent = op[a].sent
        /\ op'[a].before = op[a].before
        /\ \A b \in Admin \ {a} : op'[b] = op[b]
    BY <1>0, <2>1 DEF Operation
  <2>3. sam' = Changed(a, op[a])
    BY <2>1 DEF Changed
  <2>4. group' = Members(op[a])
    BY <1>0, <2>1 DEF Members, Possible
  <2>5. op'[a] # Idle
    <3>1. op'[a].kind \in Kind
      BY <2>1, <2>2 DEF Operation
    <3> QED BY <3>1 DEF Idle, Kind
  <2> QED BY <1>4, <2>1, <2>2, <2>3, <2>4, <2>5
<1>7. ASSUME NEW a \in Admin, Failed(a)
      PROVE  SoFarInv'
  <2>1. /\ Running(a) /\ op[a] # Idle /\ op[a] \in Operation
        /\ Carried(a) \/ UNCHANGED <<sam, group, disturbed>>
    BY <1>0, <1>7 DEF Failed, Running
  <2>2. CASE RollsBack(op[a])
    <3>1. op' = [op EXCEPT ![a].todo = <<<<"rollback">>>>, ![a].failed = TRUE]
      BY <1>7, <2>2 DEF Failed
    <3>2. op'[a].failed /\ \A b \in Admin \ {a} : op'[b] = op[b]
      BY <1>0, <2>1, <3>1 DEF Operation
    <3> QED BY <2>1, <3>2, OthersAreDisturbed, OthersSoFar
  <2>3. CASE ~RollsBack(op[a])
    BY <1>1, <1>7, <2>1, <2>3 DEF Failed
  <2> QED BY <2>2, <2>3
<1>8. ASSUME NEW a \in Admin, Begin(a)
      PROVE  SoFarInv'
  <2>1. /\ \A b \in Admin \ {a} : op'[b] = op[b] /\ disturbed'[b] = disturbed[b]
        /\ UNCHANGED <<sam, group>>
    BY <1>0, <1>8 DEF Begin
  <2> QED BY <1>8, <2>1, BeginsSoFar, OthersSoFar
<1>9. CASE UNCHANGED vars
  <2>1. UNCHANGED <<op, sam, group, disturbed>>
    BY <1>9 DEF vars
  <2>2. CASE \E a \in Admin : TRUE
    <3>1. PICK a \in Admin : TRUE
      BY <2>2
    <3>2. ASSUME op'[a] # Idle, ~op'[a].failed, ~disturbed'[a]
          PROVE  (ByRequest(op[a]) /\ AccountSoFar(a, op[a]) /\ GroupSoFar(op[a]))'
      <4>1. ByRequest(op[a]) /\ AccountSoFar(a, op[a]) /\ GroupSoFar(op[a])
        BY <2>1, <3>2 DEF SoFarInv, Idle
      <4>2. Left(op[a])' = Left(op[a]) /\ Asked(a, op[a])' = Asked(a, op[a]) /\ Gone' = Gone
        BY <2>1 DEF Left, Asked, Gone
      <4>3. ByRequest(op[a])'
        BY <2>1, <4>1, <4>2 DEF ByRequest
      <4>4. AccountSoFar(a, op[a])'
        BY <2>1, <4>1, <4>2 DEF AccountSoFar
      <4>5. GroupSoFar(op[a])'
        BY <2>1, <4>1, <4>2 DEF GroupSoFar
      <4> QED BY <4>3, <4>4, <4>5
    <3> QED BY <2>1, <3>2, OthersSoFar
  <2>3. CASE ~\E a \in Admin : TRUE
    BY <2>3 DEF SoFarInv
  <2> QED BY <2>2, <2>3
<1> QED BY <1>2, <1>3, <1>5, <1>6, <1>7, <1>8, <1>9 DEF Next

\* The step that reports an operation as done: everything it was asked for is there.
LEMMA EndIsAsAsked ==
  ASSUME TypeOK, DoorInv, SoFarInv, [Next]_vars, NEW a \in Admin, op[a] # Idle, op'[a] = Idle,
         ~disturbed[a], Len(trail') > Len(trail), trail'[Len(trail')].result = "ok"
  PROVE  /\ sam = Asked(a, op[a])
         /\ group = (op[a].before.group \cup op[a].sent.add) \ op[a].sent.remove
<1>0. /\ op \in [Admin -> Operation \cup {Idle}] /\ op[a] \in Operation
      /\ trail \in Seq(AuditEntry) /\ sam \in Account /\ group \in SUBSET Sid
  BY AtWork DEF TypeOK
<1>1. ASSUME NEW b \in Admin, NEW said, record(Entry(b, "error", said))
      PROVE  FALSE
  <2>1. trail' = Append(trail, Entry(b, "error", said))
    BY <1>1 DEF record
  <2>2. Entry(b, "error", said).result = "error"
    BY DEF Entry
  <2> DEFINE last == Entry(b, "error", said)
  <2> HIDE DEF last
  <2>3. Append(trail, last)[Len(Append(trail, last))] = last
    BY <1>0, AppendProperties
  <2> QED BY <2>1, <2>2, <2>3 DEF last
<1>2. ASSUME NEW b \in Admin, unrecorded PROVE FALSE
  <2>1. Len(trail) \in Nat
    BY <1>0
  <2> QED BY <1>2, <2>1 DEF unrecorded
<1>3. PICK b \in Admin : Done(b) /\ ~op[b].failed
  <2>1. ASSUME NEW b \in Admin, Finish(b, "error") PROVE FALSE
    BY <1>1, <1>2, <2>1 DEF Finish
  <2>2. ASSUME NEW b \in Admin, Begin(b) PROVE FALSE
    BY <1>2, <2>2 DEF Begin, unrecorded
  <2>3. ASSUME NEW b \in Admin, Failed(b) PROVE FALSE
    BY <1>2, <2>1, <2>3 DEF Failed
  <2>4. ~UNCHANGED vars
    BY DEF vars
  <2> QED BY <1>1, <1>2, <2>1, <2>2, <2>3, <2>4 DEF Next, Refuse, GiveUp, Answered, Skipped, Done
<1>4. b = a
  BY <1>0, <1>3 DEF Done, Finish
<1>5. /\ op[a].todo = <<>> /\ ~op[a].failed
      /\ ByRequest(op[a]) /\ AccountSoFar(a, op[a]) /\ GroupSoFar(op[a])
  BY <1>3, <1>4 DEF Done, SoFarInv
<1>6. Left(op[a]) = {}
  BY <1>5 DEF Left
<1>7. op[a].kind \in Kind /\ op[a].sent \in Sent /\ op[a].before.group \in SUBSET Sid
  BY <1>0 DEF Operation
<1>8. sam = Asked(a, op[a])
  <2> DEFINE asked == Asked(a, op[a])
  <2>1. /\ asked \in Account
        /\ op[a].kind = "delete" => asked = Gone
        /\ op[a].kind = "members" => asked = op[a].before.account
    BY <1>0, AskedParts
  <2>2. /\ op[a].kind = "delete" => sam = Gone
        /\ op[a].kind = "members" => sam = op[a].before.account
        /\ op[a].kind \in {"create", "update", "password"} =>
              /\ sam.rid = asked.rid /\ sam.password = asked.password /\ sam.flags = asked.flags
              /\ \A t \in Text : sam.text[t] = asked.text[t]
    BY <1>5, <1>6 DEF AccountSoFar
  <2> HIDE DEF asked
  <2>3. \A x \in Account : /\ x = [rid |-> x.rid, password |-> x.password, flags |-> x.flags, text |-> x.text]
                           /\ x.text = [t \in Text |-> x.text[t]]
    BY DEF Account
  <2>4. op[a].kind \in {"create", "update", "password"} => sam.text = asked.text
    BY <1>0, <2>1, <2>2, <2>3
  <2>5. op[a].kind \in {"create", "update", "password"} => sam = asked
    <3>1. sam = [rid |-> sam.rid, password |-> sam.password, flags |-> sam.flags, text |-> sam.text]
      BY <1>0, <2>3
    <3>2. asked = [rid |-> asked.rid, password |-> asked.password, flags |-> asked.flags, text |-> asked.text]
      BY <2>1, <2>3
    <3> QED BY <2>2, <2>4, <3>1, <3>2
  <2> QED BY <1>7, <2>1, <2>2, <2>5 DEF Kind, asked
<1>9. group = (op[a].before.group \cup op[a].sent.add) \ op[a].sent.remove
  <2>1. op[a].sent.add \subseteq Sid /\ op[a].sent.remove \subseteq Sid
    BY <1>7 DEF Sent
  <2>2. \A m \in Sid : m \in group <=> m \in (op[a].before.group \cup op[a].sent.add) \ op[a].sent.remove
    BY <1>5, <1>6 DEF GroupSoFar
  <2> QED BY <1>0, <1>7, <2>1, <2>2
<1> QED BY <1>8, <1>9

\* What the console reports as done is done: an operation that nobody disturbed leaves
\* the account and the group exactly as was asked, whatever was in them before and in
\* however many calls it was carried out (srv/accounts.py, api/v1/accounts.py).
THEOREM WhatIsReportedIsDone == Spec => ReportedIsDone
<1>1. Init => SoFarInv
  BY DEF Init, SoFarInv
<1>2. TypeOK /\ DoorInv /\ SoFarInv /\ [Next]_vars =>
        [\A a \in Admin :
            (/\ op[a] # Idle /\ op'[a] = Idle /\ ~disturbed[a]
             /\ Len(trail') > Len(trail) /\ trail'[Len(trail')].result = "ok")
            => /\ sam = Asked(a, op[a])
               /\ group = (op[a].before.group \cup op[a].sent.add) \ op[a].sent.remove]_vars
  BY EndIsAsAsked
<1> QED BY InitTypeOK, NextTypeOK, InitShut, NextShut, NextSoFar, <1>1, <1>2, PTL
       DEF Spec, ReportedIsDone

===============================================================================
