-------------------------- MODULE GlobalConfigProofs --------------------------
(* Proofs about GlobalConfig: a change that was judged leaves hosts lists and  *)
(* dialects that keep this console connected, and the registry is said to be   *)
(* read only where it is, for any number of administrators, any requests, any  *)
(* dialects and any kinds of server.                                           *)
EXTENDS GlobalConfig, SequenceTheorems, TLAPS

(***************************************************************************)
(* Requests.                                                               *)
(***************************************************************************)
LEMMA Requested ==
  ASSUME NEW sent \in Requests
  PROVE  /\ Len(sent) \in Nat /\ DOMAIN sent = 1..Len(sent)
         /\ sent \in Seq({sent[i] : i \in DOMAIN sent})
         /\ \A i \in DOMAIN sent : sent[i][1] \in CATALOGUE => sent[i][2] \in Value(sent[i][1]) \cup {None}
         /\ \A i, j \in DOMAIN sent : sent[i][1] = sent[j][1] => i = j
<1> DEFINE S == {sent[i] : i \in DOMAIN sent}
<1>1. /\ sent \in Seq(S)
      /\ \A i \in DOMAIN sent : sent[i][1] \in CATALOGUE => sent[i][2] \in Value(sent[i][1]) \cup {None}
      /\ \A i, j \in DOMAIN sent : sent[i][1] = sent[j][1] => i = j
  BY GlobalAssumption DEF GlobalAssumption
<1>2. Len(sent) \in Nat /\ DOMAIN sent = 1..Len(sent)
  <2> HIDE DEF S
  <2> QED BY <1>1
<1> QED BY <1>1, <1>2

\* What is sent for an option is one of the pairs of the request.
LEMMA SentIsThere ==
  ASSUME NEW o, NEW option, Sends(o, option)
  PROVE  \E i \in DOMAIN o.sent : o.sent[i][1] = option /\ Sent(o, option) = o.sent[i][2]
BY DEF Sends, Sent

\* The judgement sees what is sent, what was confirmed and what was read.
LEMMA SameJudgement ==
  ASSUME NEW o, NEW p, p.sent = o.sent, p.confirm = o.confirm
  PROVE  /\ Offered(o) => Offered(p)
         /\ Window(o) => Window(p)
         /\ check_console_floor(o) => check_console_floor(p)
         /\ \A option : Sends(p, option) <=> Sends(o, option)
         /\ \A option : Sent(p, option) = Sent(o, option)
         /\ p.stored = o.stored =>
              \A address : _check_hosts(o, address) => _check_hosts(p, address)
<1>1. /\ \A option : Sends(p, option) <=> Sends(o, option)
      /\ \A option : Sent(p, option) = Sent(o, option)
  BY DEF Sends, Sent
<1>2. Offered(o) => Offered(p)
  BY DEF Offered
<1>3. Window(o) => Window(p)
  BY <1>1 DEF Window
<1>4. check_console_floor(o) => check_console_floor(p)
  BY <1>1 DEF check_console_floor
<1>5. ASSUME p.stored = o.stored, NEW address, _check_hosts(o, address)
      PROVE  _check_hosts(p, address)
  <2>1. Effective(p, allow) = Effective(o, allow) /\ Effective(p, deny) = Effective(o, deny)
    BY <1>1, <1>5 DEF Effective
  <2> QED BY <1>1, <1>5, <2>1 DEF _check_hosts
<1> QED BY <1>1, <1>2, <1>3, <1>4, <1>5

(***************************************************************************)
(* Types.                                                                  *)
(***************************************************************************)
Stage == {"sections", "stored", "judge", "open", "write"}

Verdict == {"none", "undecided", "confirms", "contradicts"}

\* What an operation under way is made of.
Typed(o) ==
  /\ o.at \in Stage
  /\ o.sent \in Requests /\ o.confirm \in {t \cap About(o.sent) : t \in Tokens} /\ o.create \in BOOLEAN
  /\ o.present \in {"yes", "no", "unknown"} /\ o.read \in BOOLEAN
  /\ HasType(o.stored)
  /\ o.verdict \in Verdict

Fields == {"at", "sent", "confirm", "create", "present", "read", "stored", "verdict", "todo"}

Answers ==
  [at : {"over"}, verdict : Verdict,
   result : {"read", "not_comparable", "applied_confirmed", "not_yet_visible"}]

LEMMA AtWork ==
  ASSUME TypeOK, ChangeInv, NEW a \in Admin
  PROVE  /\ op[a] = Idle \/ op[a] \in Answers \/ Typed(op[a])
         /\ op[a].at \in Stage => Typed(op[a]) /\ op[a] # Idle
              /\ DOMAIN op[a] = Fields
<1>1. op[a] = Idle \/ op[a] \in Answers \/ Typed(op[a])
  BY DEF TypeOK, Answers, Typed, Stage, Verdict
<1>2. Idle.at \notin Stage /\ \A o \in Answers : o.at \notin Stage
  BY DEF Idle, Answers, Stage
<1>3. op[a].at \in Stage => UnderWay(op[a])
  BY DEF Stage, UnderWay
<1> QED BY <1>1, <1>2, <1>3 DEF ChangeInv, Shaped, Fields

\* The next call of a change is for one of the pairs that were sent.
LEMMA TodoHead ==
  ASSUME TypeOK, ChangeInv, NEW a \in Admin, op[a].at = "write", op[a].todo # <<>>
  PROVE  LET sent == op[a].sent
             todo == op[a].todo
             n == Len(sent) - Len(todo) IN
         /\ Len(sent) \in Nat /\ DOMAIN sent = 1..Len(sent)
         /\ Len(todo) \in Nat /\ Len(todo) # 0 /\ Len(todo) <= Len(sent) /\ DOMAIN todo = 1..Len(todo)
         /\ Head(todo) = sent[n + 1] /\ n + 1 \in DOMAIN sent
         /\ Len(Tail(todo)) = Len(todo) - 1 /\ Tail(todo) \in Seq({sent[i] : i \in DOMAIN sent})
         /\ DOMAIN Tail(todo) = 1..(Len(todo) - 1)
         /\ \A j \in 1..(Len(todo) - 1) : Tail(todo)[j] = todo[j + 1]
<1> DEFINE sent == op[a].sent
           todo == op[a].todo
           S == {sent[i] : i \in DOMAIN sent}
<1>1. sent \in Requests
  BY AtWork DEF Stage, Typed
<1>2. Len(sent) \in Nat /\ DOMAIN sent = 1..Len(sent)
  BY <1>1, Requested
<1>3. /\ todo \in Seq(S) /\ Len(todo) <= Len(sent) /\ todo # <<>>
      /\ \A j \in DOMAIN todo : todo[j] = sent[Len(sent) - Len(todo) + j]
  BY DEF ChangeInv, Written
<1> HIDE DEF sent, todo, S
<1>4. /\ Len(todo) \in Nat /\ Len(todo) # 0 /\ DOMAIN todo = 1..Len(todo)
      /\ Head(todo) = todo[1] /\ 1 \in DOMAIN todo
      /\ Tail(todo) \in Seq(S) /\ Len(Tail(todo)) = Len(todo) - 1
      /\ \A j \in 1..(Len(todo) - 1) : Tail(todo)[j] = todo[j + 1]
  BY <1>3, HeadTailProperties
<1>5. DOMAIN Tail(todo) = 1..(Len(todo) - 1)
  BY <1>4
<1>6. Head(todo) = sent[Len(sent) - Len(todo) + 1]
  BY <1>3, <1>4
<1>7. Len(sent) - Len(todo) + 1 \in 1..Len(sent)
  BY <1>2, <1>3, <1>4
<1> QED BY <1>2, <1>3, <1>4, <1>5, <1>6, <1>7 DEF sent, todo, S

LEMMA OneChanges ==
  ASSUME TypeOK, NEW a \in Admin, NEW x, op' = [op EXCEPT ![a] = x]
  PROVE  DOMAIN op' = Admin /\ op'[a] = x /\ \A b \in Admin \ {a} : op'[b] = op[b]
BY DEF TypeOK

\* One operation changes, to a typed one, and the server as its type allows.
LEMMA TypeStep ==
  ASSUME TypeOK, NEW a \in Admin, NEW x, op' = [op EXCEPT ![a] = x],
         x = Idle \/ x \in Answers \/ Typed(x),
         UNCHANGED <<mode, reads, text, resolves, live>>,
         exists' \in BOOLEAN, HasType(stored'), ~exists' => stored' = Unset,
         calls' \in 0..MaxCalls, disturbed' \in [Admin -> BOOLEAN]
  PROVE  TypeOK'
<1>1. DOMAIN op' = Admin /\ op'[a] = x /\ \A b \in Admin \ {a} : op'[b] = op[b]
  BY OneChanges
<1>2. \A b \in Admin : op[b] = Idle \/ op[b] \in Answers \/ Typed(op[b])
  BY DEF TypeOK, Answers, Typed, Stage, Verdict
<1>3. \A b \in Admin : op'[b] = Idle \/ op'[b] \in Answers \/ Typed(op'[b])
  BY <1>1, <1>2
<1>4. Idle' = Idle /\ Unset' = Unset
  BY DEF Idle, Unset
<1> QED BY <1>1, <1>3, <1>4 DEF TypeOK, Answers, Typed, Stage, Verdict

LEMMA UnsetHasType == HasType(Unset)
BY DEF HasType, Unset

\* in_force_check says one of three things.
LEMMA VerdictType ==
  ASSUME NEW section, NEW reported
  PROVE  in_force_check(section, reported) \in Verdict
BY DEF in_force_check, Verdict

LEMMA NextType == TypeOK /\ ChangeInv /\ [Next]_vars => TypeOK'
<1> SUFFICES ASSUME TypeOK, ChangeInv, [Next]_vars PROVE TypeOK'
  OBVIOUS
<1>0. /\ exists \in BOOLEAN /\ HasType(stored) /\ (~exists => stored = Unset)
      /\ calls \in 0..MaxCalls /\ disturbed \in [Admin -> BOOLEAN]
  BY DEF TypeOK
<1>1. CASE Reload
  <2>1. InForce \in Value(string)
    <3>1. stored[string] = None \/ stored[string] \in Value(string)
      BY <1>0 DEF HasType, CATALOGUE
    <3> QED BY <3>1 DEF TypeOK, InForce
  <2>2. Idle' = Idle /\ Unset' = Unset
    BY DEF Idle, Unset
  <2> QED BY <1>1, <2>1, <2>2 DEF TypeOK, Reload
<1>2. ASSUME NEW a \in Admin, Begin(a)
      PROVE  TypeOK'
  <2>1. PICK sent \in Requests, tokens \in Tokens, create \in {FALSE, ~exists} :
          op' = [op EXCEPT ![a] =
              [at |-> "sections", sent |-> sent, confirm |-> tokens \cap About(sent), create |-> create,
               present |-> "unknown", read |-> FALSE, stored |-> Unset, verdict |-> "none",
               todo |-> <<>>]]
    BY <1>2 DEF Begin
  <2> DEFINE x == [at |-> "sections", sent |-> sent, confirm |-> tokens \cap About(sent), create |-> create,
               present |-> "unknown", read |-> FALSE, stored |-> Unset, verdict |-> "none",
               todo |-> <<>>]
  <2>2. Typed(x)
    BY <1>0, UnsetHasType DEF Typed, Stage, Verdict
  <2>3. calls' \in 0..MaxCalls
    BY <1>0, <1>2, GlobalAssumption DEF Begin, GlobalAssumption
  <2>4. disturbed' \in [Admin -> BOOLEAN]
    BY <1>0, <1>2 DEF Begin
  <2>5. UNCHANGED <<mode, reads, text, resolves, live, exists, stored>>
    BY <1>2 DEF Begin, unchangedServer
  <2> HIDE DEF x
  <2> QED BY <1>0, <2>1, <2>2, <2>3, <2>4, <2>5, TypeStep DEF x
<1>3. ASSUME NEW a \in Admin, ReadSections(a)
      PROVE  TypeOK'
  <2>1. PICK present \in {IF exists THEN "yes" ELSE "no", "unknown"} :
        op' = [op EXCEPT ![a].present = present,
                         ![a].at = IF present = "no" THEN "judge" ELSE "stored",
                         ![a].read = (present = "no")]
    BY <1>3 DEF ReadSections
  <2> DEFINE x == [op[a] EXCEPT !.present = present,
                         !.at = IF present = "no" THEN "judge" ELSE "stored",
                         !.read = (present = "no")]
  <2>2. op' = [op EXCEPT ![a] = x]
    BY <2>1
  <2>3. Typed(op[a]) /\ DOMAIN op[a] = Fields
    BY <1>3, AtWork DEF ReadSections, Stage
  <2>4. present \in {"yes", "no", "unknown"}
    BY <2>1
  <2>5. /\ x.at \in Stage /\ x.sent = op[a].sent /\ x.confirm = op[a].confirm /\ x.create = op[a].create
        /\ x.present = present /\ x.read \in BOOLEAN /\ x.stored = op[a].stored /\ x.verdict = op[a].verdict
    BY <2>3 DEF Stage, Fields
  <2> HIDE DEF x
  <2>6. Typed(x)
    BY <2>3, <2>4, <2>5 DEF Typed
  <2> QED BY <1>0, <1>3, <2>2, <2>6, TypeStep DEF ReadSections, unchangedServer
<1>4. ASSUME NEW a \in Admin, ReadStored(a)
      PROVE  TypeOK'
  <2>1. Typed(op[a]) /\ DOMAIN op[a] = Fields
    BY <1>4, AtWork DEF ReadStored, Stage
  <2>2. PICK x \in {[op[a] EXCEPT !.at = "judge", !.stored = stored, !.read = TRUE], [op[a] EXCEPT !.at = "judge"]} :
          op' = [op EXCEPT ![a] = x]
    BY <1>4 DEF ReadStored
  <2>3. /\ x.at \in Stage /\ x.sent = op[a].sent /\ x.confirm = op[a].confirm /\ x.create = op[a].create
        /\ x.present = op[a].present /\ x.read \in BOOLEAN /\ x.stored \in {stored, op[a].stored}
        /\ x.verdict = op[a].verdict
    BY <2>1 DEF Stage, Fields, Typed
  <2>4. Typed(x)
    BY <1>0, <2>1, <2>3 DEF Typed
  <2> QED BY <1>0, <1>4, <2>2, <2>4, TypeStep DEF ReadStored, unchangedServer
<1>5. ASSUME NEW a \in Admin, Judge(a)
      PROVE  TypeOK'
  <2>1. Typed(op[a]) /\ DOMAIN op[a] = Fields
    BY <1>5, AtWork DEF Judge, Stage
  <2>2. PICK reported \in {live, None}, address \in Address :
          op' = [op EXCEPT ![a] =
            LET seen == [op[a] EXCEPT !.verdict = in_force_check(op[a].stored, reported)] IN
            IF op[a].sent = <<>> THEN Over(seen, "read")
            ELSE IF Accepted(op[a], address) THEN [seen EXCEPT !.at = "open"]
            ELSE Idle]
    BY <1>5 DEF Judge
  <2> DEFINE v == in_force_check(op[a].stored, reported)
             seen == [op[a] EXCEPT !.verdict = v]
  <2>3. v \in Verdict
    BY VerdictType
  <2> HIDE DEF v
  <2>4. Over(seen, "read") \in Answers
    BY <2>1, <2>3 DEF Over, Answers, Fields
  <2>5. Typed([seen EXCEPT !.at = "open"])
    BY <2>1, <2>3 DEF Typed, Fields, Stage
  <2>6. PICK x : op' = [op EXCEPT ![a] = x] /\ (x = Idle \/ x \in Answers \/ Typed(x))
    BY <2>2, <2>4, <2>5 DEF v
  <2> QED BY <1>0, <1>5, <2>6, TypeStep DEF Judge, unchangedServer
<1>6. ASSUME NEW a \in Admin, Open(a)
      PROVE  TypeOK'
  <2>1. Typed(op[a]) /\ DOMAIN op[a] = Fields
    BY <1>6, AtWork DEF Open, Stage
  <2> DEFINE x == [op[a] EXCEPT !.at = "write", !.stored = stored, !.todo = op[a].sent]
  <2>2. op' = [op EXCEPT ![a] = x]
    BY <1>6 DEF Open
  <2>3. /\ x.at \in Stage /\ x.sent = op[a].sent /\ x.confirm = op[a].confirm /\ x.create = op[a].create
        /\ x.present = op[a].present /\ x.read = op[a].read /\ x.stored = stored
        /\ x.verdict = op[a].verdict
    BY <2>1 DEF Stage, Fields
  <2> HIDE DEF x
  <2>4. Typed(x)
    BY <1>0, <2>1, <2>3 DEF Typed
  <2>5. exists' = TRUE /\ UNCHANGED <<mode, reads, text, resolves, stored, live, calls>>
        /\ disturbed' \in [Admin -> BOOLEAN]
    BY <1>0, <1>6 DEF Open, Disturbing
  <2> QED BY <1>0, <2>2, <2>4, <2>5, TypeStep
\* Whatever is taken off the list: the rest of the operation is as it was.
<1>a. ASSUME NEW a \in Admin, op[a].at = "write", op[a].todo # <<>>,
             op' = [op EXCEPT ![a].todo = Tail(@)]
      PROVE  \E x : op' = [op EXCEPT ![a] = x] /\ Typed(x)
  <2>1. Typed(op[a]) /\ DOMAIN op[a] = Fields
    BY <1>a, AtWork DEF Stage
  <2> DEFINE x == [op[a] EXCEPT !.todo = Tail(op[a].todo)]
  <2>2. op' = [op EXCEPT ![a] = x]
    BY <1>a
  <2>3. Typed(x)
    BY <2>1 DEF Typed, Fields
  <2> HIDE DEF x
  <2> QED BY <2>2, <2>3
<1>7. ASSUME NEW a \in Admin, Skip(a)
      PROVE  TypeOK'
  <2>1. PICK x : op' = [op EXCEPT ![a] = x] /\ Typed(x)
    BY <1>7, <1>a DEF Skip
  <2> QED BY <1>0, <1>7, <2>1, TypeStep DEF Skip, unchangedServer
<1>8. ASSUME NEW a \in Admin, Write(a)
      PROVE  TypeOK'
  <2>1. PICK x : op' = [op EXCEPT ![a] = x] /\ (x = Idle \/ Typed(x))
    BY <1>8, <1>a DEF Write
  <2>2. PICK option \in CATALOGUE : \E value \in Value(option) \cup {None} :
          stored' = [stored EXCEPT ![option] = value]
    <3>1. Typed(op[a])
      BY <1>8, AtWork DEF Write, Stage
    <3>2. /\ Head(op[a].todo) = op[a].sent[Len(op[a].sent) - Len(op[a].todo) + 1]
          /\ Len(op[a].sent) - Len(op[a].todo) + 1 \in DOMAIN op[a].sent
      BY <1>8, TodoHead DEF Write
    <3>3. PICK i \in DOMAIN op[a].sent : Head(op[a].todo) = op[a].sent[i]
      BY <3>2
    <3>4. op[a].sent[i][1] \in CATALOGUE
      BY <1>8, <3>3 DEF Write, ChangeInv, Judged, Offered
    <3>5. op[a].sent[i][2] \in Value(op[a].sent[i][1]) \cup {None}
      BY <3>1, <3>3, <3>4, Requested DEF Typed
    <3> QED BY <1>8, <3>3, <3>4, <3>5 DEF Write
  <2>3. HasType(stored')
    BY <1>0, <2>2 DEF HasType
  <2>4. exists /\ exists' = exists
    BY <1>8 DEF Write, ChangeInv, Written
  <2>5. disturbed' \in [Admin -> BOOLEAN]
    BY <1>0, <1>8 DEF Write, Disturbing
  <2>6. UNCHANGED <<mode, reads, text, resolves, live, calls>>
    BY <1>8 DEF Write
  <2> QED BY <1>0, <2>1, <2>3, <2>4, <2>5, <2>6, TypeStep
<1>9. ASSUME NEW a \in Admin, Fail(a) \/ Answer(a)
      PROVE  TypeOK'
  <2>1. op' = [op EXCEPT ![a] = Idle] /\ UNCHANGED <<mode, reads, text, resolves, exists, stored, live, calls, disturbed>>
    BY <1>9 DEF Fail, Answer, unchangedServer
  <2> QED BY <1>0, <2>1, TypeStep
<1>10. ASSUME NEW a \in Admin, Verify(a)
       PROVE  TypeOK'
  <2>1. Typed(op[a])
    BY <1>10, AtWork DEF Verify, Stage
  <2>2. PICK result \in {"not_comparable", "applied_confirmed", "not_yet_visible"} :
          op' = [op EXCEPT ![a] = Over(op[a], result)]
    BY <1>10 DEF Verify
  <2>3. Over(op[a], result) \in Answers
    BY <2>1 DEF Typed, Over, Answers
  <2> QED BY <1>0, <1>10, <2>2, <2>3, TypeStep DEF Verify, unchangedServer
<1>11. CASE UNCHANGED vars
  <2>1. Idle' = Idle /\ Unset' = Unset
    BY DEF Idle, Unset
  <2> QED BY <1>11, <2>1 DEF vars, TypeOK
<1> QED BY <1>1, <1>2, <1>3, <1>4, <1>5, <1>6, <1>7, <1>8, <1>9, <1>10, <1>11 DEF Next

(***************************************************************************)
(* What a change was judged by, and what it has written.                   *)
(***************************************************************************)
\* Another's operation stays as it was judged, and is disturbed where the section
\* changes.
LEMMA OthersKeep ==
  ASSUME ChangeInv, NEW b \in Admin, op'[b] = op[b], UNCHANGED mode, exists => exists',
         disturbed[b] => disturbed'[b], UnderWay(op[b]) /\ stored' # stored => disturbed'[b]
  PROVE  Shaped(op'[b]) /\ Judged(b)' /\ UpToDate(b)' /\ Written(b)'
<1>1. Shaped(op[b]) /\ Judged(b) /\ UpToDate(b) /\ Written(b)
  BY DEF ChangeInv
<1>2. Judged(b)'
  <2>1. Offered(op[b]) => Offered(op[b])'
    BY DEF Offered, NotHere, ReadOnly
  <2> QED BY <1>1, <2>1 DEF Judged, Window, check_console_floor
<1>3. UpToDate(b)'
  BY <1>1 DEF UpToDate, UnderWay, Unset
<1>4. Written(b)'
  <2>1. CASE op[b].at # "write"
    BY <2>1 DEF Written
  <2>2. CASE op[b].at = "write" /\ disturbed'[b]
    BY <1>1, <2>2 DEF Written
  <2>3. CASE op[b].at = "write" /\ ~disturbed'[b]
    BY <1>1, <2>3 DEF Written, UnderWay
  <2> QED BY <2>1, <2>2, <2>3
<1> QED BY <1>1, <1>2, <1>3, <1>4

\* One operation moves; it disturbs whatever it changes the section under.
LEMMA OneMoves ==
  ASSUME TypeOK, ChangeInv, NEW a \in Admin, NEW x, op' = [op EXCEPT ![a] = x], UNCHANGED mode,
         exists => exists',
         \A b \in Admin \ {a} : (disturbed[b] => disturbed'[b]) /\ (UnderWay(op[b]) /\ stored' # stored => disturbed'[b]),
         Shaped(x), Judged(a)', UpToDate(a)', Written(a)'
  PROVE  ChangeInv'
<1>1. op'[a] = x /\ \A b \in Admin \ {a} : op'[b] = op[b]
  BY OneChanges
<1>2. \A b \in Admin : Shaped(op'[b]) /\ Judged(b)' /\ UpToDate(b)' /\ Written(b)'
  BY <1>1, OthersKeep
<1> QED BY <1>2 DEF ChangeInv

\* An operation that is over promises nothing more.
LEMMA Ended ==
  ASSUME TypeOK, ChangeInv, NEW a \in Admin, NEW x, op' = [op EXCEPT ![a] = x], ~UnderWay(x),
         UNCHANGED mode, exists => exists',
         \A b \in Admin \ {a} : (disturbed[b] => disturbed'[b]) /\ (UnderWay(op[b]) /\ stored' # stored => disturbed'[b])
  PROVE  ChangeInv'
<1>1. op'[a] = x
  BY OneChanges
<1>2. Shaped(x) /\ Judged(a)' /\ UpToDate(a)' /\ Written(a)'
  BY <1>1 DEF Shaped, Judged, UpToDate, Written, UnderWay
<1> QED BY <1>2, OneMoves

\* A call is made, or was not needed: one more pair is written.
LEMMA OneWritten ==
  ASSUME TypeOK, ChangeInv, NEW a \in Admin, op[a].at = "write", op[a].todo # <<>>,
         op' = [op EXCEPT ![a] = [op[a] EXCEPT !.todo = Tail(op[a].todo)]],
         UNCHANGED <<exists, disturbed>> \/ (exists' = exists /\ disturbed'[a] = disturbed[a]),
         \/ stored' = stored /\ op[a].stored[Head(op[a].todo)[1]] = Head(op[a].todo)[2]
         \/ stored' = [stored EXCEPT ![Head(op[a].todo)[1]] = Head(op[a].todo)[2]]
  PROVE  Written(a)'
<1> DEFINE o == op[a]
           sent == op[a].sent
           todo == op[a].todo
           n == Len(sent) - Len(todo)
           option == Head(todo)[1]
           value == Head(todo)[2]
<1>1. Typed(o) /\ DOMAIN o = Fields
  BY AtWork DEF Stage
<1>2. /\ Len(sent) \in Nat /\ DOMAIN sent = 1..Len(sent)
      /\ Len(todo) \in Nat /\ Len(todo) # 0 /\ Len(todo) <= Len(sent) /\ DOMAIN todo = 1..Len(todo)
      /\ Head(todo) = sent[n + 1] /\ n + 1 \in DOMAIN sent
      /\ Len(Tail(todo)) = Len(todo) - 1 /\ Tail(todo) \in Seq({sent[i] : i \in DOMAIN sent})
      /\ DOMAIN Tail(todo) = 1..(Len(todo) - 1)
      /\ \A j \in 1..(Len(todo) - 1) : Tail(todo)[j] = todo[j + 1]
  BY TodoHead
<1>3. /\ exists
      /\ \A j \in DOMAIN todo : todo[j] = sent[n + j]
      /\ ~disturbed[a] =>
              /\ \A i \in 1..n : stored[sent[i][1]] = sent[i][2]
              /\ \A e \in CATALOGUE :
                    (\A i \in 1..n : sent[i][1] # e) => stored[e] = o.stored[e]
  BY DEF ChangeInv, Written
<1>4. \A i, j \in DOMAIN sent : sent[i][1] = sent[j][1] => i = j
  BY <1>1, Requested DEF Typed
<1>5. \A i \in DOMAIN sent : sent[i][1] \in CATALOGUE
  BY DEF ChangeInv, Judged, Offered
<1>6. DOMAIN stored = CATALOGUE
  BY DEF TypeOK, HasType
<1>7. /\ op'[a].at = "write" /\ op'[a].sent = sent /\ op'[a].todo = Tail(todo) /\ op'[a].stored = o.stored
  BY <1>1, OneChanges DEF Fields
<1> HIDE DEF o, sent, todo
<1>8. n + 1 = Len(sent) - Len(Tail(todo)) /\ n \in Nat /\ 1..(n + 1) = (1..n) \cup {n + 1}
  BY <1>2
<1>9. \A j \in DOMAIN Tail(todo) : Tail(todo)[j] = sent[(n + 1) + j]
  <2> SUFFICES ASSUME NEW j \in DOMAIN Tail(todo) PROVE Tail(todo)[j] = sent[(n + 1) + j]
    OBVIOUS
  <2>1. j \in 1..(Len(todo) - 1) /\ j + 1 \in DOMAIN todo
    BY <1>2
  <2>2. todo[j + 1] = sent[n + (j + 1)]
    BY <1>3, <2>1
  <2>3. n + (j + 1) = (n + 1) + j
    BY <1>8, <2>1
  <2> QED BY <1>2, <2>1, <2>2, <2>3
<1>10. ASSUME ~disturbed[a]
       PROVE  /\ \A i \in 1..(n + 1) : stored'[sent[i][1]] = sent[i][2]
              /\ \A e \in CATALOGUE :
                    (\A i \in 1..(n + 1) : sent[i][1] # e) => stored'[e] = o.stored[e]
  <2> HIDE DEF n
  <2>1. option = sent[n + 1][1] /\ value = sent[n + 1][2] /\ option \in CATALOGUE
    BY <1>2, <1>5
  <2>2. \A i \in 1..n : i \in DOMAIN sent /\ sent[i][1] # option
    BY <1>2, <1>4, <1>8, <2>1
  <2>3. stored[option] = o.stored[option]
    BY <1>3, <1>10, <2>1, <2>2
  <2>4. stored'[option] = value /\ \A e \in CATALOGUE : e # option => stored'[e] = stored[e]
    BY <1>6, <2>1, <2>3 DEF o, todo
  <2>5. \A i \in 1..n : stored'[sent[i][1]] = sent[i][2]
    BY <1>3, <1>5, <1>10, <2>2, <2>4
  <2>6. ASSUME NEW e \in CATALOGUE, \A i \in 1..(n + 1) : sent[i][1] # e
        PROVE  stored'[e] = o.stored[e]
    BY <1>3, <1>8, <1>10, <2>1, <2>4, <2>6
  <2> QED BY <1>8, <2>1, <2>4, <2>5, <2>6
<1>11. exists' /\ disturbed'[a] = disturbed[a]
  BY <1>3
<1> HIDE DEF n, option, value
<1>12. op'[a].todo \in Seq({op'[a].sent[i] : i \in DOMAIN op'[a].sent})
  <2>1. {op'[a].sent[i] : i \in DOMAIN op'[a].sent} = {sent[i] : i \in DOMAIN sent}
    BY <1>7
  <2> QED BY <1>2, <1>7, <2>1
<1>13. Len(Tail(todo)) <= Len(sent)
  BY <1>2
<1> DEFINE m == Len(op'[a].sent) - Len(op'[a].todo)
<1>14. m = n + 1
  BY <1>7, <1>8
<1> HIDE DEF m
<1>15. ~disturbed'[a] =>
              /\ \A i \in 1..m : stored'[op'[a].sent[i][1]] = op'[a].sent[i][2]
              /\ \A e \in CATALOGUE :
                    (\A i \in 1..m : op'[a].sent[i][1] # e) => stored'[e] = op'[a].stored[e]
  <2>1. \A i \in 1..m : op'[a].sent[i] = sent[i]
    BY <1>7
  <2> QED BY <1>7, <1>10, <1>11, <1>14, <2>1
<1>16. \A j \in DOMAIN op'[a].todo : op'[a].todo[j] = op'[a].sent[m + j]
  BY <1>7, <1>9, <1>14
<1> QED BY <1>7, <1>11, <1>12, <1>13, <1>15, <1>16 DEF Written, m

LEMMA NextChange == TypeOK /\ ChangeInv /\ [Next]_vars => ChangeInv'
<1> SUFFICES ASSUME TypeOK, ChangeInv, [Next]_vars PROVE ChangeInv'
  OBVIOUS
<1>0. \A b \in Admin : Shaped(op[b]) /\ Judged(b) /\ UpToDate(b) /\ Written(b)
  BY DEF ChangeInv
<1>a. /\ disturbed \in [Admin -> BOOLEAN] /\ (~exists => stored = Unset)
  BY DEF TypeOK
<1>1. CASE Reload
  <2>1. UNCHANGED <<mode, exists, stored, op, disturbed>>
    BY <1>1 DEF Reload
  <2>2. \A b \in Admin : Shaped(op'[b]) /\ Judged(b)' /\ UpToDate(b)' /\ Written(b)'
    BY <2>1, OthersKeep
  <2> QED BY <2>2 DEF ChangeInv
<1>2. ASSUME NEW a \in Admin, Begin(a)
      PROVE  ChangeInv'
  <2>1. PICK sent \in Requests, tokens \in Tokens, create \in {FALSE, ~exists} :
          op' = [op EXCEPT ![a] =
              [at |-> "sections", sent |-> sent, confirm |-> tokens \cap About(sent), create |-> create,
               present |-> "unknown", read |-> FALSE, stored |-> Unset, verdict |-> "none",
               todo |-> <<>>]]
    BY <1>2 DEF Begin
  <2> DEFINE x == [at |-> "sections", sent |-> sent, confirm |-> tokens \cap About(sent), create |-> create,
               present |-> "unknown", read |-> FALSE, stored |-> Unset, verdict |-> "none",
               todo |-> <<>>]
  <2>2. x.at = "sections" /\ x.stored = Unset /\ ~x.read /\ Shaped(x)
    BY DEF Shaped
  <2>3. op'[a] = x
    BY <2>1, OneChanges
  <2>4. UNCHANGED <<mode, exists, stored>> /\ \A b \in Admin \ {a} : disturbed'[b] = disturbed[b]
    BY <1>2, <1>a DEF Begin, unchangedServer
  <2> HIDE DEF x
  <2>5. Judged(a)' /\ UpToDate(a)' /\ Written(a)'
    BY <2>2, <2>3 DEF Judged, UpToDate, Written, Unset
  <2> QED BY <2>1, <2>2, <2>4, <2>5, OneMoves DEF x
<1>3. ASSUME NEW a \in Admin, ReadSections(a)
      PROVE  ChangeInv'
  <2>1. PICK present \in {IF exists THEN "yes" ELSE "no", "unknown"} :
        op' = [op EXCEPT ![a].present = present,
                         ![a].at = IF present = "no" THEN "judge" ELSE "stored",
                         ![a].read = (present = "no")]
    BY <1>3 DEF ReadSections
  <2> DEFINE x == [op[a] EXCEPT !.present = present,
                         !.at = IF present = "no" THEN "judge" ELSE "stored",
                         !.read = (present = "no")]
  <2>2. op' = [op EXCEPT ![a] = x]
    BY <2>1
  <2>3. DOMAIN op[a] = Fields /\ op[a].stored = Unset
    BY <1>0, <1>3, AtWork DEF ReadSections, Stage, UpToDate
  <2>4. UNCHANGED <<mode, exists, stored, disturbed>>
    BY <1>3 DEF ReadSections, unchangedServer
  <2>5. /\ x.at = IF present = "no" THEN "judge" ELSE "stored"
        /\ x.read = (present = "no") /\ x.stored = Unset /\ Shaped(x)
    BY <2>3 DEF Fields, Shaped
  <2>6. op'[a] = x
    BY <2>2, OneChanges
  <2> HIDE DEF x
  <2>7. present = "no" => stored = Unset
    BY <1>a, <2>1
  <2>8. Judged(a)' /\ Written(a)'
    BY <2>5, <2>6 DEF Judged, Written
  <2>9. UpToDate(a)'
    BY <2>4, <2>5, <2>6, <2>7 DEF UpToDate, Unset
  <2> QED BY <2>2, <2>4, <2>5, <2>8, <2>9, OneMoves
<1>4. ASSUME NEW a \in Admin, ReadStored(a)
      PROVE  ChangeInv'
  <2>1. DOMAIN op[a] = Fields
    BY <1>4, AtWork DEF ReadStored, Stage
  <2>2. UNCHANGED <<mode, exists, stored, disturbed>>
    BY <1>4 DEF ReadStored, unchangedServer
  <2>3. PICK x \in {[op[a] EXCEPT !.at = "judge", !.stored = stored, !.read = TRUE], [op[a] EXCEPT !.at = "judge"]} :
          op' = [op EXCEPT ![a] = x]
    BY <1>4 DEF ReadStored
  <2>r. ~op[a].read
    BY <1>0, <1>4 DEF ReadStored, UpToDate
  <2>4. x.at = "judge" /\ (x.stored = stored \/ ~x.read) /\ Shaped(x)
    BY <2>1, <2>3, <2>r DEF Fields, Shaped
  <2>5. op'[a] = x
    BY <2>3, OneChanges
  <2>6. Judged(a)' /\ Written(a)' /\ UpToDate(a)'
    BY <2>2, <2>4, <2>5 DEF Judged, Written, UpToDate
  <2> QED BY <2>2, <2>3, <2>4, <2>6, OneMoves
<1>5. ASSUME NEW a \in Admin, Judge(a)
      PROVE  ChangeInv'
  <2>1. DOMAIN op[a] = Fields
    BY <1>5, AtWork DEF Judge, Stage
  <2>2. PICK reported \in {live, None}, address \in Address :
          op' = [op EXCEPT ![a] =
            LET seen == [op[a] EXCEPT !.verdict = in_force_check(op[a].stored, reported)] IN
            IF op[a].sent = <<>> THEN Over(seen, "read")
            ELSE IF Accepted(op[a], address) THEN [seen EXCEPT !.at = "open"]
            ELSE Idle]
    BY <1>5 DEF Judge
  <2>3. UNCHANGED <<mode, exists, stored, disturbed>>
    BY <1>5 DEF Judge, unchangedServer
  <2> DEFINE seen == [op[a] EXCEPT !.verdict = in_force_check(op[a].stored, reported)]
             x == [seen EXCEPT !.at = "open"]
  <2>4. CASE Accepted(op[a], address) /\ op' = [op EXCEPT ![a] = x]
    <3>1. /\ x.at = "open" /\ x.sent = op[a].sent /\ x.confirm = op[a].confirm /\ x.stored = op[a].stored
          /\ x.read = op[a].read /\ Shaped(x)
      BY <2>1 DEF Fields, Shaped
    <3>2. op'[a] = x
      BY <2>4, OneChanges
    <3> HIDE DEF x
    <3>3. Offered(x) /\ Window(x) /\ check_console_floor(x) /\ _check_hosts(x, address)
      BY <2>4, <3>1, SameJudgement DEF Accepted
    <3>4. Offered(op[a])'
      BY <2>3, <3>2, <3>3 DEF Offered, NotHere, ReadOnly
    <3>5. Judged(a)'
      BY <2>3, <3>1, <3>2, <3>3, <3>4 DEF Judged
    <3>6. UpToDate(a)' /\ Written(a)'
      BY <1>0, <1>5, <2>3, <3>1, <3>2 DEF UpToDate, Written, Judge
    <3> QED BY <2>3, <2>4, <3>1, <3>5, <3>6, OneMoves
  <2>5. CASE \E y : ~UnderWay(y) /\ op' = [op EXCEPT ![a] = y]
    BY <2>3, <2>5, Ended
  <2>6. ~UnderWay(Idle) /\ ~UnderWay(Over(seen, "read"))
    BY DEF UnderWay, Idle, Over
  <2> QED BY <2>2, <2>4, <2>5, <2>6
<1>6. ASSUME NEW a \in Admin, Open(a)
      PROVE  ChangeInv'
  <2>1. Typed(op[a]) /\ DOMAIN op[a] = Fields /\ op[a].at = "open"
    BY <1>6, AtWork DEF Open, Stage
  <2> DEFINE x == [op[a] EXCEPT !.at = "write", !.stored = stored, !.todo = op[a].sent]
  <2>2. op' = [op EXCEPT ![a] = x]
    BY <1>6 DEF Open
  <2>3. /\ exists' = TRUE /\ UNCHANGED <<mode, stored>> /\ disturbed'[a] = disturbed[a]
        /\ \A b \in Admin : disturbed[b] => disturbed'[b]
    BY <1>6, <1>a DEF Open, Disturbing
  <2>4. /\ x.at = "write" /\ x.sent = op[a].sent /\ x.confirm = op[a].confirm /\ x.stored = stored
        /\ x.read = op[a].read /\ x.todo = op[a].sent /\ Shaped(x)
    BY <2>1 DEF Fields, Shaped
  <2>5. op'[a] = x
    BY <2>2, OneChanges
  <2> HIDE DEF x
  <2>6. Offered(x) /\ Window(x) /\ check_console_floor(x)
    BY <1>0, <2>1, <2>4, SameJudgement DEF Judged
  <2>7. x.read /\ ~disturbed'[a] => \E address \in Address : _check_hosts(x, address)
    <3>1. SUFFICES ASSUME x.read, ~disturbed'[a] PROVE \E address \in Address : _check_hosts(x, address)
      OBVIOUS
    <3>2. x.stored = op[a].stored
      BY <1>0, <2>1, <2>3, <2>4, <3>1 DEF UpToDate
    <3>3. PICK address \in Address : _check_hosts(op[a], address)
      BY <1>0, <2>1, <2>3, <2>4, <3>1 DEF Judged
    <3> QED BY <2>4, <3>2, <3>3, SameJudgement
  <2>8. Judged(a)'
    <3>1. Offered(op[a])'
      BY <2>3, <2>5, <2>6 DEF Offered, NotHere, ReadOnly
    <3> QED BY <2>4, <2>5, <2>6, <2>7, <3>1 DEF Judged
  <2>9. UpToDate(a)'
    BY <2>4, <2>5 DEF UpToDate
  <2>10. Written(a)'
    <3>1. /\ Len(x.sent) \in Nat /\ DOMAIN x.sent = 1..Len(x.sent)
          /\ x.sent \in Seq({x.sent[i] : i \in DOMAIN x.sent})
      BY <2>1, <2>4, Requested DEF Typed
    <3>2. op'[a].sent = x.sent /\ op'[a].todo = x.sent /\ op'[a].stored = stored'
      BY <2>3, <2>4, <2>5
    <3> DEFINE m == Len(op'[a].sent) - Len(op'[a].todo)
    <3>3. m = 0
      BY <3>1, <3>2
    <3>4. op'[a].todo \in Seq({op'[a].sent[i] : i \in DOMAIN op'[a].sent})
      <4>1. {op'[a].sent[i] : i \in DOMAIN op'[a].sent} = {x.sent[i] : i \in DOMAIN x.sent}
        BY <3>2
      <4> QED BY <3>1, <3>2, <4>1
    <3>5. Len(op'[a].todo) <= Len(op'[a].sent)
      BY <3>1, <3>2
    <3> HIDE DEF m
    <3>6. \A j \in DOMAIN op'[a].todo : op'[a].todo[j] = op'[a].sent[m + j]
      <4>1. \A j \in 1..Len(x.sent) : m + j = j
        BY <3>3
      <4> QED BY <3>1, <3>2, <4>1
    <3>7. \A i : i \notin 1..m
      BY <3>3
    <3> QED BY <2>3, <3>2, <3>4, <3>5, <3>6, <3>7 DEF Written, m
  <2> QED BY <2>2, <2>3, <2>4, <2>8, <2>9, <2>10, OneMoves
\* A call is made, or was not needed.
<1>b. ASSUME NEW a \in Admin, op[a].at = "write", op[a].todo # <<>>,
             op' = [op EXCEPT ![a].todo = Tail(@)],
             UNCHANGED <<mode, exists>>, disturbed'[a] = disturbed[a],
             \A b \in Admin \ {a} : (disturbed[b] => disturbed'[b]) /\ (UnderWay(op[b]) /\ stored' # stored => disturbed'[b]),
             \/ stored' = stored /\ op[a].stored[Head(op[a].todo)[1]] = Head(op[a].todo)[2]
             \/ stored' = [stored EXCEPT ![Head(op[a].todo)[1]] = Head(op[a].todo)[2]]
      PROVE  ChangeInv'
  <2>1. DOMAIN op[a] = Fields
    BY <1>b, AtWork DEF Stage
  <2> DEFINE x == [op[a] EXCEPT !.todo = Tail(op[a].todo)]
  <2>2. op' = [op EXCEPT ![a] = x]
    BY <1>b
  <2>3. Written(a)'
    BY <1>b, <2>2, OneWritten
  <2>4. /\ x.at = "write" /\ x.sent = op[a].sent /\ x.confirm = op[a].confirm /\ x.stored = op[a].stored
        /\ x.read = op[a].read /\ Shaped(x)
    BY <1>b, <2>1 DEF Fields, Shaped
  <2>5. op'[a] = x
    BY <2>2, OneChanges
  <2> HIDE DEF x
  <2>6. Judged(a)'
    <3>1. Offered(x) /\ Window(x) /\ check_console_floor(x)
      BY <1>0, <1>b, <2>4, SameJudgement DEF Judged
    <3>2. x.read /\ ~disturbed[a] => \E address \in Address : _check_hosts(x, address)
      BY <1>0, <1>b, <2>4, SameJudgement DEF Judged
    <3>3. Offered(op[a])'
      BY <1>b, <2>5, <3>1 DEF Offered, NotHere, ReadOnly
    <3> QED BY <1>b, <2>4, <2>5, <3>1, <3>2, <3>3 DEF Judged
  <2>7. UpToDate(a)'
    BY <2>4, <2>5 DEF UpToDate
  <2> QED BY <1>b, <2>2, <2>3, <2>4, <2>6, <2>7, OneMoves
<1>7. ASSUME NEW a \in Admin, Skip(a)
      PROVE  ChangeInv'
  BY <1>7, <1>b DEF Skip, unchangedServer, Due
<1>8. ASSUME NEW a \in Admin, Write(a)
      PROVE  ChangeInv'
  <2>1. /\ op[a].at = "write" /\ op[a].todo # <<>> /\ UNCHANGED <<mode, exists>>
        /\ stored' = [stored EXCEPT ![Head(op[a].todo)[1]] = Head(op[a].todo)[2]]
        /\ op' = [op EXCEPT ![a].todo = Tail(@)] \/ op' = [op EXCEPT ![a] = Idle]
    BY <1>8 DEF Write
  <2>2. /\ disturbed'[a] = disturbed[a]
        /\ \A b \in Admin \ {a} : (disturbed[b] => disturbed'[b]) /\ (UnderWay(op[b]) /\ stored' # stored => disturbed'[b])
    <3>1. \A b \in Admin : UnderWay(op[b]) => op[b] # Idle
      BY DEF UnderWay, Idle
    <3>2. disturbed'[a] = disturbed[a]
      BY <1>8, <1>a DEF Write, Disturbing
    <3>3. \A b \in Admin \ {a} : (disturbed[b] => disturbed'[b]) /\ (op[b] # Idle /\ stored' # stored => disturbed'[b])
      BY <1>8, <1>a DEF Write, Disturbing
    <3> QED BY <3>1, <3>2, <3>3
  <2>3. ~UnderWay(Idle)
    BY DEF UnderWay, Idle
  <2> QED BY <1>b, <2>1, <2>2, <2>3, Ended
<1>9. ASSUME NEW a \in Admin, Fail(a) \/ Answer(a) \/ Verify(a)
      PROVE  ChangeInv'
  <2>1. UNCHANGED <<mode, exists, stored, disturbed>>
    BY <1>9 DEF Fail, Answer, Verify, unchangedServer
  <2>2. PICK y : op' = [op EXCEPT ![a] = y] /\ (y = Idle \/ \E result : y = Over(op[a], result))
    BY <1>9 DEF Fail, Answer, Verify
  <2>3. ~UnderWay(y)
    BY <2>2 DEF UnderWay, Idle, Over
  <2> QED BY <2>1, <2>2, <2>3, Ended
<1>10. CASE UNCHANGED vars
  <2>1. UNCHANGED <<mode, exists, stored, op, disturbed>>
    BY <1>10 DEF vars
  <2>2. \A b \in Admin : Shaped(op'[b]) /\ Judged(b)' /\ UpToDate(b)' /\ Written(b)'
    BY <2>1, OthersKeep
  <2> QED BY <2>2 DEF ChangeInv
<1> QED BY <1>1, <1>2, <1>3, <1>4, <1>5, <1>6, <1>7, <1>8, <1>9, <1>10 DEF Next

LEMMA InitChange == Init => TypeOK /\ ChangeInv /\ LiveInv
<1> SUFFICES ASSUME Init PROVE TypeOK /\ ChangeInv /\ LiveInv
  OBVIOUS
<1>1. PICK s \in Servers : mode = s.mode /\ reads = s.reads /\ text = s.text /\ resolves = s.resolves
  BY DEF Init
<1>2. mode \in Mode /\ reads \in BOOLEAN /\ text \in Value(string) /\ resolves \in BOOLEAN
  BY <1>1, GlobalAssumption DEF GlobalAssumption, Mode, Value, string, min, max, allow, deny
<1>3. Idle.at = "idle" /\ DOMAIN op = Admin /\ \A a \in Admin : op[a] = Idle
  BY DEF Init, Idle
<1>4. HasType(stored) /\ (~exists => stored = Unset)
  <2>1. CASE stored = Unset
    BY <2>1, UnsetHasType
  <2>2. CASE /\ exists
             /\ stored \in {[Unset EXCEPT ![max] = Dialects - 1, ![deny] = [names |-> {"us", "other"}, except |-> {}],
                              ![allow] = [names |-> {"us"}, except |-> {}]],
                            [Unset EXCEPT ![string] = "Dateiserver"]}
    <3> DEFINE lists == [Unset EXCEPT ![max] = Dialects - 1, ![deny] = [names |-> {"us", "other"}, except |-> {}],
                              ![allow] = [names |-> {"us"}, except |-> {}]]
               named == [Unset EXCEPT ![string] = "Dateiserver"]
    <3>1. [names |-> {"us", "other"}, except |-> {}] \in HostsList /\ [names |-> {"us"}, except |-> {}] \in HostsList
      BY DEF HostsList, HostEntry
    <3>2. HasType(lists)
      <4>1. /\ DOMAIN lists = CATALOGUE
            /\ \A o \in CATALOGUE : lists[o] = IF o = allow THEN [names |-> {"us"}, except |-> {}]
                 ELSE IF o = deny THEN [names |-> {"us", "other"}, except |-> {}]
                 ELSE IF o = max THEN Dialects - 1 ELSE None
        BY DEF Unset, max, allow, deny
      <4>2. Value(allow) = HostsList /\ Value(deny) = HostsList /\ Value(max) = 1..Dialects
        BY DEF Value, min, max, allow, deny, string
      <4>3. Dialects - 1 \in 1..Dialects
        BY GlobalAssumption DEF GlobalAssumption
      <4> HIDE DEF lists
      <4> QED BY <3>1, <4>1, <4>2, <4>3 DEF HasType
    <3>3. HasType(named)
      BY DEF HasType, Unset, CATALOGUE, Value, string, min, max, allow, deny
    <3> QED BY <2>2, <3>2, <3>3
  <2> QED BY <2>1, <2>2 DEF Init
<1>5. live \in Value(string) /\ LiveInv
  <2>1. stored[string] = None \/ stored[string] \in Value(string)
    BY <1>4 DEF HasType, CATALOGUE
  <2> QED BY <1>2, <2>1 DEF Init, InForce, LiveInv
<1>6. ChangeInv
  BY <1>3 DEF ChangeInv, Shaped, Judged, UpToDate, Written, UnderWay
<1>7. exists \in BOOLEAN /\ calls \in 0..MaxCalls /\ disturbed \in [Admin -> BOOLEAN]
  BY GlobalAssumption DEF Init, GlobalAssumption
<1> QED BY <1>2, <1>3, <1>4, <1>5, <1>6, <1>7 DEF TypeOK

\* However administrators interleave and calls fail: the section keeps its types, and a
\* section that is not there has no values.
THEOREM GlobalTypeCorrect == Spec => []TypeOK
BY InitChange, NextType, NextChange, PTL DEF Spec

(***************************************************************************)
(* What a change that went through leaves.                                 *)
(***************************************************************************)
\* The options of a completed change are as it was judged that they would be.
LEMMA CompletedIsEffective ==
  ASSUME TypeOK, ChangeInv, NEW a \in Admin, Completed(a), NEW option \in CATALOGUE
  PROVE  stored[option] = Effective(op[a], option)
<1> DEFINE o == op[a]
<1>1. o.at = "write" /\ o.todo = <<>> /\ ~disturbed[a]
  BY DEF Completed
<1>2. Len(o.sent) \in Nat /\ DOMAIN o.sent = 1..Len(o.sent)
  BY <1>1, AtWork, Requested DEF Stage, Typed
<1>3. Len(o.sent) - Len(o.todo) = Len(o.sent)
  BY <1>1, <1>2
<1>4. /\ \A i \in 1..Len(o.sent) : stored[o.sent[i][1]] = o.sent[i][2]
      /\ (\A i \in 1..Len(o.sent) : o.sent[i][1] # option) => stored[option] = o.stored[option]
  <2> DEFINE n == Len(o.sent) - Len(o.todo)
  <2>1. /\ \A i \in 1..n : stored[o.sent[i][1]] = o.sent[i][2]
        /\ \A e \in CATALOGUE : (\A i \in 1..n : o.sent[i][1] # e) => stored[e] = o.stored[e]
    BY <1>1 DEF ChangeInv, Written
  <2>2. n = Len(o.sent)
    BY <1>3
  <2> HIDE DEF n
  <2> QED BY <2>1, <2>2
<1> HIDE DEF o
<1>5. CASE Sends(o, option)
  <2>1. PICK i \in DOMAIN o.sent : o.sent[i][1] = option /\ Sent(o, option) = o.sent[i][2]
    BY <1>5, SentIsThere
  <2> QED BY <1>2, <1>4, <1>5, <2>1 DEF Effective, o
<1>6. CASE ~Sends(o, option)
  BY <1>2, <1>4, <1>6 DEF Effective, Sends, o
<1> QED BY <1>5, <1>6

LEMMA CompletedDialects == TypeOK /\ ChangeInv => DialectsKeepConsole
<1> SUFFICES ASSUME TypeOK, ChangeInv,
                    NEW a \in Admin, Completed(a), Sends(op[a], max), stored[max] # None
             PROVE  /\ stored[max] >= ConsoleFloor
                    /\ Sends(op[a], min) /\ stored[min] # None => stored[min] <= stored[max]
  BY DEF DialectsKeepConsole
<1>1. min \in CATALOGUE /\ max \in CATALOGUE
  BY DEF CATALOGUE
<1>2. stored[max] = Sent(op[a], max) /\ (Sends(op[a], min) => stored[min] = Sent(op[a], min))
  BY <1>1, CompletedIsEffective DEF Effective
<1>3. Window(op[a]) /\ check_console_floor(op[a])
  BY DEF Completed, ChangeInv, Judged
<1> QED BY <1>2, <1>3 DEF Window, check_console_floor, _check_dialect_window

\* Whoever changes the section beside it: a change that sent a ceiling and went through
\* undisturbed left one this console gets through, and a floor below it.
THEOREM DialectsKept == Spec => []DialectsKeepConsole
BY InitChange, NextType, NextChange, CompletedDialects, PTL DEF Spec

LEMMA CompletedHosts == TypeOK /\ ChangeInv => HostsKeepConsole
<1> SUFFICES ASSUME TypeOK, ChangeInv, NEW a \in Admin, Completed(a), op[a].read, NothingWaived(op[a]),
                    Sends(op[a], allow) \/ Sends(op[a], deny)
             PROVE  Admitted(stored)
  BY DEF HostsKeepConsole
<1> DEFINE o == op[a]
<1>1. allow \in CATALOGUE /\ deny \in CATALOGUE
  BY DEF CATALOGUE
<1>2. stored[allow] = Effective(o, allow) /\ stored[deny] = Effective(o, deny)
  BY <1>1, CompletedIsEffective
<1>3. /\ stored[allow] = None \/ stored[allow] \in HostsList
      /\ stored[deny] = None \/ stored[deny] \in HostsList
  BY <1>1 DEF TypeOK, HasType, Value, allow, deny, min, max, string
<1>4. PICK address \in Address : _check_hosts(o, address)
  BY DEF Completed, ChangeInv, Judged
<1>5. \A v, option : option \in {allow, deny} => ~Waived(v, option, o.confirm)
  BY DEF NothingWaived, Waived
<1>6. \/ Listed(stored[allow]) /\ hosts_verdict(stored[allow], address) = "covered"
      \/ ~Listed(stored[allow]) /\ ~Listed(stored[deny])
      \/ ~Listed(stored[allow]) /\ Listed(stored[deny]) /\ hosts_verdict(stored[deny], address) = "excluded"
  BY <1>2, <1>4, <1>5 DEF _check_hosts
<1>7. ASSUME NEW list, hosts_verdict(list, address) = "covered"
      PROVE  "us" \in list.names /\ list.except = {}
  BY <1>7 DEF hosts_verdict
<1>8. ASSUME NEW list, hosts_verdict(list, address) = "excluded"
      PROVE  "us" \notin list.names /\ "name" \notin list.names
  BY <1>8 DEF hosts_verdict
<1>9. CASE Listed(stored[allow]) /\ hosts_verdict(stored[allow], address) = "covered"
  BY <1>7, <1>9 DEF Admitted, InList, Matches
<1>10. CASE ~Listed(stored[allow]) /\ ~Listed(stored[deny])
  BY <1>10 DEF Admitted
<1>11. CASE ~Listed(stored[allow]) /\ Listed(stored[deny]) /\ hosts_verdict(stored[deny], address) = "excluded"
  <2>1. ~InList(stored[deny])
    BY <1>8, <1>11 DEF InList, Matches
  <2> QED BY <1>11, <2>1 DEF Admitted
<1> QED BY <1>6, <1>9, <1>10, <1>11

\* Whatever names resolve to and whatever was stored beside the list that was sent: a
\* change of hosts lists that was judged by what is stored and needed no confirmation
\* leaves a section that admits this console.
THEOREM HostsKept == Spec => []HostsKeepConsole
BY InitChange, NextType, NextChange, CompletedHosts, PTL DEF Spec

(***************************************************************************)
(* Whether the registry is read.                                           *)
(***************************************************************************)
\* Agreement on anything but the default needs a server that reads, or a text that
\* sets it.
LEMMA JudgementConfirms ==
  ASSUME LiveInv, NEW section, NEW reported \in {live, None},
         in_force_check(section, reported) = "confirms"
  PROVE  reads \/ text # Default
BY DEF LiveInv, in_force_check

\* An operation of one administrator changes, and keeps its verdict or has none that confirms.
LEMMA OneConfirms ==
  ASSUME TypeOK, ConfirmedIsRead, UNCHANGED <<reads, text>>, NEW a \in Admin, NEW x, op' = [op EXCEPT ![a] = x],
         \/ x = Idle
         \/ op[a] # Idle /\ x.verdict = op[a].verdict
         \/ x.verdict = "confirms" => reads \/ text # Default
  PROVE  ConfirmedIsRead'
<1>1. op'[a] = x /\ \A b \in Admin \ {a} : op'[b] = op[b]
  BY OneChanges
<1>2. Idle' = Idle
  BY DEF Idle
<1>3. ASSUME NEW b \in Admin, op'[b] # Idle, op'[b].verdict = "confirms"
      PROVE  reads \/ text # Default
  BY <1>1, <1>3 DEF ConfirmedIsRead
<1>4. (reads \/ text # Default) => (reads \/ text # Default)'
  BY DEF Default
<1> QED BY <1>2, <1>3, <1>4 DEF ConfirmedIsRead

LEMMA NextConfirms ==
  TypeOK /\ ChangeInv /\ LiveInv /\ ConfirmedIsRead /\ [Next]_vars => LiveInv' /\ ConfirmedIsRead'
<1> SUFFICES ASSUME TypeOK, ChangeInv, LiveInv, ConfirmedIsRead, [Next]_vars
             PROVE  LiveInv' /\ ConfirmedIsRead'
  OBVIOUS
<1>1. UNCHANGED <<reads, text>> /\ (UNCHANGED live \/ live' = InForce)
  BY DEF Next, Reload, Begin, ReadSections, ReadStored, Judge, Open, Skip, Write, Fail, Verify, Answer,
         unchangedServer, vars
<1>2. LiveInv'
  BY <1>1 DEF LiveInv, InForce
<1>3. CASE UNCHANGED op
  <2>1. Idle' = Idle /\ Default' = Default
    BY DEF Idle, Default
  <2> QED BY <1>1, <1>2, <1>3, <2>1 DEF ConfirmedIsRead
<1>4. ASSUME NEW a \in Admin, Begin(a)
      PROVE  ConfirmedIsRead'
  <2>1. PICK x : op' = [op EXCEPT ![a] = x] /\ x.verdict = "none"
    <3>1. PICK sent \in Requests, tokens \in Tokens, create \in {FALSE, ~exists} :
          op' = [op EXCEPT ![a] =
              [at |-> "sections", sent |-> sent, confirm |-> tokens \cap About(sent), create |-> create,
               present |-> "unknown", read |-> FALSE, stored |-> Unset, verdict |-> "none",
               todo |-> <<>>]]
      BY <1>4 DEF Begin
    <3> DEFINE x == [at |-> "sections", sent |-> sent, confirm |-> tokens \cap About(sent), create |-> create,
               present |-> "unknown", read |-> FALSE, stored |-> Unset, verdict |-> "none",
               todo |-> <<>>]
    <3>2. x.verdict = "none"
      OBVIOUS
    <3> HIDE DEF x
    <3> QED BY <3>1, <3>2 DEF x
  <2> QED BY <1>1, <2>1, OneConfirms
<1>5. ASSUME NEW a \in Admin,
             \/ ReadSections(a)
             \/ ReadStored(a)
             \/ Open(a)
             \/ op[a].at = "write" /\ op' = [op EXCEPT ![a].todo = Tail(@)]
      PROVE  ConfirmedIsRead'
  <2>1. DOMAIN op[a] = Fields /\ op[a] # Idle
    BY <1>5, AtWork DEF ReadSections, ReadStored, Open, Stage
  <2>2. CASE ReadSections(a)
    <3>1. PICK present : op' = [op EXCEPT ![a] = [op[a] EXCEPT !.present = present,
                         !.at = IF present = "no" THEN "judge" ELSE "stored",
                         !.read = (present = "no")]]
      BY <2>2 DEF ReadSections
    <3> DEFINE x == [op[a] EXCEPT !.present = present,
                         !.at = IF present = "no" THEN "judge" ELSE "stored",
                         !.read = (present = "no")]
    <3>2. x.verdict = op[a].verdict
      BY <2>1 DEF Fields
    <3>3. op' = [op EXCEPT ![a] = x]
      BY <3>1
    <3> HIDE DEF x
    <3> QED BY <1>1, <2>1, <3>2, <3>3, OneConfirms
  <2>3. CASE ReadStored(a)
    <3>1. PICK x \in {[op[a] EXCEPT !.at = "judge", !.stored = stored, !.read = TRUE], [op[a] EXCEPT !.at = "judge"]} :
            op' = [op EXCEPT ![a] = x]
      BY <2>3 DEF ReadStored
    <3>2. x.verdict = op[a].verdict
      BY <2>1, <3>1 DEF Fields
    <3> QED BY <1>1, <2>1, <3>1, <3>2, OneConfirms
  <2>4. CASE Open(a)
    <3> DEFINE x == [op[a] EXCEPT !.at = "write", !.stored = stored, !.todo = op[a].sent]
    <3>1. op' = [op EXCEPT ![a] = x] /\ x.verdict = op[a].verdict
      BY <2>1, <2>4 DEF Open, Fields
    <3> HIDE DEF x
    <3> QED BY <1>1, <2>1, <3>1, OneConfirms
  <2>5. CASE op' = [op EXCEPT ![a].todo = Tail(@)]
    <3> DEFINE x == [op[a] EXCEPT !.todo = Tail(op[a].todo)]
    <3>1. op' = [op EXCEPT ![a] = x] /\ x.verdict = op[a].verdict
      BY <2>1, <2>5 DEF Fields
    <3> HIDE DEF x
    <3> QED BY <1>1, <2>1, <3>1, OneConfirms
  <2> QED BY <1>5, <2>2, <2>3, <2>4, <2>5
<1>6. ASSUME NEW a \in Admin, Judge(a)
      PROVE  ConfirmedIsRead'
  <2>1. DOMAIN op[a] = Fields
    BY <1>6, AtWork DEF Judge, Stage
  <2>2. PICK reported \in {live, None}, address \in Address :
          op' = [op EXCEPT ![a] =
            LET seen == [op[a] EXCEPT !.verdict = in_force_check(op[a].stored, reported)] IN
            IF op[a].sent = <<>> THEN Over(seen, "read")
            ELSE IF Accepted(op[a], address) THEN [seen EXCEPT !.at = "open"]
            ELSE Idle]
    BY <1>6 DEF Judge
  <2> DEFINE v == in_force_check(op[a].stored, reported)
             seen == [op[a] EXCEPT !.verdict = v]
  <2>3. v = "confirms" => reads \/ text # Default
    BY JudgementConfirms
  <2> HIDE DEF v
  <2>4. Over(seen, "read").verdict = v /\ [seen EXCEPT !.at = "open"].verdict = v
    BY <2>1 DEF Over, Fields
  <2>5. PICK x : op' = [op EXCEPT ![a] = x] /\ (x = Idle \/ x.verdict = v)
    BY <2>2, <2>4 DEF v
  <2> QED BY <1>1, <2>3, <2>5, OneConfirms
<1>7. ASSUME NEW a \in Admin, op' = [op EXCEPT ![a] = Idle]
      PROVE  ConfirmedIsRead'
  BY <1>1, <1>7, OneConfirms
<1>8. ASSUME NEW a \in Admin, Verify(a)
      PROVE  ConfirmedIsRead'
  <2>1. PICK result : op' = [op EXCEPT ![a] = Over(op[a], result)]
    BY <1>8 DEF Verify
  <2>2. op[a] # Idle /\ Over(op[a], result).verdict = op[a].verdict
    BY <1>8, AtWork DEF Verify, Stage, Over
  <2> QED BY <1>1, <2>1, <2>2, OneConfirms
<1>9. ASSUME NEW a \in Admin, Skip(a) \/ Write(a) \/ Fail(a) \/ Answer(a)
      PROVE  ConfirmedIsRead'
  BY <1>5, <1>7, <1>9 DEF Skip, Write, Fail, Answer
<1>10. UNCHANGED op \/ \E a \in Admin : \/ Begin(a) \/ ReadSections(a) \/ ReadStored(a) \/ Judge(a)
        \/ Open(a) \/ Skip(a) \/ Write(a) \/ Fail(a) \/ Verify(a) \/ Answer(a)
  BY DEF Next, Reload, vars
<1>11. ConfirmedIsRead'
  <2>1. CASE UNCHANGED op
    BY <1>3, <2>1
  <2>2. CASE ~UNCHANGED op
    <3>1. PICK a \in Admin : \/ Begin(a) \/ ReadSections(a) \/ ReadStored(a) \/ Judge(a)
                             \/ Open(a) \/ Skip(a) \/ Write(a) \/ Fail(a) \/ Verify(a) \/ Answer(a)
      BY <1>10, <2>2
    <3>2. ReadSections(a) \/ ReadStored(a) \/ Open(a) => ConfirmedIsRead'
      BY <1>5
    <3> QED BY <1>4, <1>6, <1>8, <1>9, <3>1, <3>2
  <2> QED BY <2>1, <2>2
<1> QED BY <1>2, <1>11

\* The console says that the registry is read only of a server that reads it, or whose
\* text file says so itself; whenever smbd reads its configuration again.
THEOREM ConfirmationIsTrue == Spec => []ConfirmedIsRead
<1>1. Init => ConfirmedIsRead
  BY DEF Init, ConfirmedIsRead
<1> QED BY InitChange, NextType, NextChange, NextConfirms, <1>1, PTL DEF Spec

===============================================================================
