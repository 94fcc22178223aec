----------------------------- MODULE ListingsProofs -----------------------------
(***************************************************************************)
(* Proofs about Listings: its type invariant, that an undisturbed list has *)
(* everything once, the level it is at, what a close closes, and that the  *)
(* console's verdict on the registry is certain.                           *)
(***************************************************************************)
EXTENDS Listings, FiniteSetTheorems, TLAPS

-------------------------------------------------------------------------------
(* The type invariant.                                                       *)

\* The server has finitely many entries, and a list is some that it had.
FiniteInv == IsFiniteSet(entries) /\ IsFiniteSet(list.found)

LEMMA LevelNumbers == Len(Levels) \in Nat \ {0} /\ DOMAIN Levels = 1..Len(Levels)
BY ListingsAssumption

LEMMA QuietType ==
    /\ Quiet \in [purpose : Purpose \cup {"none"}, at : {"idle", "sections", "page", "listed"},
                  level : DOMAIN Levels, resume : Id \cup {0}, found : SUBSET Entry, many : Nat,
                  sections : SUBSET Name]
    /\ IsFiniteSet(Quiet.found)
<1>1. 1 \in DOMAIN Levels BY LevelNumbers
<1>2. IsFiniteSet({}) BY FS_EmptySet
<1> QED BY <1>1, <1>2 DEF Quiet

\* One reply: a batch that is not empty unless there is nothing more.
Reply(last, batch, rest, out) ==
    /\ rest = {e \in entries : e.id > list.resume}
    /\ batch = {e \in rest : e.id <= last}
    /\ IF rest = {} THEN last = list.resume ELSE last \in {e.id : e \in rest}
    /\ out \in {last} \cup (IF batch = rest THEN {0} ELSE {})
    /\ list' = [list EXCEPT !.found = @ \cup batch, !.many = list.many + Cardinality(batch),
                            !.resume = out,
                            !.at = IF Ended(batch, out, list.many + Cardinality(batch))
                                   THEN "listed" ELSE "page"]

LEMMA PageReplies == Page => \E last, batch, rest, out : Reply(last, batch, rest, out)
<1> SUFFICES ASSUME Page PROVE \E last, batch, rest, out : Reply(last, batch, rest, out) OBVIOUS
<1>1. PICK rest : rest = {e \in entries : e.id > list.resume} OBVIOUS
<1>2. PICK last \in (IF rest = {} THEN {list.resume} ELSE {e.id : e \in rest}) :
        \E out \in {last} \cup (IF {e \in rest : e.id <= last} = rest THEN {0} ELSE {}) :
            list' = [list EXCEPT
                        !.found = @ \cup {e \in rest : e.id <= last},
                        !.many = list.many + Cardinality({e \in rest : e.id <= last}),
                        !.resume = out,
                        !.at = IF Ended({e \in rest : e.id <= last}, out,
                                        list.many + Cardinality({e \in rest : e.id <= last}))
                               THEN "listed" ELSE "page"]
  BY <1>1 DEF Page
<1>3. PICK batch : batch = {e \in rest : e.id <= last} OBVIOUS
<1>4. PICK out \in {last} \cup (IF batch = rest THEN {0} ELSE {}) :
        list' = [list EXCEPT !.found = @ \cup batch, !.many = list.many + Cardinality(batch),
                             !.resume = out,
                             !.at = IF Ended(batch, out, list.many + Cardinality(batch))
                                    THEN "listed" ELSE "page"]
  BY <1>2, <1>3
<1>5. IF rest = {} THEN last = list.resume ELSE last \in {e.id : e \in rest} BY <1>2
<1>6. Reply(last, batch, rest, out) BY <1>1, <1>3, <1>4, <1>5 DEF Reply
<1> QED BY <1>6

LEMMA ReplyType ==
    ASSUME TypeOK, FiniteInv, NEW last, NEW batch, NEW rest, NEW out, Reply(last, batch, rest, out)
    PROVE  /\ rest \subseteq entries /\ batch \subseteq rest
           /\ IsFiniteSet(batch) /\ Cardinality(batch) \in Nat
           /\ last \in Id \cup {0} /\ out \in Id \cup {0}
<1>1. rest \subseteq entries /\ batch \subseteq rest BY DEF Reply
<1>2. IsFiniteSet(batch) /\ Cardinality(batch) \in Nat BY <1>1, FS_Subset, FS_CardinalityType DEF FiniteInv
<1>3. \A e \in entries : e.id \in Id BY DEF TypeOK, Entry
<1>4. list.resume \in Id \cup {0} BY DEF TypeOK
<1>5. last \in Id \cup {0} BY <1>1, <1>3, <1>4 DEF Reply
<1>6. out \in Id \cup {0} BY <1>5 DEF Reply
<1> QED BY <1>1, <1>2, <1>5, <1>6

LEMMA StepType == TypeOK /\ FiniteInv /\ [Next]_vars => TypeOK' /\ FiniteInv'
<1> SUFFICES ASSUME TypeOK, FiniteInv, [Next]_vars PROVE TypeOK' /\ FiniteInv' OBVIOUS
<1>0. MaxChanges \in Nat BY ListingsAssumption
<1>1. CASE Change
  <2>1. changes' \in 0..MaxChanges BY <1>0, <1>1 DEF Change, TypeOK
  <2>2. entries' \in SUBSET Entry /\ IsFiniteSet(entries') /\ sections' \in SUBSET Name
    <3>1. ASSUME NEW e \in entries, entries' = entries \ {e}, UNCHANGED sections
          PROVE  entries' \in SUBSET Entry /\ IsFiniteSet(entries') /\ sections' \in SUBSET Name
      BY <3>1, FS_RemoveElement DEF FiniteInv, TypeOK
    <3>2. ASSUME NEW e \in Entry, entries' = entries \cup {e}, UNCHANGED sections
          PROVE  entries' \in SUBSET Entry /\ IsFiniteSet(entries') /\ sections' \in SUBSET Name
      BY <3>2, FS_AddElement DEF FiniteInv, TypeOK
    <3>3. ASSUME NEW name \in Name, sections' \in {sections \cup {name}, sections \ {name}},
                 UNCHANGED entries
          PROVE  entries' \in SUBSET Entry /\ IsFiniteSet(entries') /\ sections' \in SUBSET Name
      BY <3>3 DEF FiniteInv, TypeOK
    <3> QED BY <1>1, <3>1, <3>2, <3>3 DEF Change
  <2> QED BY <1>1, <2>1, <2>2 DEF Change, TypeOK, FiniteInv
<1>2. ASSUME list' = Quiet,
             entries' \in SUBSET Entry, IsFiniteSet(entries'),
             picked' \in Entry \cup {Nothing},
             answer' \in {"none", "listed", "served", "ignored", "closed", "file_not_open",
                          "unsupported_info_level", "unexpected", "error"},
             UNCHANGED <<sections, supported, changes, disturbed>>
      PROVE  TypeOK' /\ FiniteInv'
  BY <1>2, QuietType DEF TypeOK, FiniteInv
<1>3. ASSUME NEW p \in Purpose, Ask(p) PROVE TypeOK' /\ FiniteInv'
  BY <1>3, QuietType DEF Ask, TypeOK, FiniteInv, Quiet
<1>4. CASE Page
  <2>1. PICK last, batch, rest, out : Reply(last, batch, rest, out) BY <1>4, PageReplies
  <2>2. /\ rest \subseteq entries /\ batch \subseteq rest
        /\ IsFiniteSet(batch) /\ Cardinality(batch) \in Nat /\ out \in Id \cup {0}
    BY <2>1, ReplyType
  <2>3. PICK n \in Nat : n = Cardinality(batch) BY <2>2
  <2>4. PICK at \in {"listed", "page"} :
          list' = [list EXCEPT !.found = @ \cup batch, !.many = list.many + n, !.resume = out, !.at = at]
    BY <2>1, <2>3 DEF Reply
  <2>5. list' \in [purpose : Purpose \cup {"none"}, at : {"idle", "sections", "page", "listed"},
                   level : DOMAIN Levels, resume : Id \cup {0}, found : SUBSET Entry, many : Nat,
                   sections : SUBSET Name]
    <3>1. PICK many \in Nat : many = list.many + n BY DEF TypeOK
    <3>2. PICK found \in SUBSET Entry : found = list.found \cup batch BY <2>2 DEF TypeOK
    <3>3. list' = [list EXCEPT !.found = found, !.many = many, !.resume = out, !.at = at]
      BY <2>4, <3>1, <3>2
    <3> QED BY <2>2, <3>3 DEF TypeOK
  <2>6. list'.found = list.found \cup batch BY <2>4 DEF TypeOK
  <2>7. IsFiniteSet(list'.found) BY <2>2, <2>6, FS_Union DEF FiniteInv
  <2> QED BY <1>4, <2>5, <2>7 DEF Page, TypeOK, FiniteInv
<1>5. CASE Fallback
  <2>1. list.level + 1 \in DOMAIN Levels BY <1>5, LevelNumbers DEF Fallback, NextLevel, TypeOK
  <2>2. IsFiniteSet({}) BY FS_EmptySet
  <2> QED BY <1>5, <2>1, <2>2 DEF Fallback, TypeOK, FiniteInv
<1>6. ASSUME NEW how \in {"none", "unsupported_info_level", "unexpected", "error"}, Fail(how)
      PROVE  TypeOK' /\ FiniteInv'
  BY <1>2, <1>6 DEF Fail, Over, TypeOK, FiniteInv
<1>7. CASE NoLevel \/ Unmarshalled \/ Refused
  BY <1>6, <1>7 DEF NoLevel, Unmarshalled, Refused
<1>8. CASE Show
  <2>1. picked' \in Entry \cup {Nothing} BY <1>8 DEF Show, TypeOK
  <2> QED BY <1>2, <1>8, <2>1 DEF Show, Over, TypeOK, FiniteInv
<1>9. CASE ReadSections
  <2>1. CASE Fail("none") BY <1>6, <2>1
  <2>2. CASE list' = [list EXCEPT !.sections = sections, !.at = "page"]
             /\ UNCHANGED <<entries, sections, supported, picked, answer, changes, disturbed>>
    BY <2>2 DEF TypeOK, FiniteInv
  <2> QED BY <1>9, <2>1, <2>2 DEF ReadSections
<1>10. CASE Conclude
  BY <1>2, <1>10 DEF Conclude, Over, TypeOK, FiniteInv
<1>11. CASE CloseFile
  <2>1. entries' \subseteq entries BY <1>11 DEF CloseFile
  <2>2. entries' \in SUBSET Entry /\ IsFiniteSet(entries') BY <2>1, FS_Subset DEF TypeOK, FiniteInv
  <2>3. answer' \in {"closed", "file_not_open", "error"} BY <1>11 DEF CloseFile, Missing
  <2> QED BY <1>2, <1>11, <2>2, <2>3 DEF CloseFile, Over
<1>12. CASE UNCHANGED vars BY <1>12 DEF vars, TypeOK, FiniteInv
<1> QED BY <1>1, <1>3, <1>4, <1>5, <1>7, <1>8, <1>9, <1>10, <1>11, <1>12 DEF Next

LEMMA InitType == Init => TypeOK /\ FiniteInv
<1>1. MaxChanges \in Nat BY ListingsAssumption
<1>2. Init => list = Quiet /\ IsFiniteSet(entries) /\ entries \in SUBSET Entry BY DEF Init
<1>3. Init => FiniteInv BY <1>2, QuietType DEF FiniteInv
<1>4. Init => changes \in 0..MaxChanges /\ disturbed \in BOOLEAN
  <2>1. 0 \in 0..MaxChanges BY <1>1
  <2> QED BY <2>1 DEF Init
<1>5. Init => picked \in Entry \cup {Nothing} /\ answer = "none" /\ sections \in SUBSET Name
              /\ supported \in SUBSET {Levels[i] : i \in DOMAIN Levels}
  BY DEF Init
<1> QED BY <1>2, <1>3, <1>4, <1>5, QuietType DEF TypeOK

\* Every reachable state has its type.
THEOREM TypeCorrect == Spec => []TypeOK
BY InitType, StepType, PTL DEF Spec

-------------------------------------------------------------------------------
(* Nothing is missing from an undisturbed list.                              *)

\* While replies come in, the list is what the server has up to the handle, counted
\* once; it has nothing in it before the first of them.
CompleteInv ==
    /\ list.at = "sections" => list.found = {} /\ list.many = 0 /\ list.resume = 0
    /\ list.at = "page" /\ ~disturbed =>
          list.found = {e \in entries : e.id <= list.resume} /\ list.many = Cardinality(list.found)
    /\ list.at = "listed" /\ ~disturbed /\ list.purpose # "accounts" => Complete

\* A batch that is not empty is what comes next; an empty one says there is no more.
LEMMA ReplyCompletes ==
    ASSUME TypeOK, FiniteInv, CompleteInv, list.at = "page", ~disturbed,
           NEW last, NEW batch, NEW rest, NEW out, Reply(last, batch, rest, out)
    PROVE  /\ list'.found = {e \in entries : e.id <= last}
           /\ list'.many = Cardinality(list'.found)
           /\ list'.at = "page" => list'.resume = last
           /\ list'.at = "listed" /\ list.purpose # "accounts" =>
                 list'.found = entries /\ list'.many = Cardinality(entries)
<1>1. PICK r \in Nat : r = list.resume BY ListingsAssumption DEF TypeOK
<1>2. last \in Nat /\ out \in Nat /\ rest \subseteq entries /\ batch \subseteq rest
      /\ IsFiniteSet(batch) /\ Cardinality(batch) \in Nat
  <2>1. \A i \in Id \cup {0} : i \in Nat BY ListingsAssumption
  <2>2. last \in Id \cup {0} /\ out \in Id \cup {0} /\ rest \subseteq entries /\ batch \subseteq rest
        /\ IsFiniteSet(batch) /\ Cardinality(batch) \in Nat
    BY ReplyType
  <2> QED BY <2>1, <2>2
<1>3. \A e \in entries : e.id \in Nat /\ e.id # 0 BY ListingsAssumption DEF TypeOK, Entry
<1>4. rest = {e \in entries : e.id > r} /\ batch = {e \in rest : e.id <= last} BY <1>1 DEF Reply
<1>5. IF rest = {} THEN last = r ELSE last \in {e.id : e \in rest} BY <1>1 DEF Reply
<1>6. list.found = {e \in entries : e.id <= r} /\ list.many = Cardinality(list.found)
  BY <1>1 DEF CompleteInv
<1>7. r <= last BY <1>1, <1>2, <1>3, <1>4, <1>5
<1>8. PICK F : F = list.found \cup batch OBVIOUS
<1>9. F = {e \in entries : e.id <= last} BY <1>2, <1>3, <1>4, <1>6, <1>7, <1>8
<1>10. list.found \cap batch = {} BY <1>3, <1>4, <1>6
<1>11. IsFiniteSet(F) /\ Cardinality(F) = list.many + Cardinality(batch)
  <2>1. IsFiniteSet(list.found) BY DEF FiniteInv
  <2>2. Cardinality(list.found \cap batch) = 0 BY <1>10, FS_EmptySet
  <2>3. Cardinality(list.found) \in Nat BY <2>1, FS_CardinalityType
  <2>4. IsFiniteSet(F) /\ Cardinality(F) = Cardinality(list.found) + Cardinality(batch)
                                             - Cardinality(list.found \cap batch)
    BY <1>2, <1>8, <2>1, FS_Union
  <2> QED BY <1>2, <1>6, <2>2, <2>3, <2>4
<1>12. PICK ended \in BOOLEAN : ended <=> Ended(batch, out, Cardinality(F)) OBVIOUS
<1>13. list' = [list EXCEPT !.found = F, !.many = Cardinality(F), !.resume = out,
                            !.at = IF ended THEN "listed" ELSE "page"]
  BY <1>8, <1>11, <1>12 DEF Reply
<1>14. /\ list'.found = F /\ list'.many = Cardinality(F) /\ list'.resume = out
       /\ list'.at = IF ended THEN "listed" ELSE "page"
  BY <1>13 DEF TypeOK
<1>15. ~ended => out = last
  <2>1. ~ended => out # 0 BY <1>12 DEF Ended
  <2> QED BY <2>1 DEF Reply
<1>16. ended /\ list.purpose # "accounts" => F = entries
  <2> SUFFICES ASSUME ended, list.purpose # "accounts" PROVE F = entries OBVIOUS
  <2>1. batch = rest => F = entries BY <1>2, <1>3, <1>4, <1>6, <1>8, <1>1
  <2>2. CASE batch = {}
    <3>1. rest = {} BY <1>2, <1>3, <1>4, <1>5, <2>2
    <3> QED BY <2>1, <2>2, <3>1
  <2>3. CASE batch # {} /\ out \in {0, r}
    <3>1. rest # {} BY <1>2, <2>3
    <3>2. last > r BY <1>1, <1>2, <1>3, <1>4, <1>5, <3>1
    <3>3. out # last BY <1>1, <1>2, <2>3, <3>2
    <3>4. batch = rest BY <3>3 DEF Reply
    <3> QED BY <2>1, <3>4
  <2>4. CASE Cardinality(F) >= Cardinality(entries)
    <3>1. F \subseteq entries /\ IsFiniteSet(entries) BY <1>9 DEF FiniteInv
    <3>2. Cardinality(F) \in Nat /\ Cardinality(entries) \in Nat BY <1>11, <3>1, FS_CardinalityType
    <3>3. F \in SUBSET entries BY <3>1
    <3>4. Cardinality(F) <= Cardinality(entries)
          /\ (Cardinality(entries) = Cardinality(F) => entries = F)
      BY <3>1, <3>3, FS_Subset
    <3> QED BY <2>4, <3>2, <3>4
  <2> QED BY <1>1, <1>12, <2>2, <2>3, <2>4 DEF Ended, Total
<1> QED BY <1>9, <1>14, <1>15, <1>16

\* No handle is 0.
LEMMA NoneAtZero == TypeOK => {e \in entries : e.id <= 0} = {}
<1>1. TypeOK => \A e \in entries : e.id \in Nat /\ e.id # 0 BY ListingsAssumption DEF TypeOK, Entry
<1> QED BY <1>1

LEMMA StepComplete == TypeOK /\ FiniteInv /\ CompleteInv /\ [Next]_vars => CompleteInv'
<1> SUFFICES ASSUME TypeOK, FiniteInv, CompleteInv, [Next]_vars PROVE CompleteInv' OBVIOUS
<1>0. disturbed \in BOOLEAN BY DEF TypeOK
<1>1. CASE Change BY <1>1 DEF Change, CompleteInv
<1>2. ASSUME NEW p \in Purpose, Ask(p) PROVE CompleteInv'
  <2>1. list'.at \in {"page", "sections"} /\ list'.found = {} /\ list'.many = 0 /\ list'.resume = 0
    BY <1>2 DEF Ask, Quiet
  <2>2. {e \in entries : e.id <= 0} = {} BY NoneAtZero
  <2>3. UNCHANGED entries BY <1>2 DEF Ask
  <2>4. Cardinality({}) = 0 BY FS_EmptySet
  <2> QED BY <2>1, <2>2, <2>3, <2>4 DEF CompleteInv
<1>3. CASE Page
  <2>1. PICK last, batch, rest, out : Reply(last, batch, rest, out) BY <1>3, PageReplies
  <2>2. list.at = "page" /\ UNCHANGED <<entries, disturbed>> BY <1>3 DEF Page
  <2>3. list'.purpose = list.purpose BY <2>1 DEF Reply, TypeOK
  <2>4. ~disturbed =>
           /\ list'.found = {e \in entries : e.id <= last}
           /\ list'.many = Cardinality(list'.found)
           /\ list'.at = "page" => list'.resume = last
           /\ list'.at = "listed" /\ list.purpose # "accounts" =>
                 list'.found = entries /\ list'.many = Cardinality(entries)
    BY <2>1, <2>2, ReplyCompletes
  <2>5. list'.at \in {"page", "listed"}
    <3>1. PICK at \in {"page", "listed"} : \E found, many :
            list' = [list EXCEPT !.found = found, !.many = many, !.resume = out, !.at = at]
      BY <2>1 DEF Reply
    <3> QED BY <3>1 DEF TypeOK
  <2> QED BY <2>2, <2>3, <2>4, <2>5 DEF CompleteInv, Complete
<1>4. CASE Fallback
  <2>1. list'.at = "page" /\ list'.found = {} /\ list'.many = 0 /\ list'.resume = 0
    BY <1>4 DEF Fallback, NextLevel, TypeOK
  <2>2. {e \in entries : e.id <= 0} = {} BY NoneAtZero
  <2>3. UNCHANGED entries BY <1>4 DEF Fallback
  <2>4. Cardinality({}) = 0 BY FS_EmptySet
  <2> QED BY <2>1, <2>2, <2>3, <2>4 DEF CompleteInv
<1>5. ASSUME list' = Quiet PROVE CompleteInv' BY <1>5 DEF Quiet, CompleteInv
<1>6. CASE NoLevel \/ Unmarshalled \/ Refused \/ Show \/ Conclude \/ CloseFile
  BY <1>5, <1>6 DEF NoLevel, Unmarshalled, Refused, Show, Conclude, CloseFile, Fail, Over
<1>7. CASE ReadSections
  <2>1. CASE Fail("none") BY <1>5, <2>1 DEF Fail, Over
  <2>2. CASE list' = [list EXCEPT !.sections = sections, !.at = "page"] /\ UNCHANGED <<entries, disturbed>>
    <3>1. /\ list'.at = "page" /\ list'.found = {} /\ list'.many = 0 /\ list'.resume = 0
      BY <1>7, <2>2 DEF ReadSections, TypeOK, CompleteInv
    <3>2. {e \in entries : e.id <= 0} = {} BY NoneAtZero
    <3>3. Cardinality({}) = 0 BY FS_EmptySet
    <3> QED BY <2>2, <3>1, <3>2, <3>3 DEF CompleteInv
  <2> QED BY <1>7, <2>1, <2>2 DEF ReadSections
<1>8. CASE UNCHANGED vars BY <1>8 DEF vars, CompleteInv, Complete
<1> QED BY <1>1, <1>2, <1>3, <1>4, <1>6, <1>7, <1>8 DEF Next

\* However the server cuts its replies, a list of shares, sessions or files during
\* which nothing changed has every entry, and has it once (_enumerate).
THEOREM NothingMissing == Spec => []NothingIsMissing
<1>1. Init => CompleteInv BY DEF Init, CompleteInv, Quiet
<1>2. TypeOK /\ FiniteInv /\ CompleteInv /\ [Next]_vars => CompleteInv' BY StepComplete
<1>3. CompleteInv => NothingIsMissing BY DEF CompleteInv, NothingIsMissing
<1> QED BY <1>1, <1>2, <1>3, InitType, StepType, PTL DEF Spec

-------------------------------------------------------------------------------
(* The level of a list, and what is concluded from one.                      *)

LEMMA StepLevel == TypeOK /\ BestLevel /\ [Next]_vars => BestLevel'
<1> SUFFICES ASSUME TypeOK, BestLevel, [Next]_vars PROVE BestLevel' OBVIOUS
<1>1. PICK n \in Nat : n = list.level BY LevelNumbers DEF TypeOK
<1>2. ASSUME list'.level = list.level, UNCHANGED supported PROVE BestLevel' BY <1>2 DEF BestLevel
<1>3. ASSUME list'.level = 1 PROVE BestLevel'
  <2>1. 1..(1 - 1) = {} OBVIOUS
  <2> QED BY <1>3, <2>1 DEF BestLevel
<1>4. CASE Fallback
  <2>1. list'.level = n + 1 /\ Levels[n] \notin supported /\ UNCHANGED supported
    BY <1>1, <1>4 DEF Fallback, NextLevel, TypeOK
  <2>2. \A i \in 1..((n + 1) - 1) : i \in 1..(n - 1) \/ i = n BY <1>1
  <2> QED BY <1>1, <2>1, <2>2 DEF BestLevel
<1>5. CASE Page
  <2>1. PICK last, batch, rest, out : Reply(last, batch, rest, out) BY <1>5, PageReplies
  <2>2. list'.level = list.level BY <2>1 DEF Reply, TypeOK
  <2> QED BY <1>2, <1>5, <2>2 DEF Page
<1>6. ASSUME NEW p \in Purpose, Ask(p) PROVE BestLevel' BY <1>3, <1>6 DEF Ask, Quiet
<1>7. CASE NoLevel \/ Unmarshalled \/ Refused \/ Show \/ Conclude \/ CloseFile
  BY <1>3, <1>7 DEF NoLevel, Unmarshalled, Refused, Show, Conclude, CloseFile, Fail, Over, Quiet
<1>8. CASE ReadSections
  <2>1. CASE Fail("none") BY <1>3, <2>1 DEF Fail, Over, Quiet
  <2>2. CASE list' = [list EXCEPT !.sections = sections, !.at = "page"] /\ UNCHANGED supported
    BY <1>2, <2>2 DEF TypeOK
  <2> QED BY <1>8, <2>1, <2>2 DEF ReadSections
<1>9. CASE Change \/ UNCHANGED vars BY <1>2, <1>9 DEF Change, vars
<1> QED BY <1>4, <1>5, <1>6, <1>7, <1>8, <1>9 DEF Next

\* A level is passed over only when the server does not have it (_enumerate_levels).
THEOREM LevelIsBest == Spec => []BestLevel
<1>1. Init => BestLevel
  <2>1. 1..(1 - 1) = {} OBVIOUS
  <2> QED BY <2>1 DEF Init, BestLevel, Quiet
<1>2. TypeOK /\ BestLevel /\ [Next]_vars => BestLevel' BY StepLevel
<1> QED BY <1>1, <1>2, TypeCorrect, PTL DEF Spec

\* A list ends for the purpose it was asked for.
LEMMA Endings ==
    ASSUME TypeOK, Next, list.at = "listed", list'.at = "idle"
    PROVE  /\ list.purpose = "close" => CloseFile
           /\ list.purpose = "served" => Conclude
<1>1. ~Page /\ ~Fallback /\ ~NoLevel /\ ~Unmarshalled /\ ~Refused
  BY DEF Page, Fallback, NextLevel, NoLevel, Unmarshalled, Refused
<1>2. ~Change BY DEF Change
<1>3. ~ReadSections BY DEF ReadSections
<1>4. ~(\E p \in Purpose : Ask(p)) BY DEF Ask
<1>5. Show => list.purpose \in {"files", "accounts", "shares"} BY DEF Show
<1>6. Conclude => list.purpose = "served" BY DEF Conclude
<1>7. CloseFile => list.purpose = "close" BY DEF CloseFile
<1> QED BY <1>1, <1>2, <1>3, <1>4, <1>5, <1>6, <1>7 DEF Next

\* "Closed" means that this call closed the file the answer names, and no other
\* (close_file of srv/sessions.py and of api/v1/sessions.py).
THEOREM CloseClosesWhatItSays == Spec => ClosedIsClosed
<1>1. Init => CompleteInv BY DEF Init, CompleteInv, Quiet
<1>2. TypeOK /\ FiniteInv /\ CompleteInv /\ [Next]_vars => CompleteInv' BY StepComplete
<1>3. TypeOK /\ CompleteInv /\ [Next]_vars =>
        [list.at = "listed" /\ list.purpose = "close" /\ list'.at = "idle" =>
          /\ answer' = "closed" => /\ \E e \in entries : e.id = picked.id /\ e \notin entries'
                                   /\ ~disturbed => Victim = entries \ entries'
          /\ answer' = "file_not_open" => entries' = entries
          /\ \A e \in entries : e.id # picked.id => e \in entries']_vars
  <2> SUFFICES ASSUME TypeOK, CompleteInv, Next,
                      list.at = "listed", list.purpose = "close", list'.at = "idle"
               PROVE  /\ answer' = "closed" => /\ \E e \in entries : e.id = picked.id /\ e \notin entries'
                                               /\ ~disturbed => Victim = entries \ entries'
                      /\ answer' = "file_not_open" => entries' = entries
                      /\ \A e \in entries : e.id # picked.id => e \in entries'
    OBVIOUS
  <2>1. CloseFile BY Endings
  <2>2. PICK rest : rest = {e \in entries : e.id # picked.id} OBVIOUS
  <2>3. \/ entries' = rest /\ answer' = (IF entries' = entries THEN Missing ELSE "closed")
        \/ entries' \in {entries, rest} /\ answer' = "error"
    BY <2>1, <2>2 DEF CloseFile
  <2>4. answer' = "closed" => entries' = rest /\ rest # entries BY <2>3 DEF Missing
  <2>5. answer' = "closed" => \E e \in entries : e.id = picked.id /\ e \notin entries'
    BY <2>2, <2>4
  <2>6. answer' = "closed" /\ ~disturbed => Victim = entries \ entries'
    <3>1. ~disturbed => list.found = entries BY DEF CompleteInv, Complete
    <3> QED BY <2>2, <2>4, <3>1 DEF Victim
  <2>7. answer' = "file_not_open" => entries' = entries BY <2>3 DEF Missing
  <2> QED BY <2>2, <2>3, <2>5, <2>6, <2>7
<1> QED BY <1>1, <1>2, <1>3, InitType, StepType, PTL DEF Spec, ClosedIsClosed

\* The sections the shares are compared with are those the registry has.
SectionsInv ==
    list.at \in {"page", "listed"} /\ list.purpose = "served" /\ ~disturbed => list.sections = sections

LEMMA StepSections == TypeOK /\ SectionsInv /\ [Next]_vars => SectionsInv'
<1> SUFFICES ASSUME TypeOK, SectionsInv, [Next]_vars PROVE SectionsInv' OBVIOUS
<1>1. CASE Change BY <1>1 DEF Change, SectionsInv
<1>2. ASSUME NEW p \in Purpose, Ask(p) PROVE SectionsInv' BY <1>2 DEF Ask, Quiet, SectionsInv
<1>3. CASE Page
  <2>1. PICK last, batch, rest, out : Reply(last, batch, rest, out) BY <1>3, PageReplies
  <2>2. list'.purpose = list.purpose /\ list'.sections = list.sections BY <2>1 DEF Reply, TypeOK
  <2> QED BY <1>3, <2>2 DEF Page, SectionsInv
<1>4. CASE Fallback BY <1>4 DEF Fallback, NextLevel, TypeOK, SectionsInv
<1>5. ASSUME list' = Quiet PROVE SectionsInv' BY <1>5 DEF Quiet, SectionsInv
<1>6. CASE NoLevel \/ Unmarshalled \/ Refused \/ Show \/ Conclude \/ CloseFile
  BY <1>5, <1>6 DEF NoLevel, Unmarshalled, Refused, Show, Conclude, CloseFile, Fail, Over
<1>7. CASE ReadSections
  <2>1. CASE Fail("none") BY <1>5, <2>1 DEF Fail, Over
  <2>2. CASE list' = [list EXCEPT !.sections = sections, !.at = "page"] /\ UNCHANGED sections
    BY <2>2 DEF TypeOK, SectionsInv
  <2> QED BY <1>7, <2>1, <2>2 DEF ReadSections
<1>8. CASE UNCHANGED vars BY <1>8 DEF vars, SectionsInv
<1> QED BY <1>1, <1>2, <1>3, <1>4, <1>6, <1>7, <1>8 DEF Next

\* The console says that the server ignores its registry only where no section of
\* it is among the shares (registry_shares_served).
THEOREM VerdictIsCertain == Spec => IgnoredIsCertain
<1>1. Init => CompleteInv /\ SectionsInv BY DEF Init, CompleteInv, SectionsInv, Quiet
<1>2. TypeOK /\ FiniteInv /\ CompleteInv /\ [Next]_vars => CompleteInv' BY StepComplete
<1>3. TypeOK /\ SectionsInv /\ [Next]_vars => SectionsInv' BY StepSections
<1>4. TypeOK /\ CompleteInv /\ SectionsInv /\ [Next]_vars =>
        [list.purpose = "served" /\ answer' = "ignored" /\ list'.at = "idle" /\ list.at = "listed"
          /\ ~disturbed => \A e \in entries : e.name \notin sections]_vars
  <2> SUFFICES ASSUME TypeOK, CompleteInv, SectionsInv, Next, list.purpose = "served",
                      answer' = "ignored", list'.at = "idle", list.at = "listed", ~disturbed
               PROVE  \A e \in entries : e.name \notin sections
    OBVIOUS
  <2>1. Conclude BY Endings
  <2>2. list.found = entries /\ list.sections = sections BY DEF CompleteInv, Complete, SectionsInv
  <2> QED BY <2>1, <2>2 DEF Conclude
<1> QED BY <1>1, <1>2, <1>3, <1>4, InitType, StepType, PTL DEF Spec, IgnoredIsCertain

=================================================================================
