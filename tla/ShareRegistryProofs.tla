-------------------------- MODULE ShareRegistryProofs --------------------------
(* Proofs about ShareRegistry: its type invariant, that no call shadows a     *)
(* share of the text smb.conf, and that concurrent updates of different       *)
(* fields are never lost, for any number of calls, shares and options.        *)
EXTENDS ShareRegistry, TLAPS

(***************************************************************************)
(* Facts about sections.                                                   *)
(***************************************************************************)
\* The fields of a section, the empty one, and one changed in one field.
LEMMA SectionFacts ==
  /\ "path" \in Field /\ Option \subseteq Field
  /\ Empty \in Section
  /\ \A x \in Section, f \in Field : x[f] \in Value \cup {None}
  /\ \A x \in Section, f \in Field, v \in Value \cup {None} : [x EXCEPT ![f] = v] \in Section
BY DEF Section, Field, Empty

\* What a walk over a share's values returns.
LEMMA WalkFacts ==
  ASSUME conf \in [Share -> Section], NEW s \in Share, NEW reached \in SUBSET Field
  PROVE  /\ Walk(s, reached) \in Section
         /\ conf[s] = Empty => Walk(s, reached) = Empty
         /\ Walk(s, Field) = conf[s]
<1>1. conf[s] \in Section
  OBVIOUS
<1>2. conf[s] = Empty => Walk(s, reached) = Empty
  BY DEF Empty, Walk
<1> QED BY <1>1, <1>2 DEF Section, Walk

USE ShareAssumption DEF ShareInv, serverVars, askedVars

(***************************************************************************)
(* A call's own fields.  A step in which no call begins leaves what the    *)
(* calls ask for as it is.                                                 *)
(***************************************************************************)
\* A field that is a call's own after such a step was so before it.
LEMMA OwnBefore ==
  ASSUME NEW d \in Call, NEW f \in Field, UNCHANGED askedVars, sure'[d] => sure[d], Own(d, f)'
  PROVE  Own(d, f)
BY DEF Own, Informed, Undisputed

\* The step is another call's: of the section it changes only fields it sent.
LEMMA OthersStayOnCourse ==
  ASSUME EditInv, TypeOK, NEW c \in Call, NEW d \in Call, d # c, NEW f \in Field,
         UNCHANGED askedVars, sure'[d] = sure[d], Own(d, f)', pc'[d] = pc[d],
         seen'[d] = seen[d], todo'[d] = todo[d],
         \/ conf' = conf
         \/ /\ \A s \in Share \ {share[c]} : conf'[s] = conf[s]
            /\ kind[c] = "update" => \A g \in Field \ Sent(c) :
                                        conf'[share[c]][g] = conf[share[c]][g]
  PROVE  OnCourse(d, f)'
<1>1. Own(d, f) /\ OnCourse(d, f)
  BY OwnBefore DEF EditInv
<1>2. CASE pc[d] = "idle"
  BY <1>2 DEF OnCourse
<1>3. CASE pc[d] # "idle"
  <2>1. share[d] \in Share
    BY <1>3 DEF TypeOK
  <2>2. share[c] = share[d] => kind[c] = "update" /\ f \notin Sent(c)
    BY <1>1 DEF Own, Undisputed, Sent
  <2>3. conf'[share[d]][f] = conf[share[d]][f]
    BY <2>1, <2>2
  <2> QED BY <1>1, <2>3 DEF OnCourse
<1> QED BY <1>2, <1>3

\* A call that is under way goes on to another stage.
LEMMA StageType ==
  ASSUME TypeOK, NEW c \in Call, pc[c] # "idle", UNCHANGED <<kind, share>>,
         \E stage \in Stage : pc' = [pc EXCEPT ![c] = stage]
  PROVE  /\ pc' \in [Call -> Stage]
         /\ \A d \in Call : pc'[d] # "idle" => kind'[d] \in Kind /\ share'[d] \in Share
BY DEF TypeOK

(***************************************************************************)
(* The invariant is kept by each step.                                     *)
(***************************************************************************)
\* A call begins: no other call changes its kind, its share or its request.
LEMMA BeginKeeps ==
  ASSUME ShareInv, NEW c \in Call, Begin(c)
  PROVE  ShareInv'
<1>1. PICK k \in Kind, s \in Share :
        LET beside == {d \in Call : Active(d) /\ share[d] = s} IN
        /\ kind' = [kind EXCEPT ![c] = k]
        /\ share' = [share EXCEPT ![c] = s]
        /\ want' \in {[want EXCEPT ![c] = w] : w \in Request(k)}
        /\ before' = [before EXCEPT ![c] = conf[s]]
        /\ alone' = [d \in Call |-> IF d = c THEN beside = {} ELSE alone[d] /\ d \notin beside]
  BY DEF Begin
<1>0. PICK w \in Request(k) : want' = [want EXCEPT ![c] = w]
  BY <1>1
<1>2. w \in [Field -> Value \cup {None, Keep}] /\ w["path"] # None
  BY SectionFacts DEF Request
<1>3. /\ pc[c] = "idle" /\ pc' = [pc EXCEPT ![c] = "look"]
      /\ UNCHANGED <<serverVars, seen, todo, sure>>
  BY DEF Begin
<1>4. TypeOK'
  <2>1. alone' \in [Call -> BOOLEAN]
    BY <1>1 DEF TypeOK
  <2> QED BY <1>0, <1>1, <1>2, <1>3, <2>1 DEF TypeOK, Stage
<1>5. NoKeyShadowsText'
  BY <1>3 DEF NoKeyShadowsText
<1>6. ProgressInv'
  BY <1>0, <1>1, <1>2, <1>3 DEF TypeOK, ProgressInv, Served, Sent
<1>7. EditInv'
  <2> SUFFICES ASSUME NEW d \in Call, NEW f \in Field, Own(d, f)' PROVE OnCourse(d, f)'
    BY DEF EditInv
  <2>1. CASE d = c
    <3>1. f = "path" => conf[s][f] # None
      BY <1>1, <2>1 DEF TypeOK, Own, Informed
    <3> QED BY <1>0, <1>1, <1>3, <2>1, <3>1 DEF TypeOK, OnCourse
  <2>2. CASE d # c
    <3>1. /\ kind'[d] = kind[d] /\ share'[d] = share[d] /\ want'[d] = want[d]
          /\ before'[d] = before[d] /\ pc'[d] = pc[d]
      BY <1>0, <1>1, <1>3, <2>2 DEF TypeOK
    <3>2. CASE pc[d] = "idle"
      BY <3>1, <3>2 DEF OnCourse
    <3>3. CASE pc[d] # "idle"
      <4>1. share[d] \in Share /\ share[c] = None
        BY <1>3, <3>3 DEF TypeOK, ProgressInv
      <4>2. ASSUME NEW e \in Call \ {d}, share[e] = share[d]
            PROVE  kind[e] = "update" /\ want[e][f] = Keep
        <5>1. e # c
          BY <4>1, <4>2
        <5>2. kind'[e] = kind[e] /\ share'[e] = share[e] /\ want'[e] = want[e]
          BY <1>0, <1>1, <5>1 DEF TypeOK
        <5> QED BY <3>1, <4>2, <5>2 DEF Own, Undisputed
      <4>3. Own(d, f)
        BY <1>3, <3>1, <4>2 DEF Own, Informed, Undisputed
      <4> QED BY <1>3, <3>1, <4>3 DEF EditInv, OnCourse
    <3> QED BY <3>2, <3>3
  <2> QED BY <2>1, <2>2
<1> QED BY <1>4, <1>5, <1>6, <1>7

\* The server is asked for the share: what it does not serve is not a text share.
LEMMA LookUpKeeps ==
  ASSUME ShareInv, NEW c \in Call, LookUp(c)
  PROVE  ShareInv'
<1>1. kind[c] \in Kind /\ share[c] \in Share /\ srvsvc[share[c]] \in Value \cup {None}
  BY DEF TypeOK, LookUp
<1>2. Sent(c) \in SUBSET Field
  BY DEF Sent
<1>3. [Empty EXCEPT !["path"] = srvsvc[share[c]]] \in Section
  BY <1>1, SectionFacts
<1>4. TypeOK'
  <2>1. \E stage \in Stage : pc' = [pc EXCEPT ![c] = stage]
    BY <1>1 DEF LookUp, Stage, Kind
  <2>2. \/ UNCHANGED <<seen, todo>>
        \/ /\ seen' = [seen EXCEPT ![c] = [Empty EXCEPT !["path"] = srvsvc[share[c]]]]
           /\ todo' = [todo EXCEPT ![c] = Sent(c)]
    BY DEF LookUp
  <2>3. seen' \in [Call -> Section] /\ todo' \in [Call -> SUBSET Field]
    <3> DEFINE reported == [Empty EXCEPT !["path"] = srvsvc[share[c]]]
    <3>1. reported \in Section
      BY <1>3
    <3> HIDE DEF reported
    <3>2. seen' = seen \/ seen' = [seen EXCEPT ![c] = reported]
      BY <2>2 DEF reported
    <3> QED BY <1>2, <2>2, <3>1, <3>2 DEF TypeOK
  <2>4. UNCHANGED <<serverVars, askedVars, alone, sure>> /\ pc[c] # "idle"
    BY DEF LookUp
  <2> QED BY <2>1, <2>3, <2>4, StageType DEF TypeOK
<1>5. NoKeyShadowsText'
  BY DEF NoKeyShadowsText, LookUp
<1>6. ProgressInv'
  BY <1>1 DEF TypeOK, ProgressInv, LookUp, Served, Sent, Kind
<1>7. EditInv'
  <2> SUFFICES ASSUME NEW d \in Call, NEW f \in Field, Own(d, f)' PROVE OnCourse(d, f)'
    BY DEF EditInv
  <2>1. CASE d = c
    <3>1. Own(d, f) /\ OnCourse(d, f)
      BY OwnBefore DEF LookUp, EditInv
    <3> QED BY <2>1, <3>1 DEF TypeOK, LookUp, OnCourse, Own
  <2>2. CASE d # c
    BY <2>2, OthersStayOnCourse DEF TypeOK, LookUp
  <2> QED BY <2>1, <2>2
<1> QED BY <1>4, <1>5, <1>6, <1>7

\* An update reads what is stored: where there is something, there is a key, and
\* the share is not a text share.
LEMMA ReadStoredKeeps ==
  ASSUME ShareInv, NEW c \in Call, ReadStored(c)
  PROVE  ShareInv'
<1>1. /\ pc[c] = "stored" /\ kind[c] = "update" /\ share[c] \in Share
      /\ todo[c] = Sent(c) /\ sure[c]
  BY DEF TypeOK, ProgressInv, ReadStored
<1>2. /\ UNCHANGED <<serverVars, askedVars, seen, alone>>
      /\ \/ \E reached \in SUBSET Field :
              LET stored == Walk(share[c], reached)
                  path == IF stored["path"] # None THEN stored["path"] ELSE seen[c]["path"]
                  rest == {f \in todo[c] : f = "path" => want[c][f] # path} IN
              /\ todo' = [todo EXCEPT ![c] = rest]
              /\ pc' = [pc EXCEPT ![c] = IF stored = Empty THEN "refused"
                                         ELSE IF rest = {} THEN "done" ELSE "open"]
              /\ sure' = [sure EXCEPT ![c] = Walk(share[c], Field) = stored]
         \/ pc' = [pc EXCEPT ![c] = "failed"] /\ UNCHANGED <<todo, sure>>
  BY DEF ReadStored
<1>3. TypeOK'
  <2>1. \E stage \in Stage : pc' = [pc EXCEPT ![c] = stage]
    BY <1>2 DEF Stage
  <2>2. \/ UNCHANGED <<todo, sure>>
        \/ \E rest \in SUBSET todo[c], b \in BOOLEAN :
              todo' = [todo EXCEPT ![c] = rest] /\ sure' = [sure EXCEPT ![c] = b]
    BY <1>2
  <2>3. todo' \in [Call -> SUBSET Field] /\ sure' \in [Call -> BOOLEAN]
    <3>1. CASE UNCHANGED <<todo, sure>>
      BY <3>1 DEF TypeOK
    <3>2. ASSUME NEW rest \in SUBSET todo[c], NEW b \in BOOLEAN,
                 todo' = [todo EXCEPT ![c] = rest], sure' = [sure EXCEPT ![c] = b]
          PROVE  todo' \in [Call -> SUBSET Field] /\ sure' \in [Call -> BOOLEAN]
      <4>1. rest \in SUBSET Field
        BY DEF TypeOK
      <4> QED BY <3>2, <4>1 DEF TypeOK
    <3> QED BY <2>2, <3>1, <3>2
  <2> QED BY <1>1, <1>2, <2>1, <2>3, StageType DEF TypeOK
<1>4. NoKeyShadowsText'
  BY <1>2 DEF NoKeyShadowsText
<1>5. /\ todo'[c] \subseteq Sent(c)
      /\ pc'[c] = "open" => conf[share[c]] # Empty
      /\ pc'[c] \in {"refused", "done", "open", "failed"}
      /\ \A d \in Call \ {c} : pc'[d] = pc[d] /\ todo'[d] = todo[d] /\ sure'[d] = sure[d]
  BY <1>1, <1>2, WalkFacts DEF TypeOK
<1>6. ProgressInv'
  <2>1. pc'[c] = "open" => share[c] \notin text
    BY <1>1, <1>5 DEF NoKeyShadowsText
  <2> QED BY <1>1, <1>2, <1>5, <2>1 DEF ProgressInv, Served, Sent
<1>7. EditInv'
  <2> SUFFICES ASSUME NEW d \in Call, NEW f \in Field, Own(d, f)' PROVE OnCourse(d, f)'
    BY DEF EditInv
  <2>1. CASE d = c
    <3>1. Own(d, f) /\ OnCourse(d, f) /\ sure'[c]
      BY <1>1, <1>2, <2>1, OwnBefore DEF EditInv, Own, Informed
    <3>2. f \in Sent(c)
      BY <2>1, <3>1 DEF Own, Sent
    <3>3. ASSUME pc'[c] \in {"open", "done"}, f \notin todo'[c]
          PROVE  conf[share[c]][f] = want[c][f]
      <4>1. PICK reached \in SUBSET Field :
              LET stored == Walk(share[c], reached)
                  path == IF stored["path"] # None THEN stored["path"] ELSE seen[c]["path"] IN
              /\ todo'[c] = {g \in todo[c] : g = "path" => want[c][g] # path}
              /\ sure'[c] = (Walk(share[c], Field) = stored)
        BY <1>2, <3>3 DEF TypeOK
      <4>2. Walk(share[c], reached) = conf[share[c]]
        BY <1>1, <3>1, <4>1, WalkFacts DEF TypeOK
      <4>3. f = "path"
        BY <1>1, <3>2, <3>3, <4>1
      <4>4. conf[share[c]]["path"] # None
        BY <1>1, <2>1, <3>1, <4>3 DEF OnCourse
      <4> QED BY <1>1, <3>2, <3>3, <4>1, <4>2, <4>3, <4>4
    <3>4. pc'[c] = "done" => f \notin todo'[c]
      BY <1>1, <1>2 DEF TypeOK
    <3> QED BY <1>2, <1>5, <2>1, <3>3, <3>4 DEF OnCourse
  <2>2. CASE d # c
    BY <1>2, <1>5, <2>2, OthersStayOnCourse
  <2> QED BY <2>1, <2>2
<1> QED BY <1>3, <1>4, <1>6, <1>7

\* The key is opened or made, of a share that is not a text share.
LEMMA OpenKeyKeeps ==
  ASSUME ShareInv, NEW c \in Call, OpenKey(c)
  PROVE  ShareInv'
<1>1. share[c] \in Share /\ share[c] \notin text /\ kind[c] # "delete"
  BY DEF TypeOK, ProgressInv, OpenKey
<1>2. /\ pc[c] = "open" /\ key' \in {key, key \cup {share[c]}}
      /\ \/ pc' = [pc EXCEPT ![c] = "read"]
         \/ kind[c] = "create" /\ pc' = [pc EXCEPT ![c] = "rollback"]
         \/ kind[c] # "create" /\ pc' = [pc EXCEPT ![c] = "failed"]
      /\ UNCHANGED <<text, included, conf, srvsvc, askedVars, seen, todo, alone, sure>>
  BY DEF OpenKey, Raise
<1>3. TypeOK'
  BY <1>1, <1>2 DEF TypeOK, Stage
<1>4. NoKeyShadowsText'
  BY <1>1, <1>2 DEF NoKeyShadowsText
<1>5. ProgressInv'
  BY <1>2 DEF TypeOK, ProgressInv, Served, Sent
<1>6. EditInv'
  <2> SUFFICES ASSUME NEW d \in Call, NEW f \in Field, Own(d, f)' PROVE OnCourse(d, f)'
    BY DEF EditInv
  <2>1. CASE d = c
    <3>1. OnCourse(d, f)
      BY <1>2, OwnBefore DEF EditInv
    <3> QED BY <1>2, <2>1, <3>1 DEF TypeOK, OnCourse
  <2>2. CASE d # c
    BY <1>2, <2>2, OthersStayOnCourse DEF TypeOK
  <2> QED BY <2>1, <2>2
<1> QED BY <1>3, <1>4, <1>5, <1>6

\* The current values are read: a walk that came to its end read what is stored.
LEMMA ReadValuesKeeps ==
  ASSUME ShareInv, NEW c \in Call, ReadValues(c)
  PROVE  ShareInv'
<1>1. PICK reached \in SUBSET Field :
        /\ seen' = [seen EXCEPT ![c] = Walk(share[c], reached)]
        /\ sure' = [sure EXCEPT ![c] = @ /\ Walk(share[c], Field) = Walk(share[c], reached)]
  BY DEF ReadValues
<1>2. /\ pc[c] = "read" /\ pc' = [pc EXCEPT ![c] = "write"] /\ share[c] \in Share
      /\ UNCHANGED <<serverVars, askedVars, todo, alone>>
  BY DEF TypeOK, ReadValues
<1>3. /\ Walk(share[c], reached) \in Section
      /\ Walk(share[c], Field) = conf[share[c]]
  BY <1>2, WalkFacts DEF TypeOK
<1>4. TypeOK'
  BY <1>1, <1>2, <1>3 DEF TypeOK, Stage
<1>5. NoKeyShadowsText'
  BY <1>2 DEF NoKeyShadowsText
<1>6. ProgressInv'
  BY <1>1, <1>2 DEF TypeOK, ProgressInv, Served, Sent
<1>7. EditInv'
  <2> SUFFICES ASSUME NEW d \in Call, NEW f \in Field, Own(d, f)' PROVE OnCourse(d, f)'
    BY DEF EditInv
  <2>1. CASE d = c
    <3>1. Own(d, f) /\ OnCourse(d, f) /\ sure'[c]
      BY <1>1, <1>2, <2>1, OwnBefore DEF TypeOK, EditInv, Own, Informed
    <3>2. seen'[c] = conf[share[c]]
      BY <1>1, <1>3, <3>1 DEF TypeOK
    <3> QED BY <1>2, <2>1, <3>1, <3>2 DEF TypeOK, OnCourse
  <2>2. CASE d # c
    BY <1>1, <1>2, <2>2, OthersStayOnCourse DEF TypeOK
  <2> QED BY <2>1, <2>2
<1> QED BY <1>4, <1>5, <1>6, <1>7

\* A value is left alone because it is what was asked for.
LEMMA SkipValueKeeps ==
  ASSUME ShareInv, NEW c \in Call, SkipValue(c)
  PROVE  ShareInv'
<1>1. PICK g \in Upcoming(c) : want[c][g] = seen[c][g] /\ Written(c, g)
  BY DEF SkipValue
<1>2. /\ pc[c] = "write" /\ kind[c] # "delete" /\ todo[c] \subseteq Sent(c)
      /\ UNCHANGED <<serverVars, askedVars, seen, alone, sure>>
  BY DEF ProgressInv, SkipValue
<1>3. /\ todo' = [todo EXCEPT ![c] = @ \ {g}]
      /\ \/ todo[c] # {g} /\ pc' = [pc EXCEPT ![c] = "write"]
         \/ kind[c] = "create" /\ pc' = [pc EXCEPT ![c] = "confirm"]
         \/ todo[c] = {g} /\ pc' = [pc EXCEPT ![c] = "done"]
  BY <1>1 DEF Written
<1>4. TypeOK'
  BY <1>2, <1>3 DEF TypeOK, Stage
<1>5. NoKeyShadowsText'
  BY <1>2 DEF NoKeyShadowsText
<1>6. ProgressInv'
  BY <1>2, <1>3 DEF TypeOK, ProgressInv, Served, Sent
<1>7. EditInv'
  <2> SUFFICES ASSUME NEW d \in Call, NEW f \in Field, Own(d, f)' PROVE OnCourse(d, f)'
    BY DEF EditInv
  <2>1. CASE d = c
    <3>1. Own(d, f) /\ OnCourse(d, f)
      BY <1>2, OwnBefore DEF EditInv
    <3>2. f \notin todo'[c] => conf[share[c]][f] = want[c][f]
      BY <1>1, <1>2, <1>3, <2>1, <3>1 DEF TypeOK, OnCourse
    <3> QED BY <1>2, <1>3, <2>1, <3>1, <3>2 DEF TypeOK, OnCourse, Own
  <2>2. CASE d # c
    BY <1>2, <1>3, <2>2, OthersStayOnCourse DEF TypeOK
  <2> QED BY <2>1, <2>2
<1> QED BY <1>4, <1>5, <1>6, <1>7

\* A value is set or deleted under a key that exists, or the call fails.
LEMMA WriteValueKeeps ==
  ASSUME ShareInv, NEW c \in Call, WriteValue(c)
  PROVE  ShareInv'
<1>1. PICK g \in Upcoming(c) :
        LET s == share[c]
            possible == s \in key /\ (want[c][g] = None => conf[s][g] # None)
            done == conf' = [conf EXCEPT ![s][g] = want[c][g]] IN
        /\ want[c][g] # seen[c][g]
        /\ \/ possible /\ done /\ Written(c, g)
           \/ possible /\ done /\ Raise(c) /\ UNCHANGED todo
           \/ Raise(c) /\ UNCHANGED <<conf, todo>>
  BY DEF WriteValue
<1>2. /\ pc[c] = "write" /\ kind[c] # "delete" /\ share[c] \in Share
      /\ todo[c] \subseteq Sent(c)
      /\ UNCHANGED <<text, included, key, srvsvc, askedVars, seen, alone, sure>>
  BY DEF TypeOK, ProgressInv, WriteValue
<1>3. g \in todo[c] /\ g \in Field /\ want[c][g] \in Value \cup {None}
  <2>1. g \in todo[c]
    BY <1>1 DEF Upcoming
  <2> QED BY <1>2, <2>1 DEF TypeOK, Sent
<1>4. \/ conf' = conf
      \/ share[c] \in key /\ conf' = [conf EXCEPT ![share[c]][g] = want[c][g]]
  BY <1>1
<1>5. \/ /\ conf' = [conf EXCEPT ![share[c]][g] = want[c][g]]
         /\ todo' = [todo EXCEPT ![c] = @ \ {g}]
         /\ \/ todo[c] # {g} /\ pc' = [pc EXCEPT ![c] = "write"]
            \/ kind[c] = "create" /\ pc' = [pc EXCEPT ![c] = "confirm"]
            \/ todo[c] = {g} /\ pc' = [pc EXCEPT ![c] = "done"]
      \/ /\ UNCHANGED todo
         /\ \/ kind[c] = "create" /\ pc' = [pc EXCEPT ![c] = "rollback"]
            \/ kind[c] # "create" /\ pc' = [pc EXCEPT ![c] = "failed"]
  BY <1>1 DEF Written, Raise
<1>6. conf' \in [Share -> Section]
  <2>1. [conf[share[c]] EXCEPT ![g] = want[c][g]] \in Section
    BY <1>2, <1>3, SectionFacts DEF TypeOK
  <2> QED BY <1>2, <1>4, <2>1 DEF TypeOK
<1>7. TypeOK'
  <2>1. \E stage \in Stage : pc' = [pc EXCEPT ![c] = stage]
    BY <1>5 DEF Stage
  <2>2. todo' \in [Call -> SUBSET Field]
    BY <1>5 DEF TypeOK
  <2> QED BY <1>2, <1>6, <2>1, <2>2, StageType DEF TypeOK
<1>8. NoKeyShadowsText'
  BY <1>2, <1>4 DEF TypeOK, NoKeyShadowsText
<1>9. ProgressInv'
  BY <1>2, <1>5 DEF TypeOK, ProgressInv, Served, Sent
<1>10. EditInv'
  <2> SUFFICES ASSUME NEW d \in Call, NEW f \in Field, Own(d, f)' PROVE OnCourse(d, f)'
    BY DEF EditInv
  <2>0. conf[share[c]] \in Section
    BY <1>2 DEF TypeOK
  <2>1. CASE d = c
    <3>1. Own(d, f) /\ OnCourse(d, f)
      BY <1>2, OwnBefore DEF EditInv
    <3>2. CASE pc'[c] \in {"write", "done"}
      <4>1. /\ conf' = [conf EXCEPT ![share[c]][g] = want[c][g]]
            /\ todo'[c] = todo[c] \ {g}
            /\ pc'[c] = "done" => todo[c] = {g}
        BY <1>2, <1>5, <3>2 DEF TypeOK
      <4>2. conf'[share[c]][f] = IF f = g THEN want[c][f] ELSE conf[share[c]][f]
        BY <1>2, <1>3, <2>0, <4>1 DEF TypeOK, Section
      <4> QED BY <1>2, <2>1, <3>1, <3>2, <4>1, <4>2 DEF OnCourse
    <3>3. CASE pc'[c] \notin {"write", "done"}
      BY <1>2, <1>5, <2>1, <3>1, <3>3 DEF TypeOK, OnCourse, Own
    <3> QED BY <3>2, <3>3
  <2>2. CASE d # c
    <3>1. ASSUME conf' # conf
          PROVE  /\ \A s \in Share \ {share[c]} : conf'[s] = conf[s]
                 /\ \A h \in Field \ Sent(c) : conf'[share[c]][h] = conf[share[c]][h]
      BY <1>2, <1>3, <1>4, <2>0, <3>1 DEF TypeOK, Section
    <3>2. pc'[d] = pc[d] /\ todo'[d] = todo[d]
      BY <1>5, <2>2 DEF TypeOK
    <3> QED BY <1>2, <2>2, <3>1, <3>2, OthersStayOnCourse
  <2> QED BY <2>1, <2>2
<1> QED BY <1>7, <1>8, <1>9, <1>10

\* A creation asks whether the share is served.
LEMMA ConfirmKeeps ==
  ASSUME ShareInv, NEW c \in Call, Confirm(c)
  PROVE  ShareInv'
<1>1. kind[c] = "create"
  BY DEF ProgressInv, Confirm
<1>2. TypeOK' /\ NoKeyShadowsText' /\ ProgressInv'
  <2>1. \E stage \in {"done", "failed"} : pc' = [pc EXCEPT ![c] = stage]
    BY DEF Confirm
  <2> QED BY <2>1 DEF TypeOK, NoKeyShadowsText, ProgressInv, Confirm, Stage, Served, Sent
<1>3. EditInv'
  <2> SUFFICES ASSUME NEW d \in Call, NEW f \in Field, Own(d, f)' PROVE OnCourse(d, f)'
    BY DEF EditInv
  <2>1. d # c
    BY <1>1 DEF Own, Confirm
  <2> QED BY <2>1, OthersStayOnCourse DEF TypeOK, Confirm
<1> QED BY <1>2, <1>3

\* A call that is not an update ends by deleting the key, or trying to.
LEMMA DropKeyKeeps ==
  ASSUME ShareInv, NEW c \in Call, pc[c] # "idle", kind[c] # "update",
         DropKey(share[c]) \/ UNCHANGED <<key, conf>>,
         pc' = [pc EXCEPT ![c] = "done"] \/ pc' = [pc EXCEPT ![c] = "failed"],
         UNCHANGED <<text, included, srvsvc, askedVars, seen, todo, alone, sure>>
  PROVE  ShareInv'
<1>1. share[c] \in Share
  BY DEF TypeOK
<1>2. /\ key' \in SUBSET key
      /\ conf' = conf \/ conf' = [conf EXCEPT ![share[c]] = Empty]
  BY DEF DropKey
<1>3. TypeOK'
  <2>1. conf' \in [Share -> Section]
    BY <1>2, SectionFacts DEF TypeOK
  <2> QED BY <1>2, <2>1 DEF TypeOK, Stage
<1>4. NoKeyShadowsText'
  BY <1>1 DEF TypeOK, NoKeyShadowsText, DropKey
<1>5. ProgressInv'
  BY DEF TypeOK, ProgressInv, Served, Sent
<1>6. EditInv'
  <2> SUFFICES ASSUME NEW d \in Call, NEW f \in Field, Own(d, f)' PROVE OnCourse(d, f)'
    BY DEF EditInv
  <2>1. d # c
    BY DEF Own
  <2> QED BY <1>2, <2>1, OthersStayOnCourse DEF TypeOK
<1> QED BY <1>3, <1>4, <1>5, <1>6

\* smbd re-reads the registry.
LEMMA ReloadKeeps ==
  ASSUME ShareInv, NEW s \in Share, Reload(s)
  PROVE  ShareInv'
<1>1. TypeOK'
  <2>1. conf[s]["path"] \in Value \cup {None}
    BY SectionFacts DEF TypeOK
  <2> QED BY <2>1 DEF TypeOK, Reload
<1>2. NoKeyShadowsText' /\ ProgressInv'
  BY DEF TypeOK, NoKeyShadowsText, ProgressInv, Reload, Served, Sent
<1>3. EditInv'
  BY DEF EditInv, Own, OnCourse, Informed, Undisputed, Reload
<1> QED BY <1>1, <1>2, <1>3

HIDE ShareAssumption DEF ShareInv, serverVars, askedVars

(***************************************************************************)
(* The inductive invariant.                                                *)
(***************************************************************************)
\* Before any call.
LEMMA InitInv == Init => ShareInv
<1> SUFFICES ASSUME Init PROVE ShareInv
  OBVIOUS
<1> USE ShareAssumption DEF Init
<1>1. TypeOK
  BY SectionFacts DEF TypeOK, Stage
<1>2. NoKeyShadowsText /\ ProgressInv
  BY SectionFacts DEF NoKeyShadowsText, ProgressInv, Served
<1>3. EditInv
  BY DEF EditInv, Own
<1> QED BY <1>1, <1>2, <1>3 DEF ShareInv

\* No step of a call or of the server breaks the invariant.
LEMMA StepInv == ShareInv /\ [Next]_vars => ShareInv'
<1> SUFFICES ASSUME ShareInv, [Next]_vars PROVE ShareInv'
  OBVIOUS
<1>1. ASSUME NEW c \in Call, Rollback(c) \/ Remove(c) PROVE ShareInv'
  BY <1>1, DropKeyKeeps DEF ShareInv, ProgressInv, Rollback, Remove
<1>2. ASSUME NEW c \in Call, CallStep(c) PROVE ShareInv'
  BY <1>1, <1>2, BeginKeeps, LookUpKeeps, ReadStoredKeeps, OpenKeyKeeps, ReadValuesKeeps,
     SkipValueKeeps, WriteValueKeeps, ConfirmKeeps DEF CallStep
<1>3. ASSUME UNCHANGED vars PROVE ShareInv'
  BY <1>3 DEF vars, serverVars, askedVars, ShareInv, TypeOK, NoKeyShadowsText, ProgressInv,
     EditInv, Own, OnCourse, Informed, Undisputed, Served, Sent
<1> QED BY <1>2, <1>3, ReloadKeeps DEF Next

\* The inductive invariant holds of every execution.
THEOREM ShareInvariant == Spec => []ShareInv
<1>1. Init => ShareInv
  BY InitInv
<1>2. ShareInv /\ [Next]_vars => ShareInv'
  BY StepInv
<1> QED BY <1>1, <1>2, PTL DEF Spec

(***************************************************************************)
(* What follows from it.                                                   *)
(***************************************************************************)
\* Every variable keeps its type.
THEOREM ShareTypeCorrect == Spec => []TypeOK
<1>1. ShareInv => TypeOK
  BY DEF ShareInv
<1> QED BY <1>1, ShareInvariant, PTL

\* Whatever fails, and however the calls of different sessions interleave, no call
\* makes a registry key for a share of the text smb.conf (srv/shares.py).
THEOREM TextSharesAreNotShadowed == Spec => []NoKeyShadowsText
<1>1. ShareInv => NoKeyShadowsText
  BY DEF ShareInv
<1> QED BY <1>1, ShareInvariant, PTL

\* An update that reported success has set its fields, and updates of other fields
\* of the same share do not undo that (write_options in srv/registry.py).
THEOREM ConcurrentEditsAreKept == Spec => []ConcurrentEditsMerge
<1>1. ShareInv => ConcurrentEditsMerge
  BY DEF ShareInv, EditInv, OnCourse, ConcurrentEditsMerge
<1> QED BY <1>1, ShareInvariant, PTL

(***************************************************************************)
(* A call that runs alone: what it reports is done.                        *)
(***************************************************************************)
USE ShareAssumption DEF ShareInv, serverVars, askedVars

\* What a call changes: its own progress, and nothing outside its section.
LEMMA StepFrame ==
  ASSUME ShareInv, NEW c \in Call, CallStep(c), ~Begin(c)
  PROVE  /\ Active(c) /\ share[c] \in Share
         /\ UNCHANGED <<askedVars, alone>>
         /\ \A s \in Share \ {share[c]} : conf'[s] = conf[s]
         /\ \A d \in Call \ {c} : /\ pc'[d] = pc[d] /\ seen'[d] = seen[d]
                                  /\ todo'[d] = todo[d] /\ sure'[d] = sure[d]
<1>1. Active(c) /\ share[c] \in Share
  BY DEF Active, Over, TypeOK, CallStep, LookUp, ReadStored, OpenKey, ReadValues, SkipValue,
     WriteValue, Confirm, Rollback, Remove
<1>2. UNCHANGED <<askedVars, alone>>
  BY DEF CallStep, LookUp, ReadStored, OpenKey, ReadValues, SkipValue,
     WriteValue, Confirm, Rollback, Remove
<1>3. \A s \in Share \ {share[c]} : conf'[s] = conf[s]
  <2>1. CASE WriteValue(c)
    <3>1. \/ conf' = conf
          \/ \E g : conf' = [conf EXCEPT ![share[c]][g] = want[c][g]]
      BY <2>1 DEF WriteValue
    <3> QED BY <3>1 DEF TypeOK
  <2>2. CASE Rollback(c) \/ Remove(c)
    BY <2>2 DEF TypeOK, DropKey, Rollback, Remove
  <2> QED BY <2>1, <2>2 DEF CallStep, LookUp, ReadStored, OpenKey, ReadValues, SkipValue, Confirm
<1>4. ASSUME NEW d \in Call \ {c}
      PROVE  /\ pc'[d] = pc[d] /\ seen'[d] = seen[d]
             /\ todo'[d] = todo[d] /\ sure'[d] = sure[d]
  <2>1. CASE LookUp(c)
    <3>1. pc'[d] = pc[d] /\ sure' = sure
      BY <2>1 DEF TypeOK, LookUp
    <3>2. seen'[d] = seen[d] /\ todo'[d] = todo[d]
      BY <2>1 DEF TypeOK, LookUp
    <3> QED BY <3>1, <3>2
  <2>2. CASE ReadStored(c)
    BY <2>2 DEF TypeOK, ReadStored
  <2>3. CASE SkipValue(c)
    BY <2>3 DEF TypeOK, SkipValue, Written
  <2>4. CASE WriteValue(c)
    BY <2>4 DEF TypeOK, WriteValue, Written, Raise
  <2>5. CASE OpenKey(c) \/ ReadValues(c)
    BY <2>5 DEF TypeOK, OpenKey, ReadValues, Raise
  <2>6. CASE Confirm(c) \/ Rollback(c) \/ Remove(c)
    BY <2>6 DEF TypeOK, Confirm, Rollback, Remove
  <2> QED BY <2>1, <2>2, <2>3, <2>4, <2>5, <2>6 DEF CallStep
<1> QED BY <1>1, <1>2, <1>3, <1>4

\* What a call leaves a section like, field by field.
LEMMA OutcomeFacts ==
  ASSUME TypeOK, NEW c \in Call, kind[c] # "delete"
  PROVE  /\ \A f \in Field : Outcome(c)[f] = IF f \in Sent(c) THEN want[c][f] ELSE before[c][f]
         /\ \A x \in Section : (\A f \in Field : x[f] = Outcome(c)[f]) => x = Outcome(c)
BY DEF Outcome, Sent, Section

\* A step of a call that runs alone brings its section on its way, and one that
\* ends in success leaves what was asked for.
LEMMA OwnStep ==
  ASSUME ShareInv, AloneInv, NEW c \in Call, CallStep(c), ~Begin(c), alone[c], Informed(c)'
  PROVE  /\ Active(c)' => OnItsWay(c)'
         /\ pc'[c] = "done" => conf'[share[c]] = Outcome(c)
<1> DEFINE now == conf[share[c]]
<1>0. /\ Active(c) /\ share[c] \in Share /\ UNCHANGED <<askedVars, alone>>
      /\ now \in Section /\ kind[c] \in Kind
  BY StepFrame DEF TypeOK, Active
<1>1. Outcome(c)' = Outcome(c)
  BY <1>0 DEF Outcome
<1>2. sure'[c] => sure[c]
  BY DEF TypeOK, ProgressInv, CallStep, LookUp, ReadStored, OpenKey, ReadValues, SkipValue,
     WriteValue, Confirm, Rollback, Remove
<1>3. Informed(c) /\ OnItsWay(c)
  BY <1>0, <1>2 DEF AloneInv, Informed
<1>4. CASE LookUp(c)
  <2>1. pc'[c] \in {"refused", "open", "stored", "remove", "failed"} /\ pc[c] = "look"
    BY <1>0, <1>4 DEF TypeOK, LookUp, Kind
  <2>2. pc'[c] = "open" => kind[c] = "create" /\ todo'[c] = Sent(c)
    BY <1>0, <1>4 DEF TypeOK, LookUp, Kind
  <2>3. now = before[c] /\ conf' = conf
    BY <1>3, <1>4, <2>1 DEF OnItsWay, LookUp
  <2> QED BY <1>0, <1>1, <2>1, <2>2, <2>3, OutcomeFacts DEF OnItsWay, Active, Over
<1>5. CASE ReadStored(c)
  <2>1. /\ pc[c] = "stored" /\ kind[c] = "update" /\ todo[c] = Sent(c) /\ conf' = conf
        /\ now = before[c] /\ before[c]["path"] # None
    BY <1>3, <1>5 DEF OnItsWay, ReadStored, ProgressInv, Informed
  <2>2. CASE pc'[c] \in {"open", "done"}
    <3>1. PICK reached \in SUBSET Field :
            LET stored == Walk(share[c], reached)
                path == IF stored["path"] # None THEN stored["path"] ELSE seen[c]["path"]
                rest == {f \in todo[c] : f = "path" => want[c][f] # path} IN
            /\ todo'[c] = rest
            /\ pc'[c] = "done" => rest = {}
            /\ sure'[c] = (Walk(share[c], Field) = stored)
      <4>1. PICK reached \in SUBSET Field :
              LET stored == Walk(share[c], reached)
                  path == IF stored["path"] # None THEN stored["path"] ELSE seen[c]["path"]
                  rest == {f \in todo[c] : f = "path" => want[c][f] # path} IN
              /\ todo' = [todo EXCEPT ![c] = rest]
              /\ pc' = [pc EXCEPT ![c] = IF stored = Empty THEN "refused"
                                         ELSE IF rest = {} THEN "done" ELSE "open"]
              /\ sure' = [sure EXCEPT ![c] = Walk(share[c], Field) = stored]
        BY <1>5, <2>2 DEF TypeOK, ReadStored
      <4> DEFINE stored == Walk(share[c], reached)
                 path == IF stored["path"] # None THEN stored["path"] ELSE seen[c]["path"]
                 rest == {f \in todo[c] : f = "path" => want[c][f] # path}
      <4>2. /\ todo' = [todo EXCEPT ![c] = rest]
            /\ pc' = [pc EXCEPT ![c] = IF stored = Empty THEN "refused"
                                       ELSE IF rest = {} THEN "done" ELSE "open"]
            /\ sure' = [sure EXCEPT ![c] = Walk(share[c], Field) = stored]
        BY <4>1
      <4> HIDE DEF rest
      <4>3. /\ todo'[c] = rest /\ sure'[c] = (Walk(share[c], Field) = stored)
            /\ pc'[c] = "done" => rest = {}
        BY <4>2 DEF TypeOK
      <4> QED BY <4>3 DEF rest
    <3>2. Walk(share[c], reached) = now
      BY <1>0, <3>1, WalkFacts DEF TypeOK, Informed
    <3>3. /\ todo'[c] = {f \in Sent(c) : f = "path" => want[c][f] # now["path"]}
          /\ pc'[c] = "done" => todo'[c] = {}
      BY <2>1, <3>1, <3>2
    <3>4. \A f \in Field \ todo'[c] : now[f] = Outcome(c)[f]
      BY <2>1, <3>3, OutcomeFacts
    <3>5. pc'[c] = "done" => now = Outcome(c)
      BY <1>0, <2>1, <3>3, <3>4, OutcomeFacts
    <3> QED BY <1>0, <1>1, <2>1, <2>2, <3>4, <3>5 DEF OnItsWay
  <2>3. pc'[c] \in {"open", "done", "refused", "failed"}
    BY <1>5 DEF TypeOK, ReadStored
  <2> QED BY <2>2, <2>3 DEF Active, Over
<1>6. CASE OpenKey(c)
  BY <1>0, <1>1, <1>3, <1>6 DEF OnItsWay, OpenKey, Raise, TypeOK
<1>7. CASE ReadValues(c)
  <2>1. PICK reached \in SUBSET Field :
          /\ seen' = [seen EXCEPT ![c] = Walk(share[c], reached)]
          /\ sure' = [sure EXCEPT ![c] = @ /\ Walk(share[c], Field) = Walk(share[c], reached)]
    BY <1>7 DEF ReadValues
  <2>2. Walk(share[c], reached) = now
    BY <1>0, <2>1, WalkFacts DEF TypeOK, Informed
  <2>3. seen'[c] = now /\ conf' = conf /\ todo' = todo /\ pc[c] = "read" /\ pc'[c] = "write"
    BY <1>7, <2>1, <2>2 DEF ReadValues, TypeOK
  <2> QED BY <1>0, <1>1, <1>3, <2>3 DEF OnItsWay, TypeOK
<1>8. CASE SkipValue(c) \/ WriteValue(c)
  <2>1. PICK g \in Upcoming(c) :
          \/ want[c][g] = seen[c][g] /\ Written(c, g) /\ conf' = conf
          \/ want[c][g] # seen[c][g] /\ Written(c, g)
               /\ conf' = [conf EXCEPT ![share[c]][g] = want[c][g]]
          \/ Raise(c)
    BY <1>8 DEF SkipValue, WriteValue
  <2>2. /\ pc[c] = "write" /\ kind[c] # "delete" /\ todo[c] \subseteq Sent(c)
        /\ seen' = seen /\ todo[c] \subseteq Field
    BY <1>8 DEF SkipValue, WriteValue, ProgressInv, TypeOK
  <2>3. g \in todo[c] /\ g \in Field
    BY <2>2 DEF Upcoming
  <2>4. CASE Raise(c)
    BY <1>0, <2>2, <2>4 DEF Raise, TypeOK, Kind, OnItsWay, Active, Over
  <2>5. CASE ~Raise(c)
    <3>1. Written(c, g)
      BY <2>1, <2>5
    <3>2. /\ todo'[c] = todo[c] \ {g}
          /\ \/ pc'[c] = "write"
             \/ todo'[c] = {} /\ pc'[c] \in {"confirm", "done"}
      BY <2>2, <3>1 DEF Written, TypeOK
    <3>3. want[c][g] = Outcome(c)[g]
      BY <2>2, <2>3, OutcomeFacts
    <3>4. conf'[share[c]] \in Section
          /\ \A f \in Field : conf'[share[c]][f] = IF f = g THEN want[c][g] ELSE now[f]
      <4>1. CASE want[c][g] = seen[c][g] /\ conf' = conf
        BY <1>0, <1>3, <2>2, <2>3, <4>1 DEF OnItsWay
      <4>2. CASE conf' = [conf EXCEPT ![share[c]][g] = want[c][g]]
        <5>1. conf'[share[c]] = [now EXCEPT ![g] = want[c][g]]
          BY <1>0, <4>2 DEF TypeOK
        <5>2. want[c][g] \in Value \cup {None}
          BY <2>2, <2>3 DEF TypeOK, Sent
        <5> QED BY <1>0, <2>3, <5>1, <5>2, SectionFacts DEF Section
      <4> QED BY <2>1, <2>5, <4>1, <4>2
    <3>5. \A f \in Field \ todo'[c] : conf'[share[c]][f] = Outcome(c)[f]
      BY <1>3, <2>2, <3>2, <3>3, <3>4 DEF OnItsWay
    <3>6. \A f \in todo'[c] : seen'[c][f] = conf'[share[c]][f]
      BY <1>3, <2>2, <3>2, <3>4 DEF OnItsWay
    <3>7. todo'[c] = {} => conf'[share[c]] = Outcome(c)
      BY <2>2, <3>4, <3>5, OutcomeFacts
    <3> QED BY <1>0, <1>1, <3>2, <3>5, <3>6, <3>7 DEF OnItsWay
  <2> QED BY <2>4, <2>5
<1>9. CASE Confirm(c)
  BY <1>3, <1>9 DEF Confirm, OnItsWay, Active, Over, TypeOK
<1>10. CASE Rollback(c)
  BY <1>10 DEF Rollback, Active, Over, TypeOK
<1>11. CASE Remove(c)
  <2>1. kind[c] = "delete" /\ pc'[c] \in {"done", "failed"}
    BY <1>11 DEF Remove, ProgressInv, TypeOK
  <2>2. pc'[c] = "done" => conf'[share[c]] = Empty
    BY <1>0, <1>11 DEF Remove, DropKey, TypeOK
  <2> QED BY <2>1, <2>2 DEF Outcome, Active, Over
<1> QED BY <1>4, <1>5, <1>6, <1>7, <1>8, <1>9, <1>10, <1>11 DEF CallStep

\* A step of one call leaves the section of every call that runs alone beside it.
LEMMA OthersStayAlone ==
  ASSUME ShareInv, AloneInv, NEW c \in Call, CallStep(c), ~Begin(c),
         NEW d \in Call, d # c, alone'[d], Active(d)', Informed(d)'
  PROVE  OnItsWay(d)'
<1>1. Active(d) /\ alone[d] /\ Informed(d) /\ Active(c)
  BY StepFrame DEF Active, Informed
<1>2. share[d] # share[c] /\ share[d] \in Share
  BY <1>1 DEF AloneInv, TypeOK, Active
<1>3. conf'[share[d]] = conf[share[d]]
  BY <1>2, StepFrame
<1> QED BY <1>1, <1>3, StepFrame DEF AloneInv, OnItsWay, Outcome

\* A call that begins beside another on its share takes from both that they are alone.
LEMMA BeginStaysAlone ==
  ASSUME ShareInv, AloneInv, NEW c \in Call, Begin(c)
  PROVE  AloneInv'
<1>1. PICK k \in Kind, s \in Share :
        LET beside == {d \in Call : Active(d) /\ share[d] = s} IN
        /\ kind' = [kind EXCEPT ![c] = k]
        /\ share' = [share EXCEPT ![c] = s]
        /\ want' \in {[want EXCEPT ![c] = w] : w \in Request(k)}
        /\ before' = [before EXCEPT ![c] = conf[s]]
        /\ alone' = [d \in Call |-> IF d = c THEN beside = {} ELSE alone[d] /\ d \notin beside]
  BY DEF Begin
<1>2. /\ pc[c] = "idle" /\ pc' = [pc EXCEPT ![c] = "look"]
      /\ UNCHANGED <<serverVars, seen, todo, sure>>
  BY DEF Begin
<1>3. /\ pc'[c] = "look" /\ share'[c] = s /\ before'[c] = conf[s]
      /\ alone'[c] => \A d \in Call : Active(d) => share[d] # s
  BY <1>1, <1>2 DEF TypeOK
<1>4. ASSUME NEW d \in Call, d # c
      PROVE  /\ pc'[d] = pc[d] /\ share'[d] = share[d] /\ kind'[d] = kind[d]
             /\ want'[d] = want[d] /\ before'[d] = before[d]
             /\ alone'[d] => alone[d] /\ (Active(d) => share[d] # s)
  BY <1>1, <1>2, <1>4 DEF TypeOK
<1> SUFFICES ASSUME NEW d \in Call, alone'[d], Active(d)'
             PROVE  /\ \A e \in Call \ {d} : Active(e)' => share'[e] # share'[d]
                    /\ Informed(d)' => OnItsWay(d)'
  BY DEF AloneInv
<1>5. CASE d = c
  BY <1>2, <1>3, <1>4, <1>5 DEF Active, OnItsWay
<1>6. CASE d # c
  <2>1. Active(d) /\ alone[d] /\ share[d] # s
    BY <1>4, <1>6 DEF Active
  <2>2. \A e \in Call \ {d} : Active(e)' => share'[e] # share'[d]
    BY <1>3, <1>4, <1>6, <2>1 DEF AloneInv, Active
  <2>3. Informed(d)' => Informed(d)
    BY <1>2, <1>4, <1>6 DEF Informed
  <2>4. Outcome(d)' = Outcome(d)
    BY <1>4, <1>6 DEF Outcome
  <2> QED BY <1>2, <1>4, <1>6, <2>1, <2>2, <2>3, <2>4 DEF AloneInv, OnItsWay
<1> QED BY <1>5, <1>6

\* No step breaks the invariant of the calls that run alone.
LEMMA StepAlone == ShareInv /\ AloneInv /\ [Next]_vars => AloneInv'
<1> SUFFICES ASSUME ShareInv, AloneInv, [Next]_vars PROVE AloneInv'
  OBVIOUS
<1>1. ASSUME NEW c \in Call, CallStep(c), ~Begin(c) PROVE AloneInv'
  <2> SUFFICES ASSUME NEW d \in Call, alone'[d], Active(d)'
               PROVE  /\ \A e \in Call \ {d} : Active(e)' => share'[e] # share'[d]
                      /\ Informed(d)' => OnItsWay(d)'
    BY DEF AloneInv
  <2>1. \A e \in Call : Active(e)' => Active(e)
    BY <1>1, StepFrame DEF Active
  <2>2. alone[d] /\ share' = share
    BY <1>1, StepFrame
  <2> QED BY <1>1, <2>1, <2>2, OwnStep, OthersStayAlone DEF AloneInv
<1>2. ASSUME NEW s \in Share, Reload(s) PROVE AloneInv'
  BY <1>2 DEF AloneInv, Active, Informed, OnItsWay, Outcome, Reload
<1>3. ASSUME UNCHANGED vars PROVE AloneInv'
  BY <1>3 DEF vars, AloneInv, Active, Informed, OnItsWay, Outcome
<1> QED BY <1>1, <1>2, <1>3, BeginStaysAlone DEF Next

\* A call of a share route that no other call on the share overlapped, and whose
\* reads were complete, reports success only when the section is what it asked for
\* and is otherwise as it was (create_share, update_share, delete_share).
THEOREM ReportedCallsAreDone == Spec => ReportedCallWasDone
<1>1. Init => AloneInv
  BY DEF Init, AloneInv
<1>2. ASSUME ShareInv, AloneInv, [Next]_vars, NEW c \in Call,
             pc[c] # "done", pc'[c] = "done", alone[c], Informed(c)'
      PROVE  conf'[share[c]] = Outcome(c)
  <2>1. CallStep(c) /\ ~Begin(c)
    <3>1. PICK d \in Call : CallStep(d)
      BY <1>2 DEF Next, Reload, vars
    <3>2. ~Begin(d)
      BY <1>2 DEF Begin, TypeOK
    <3>3. d = c
      BY <1>2, <3>1, <3>2, StepFrame
    <3> QED BY <3>1, <3>2, <3>3
  <2> QED BY <1>2, <2>1, OwnStep
<1>3. ShareInv /\ AloneInv /\ [Next]_vars =>
        [\A c \in Call :
           pc[c] # "done" /\ pc'[c] = "done" /\ alone[c] /\ Informed(c)'
             => conf'[share[c]] = Outcome(c)]_vars
  BY <1>2
<1> QED BY <1>1, <1>3, StepAlone, ShareInvariant, PTL DEF Spec, ReportedCallWasDone

HIDE ShareAssumption DEF ShareInv, serverVars, askedVars

===============================================================================
