--------------------------- MODULE PermissionsProofs ---------------------------
(***************************************************************************)
(* Proofs about Permissions: its type invariant, that no inherited entry   *)
(* is stored as the directory's own, that an unreadable descriptor stays,  *)
(* what a save stores, and that the effective rights reported are those    *)
(* the protocol grants.                                                    *)
(***************************************************************************)
EXTENDS Permissions, SequenceTheorems, WellFoundedInduction, TLAPS

-------------------------------------------------------------------------------
(* Selecting entries of a list.                                              *)

\* A set of naturals with a member has a least one: induction over a length
\* is the statement that the set of its counterexamples has no least member.
LEMMA Least == ASSUME NEW T \in SUBSET Nat, T # {}
               PROVE  \E n \in T : \A m \in T : ~(m < n)
<1> DEFINE R == {p \in Nat \X Nat : p[1] < p[2]}
<1>1. IsWellFoundedOn(R, Nat)
  <2>1. IsWellFoundedOn(OpToRel(<, Nat), Nat) BY NatLessThanWellFounded
  <2>2. OpToRel(<, Nat) = R BY DEF OpToRel
  <2> QED BY <2>1, <2>2
<1> HIDE DEF R
<1>2. \E n \in T : \A m \in T : ~(<<m, n>> \in R) BY <1>1, WFMin
<1> QED BY <1>2 DEF R

\* The recursion in At, up to a place m of q.
UpTo(q, I, m, f) ==
    f = [n \in 0..m |-> IF n = 0 THEN <<>>
                        ELSE IF n \in I THEN Append(f[n - 1], q[n]) ELSE f[n - 1]]

\* Some function satisfies the recursion.
LEMMA UpToExists == ASSUME NEW q, NEW I, NEW m \in Nat
                    PROVE  \E f : UpTo(q, I, m, f)
<1> DEFINE T == {k \in Nat : ~ \E f : UpTo(q, I, k, f)}
<1>1. SUFFICES ASSUME T # {} PROVE FALSE OBVIOUS
<1>2. PICK n \in T : \A k \in T : ~(k < n) BY <1>1, Least
<1>3. CASE n = 0
  <2> DEFINE f == [k \in 0..0 |-> <<>>]
  <2>1. UpTo(q, I, 0, f) BY DEF UpTo
  <2> QED BY <2>1, <1>2, <1>3
<1>4. CASE n # 0
  <2>1. n - 1 \in Nat /\ n - 1 \notin T BY <1>2, <1>4
  <2>2. PICK f : UpTo(q, I, n - 1, f) BY <2>1
  <2> DEFINE x == IF n \in I THEN Append(f[n - 1], q[n]) ELSE f[n - 1]
             g == [k \in 0..n |-> IF k = n THEN x ELSE f[k]]
  <2>3. \A k \in 0..n :
          g[k] = IF k = 0 THEN <<>> ELSE IF k \in I THEN Append(g[k - 1], q[k]) ELSE g[k - 1]
    <3> TAKE k \in 0..n
    <3>1. CASE k = n BY <3>1, <1>4, <2>1
    <3>2. CASE k # n
      <4>1. k \in 0..(n - 1) /\ g[k] = f[k] BY <3>2, <2>1
      <4>2. k # 0 => k - 1 \in 0..(n - 1) /\ g[k - 1] = f[k - 1] BY <4>1, <2>1, <1>4
      <4>3. f[k] = IF k = 0 THEN <<>> ELSE IF k \in I THEN Append(f[k - 1], q[k]) ELSE f[k - 1]
        BY <2>2, <4>1 DEF UpTo
      <4> QED BY <4>1, <4>2, <4>3
    <3> QED BY <3>1, <3>2
  <2>4. UpTo(q, I, n, g) BY <2>3 DEF UpTo
  <2> QED BY <2>4, <1>2
<1> QED BY <1>3, <1>4

\* s is the entries of q at the places e, which are in order and in I.
Embeds(s, q, I, n, e) ==
    /\ e \in [1..Len(s) -> 1..n]
    /\ \A k \in 1..Len(s) : e[k] \in I /\ s[k] = q[e[k]]
    /\ \A j, k \in 1..Len(s) : j < k => e[j] < e[k]

\* What At makes of a list is a list, and embeds into it in order.
LEMMA AtEmbeds == ASSUME NEW S, NEW q \in Seq(S), NEW I
                  PROVE  /\ At(q, I) \in Seq(S)
                         /\ \E e : Embeds(At(q, I), q, I, Len(q), e)
<1> DEFINE f == CHOOSE f : UpTo(q, I, Len(q), f)
<1>1. UpTo(q, I, Len(q), f) BY UpToExists
<1>2. At(q, I) = f[Len(q)] BY DEF At, UpTo
<1> HIDE DEF f
<1> DEFINE P(n) == f[n] \in Seq(S) /\ \E e : Embeds(f[n], q, I, n, e)
           T == {n \in 0..Len(q) : ~P(n)}
<1> HIDE DEF P
<1>3. T = {}
  <2>1. SUFFICES ASSUME T # {} PROVE FALSE OBVIOUS
  <2>2. T \in SUBSET Nat OBVIOUS
  <2>3. PICK n \in T : \A k \in T : ~(k < n) BY <2>1, <2>2, Least
  <2>4. n \in 0..Len(q) /\ ~P(n) OBVIOUS
  <2>5. CASE n = 0
    <3>1. f[n] = <<>> BY <1>1, <2>5 DEF UpTo
    <3>2. Embeds(<<>>, q, I, n, [k \in 1..0 |-> 0]) BY DEF Embeds
    <3>3. f[n] \in Seq(S) /\ \E e : Embeds(f[n], q, I, n, e) BY <3>1, <3>2
    <3> QED BY <3>3, <2>4 DEF P
  <2>6. CASE n # 0
    <3>1. n - 1 \in 0..Len(q) /\ n \in 1..Len(q) BY <2>4, <2>6
    <3>2. n - 1 < n /\ n - 1 \notin T BY <2>3, <3>1
    <3>3. P(n - 1) BY <3>1, <3>2
    <3>4. f[n - 1] \in Seq(S) BY <3>3 DEF P
    <3>5. PICK e : Embeds(f[n - 1], q, I, n - 1, e) BY <3>3 DEF P
    <3>6. f[n] = IF n \in I THEN Append(f[n - 1], q[n]) ELSE f[n - 1] BY <1>1, <2>6, <3>1 DEF UpTo
    <3>7. CASE n \in I
      <4>1. PICK s : s = f[n - 1] OBVIOUS
      <4> DEFINE d == [k \in 1..(Len(s) + 1) |-> IF k = Len(s) + 1 THEN n ELSE e[k]]
      <4>2. s \in Seq(S) /\ Len(s) \in Nat /\ q[n] \in S BY <4>1, <3>1, <3>4
      <4>3. /\ Append(s, q[n]) \in Seq(S) /\ Len(Append(s, q[n])) = Len(s) + 1
            /\ \A k \in 1..Len(s) : Append(s, q[n])[k] = s[k]
            /\ Append(s, q[n])[Len(s) + 1] = q[n]
        BY <4>2
      <4>4. f[n] = Append(s, q[n]) BY <3>6, <3>7, <4>1
      <4>5. Embeds(s, q, I, n - 1, e) BY <3>5, <4>1
      <4>6. d \in [1..(Len(s) + 1) -> 1..n] BY <4>2, <4>5, <3>1 DEF Embeds
      <4>7. \A k \in 1..(Len(s) + 1) : d[k] \in I /\ Append(s, q[n])[k] = q[d[k]]
        BY <4>2, <4>3, <4>5, <3>1, <3>7 DEF Embeds
      <4>8. ASSUME NEW j \in 1..(Len(s) + 1), NEW k \in 1..(Len(s) + 1), j < k
            PROVE  d[j] < d[k]
        <5>1. j \in 1..Len(s) /\ d[j] = e[j] /\ e[j] \in 1..(n - 1) BY <4>2, <4>5, <4>8 DEF Embeds
        <5>2. CASE k = Len(s) + 1 BY <5>1, <5>2, <3>1
        <5>3. CASE k # Len(s) + 1
          <6>1. k \in 1..Len(s) /\ d[k] = e[k] BY <5>3, <4>2
          <6> QED BY <6>1, <5>1, <4>5, <4>8 DEF Embeds
        <5> QED BY <5>2, <5>3
      <4>9. Embeds(f[n], q, I, n, d) BY <4>3, <4>4, <4>6, <4>7, <4>8 DEF Embeds
      <4> QED BY <4>3, <4>4, <4>9, <2>4 DEF P
    <3>8. CASE n \notin I
      <4>1. f[n] = f[n - 1] BY <3>6, <3>8
      <4>2. Embeds(f[n], q, I, n, e) BY <4>1, <3>5, <3>1 DEF Embeds
      <4> QED BY <4>1, <4>2, <3>4, <2>4 DEF P
    <3> QED BY <3>7, <3>8
  <2> QED BY <2>5, <2>6
<1>4. P(Len(q)) BY <1>3
<1> QED BY <1>4, <1>2 DEF P

-------------------------------------------------------------------------------
(* What the parser finds, and what is rendered from it.                      *)

\* What the parser makes of an entry keeps whom it is for and what it says.
Means(ace, entry) ==
    /\ ace.trustee = entry.trustee /\ ace.kind = entry.kind /\ ace.mask = entry.mask
    /\ ace.inherited = entry.inherited /\ ace.below = entry.below

\* A parsed descriptor is some of the entries of that descriptor, in their order.
LEMMA ParseEmbeds ==
    ASSUME NEW entries \in Seq(Entry)
    PROVE  /\ parse(entries) \in Seq(Ace)
           /\ \E d \in [DOMAIN parse(entries) -> DOMAIN entries] :
                /\ \A k \in DOMAIN parse(entries) : Means(parse(entries)[k], entries[d[k]])
                /\ \A j, k \in DOMAIN parse(entries) : j < k => d[j] < d[k]
<1>1. PICK known : known = At(entries, Found(entries)) OBVIOUS
<1>2. known \in Seq(Entry) /\ \E d : Embeds(known, entries, Found(entries), Len(entries), d)
  BY <1>1, AtEmbeds
<1>3. PICK d : Embeds(known, entries, Found(entries), Len(entries), d) BY <1>2
<1>4. parse(entries) =
        [i \in DOMAIN known |->
            [trustee |-> known[i].trustee, kind |-> known[i].kind, mask |-> known[i].mask,
             understood |-> ~known[i].odd, inherited |-> known[i].inherited, below |-> known[i].below]]
  BY <1>1 DEF parse
<1>5. DOMAIN known = 1..Len(known) /\ Len(known) \in Nat /\ \A i \in 1..Len(known) : known[i] \in Entry
  BY <1>2
<1>6. parse(entries) \in [1..Len(known) -> Ace] BY <1>4, <1>5 DEF Entry, Ace
<1>7. parse(entries) \in Seq(Ace) BY <1>5, <1>6
<1>8. DOMAIN parse(entries) = 1..Len(known) /\ DOMAIN entries = 1..Len(entries) BY <1>6
<1>9. d \in [DOMAIN parse(entries) -> DOMAIN entries] BY <1>3, <1>8 DEF Embeds
<1>10. \A k \in DOMAIN parse(entries) : Means(parse(entries)[k], entries[d[k]])
  BY <1>3, <1>4, <1>5, <1>8 DEF Embeds, Means
<1>11. \A j, k \in DOMAIN parse(entries) : j < k => d[j] < d[k] BY <1>3, <1>8 DEF Embeds
<1> QED BY <1>7, <1>9, <1>10, <1>11

\* The directory's own rows are rows of the table that are not inherited.
LEMMA OwnRows ==
    ASSUME NEW aces \in Seq(Ace)
    PROVE  /\ Own(aces) \in Seq(Ace)
           /\ \A k \in DOMAIN Own(aces) :
                ~Own(aces)[k].inherited /\ \E i \in DOMAIN aces : Own(aces)[k] = aces[i]
<1> DEFINE I == {i \in DOMAIN aces : ~aces[i].inherited}
<1>1. At(aces, I) \in Seq(Ace) /\ \E d : Embeds(At(aces, I), aces, I, Len(aces), d) BY AtEmbeds
<1>2. PICK d : Embeds(At(aces, I), aces, I, Len(aces), d) BY <1>1
<1>3. \A k \in DOMAIN At(aces, I) : d[k] \in I /\ At(aces, I)[k] = aces[d[k]] BY <1>1, <1>2 DEF Embeds
<1>4. Own(aces) = At(aces, I) BY DEF Own
<1> QED BY <1>1, <1>3, <1>4

\* What is rendered is one entry for each of the directory's own rows.
LEMMA BuiltRows ==
    ASSUME NEW aces \in Seq(Ace)
    PROVE  /\ buildSddl(aces) \in Seq(Entry)
           /\ DOMAIN buildSddl(aces) = DOMAIN Own(aces)
           /\ \A k \in DOMAIN Own(aces) : buildSddl(aces)[k] = Rendered(Own(aces)[k])
           /\ \A k \in DOMAIN buildSddl(aces) :
                \E i \in DOMAIN aces : ~aces[i].inherited /\ buildSddl(aces)[k].trustee = aces[i].trustee
<1>1. PICK own : own = Own(aces) OBVIOUS
<1>2. own \in Seq(Ace) BY <1>1, OwnRows
<1>3. DOMAIN own = 1..Len(own) /\ Len(own) \in Nat /\ \A k \in 1..Len(own) : own[k] \in Ace BY <1>2
<1>4. buildSddl(aces) = [i \in DOMAIN own |-> Rendered(own[i])] BY <1>1 DEF buildSddl
<1>5. \A a \in Ace : Rendered(a) \in Entry /\ Rendered(a).trustee = a.trustee BY DEF Rendered, Ace, Entry
<1>6. buildSddl(aces) \in [1..Len(own) -> Entry] BY <1>3, <1>4, <1>5
<1>7. \A k \in DOMAIN own : buildSddl(aces)[k] = Rendered(own[k]) BY <1>4
<1>8. \A k \in DOMAIN own : buildSddl(aces)[k].trustee = own[k].trustee BY <1>3, <1>5, <1>7
<1>9. buildSddl(aces) \in Seq(Entry) /\ DOMAIN buildSddl(aces) = DOMAIN own BY <1>3, <1>6
<1>10. \A k \in DOMAIN own : ~own[k].inherited /\ \E i \in DOMAIN aces : own[k] = aces[i] BY <1>1, OwnRows
<1> QED BY <1>1, <1>7, <1>8, <1>9, <1>10

-------------------------------------------------------------------------------
(* Effective rights.                                                         *)

LEMMA ExpandGeneric ==
    ASSUME NEW m
    PROVE  /\ m \in Mask => expand_generic(m) \subseteq Right
           /\ m \subseteq Right => expand_generic(m) = m
BY PermissionsAssumption DEF expand_generic, Mask, Generic

\* For one descriptor: what _mask_for names is granted, and with the denying
\* entries first it is all that is granted.
LEMMA MaskIsGranted ==
    ASSUME NEW aces \in Seq(Ace), NEW t, AllHere(aces)
    PROVE  /\ _mask_for(aces, t) \subseteq Right
           /\ _mask_for(aces, t) \subseteq Granted(aces, t)
           /\ Canonical(aces) => Granted(aces, t) \subseteq _mask_for(aces, t)
<1>1. \A i \in DOMAIN aces : aces[i] \in Ace /\ aces[i].mask \in Mask /\ ~aces[i].below
  <2>1. \A i \in DOMAIN aces : aces[i] \in Ace OBVIOUS
  <2>2. \A a \in Ace : a.mask \in Mask BY DEF Ace
  <2> QED BY <2>1, <2>2 DEF AllHere
<1>2. DOMAIN aces = 1..Len(aces) /\ Len(aces) \in Nat OBVIOUS
<1>3. \A r, kind : r \in Named(aces, t, kind) <=>
                      \E i \in DOMAIN aces : Applies(aces[i], t, kind, r)
  BY <1>1 DEF Named, Applies
<1>4. \A r, kind : r \in Named(aces, t, kind) => r \in Right
  BY <1>1, <1>3, ExpandGeneric DEF Applies
<1>5. ASSUME NEW r \in _mask_for(aces, t) PROVE r \in Right /\ r \in Granted(aces, t)
  <2>1. r \in Right /\ r \in Named(aces, t, "allow") /\ r \notin Named(aces, t, "deny")
    BY <1>4, <1>5 DEF _mask_for
  <2>2. PICK i \in DOMAIN aces : Applies(aces[i], t, "allow", r) BY <2>1, <1>3
  <2>3. \A j \in 1..(i - 1) : j \in DOMAIN aces BY <1>2, <2>2
  <2>4. \A j \in 1..(i - 1) : ~Applies(aces[j], t, "deny", r) BY <2>1, <2>3, <1>3
  <2> QED BY <2>1, <2>2, <2>4 DEF Granted
<1>6. ASSUME Canonical(aces), NEW r \in Granted(aces, t) PROVE r \in _mask_for(aces, t)
  <2>1. PICK i \in DOMAIN aces :
            /\ Applies(aces[i], t, "allow", r)
            /\ \A j \in 1..(i - 1) : ~Applies(aces[j], t, "deny", r)
    BY <1>6 DEF Granted
  <2>2. ASSUME NEW j \in DOMAIN aces, Applies(aces[j], t, "deny", r) PROVE FALSE
    <3>1. ~(j < i) BY <2>1, <2>2, <1>2
    <3>2. j # i BY <2>1, <2>2 DEF Applies
    <3>3. i < j BY <3>1, <3>2, <1>2
    <3> QED BY <3>3, <2>1, <2>2, <1>6 DEF Canonical, Applies
  <2>3. r \in Named(aces, t, "allow") /\ r \notin Named(aces, t, "deny") BY <2>1, <2>2, <1>3
  <2> QED BY <2>3 DEF _mask_for
<1> QED BY <1>5, <1>6

\* The order of a descriptor and that its entries are for the object itself
\* are also true of what the parser finds in it.
LEMMA ParseKeepsOrder ==
    ASSUME NEW entries \in Seq(Entry)
    PROVE  /\ AllHere(entries) => AllHere(parse(entries))
           /\ Canonical(entries) => Canonical(parse(entries))
<1>1. PICK d \in [DOMAIN parse(entries) -> DOMAIN entries] :
        /\ \A k \in DOMAIN parse(entries) : Means(parse(entries)[k], entries[d[k]])
        /\ \A j, k \in DOMAIN parse(entries) : j < k => d[j] < d[k]
  BY ParseEmbeds
<1>2. AllHere(entries) => AllHere(parse(entries)) BY <1>1 DEF AllHere, Means
<1>3. Canonical(entries) => Canonical(parse(entries)) BY <1>1 DEF Canonical, Means
<1> QED BY <1>2, <1>3

-------------------------------------------------------------------------------
(* The type invariant.                                                       *)

LEMMA EntryOf ==
    /\ \A h \in Held \cup Handed : h \in Entry
    /\ DEFAULT_SDDL \in Seq(Entry)
    /\ \A p \in PRESETS : p \in Mask
    /\ ReadRights \in Mask
    /\ \A h \in Handed : [h EXCEPT !.inherited = TRUE] \in Entry
<1>1. DEFAULT_SDDL \in Seq(Entry)
  <2>1. Right \in Mask /\ Everyone \in Trustee BY PermissionsAssumption DEF Mask
  <2> QED BY <2>1 DEF DEFAULT_SDDL, Entry
<1>2. \A h \in Held \cup Handed : h \in Entry BY PermissionsAssumption
<1>3. \A h \in Handed : [h EXCEPT !.inherited = TRUE] \in Entry
  <2>1. \A x \in Entry : [x EXCEPT !.inherited = TRUE] \in Entry BY DEF Entry
  <2> QED BY <1>2, <2>1
<1>4. (\A p \in PRESETS : p \in Mask) /\ ReadRights \in Mask
  BY PermissionsAssumption DEF PRESETS, Mask
<1> QED BY <1>1, <1>2, <1>3, <1>4

LEMMA DescriptorType ==
    ASSUME TypeOK
    PROVE  Directory \in Seq(Entry) /\ \A l : Descriptor(l) \in Seq(Entry)
<1>1. dir.aces \in Seq(Entry) /\ parent \in Seq(Entry) /\ shareAces \in Seq(Entry) BY DEF TypeOK
<1>2. Directory \in Seq(Entry) BY <1>1 DEF Directory
<1> QED BY <1>1, <1>2, EntryOf DEF Descriptor

LEMMA HandedDownType == \A p \in HandedDown : p \in Seq(Entry)
<1>1. \A x \in Entry : <<x>> \in Seq(Entry) OBVIOUS
<1>2. <<>> \in Seq(Entry) OBVIOUS
<1>3. \A h \in Handed : <<[h EXCEPT !.inherited = TRUE]>> \in Seq(Entry) BY <1>1, EntryOf
<1> QED BY <1>2, <1>3 DEF HandedDown

LEMMA InitType == Init => TypeOK
<1> SUFFICES ASSUME Init PROVE TypeOK OBVIOUS
<1>1. dir \in [owner : Trustee, protected : BOOLEAN, aces : Seq(Entry)]
  <2>1. \A q \in {<<>>} \cup {p \in Held \X Held : p[1] # p[2]} : q \in Seq(Entry)
    <3>1. <<>> \in Seq(Entry) OBVIOUS
    <3>2. ASSUME NEW p \in Held \X Held PROVE p \in Seq(Entry)
      <4>1. PICK a \in Held, b \in Held : p = <<a, b>> BY <3>2
      <4>2. a \in Entry /\ b \in Entry BY EntryOf
      <4> QED BY <4>1, <4>2
    <3> QED BY <3>1, <3>2
  <2>2. dir \in [owner : Trustee \ Relative, protected : BOOLEAN,
                 aces : {<<>>} \cup {p \in Held \X Held : p[1] # p[2]}] BY DEF Init
  <2> QED BY <2>1, <2>2
<1>2. parent \in Seq(Entry) BY HandedDownType DEF Init
<1>3. shareSd \in {"absent", "unreadable", "there"} BY DEF Init
<1>4. shareAces \in Seq(Entry)
  <2>1. \A h \in Held \cup Handed : <<h>> \in Seq(Entry) BY EntryOf
  <2>2. <<>> \in Seq(Entry) OBVIOUS
  <2> QED BY <2>1, <2>2 DEF Init
<1>5. may \in [Editor -> Standing]
  <2>1. PICK m \in [{Account[e] : e \in Editor} -> Standing] : may = [e \in Editor |-> m[Account[e]]]
    BY DEF Init
  <2> QED BY <2>1
<1>6. MaxEdits \in Nat BY PermissionsAssumption
<1>7. rows \in [Editor -> Seq(Ace)]
  <2>1. <<>> \in Seq(Ace) OBVIOUS
  <2> QED BY <2>1 DEF Init
<1>8. edits \in [Editor -> 0..MaxEdits] /\ owner \in [Editor -> Trustee \cup {None}]
  <2>1. 0 \in 0..MaxEdits BY <1>6
  <2> QED BY <2>1 DEF Init
<1> QED BY <1>1, <1>2, <1>3, <1>4, <1>5, <1>7, <1>8 DEF Init, TypeOK

\* A closed editor's table is empty, and of the right type.
LEMMA ShutType ==
    ASSUME TypeOK, NEW e \in Editor, Shut(e)
    PROVE  /\ pc' \in [Editor -> {"closed", "editing", "writing", "done"}]
           /\ level' \in [Editor -> {"share", "file"}]
           /\ owner' \in [Editor -> Trustee \cup {None}]
           /\ rows' \in [Editor -> Seq(Ace)]
           /\ protect' \in [Editor -> BOOLEAN] /\ edits' \in [Editor -> 0..MaxEdits]
           /\ offered' \in [Editor -> BOOLEAN]
           /\ answer' \in [Editor -> {"none", "no_dacl", "sddl_domain_unknown"}]
<1>1. MaxEdits \in Nat BY PermissionsAssumption
<1>2. <<>> \in Seq(Ace) OBVIOUS
<1> QED BY <1>1, <1>2 DEF Shut, TypeOK

LEMMA TextType ==
    ASSUME TypeOK, NEW e \in Editor
    PROVE  /\ to_descriptor(Text(e)) \in {"ok", "sddl_domain_unknown"}
           /\ Text(e).aces = buildSddl(rows[e]) /\ Text(e).aces \in Seq(Entry)
           /\ Text(e).owner = owner[e]
<1>1. rows[e] \in Seq(Ace) BY DEF TypeOK
<1>2. buildSddl(rows[e]) \in Seq(Entry) BY <1>1, BuiltRows
<1> QED BY <1>2 DEF Text, to_descriptor

\* The editor is opened on a file with an owner, which None is not.
OwnerType == \A e \in Editor : pc[e] \in {"editing", "writing"} => owner[e] \in Trustee

LEMMA ApplyType ==
    ASSUME TypeOK, NEW e \in Editor, owner[e] \in Trustee, Apply(e, Text(e))
    PROVE  /\ dir' \in [owner : Trustee, protected : BOOLEAN, aces : Seq(Entry)]
           /\ shareSd' \in {"absent", "unreadable", "there"}
           /\ shareAces' \in Seq(Entry)
           /\ stale' \in [Editor -> BOOLEAN]
<1>1. Text(e).aces \in Seq(Entry) /\ Text(e).owner \in Trustee BY TextType
<1>2. protect[e] \in BOOLEAN BY DEF TypeOK
<1>3. stale' \in [Editor -> BOOLEAN] BY DEF Apply, Outdate, TypeOK
<1> QED BY <1>1, <1>2, <1>3 DEF Apply, TypeOK

LEMMA StepType == TypeOK /\ OwnerType /\ [Next]_vars => TypeOK' /\ OwnerType'
<1> SUFFICES ASSUME TypeOK, OwnerType, [Next]_vars PROVE TypeOK' /\ OwnerType' OBVIOUS
<1> USE DEF serverVars, tableVars
<1>0. MaxEdits \in Nat BY PermissionsAssumption
<1>1. CASE ParentChange
  <2>1. parent' \in Seq(Entry) BY <1>1, HandedDownType DEF ParentChange
  <2> QED BY <1>1, <2>1 DEF ParentChange, TypeOK, OwnerType
<1>2. ASSUME NEW e \in Editor, NEW l \in {"share", "file"}, Load(e, l) PROVE TypeOK' /\ OwnerType'
  <2>1. parse(Descriptor(l)) \in Seq(Ace) BY DescriptorType, ParseEmbeds
  <2>2. offered' \in [Editor -> BOOLEAN]
    <3>1. PICK o \in (IF l = "file" THEN Offers(e) ELSE {FALSE}) : offered' = [offered EXCEPT ![e] = o]
      BY <1>2 DEF Load
    <3>2. \A x \in Offers(e) : x \in BOOLEAN
      <4>1. \A x \in Offers(e) : \E c, t : x = (c = "no" /\ t # "no") BY DEF Offers
      <4> QED BY <4>1
    <3>3. o \in BOOLEAN BY <3>1, <3>2
    <3> QED BY <3>1, <3>3 DEF TypeOK
  <2>3. dir.owner \in Trustee /\ dir.protected \in BOOLEAN BY DEF TypeOK
  <2> QED BY <1>2, <2>1, <2>2, <2>3 DEF Load, TypeOK, OwnerType
<1>3. ASSUME NEW e \in Editor, Edits(e), rows' \in [Editor -> Seq(Ace)], protect' \in [Editor -> BOOLEAN]
      PROVE  TypeOK' /\ OwnerType'
  BY <1>0, <1>3 DEF Edits, TypeOK, OwnerType
<1>4. ASSUME NEW e \in Editor, SetPreset(e) PROVE TypeOK' /\ OwnerType'
  <2>1. PICK i \in DOMAIN rows[e], preset \in PRESETS : rows' = [rows EXCEPT ![e][i].mask = preset]
    BY <1>4 DEF SetPreset
  <2>2. rows[e] \in Seq(Ace) /\ rows[e][i] \in Ace /\ rows \in [Editor -> Seq(Ace)] BY DEF TypeOK
  <2>3. preset \in Mask BY EntryOf
  <2>4. [rows[e][i] EXCEPT !.mask = preset] \in Ace BY <2>2, <2>3 DEF Ace
  <2>5. [rows[e] EXCEPT ![i] = [rows[e][i] EXCEPT !.mask = preset]] \in Seq(Ace)
    BY <2>2, <2>4, ExceptSeq
  <2>6. rows' \in [Editor -> Seq(Ace)] BY <2>1, <2>2, <2>5
  <2> QED BY <1>3, <1>4, <2>6 DEF SetPreset, TypeOK
<1>5. ASSUME NEW e \in Editor, RemoveRow(e) PROVE TypeOK' /\ OwnerType'
  <2>1. PICK i \in DOMAIN rows[e] :
          rows' = [rows EXCEPT ![e] = SubSeq(@, 1, i - 1) \o SubSeq(@, i + 1, Len(@))]
    BY <1>5 DEF RemoveRow
  <2>2. rows[e] \in Seq(Ace) /\ i \in 1..Len(rows[e]) BY DEF TypeOK
  <2>3. SubSeq(rows[e], 1, i - 1) \in Seq(Ace) /\ SubSeq(rows[e], i + 1, Len(rows[e])) \in Seq(Ace)
    BY <2>2
  <2>4. rows' \in [Editor -> Seq(Ace)] BY <2>1, <2>3 DEF TypeOK
  <2> QED BY <1>3, <1>5, <2>4 DEF RemoveRow, TypeOK
<1>6. ASSUME NEW e \in Editor, AddRow(e) PROVE TypeOK' /\ OwnerType'
  <2>1. PICK s \in Trustee :
          rows' = [rows EXCEPT ![e] = Append(@, [trustee |-> s, kind |-> "allow", mask |-> ReadRights,
                                                 understood |-> TRUE, inherited |-> FALSE, below |-> FALSE])]
    BY <1>6 DEF AddRow
  <2>2. [trustee |-> s, kind |-> "allow", mask |-> ReadRights,
         understood |-> TRUE, inherited |-> FALSE, below |-> FALSE] \in Ace BY EntryOf DEF Ace
  <2>3. rows' \in [Editor -> Seq(Ace)] BY <2>1, <2>2 DEF TypeOK
  <2> QED BY <1>3, <1>6, <2>3 DEF AddRow, TypeOK
<1>7. ASSUME NEW e \in Editor, ToggleProtected(e) PROVE TypeOK' /\ OwnerType'
  <2>1. rows' \in [Editor -> Seq(Ace)] /\ protect' \in [Editor -> BOOLEAN]
    BY <1>7 DEF ToggleProtected, TypeOK
  <2> QED BY <1>3, <1>7, <2>1 DEF ToggleProtected
<1>8. ASSUME NEW e \in Editor, BeginSave(e) PROVE TypeOK' /\ OwnerType'
  BY <1>8 DEF BeginSave, Answered, TypeOK, OwnerType
<1>9. ASSUME NEW e \in Editor, Save(e) PROVE TypeOK' /\ OwnerType'
  <2>1. owner[e] \in Trustee BY <1>9 DEF Save, OwnerType
  <2>2. PICK parsed \in {"ok", "sddl_domain_unknown"} : parsed = to_descriptor(Text(e)) BY TextType
  <2>3. CASE Apply(e, Text(e)) /\ Shut(e)
    <3>1. UNCHANGED <<parent, domain, may>> BY <1>9 DEF Save
    <3>2. OwnerType' BY <2>3 DEF Shut, OwnerType, TypeOK
    <3> QED BY <2>1, <2>3, <3>1, <3>2, ApplyType, ShutType DEF TypeOK
  <2>4. CASE /\ Apply(e, Text(e)) \/ UNCHANGED <<dir, shareSd, shareAces, stale>>
             /\ Answered(e, IF parsed = "ok" THEN "none" ELSE parsed)
             /\ pc' = [pc EXCEPT ![e] = "editing"]
             /\ UNCHANGED <<tableVars, offered>>
    <3>1. /\ dir' \in [owner : Trustee, protected : BOOLEAN, aces : Seq(Entry)]
          /\ shareSd' \in {"absent", "unreadable", "there"}
          /\ shareAces' \in Seq(Entry) /\ stale' \in [Editor -> BOOLEAN]
      BY <2>1, <2>4, ApplyType DEF TypeOK
    <3>2. OwnerType' BY <2>1, <2>4 DEF OwnerType, TypeOK
    <3> QED BY <1>9, <2>4, <3>1, <3>2 DEF Save, Answered, TypeOK
  <2> QED BY <1>9, <2>2, <2>3, <2>4 DEF Save
<1>10. ASSUME NEW e \in Editor, TakeOwnership(e) PROVE TypeOK' /\ OwnerType'
  <2>1. /\ UNCHANGED <<dir, stale, parent, shareSd, shareAces, domain, may, tableVars, pc, offered>>
        /\ Answered(e, "no_dacl")
    BY <1>10 DEF TakeOwnership, to_descriptor
  <2> QED BY <2>1 DEF Answered, TypeOK, OwnerType
<1>11. CASE UNCHANGED vars BY <1>11 DEF vars, TypeOK, OwnerType
<1> QED BY <1>1, <1>2, <1>4, <1>5, <1>6, <1>7, <1>8, <1>9, <1>10, <1>11 DEF Next, Step

\* Every reachable state has its type.
THEOREM TypeCorrect == Spec => []TypeOK
<1>1. Init => TypeOK /\ OwnerType BY InitType DEF Init, OwnerType
<1>2. (TypeOK /\ OwnerType) /\ [Next]_vars => (TypeOK /\ OwnerType)' BY StepType
<1> QED BY <1>1, <1>2, PTL DEF Spec

-------------------------------------------------------------------------------
(* Inherited entries are not frozen.                                         *)

\* Trustees nobody but the parent directory names.
Parental == {h.trustee : h \in Handed} \cap (Relative \ {h.trustee : h \in Held})

\* What the parent hands down says so, and an editor of the directory holds an
\* entry for such a trustee only as an inherited one, which is not rendered.
FrozenInv ==
    /\ \A i \in DOMAIN dir.aces : dir.aces[i].trustee \notin Parental
    /\ \A i \in DOMAIN parent : parent[i].inherited
    /\ \A e \in Editor : level[e] = "file" =>
          \A i \in DOMAIN rows[e] : rows[e][i].inherited \/ rows[e][i].trustee \notin Parental

LEMMA HandedDownInherited == \A p \in HandedDown : \A i \in DOMAIN p : p[i].inherited
<1>1. ASSUME NEW h \in Handed PROVE \A i \in DOMAIN <<[h EXCEPT !.inherited = TRUE]>> :
                                      <<[h EXCEPT !.inherited = TRUE]>>[i].inherited
  <2>1. h \in Entry BY EntryOf
  <2>2. \A x \in Entry : [x EXCEPT !.inherited = TRUE].inherited = TRUE BY DEF Entry
  <2>3. PICK x : x = [h EXCEPT !.inherited = TRUE] OBVIOUS
  <2>4. x.inherited BY <2>1, <2>2, <2>3
  <2>5. DOMAIN <<x>> = 1..1 /\ <<x>>[1] = x OBVIOUS
  <2>6. \A i \in DOMAIN <<x>> : <<x>>[i].inherited BY <2>4, <2>5
  <2> QED BY <2>3, <2>6, Zenon
<1>2. \A i \in DOMAIN <<>> : <<>>[i].inherited OBVIOUS
<1> QED BY <1>1, <1>2 DEF HandedDown

LEMMA InitFrozen == Init => FrozenInv
<1> SUFFICES ASSUME Init PROVE FrozenInv OBVIOUS
<1>1. \A i \in DOMAIN dir.aces : dir.aces[i] \in Held
  <2>1. dir.aces \in {<<>>} \cup {p \in Held \X Held : p[1] # p[2]} BY DEF Init
  <2>2. CASE dir.aces = <<>> BY <2>2
  <2>3. CASE dir.aces \in Held \X Held
    <3>1. PICK a \in Held, b \in Held : dir.aces = <<a, b>> BY <2>3
    <3> QED BY <3>1
  <2> QED BY <2>1, <2>2, <2>3
<1>2. \A i \in DOMAIN dir.aces : dir.aces[i].trustee \notin Parental BY <1>1 DEF Parental
<1>3. \A i \in DOMAIN parent : parent[i].inherited BY HandedDownInherited DEF Init
<1>4. \A e \in Editor : DOMAIN rows[e] = {}
  <2>1. DOMAIN <<>> = {} OBVIOUS
  <2> QED BY <2>1 DEF Init
<1> QED BY <1>2, <1>3, <1>4 DEF FrozenInv

\* The table an editor is filled with for the directory.
LEMMA LoadedRows ==
    ASSUME TypeOK, FrozenInv
    PROVE  \A i \in DOMAIN parse(Directory) :
              parse(Directory)[i].inherited \/ parse(Directory)[i].trustee \notin Parental
<1>1. Directory \in Seq(Entry) BY DescriptorType
<1>2. PICK d \in [DOMAIN parse(Directory) -> DOMAIN Directory] :
        \A k \in DOMAIN parse(Directory) : Means(parse(Directory)[k], Directory[d[k]])
  BY <1>1, ParseEmbeds
<1>3. \A i \in DOMAIN Directory : Directory[i].inherited \/ Directory[i].trustee \notin Parental
  <2>1. PICK p \in Seq(Entry) : p = (IF dir.protected THEN <<>> ELSE parent)
    <3>1. <<>> \in Seq(Entry) /\ parent \in Seq(Entry) BY DEF TypeOK
    <3> QED BY <3>1
  <2>2. \A i \in DOMAIN p : p[i].inherited BY <2>1 DEF FrozenInv
  <2>3. PICK q \in Seq(Entry) : q = dir.aces BY DEF TypeOK
  <2>4. Directory = q \o p BY <2>1, <2>3 DEF Directory
  <2>5. ASSUME NEW i \in DOMAIN Directory
        PROVE  Directory[i].inherited \/ Directory[i].trustee \notin Parental
    <3>1. i \in 1..(Len(q) + Len(p)) BY <2>4, <2>5
    <3>2. CASE i \in 1..Len(q)
      <4>1. Directory[i] = q[i] BY <2>4, <3>2
      <4> QED BY <4>1, <3>2, <2>3 DEF FrozenInv
    <3>3. CASE i \notin 1..Len(q)
      <4>1. Directory[i] = p[i - Len(q)] /\ i - Len(q) \in DOMAIN p BY <2>4, <3>1, <3>3
      <4> QED BY <4>1, <2>2
    <3> QED BY <3>2, <3>3
  <2> QED BY <2>5
<1> QED BY <1>2, <1>3 DEF Means

\* What is rendered from a table names no trustee only the parent names.
LEMMA BuiltIsNotFrozen ==
    ASSUME TypeOK, FrozenInv, NEW e \in Editor, level[e] = "file"
    PROVE  \A i \in DOMAIN Text(e).aces : Text(e).aces[i].trustee \notin Parental
<1>1. rows[e] \in Seq(Ace) BY DEF TypeOK
<1>2. Text(e).aces = buildSddl(rows[e]) BY TextType
<1>3. \A k \in DOMAIN buildSddl(rows[e]) :
        \E i \in DOMAIN rows[e] : ~rows[e][i].inherited
                                  /\ buildSddl(rows[e])[k].trustee = rows[e][i].trustee
  BY <1>1, BuiltRows
<1> QED BY <1>2, <1>3 DEF FrozenInv

LEMMA StepFrozen == TypeOK /\ FrozenInv /\ [Next]_vars => FrozenInv'
<1> SUFFICES ASSUME TypeOK, FrozenInv, [Next]_vars PROVE FrozenInv' OBVIOUS
<1> USE DEF serverVars, tableVars
<1>a. rows \in [Editor -> Seq(Ace)] /\ level \in [Editor -> {"share", "file"}] BY DEF TypeOK
<1>1. CASE ParentChange
  <2>1. \A i \in DOMAIN parent' : parent'[i].inherited BY <1>1, HandedDownInherited DEF ParentChange
  <2> QED BY <1>1, <2>1 DEF ParentChange, FrozenInv
<1>2. ASSUME NEW e \in Editor, NEW l \in {"share", "file"}, Load(e, l) PROVE FrozenInv'
  <2>1. l = "file" => Descriptor(l) = Directory BY DEF Descriptor
  <2>2. rows' = [rows EXCEPT ![e] = parse(Descriptor(l))] /\ level' = [level EXCEPT ![e] = l]
        /\ UNCHANGED <<dir, parent>>
    BY <1>2 DEF Load
  <2>3. PICK q : q = parse(Descriptor(l)) OBVIOUS
  <2>4. l = "file" => \A i \in DOMAIN q : q[i].inherited \/ q[i].trustee \notin Parental
    BY <2>1, <2>3, LoadedRows
  <2>5. rows' = [rows EXCEPT ![e] = q] BY <2>2, <2>3
  <2> HIDE <1>2
  <2> QED BY <1>a, <2>2, <2>4, <2>5 DEF FrozenInv
\* An edit of one table leaves the others, and the descriptors.
<1>3. ASSUME NEW e \in Editor, NEW q, rows' = [rows EXCEPT ![e] = q], UNCHANGED <<dir, parent, level>>,
             level[e] = "file" => \A i \in DOMAIN q : q[i].inherited \/ q[i].trustee \notin Parental
      PROVE  FrozenInv'
  BY <1>a, <1>3 DEF FrozenInv
<1>4. ASSUME NEW e \in Editor, SetPreset(e) PROVE FrozenInv'
  <2>1. PICK i \in DOMAIN rows[e], preset \in PRESETS : rows' = [rows EXCEPT ![e][i].mask = preset]
    BY <1>4 DEF SetPreset
  <2>2. rows[e] \in Seq(Ace) BY <1>a
  <2>3. PICK q : q = [rows[e] EXCEPT ![i] = [rows[e][i] EXCEPT !.mask = preset]] OBVIOUS
  <2>4. rows' = [rows EXCEPT ![e] = q] BY <2>1, <2>3, <1>a
  <2>5. \A x \in Ace : [x EXCEPT !.mask = preset].inherited = x.inherited
                       /\ [x EXCEPT !.mask = preset].trustee = x.trustee
    BY DEF Ace
  <2>6. DOMAIN q = DOMAIN rows[e] BY <2>3
  <2>7. \A j \in DOMAIN q : q[j].inherited = rows[e][j].inherited /\ q[j].trustee = rows[e][j].trustee
    BY <2>2, <2>3, <2>5
  <2>8. UNCHANGED <<dir, parent, level>> BY <1>4 DEF SetPreset, Edits
  <2>9. level[e] = "file" => \A j \in DOMAIN q : q[j].inherited \/ q[j].trustee \notin Parental
    BY <2>6, <2>7 DEF FrozenInv
  <2> QED BY <1>3, <2>4, <2>8, <2>9
<1>5. ASSUME NEW e \in Editor, RemoveRow(e) PROVE FrozenInv'
  <2>1. PICK i \in DOMAIN rows[e] :
          rows' = [rows EXCEPT ![e] = SubSeq(@, 1, i - 1) \o SubSeq(@, i + 1, Len(@))]
    BY <1>5 DEF RemoveRow
  <2>2. PICK r \in Seq(Ace) : r = rows[e] BY <1>a
  <2>3. i \in 1..Len(r) BY <2>2
  <2>4. PICK a, b : a = SubSeq(r, 1, i - 1) /\ b = SubSeq(r, i + 1, Len(r)) OBVIOUS
  <2>5. /\ a \in Seq(Ace) /\ b \in Seq(Ace) /\ Len(a) = i - 1 /\ Len(b) = Len(r) - i
        /\ \A k \in 1..Len(a) : a[k] = r[k]
        /\ \A k \in 1..Len(b) : b[k] = r[k + i]
    <3>1. Len(r) \in Nat BY <2>2
    <3>2. 1 \in 1..(Len(r) + 1) /\ i - 1 \in 0..Len(r) /\ i + 1 \in 1..(Len(r) + 1)
      BY <3>1, <2>3
    <3>3. a \in Seq(Ace) /\ Len(a) = i - 1 /\ \A k \in 1..Len(a) : a[k] = r[k]
      BY <2>2, <2>3, <2>4, <3>1, <3>2
    <3>4. b \in Seq(Ace) /\ Len(b) = Len(r) - i /\ \A k \in 1..Len(b) : b[k] = r[k + i]
      BY <2>2, <2>3, <2>4, <3>1, <3>2
    <3> QED BY <3>3, <3>4
  <2>6. PICK q : q = a \o b OBVIOUS
  <2>7. \A k \in DOMAIN q : \E j \in DOMAIN r : q[k] = r[j]
    <3> TAKE k \in DOMAIN q
    <3>1. k \in 1..(Len(a) + Len(b)) BY <2>5, <2>6
    <3>2. CASE k \in 1..Len(a)
      <4>1. q[k] = r[k] /\ k \in DOMAIN r BY <3>2, <2>3, <2>5, <2>6
      <4> QED BY <4>1
    <3>3. CASE k \notin 1..Len(a)
      <4>1. q[k] = b[k - Len(a)] /\ k - Len(a) \in 1..Len(b) BY <3>1, <3>3, <2>5, <2>6
      <4>2. q[k] = r[k - Len(a) + i] /\ k - Len(a) + i \in DOMAIN r BY <4>1, <2>3, <2>5
      <4> QED BY <4>2
    <3> QED BY <3>2, <3>3
  <2>8. UNCHANGED <<dir, parent, level>> BY <1>5 DEF RemoveRow, Edits
  <2>9. level[e] = "file" => \A j \in DOMAIN q : q[j].inherited \/ q[j].trustee \notin Parental
    BY <2>2, <2>7 DEF FrozenInv
  <2>10. rows' = [rows EXCEPT ![e] = q] BY <2>1, <2>2, <2>4, <2>6, <1>a
  <2> QED BY <1>3, <2>8, <2>9, <2>10
<1>6. ASSUME NEW e \in Editor, AddRow(e) PROVE FrozenInv'
  <2>1. PICK s \in Trustee \ Relative :
          rows' = [rows EXCEPT ![e] = Append(@, [trustee |-> s, kind |-> "allow", mask |-> ReadRights,
                                                 understood |-> TRUE, inherited |-> FALSE, below |-> FALSE])]
    BY <1>6 DEF AddRow
  <2>2. PICK r \in Seq(Ace) : r = rows[e] BY <1>a
  <2>3. PICK x : x = [trustee |-> s, kind |-> "allow", mask |-> ReadRights,
                      understood |-> TRUE, inherited |-> FALSE, below |-> FALSE] OBVIOUS
  <2>4. x \in Ace /\ x.trustee \notin Parental BY <2>3, EntryOf DEF Ace, Parental
  <2>5. PICK q : q = Append(r, x) OBVIOUS
  <2>6. \A k \in DOMAIN q : q[k] = x \/ (k \in DOMAIN r /\ q[k] = r[k]) BY <2>2, <2>4, <2>5
  <2>7. UNCHANGED <<dir, parent, level>> BY <1>6 DEF AddRow, Edits
  <2>8. level[e] = "file" => \A j \in DOMAIN q : q[j].inherited \/ q[j].trustee \notin Parental
    BY <2>2, <2>4, <2>6 DEF FrozenInv
  <2>9. rows' = [rows EXCEPT ![e] = q] BY <2>1, <2>2, <2>3, <2>5, <1>a
  <2> QED BY <1>3, <2>7, <2>8, <2>9
<1>7. ASSUME NEW e \in Editor, Save(e) PROVE FrozenInv'
  <2>1. UNCHANGED parent BY <1>7 DEF Save
  <2>2. UNCHANGED dir \/ Apply(e, Text(e)) BY <1>7 DEF Save
  <2>3. \A i \in DOMAIN dir'.aces : dir'.aces[i].trustee \notin Parental
    <3>1. CASE UNCHANGED dir BY <3>1 DEF FrozenInv
    <3>2. CASE Apply(e, Text(e)) /\ level[e] = "file"
      <4>1. dir'.aces = Text(e).aces BY <3>2 DEF Apply
      <4> QED BY <4>1, <3>2, BuiltIsNotFrozen
    <3>3. CASE Apply(e, Text(e)) /\ level[e] = "share" BY <3>3 DEF Apply, FrozenInv
    <3> QED BY <2>2, <3>1, <3>2, <3>3, <1>a
  <2>4. CASE Shut(e)
    <3>1. rows' = [rows EXCEPT ![e] = <<>>] /\ level' = [level EXCEPT ![e] = "file"] BY <2>4 DEF Shut
    <3> QED BY <2>1, <2>3, <3>1, <1>a DEF FrozenInv
  <2>5. CASE UNCHANGED <<rows, level>> BY <2>1, <2>3, <2>5 DEF FrozenInv
  <2> QED BY <1>7, <2>4, <2>5 DEF Save
<1>8. ASSUME NEW e \in Editor, TakeOwnership(e) PROVE FrozenInv'
  <2>1. UNCHANGED <<dir, parent, rows, level>> BY <1>8 DEF TakeOwnership, to_descriptor
  <2> QED BY <2>1 DEF FrozenInv
<1>9. ASSUME UNCHANGED <<dir, parent, rows, level>> PROVE FrozenInv' BY <1>9 DEF FrozenInv
<1>10. ASSUME NEW e \in Editor, ToggleProtected(e) \/ BeginSave(e) PROVE FrozenInv'
  BY <1>9, <1>10 DEF ToggleProtected, Edits, BeginSave
<1>11. CASE UNCHANGED vars BY <1>9, <1>11 DEF vars
<1> QED BY <1>1, <1>2, <1>4, <1>5, <1>6, <1>7, <1>8, <1>10, <1>11 DEF Next, Step

\* No entry that came from the parent is stored as the directory's own
\* (buildSddl renders the rows that are not inherited).
THEOREM NothingInheritedStored == Spec => []InheritanceIsNotFrozen
<1>1. Init => FrozenInv BY InitFrozen
<1>2. TypeOK /\ FrozenInv /\ [Next]_vars => FrozenInv' BY StepFrozen
<1>3. FrozenInv => InheritanceIsNotFrozen BY DEF FrozenInv, InheritanceIsNotFrozen, Parental
<1> QED BY <1>1, <1>2, <1>3, TypeCorrect, PTL DEF Spec

-------------------------------------------------------------------------------
(* Effective rights, and the offer to take an ownership.                     *)

\* Effective rights are what both descriptors grant by the protocol's own
\* evaluation (effective, effective_access, _mask_for).
THEOREM EffectiveRights == Spec => []EffectiveIsGranted
<1>1. TypeOK => EffectiveIsGranted
  <2> SUFFICES ASSUME TypeOK, AllHere(Descriptor("share")), AllHere(Directory), NEW t \in Trustee
               PROVE  /\ Reported(t) \subseteq ReallyGranted(t)
                      /\ Canonical(Descriptor("share")) /\ Canonical(Directory)
                            => Reported(t) = ReallyGranted(t)
    BY DEF EffectiveIsGranted
  <2>1. PICK s : s = parse(Descriptor("share")) OBVIOUS
  <2>2. PICK f : f = parse(Directory) OBVIOUS
  <2>3. s \in Seq(Ace) /\ f \in Seq(Ace) BY <2>1, <2>2, DescriptorType, ParseEmbeds
  <2>4. AllHere(s) /\ AllHere(f) BY <2>1, <2>2, DescriptorType, ParseKeepsOrder
  <2>5. /\ Canonical(Descriptor("share")) => Canonical(s)
        /\ Canonical(Directory) => Canonical(f)
    BY <2>1, <2>2, DescriptorType, ParseKeepsOrder
  <2>6. Reported(t) = _mask_for(s, t) \cap _mask_for(f, t)
    <3>1. _mask_for(s, t) \subseteq Right /\ _mask_for(f, t) \subseteq Right
      BY <2>3, <2>4, MaskIsGranted
    <3> QED BY <2>1, <2>2, <3>1, ExpandGeneric DEF Reported, effective_access
  <2>7. ReallyGranted(t) = Granted(s, t) \cap Granted(f, t) BY <2>1, <2>2 DEF ReallyGranted
  <2> QED BY <2>3, <2>4, <2>5, <2>6, <2>7, MaskIsGranted
<1> QED BY <1>1, TypeCorrect, PTL

\* Ownership is offered only where the server refused the permissions
\* (own_access, probe_access).
THEOREM OfferFollowsRefusal == Spec => []OfferedOnRefusal
<1> USE DEF serverVars, tableVars
<1>1. Init => OfferedOnRefusal BY DEF Init, OfferedOnRefusal
<1>2. TypeOK /\ OfferedOnRefusal /\ [Next]_vars => OfferedOnRefusal'
  <2> SUFFICES ASSUME TypeOK, OfferedOnRefusal, [Next]_vars PROVE OfferedOnRefusal' OBVIOUS
  <2>1. offered \in [Editor -> BOOLEAN] BY DEF TypeOK
  <2>2. ASSUME NEW e \in Editor, NEW l \in {"share", "file"}, Load(e, l) PROVE OfferedOnRefusal'
    <3>1. PICK o \in (IF l = "file" THEN Offers(e) ELSE {FALSE}) : offered' = [offered EXCEPT ![e] = o]
      BY <2>2 DEF Load
    <3>2. o => "change" \notin may[e]
      <4>1. \A x \in Offers(e) : \E c \in probe_access(e, "change") : \E t : x = (c = "no" /\ t # "no")
        BY DEF Offers
      <4>2. "no" \in probe_access(e, "change") => "change" \notin may[e] BY DEF probe_access
      <4> QED BY <3>1, <4>1, <4>2
    <3>3. UNCHANGED may BY <2>2 DEF Load
    <3> QED BY <2>1, <3>1, <3>2, <3>3 DEF OfferedOnRefusal
  <2>3. ASSUME NEW e \in Editor, Shut(e), UNCHANGED may PROVE OfferedOnRefusal'
    BY <2>1, <2>3 DEF Shut, OfferedOnRefusal
  <2>4. ASSUME UNCHANGED <<offered, may>> PROVE OfferedOnRefusal' BY <2>4 DEF OfferedOnRefusal
  <2>5. ASSUME NEW e \in Editor, Save(e) PROVE OfferedOnRefusal' BY <2>3, <2>4, <2>5 DEF Save
  <2>6. ASSUME NEW e \in Editor,
               SetPreset(e) \/ RemoveRow(e) \/ AddRow(e) \/ ToggleProtected(e) \/ BeginSave(e)
               \/ TakeOwnership(e)
        PROVE  OfferedOnRefusal'
    BY <2>4, <2>6 DEF SetPreset, RemoveRow, AddRow, ToggleProtected, Edits, BeginSave, TakeOwnership
  <2>7. CASE ParentChange \/ UNCHANGED vars BY <2>4, <2>7 DEF ParentChange, vars
  <2> QED BY <2>2, <2>5, <2>6, <2>7 DEF Next, Step
<1> QED BY <1>1, <1>2, TypeCorrect, PTL DEF Spec

-------------------------------------------------------------------------------
(* What a save replaces and what it stores.                                  *)

\* An editor of a share's descriptor has one it could read.
ReadableInv ==
    \A e \in Editor : pc[e] \in {"editing", "writing"} /\ level[e] = "share" => shareSd # "unreadable"

\* An editor of the directory nobody has overtaken holds the directory's owner.
OwnerInv ==
    \A e \in Editor :
        pc[e] \in {"editing", "writing"} /\ level[e] = "file" /\ ~stale[e] => owner[e] = dir.owner

\* The two ways a save ends for the rest of the state.
LEMMA SaveCases ==
    ASSUME NEW e \in Editor, Save(e)
    PROVE  /\ pc[e] = "writing"
           /\ \/ Apply(e, Text(e)) /\ Shut(e)
              \/ /\ Apply(e, Text(e)) \/ UNCHANGED <<dir, shareSd, shareAces, stale>>
                 /\ pc' = [pc EXCEPT ![e] = "editing"] /\ UNCHANGED tableVars
BY DEF Save

LEMMA StepReadable == TypeOK /\ ReadableInv /\ [Next]_vars => ReadableInv'
<1> SUFFICES ASSUME TypeOK, ReadableInv, [Next]_vars PROVE ReadableInv' OBVIOUS
<1> USE DEF serverVars, tableVars
<1>1. pc \in [Editor -> {"closed", "editing", "writing", "done"}] /\ level \in [Editor -> {"share", "file"}]
  BY DEF TypeOK
<1>2. ASSUME UNCHANGED <<pc, level, shareSd>> PROVE ReadableInv' BY <1>2 DEF ReadableInv
<1>3. ASSUME NEW e \in Editor, NEW l \in {"share", "file"}, Load(e, l) PROVE ReadableInv'
  BY <1>1, <1>3 DEF Load, ShareRead, ReadableInv
<1>4. ASSUME NEW e \in Editor, BeginSave(e) PROVE ReadableInv'
  <2>1. UNCHANGED <<level, shareSd>> /\ pc[e] = "editing" BY <1>4 DEF BeginSave
  <2>2. CASE pc' = [pc EXCEPT ![e] = "writing"] BY <1>1, <2>1, <2>2 DEF ReadableInv
  <2>3. CASE UNCHANGED pc BY <1>2, <2>1, <2>3
  <2> QED BY <1>4, <2>2, <2>3 DEF BeginSave
<1>5. ASSUME NEW e \in Editor, Save(e) PROVE ReadableInv'
  <2>1. pc[e] = "writing" BY <1>5, SaveCases
  <2>2. shareSd' # "unreadable" \/ UNCHANGED shareSd
    BY <1>5, SaveCases DEF Apply
  <2>3. CASE Shut(e) BY <1>1, <2>2, <2>3 DEF Shut, ReadableInv
  <2>4. CASE pc' = [pc EXCEPT ![e] = "editing"] /\ UNCHANGED tableVars
    BY <1>1, <2>1, <2>2, <2>4 DEF ReadableInv
  <2> QED BY <1>5, <2>3, <2>4, SaveCases
<1>6. ASSUME NEW e \in Editor,
             SetPreset(e) \/ RemoveRow(e) \/ AddRow(e) \/ ToggleProtected(e) \/ TakeOwnership(e)
      PROVE  ReadableInv'
  BY <1>2, <1>6 DEF SetPreset, RemoveRow, AddRow, ToggleProtected, Edits, TakeOwnership
<1>7. CASE ParentChange \/ UNCHANGED vars BY <1>2, <1>7 DEF ParentChange, vars
<1> QED BY <1>3, <1>4, <1>5, <1>6, <1>7 DEF Next, Step

\* A share descriptor that cannot be rendered stays (shareacl.read refuses the
\* editor and the save).
THEOREM UnreadableStays == Spec => UnreadableIsNotReplaced
<1> USE DEF serverVars, tableVars
<1>1. Init => ReadableInv BY DEF Init, ReadableInv
<1>2. ReadableInv /\ TypeOK /\ [Next]_vars => ReadableInv' BY StepReadable
<1>3. ReadableInv /\ TypeOK /\ [Next]_vars => [shareSd = "unreadable" => shareSd' = "unreadable"]_vars
  <2> SUFFICES ASSUME ReadableInv, TypeOK, Next, shareSd = "unreadable" PROVE shareSd' = "unreadable"
    OBVIOUS
  <2>1. ASSUME NEW e \in Editor, Save(e) PROVE UNCHANGED shareSd
    <3>1. pc[e] = "writing" /\ level[e] \in {"share", "file"} BY <2>1, SaveCases DEF TypeOK
    <3>2. level[e] # "share" BY <3>1 DEF ReadableInv
    <3> QED BY <2>1, <3>2, SaveCases DEF Apply
  <2>2. ASSUME NEW e \in Editor, NEW l, Load(e, l) PROVE UNCHANGED shareSd BY <2>2 DEF Load
  <2>3. ASSUME NEW e \in Editor,
               SetPreset(e) \/ RemoveRow(e) \/ AddRow(e) \/ ToggleProtected(e) \/ BeginSave(e)
               \/ TakeOwnership(e)
        PROVE  UNCHANGED shareSd
    BY <2>3 DEF SetPreset, RemoveRow, AddRow, ToggleProtected, Edits, BeginSave, TakeOwnership
  <2>4. CASE ParentChange BY <2>4 DEF ParentChange
  <2> QED BY <2>1, <2>2, <2>3, <2>4 DEF Next, Step
<1> QED BY <1>1, <1>2, <1>3, TypeCorrect, PTL DEF Spec, UnreadableIsNotReplaced

LEMMA StepOwner == TypeOK /\ OwnerInv /\ [Next]_vars => OwnerInv'
<1> SUFFICES ASSUME TypeOK, OwnerInv, [Next]_vars PROVE OwnerInv' OBVIOUS
<1> USE DEF serverVars, tableVars
<1>1. /\ pc \in [Editor -> {"closed", "editing", "writing", "done"}]
      /\ level \in [Editor -> {"share", "file"}] /\ stale \in [Editor -> BOOLEAN]
      /\ owner \in [Editor -> Trustee \cup {None}]
  BY DEF TypeOK
<1>2. ASSUME UNCHANGED <<pc, level, stale, owner, dir>> PROVE OwnerInv' BY <1>2 DEF OwnerInv
<1>3. ASSUME NEW e \in Editor, NEW l \in {"share", "file"}, Load(e, l) PROVE OwnerInv'
  <2>1. /\ pc' = [pc EXCEPT ![e] = "editing"] /\ level' = [level EXCEPT ![e] = l]
        /\ owner' = [owner EXCEPT ![e] = dir.owner] /\ stale' = [stale EXCEPT ![e] = FALSE]
        /\ UNCHANGED dir
    BY <1>3 DEF Load
  <2> QED BY <1>1, <2>1 DEF OwnerInv
<1>4. ASSUME NEW e \in Editor, BeginSave(e) PROVE OwnerInv'
  <2>1. UNCHANGED <<level, stale, owner, dir>> /\ pc[e] = "editing" BY <1>4 DEF BeginSave
  <2>2. CASE pc' = [pc EXCEPT ![e] = "writing"] BY <1>1, <2>1, <2>2 DEF OwnerInv
  <2>3. CASE UNCHANGED pc BY <1>2, <2>1, <2>3
  <2> QED BY <1>4, <2>2, <2>3 DEF BeginSave
<1>5. ASSUME NEW e \in Editor, Save(e) PROVE OwnerInv'
  <2>1. pc[e] = "writing" BY <1>5, SaveCases
  <2>2. /\ \A d \in Editor : d # e => pc'[d] = pc[d] /\ level'[d] = level[d] /\ owner'[d] = owner[d]
        /\ pc'[e] = "done" \/ (pc'[e] = "editing" /\ level'[e] = level[e] /\ owner'[e] = owner[e])
    <3>1. CASE Shut(e) BY <1>1, <3>1 DEF Shut
    <3>2. CASE pc' = [pc EXCEPT ![e] = "editing"] /\ UNCHANGED tableVars BY <1>1, <3>2
    <3> QED BY <1>5, <3>1, <3>2, SaveCases
  <2>3. CASE UNCHANGED <<dir, stale>> BY <2>1, <2>2, <2>3 DEF OwnerInv
  <2>4. CASE Apply(e, Text(e)) /\ level[e] = "share"
    <3>1. UNCHANGED dir BY <2>4 DEF Apply
    <3>2. \A d \in Editor : d # e /\ ~stale'[d] => ~stale[d] BY <2>4 DEF Apply, Outdate
    <3> QED BY <2>1, <2>2, <2>4, <3>1, <3>2 DEF OwnerInv
  <2>5. CASE Apply(e, Text(e)) /\ level[e] = "file"
    <3>1. dir'.owner = owner[e] BY <2>5, TextType DEF Apply
    <3>2. \A d \in Editor : d # e /\ ~stale'[d] =>
              ~(level[d] = "file" /\ pc[d] \in {"editing", "writing"})
      BY <2>5 DEF Apply, Outdate
    <3> QED BY <2>2, <3>1, <3>2 DEF OwnerInv
  <2> QED BY <1>1, <1>5, <2>3, <2>4, <2>5, SaveCases
<1>6. ASSUME NEW e \in Editor, TakeOwnership(e) PROVE OwnerInv'
  <2>1. UNCHANGED <<dir, stale, tableVars, pc>> BY <1>6 DEF TakeOwnership, to_descriptor
  <2> QED BY <1>2, <2>1
<1>7. ASSUME NEW e \in Editor, SetPreset(e) \/ RemoveRow(e) \/ AddRow(e) \/ ToggleProtected(e)
      PROVE  OwnerInv'
  BY <1>2, <1>7 DEF SetPreset, RemoveRow, AddRow, ToggleProtected, Edits
<1>8. CASE ParentChange
  BY <1>2, <1>8 DEF ParentChange
<1>9. CASE UNCHANGED vars BY <1>2, <1>9 DEF vars
<1> QED BY <1>3, <1>4, <1>5, <1>6, <1>7, <1>8, <1>9 DEF Next, Step

\* A save of an editor nobody has overtaken stores what its table shows, under
\* the owner the directory had (buildSddl, write_path_sddl, shareacl.write).
THEOREM SavesAreAsShown == Spec => SavedAsShown
<1> USE DEF serverVars, tableVars
<1> DEFINE Stored(e) ==
        pc[e] = "writing" /\ pc'[e] = "done" /\ ~stale[e] =>
            IF level[e] = "share" THEN parse(shareAces') = parse(buildSddl(rows[e])) /\ dir' = dir
            ELSE /\ dir'.owner = dir.owner /\ shareAces' = shareAces
                 /\ [i \in DOMAIN dir'.aces |-> dir'.aces[i].mask]
                       = [i \in DOMAIN Own(rows[e]) |-> Own(rows[e])[i].mask]
<1>1. Init => OwnerInv BY DEF Init, OwnerInv
<1>2. OwnerInv /\ TypeOK /\ [Next]_vars => OwnerInv' BY StepOwner
<1>3. OwnerInv /\ TypeOK /\ [Next]_vars => [\A e \in Editor : Stored(e)]_vars
  <2> SUFFICES ASSUME OwnerInv, TypeOK, Next, NEW e \in Editor,
                      pc[e] = "writing", pc'[e] = "done", ~stale[e]
               PROVE  IF level[e] = "share"
                      THEN parse(shareAces') = parse(buildSddl(rows[e])) /\ dir' = dir
                      ELSE /\ dir'.owner = dir.owner /\ shareAces' = shareAces
                           /\ [i \in DOMAIN dir'.aces |-> dir'.aces[i].mask]
                                 = [i \in DOMAIN Own(rows[e]) |-> Own(rows[e])[i].mask]
    OBVIOUS
  <2>0. pc \in [Editor -> {"closed", "editing", "writing", "done"}] /\ rows[e] \in Seq(Ace)
        /\ level[e] \in {"share", "file"}
    BY DEF TypeOK
  <2>1. ASSUME NEW d \in Editor, NEW l, Load(d, l) PROVE FALSE BY <2>0, <2>1 DEF Load
  <2>2. ASSUME NEW d \in Editor,
               SetPreset(d) \/ RemoveRow(d) \/ AddRow(d) \/ ToggleProtected(d) \/ TakeOwnership(d)
        PROVE  FALSE
    BY <2>2 DEF SetPreset, RemoveRow, AddRow, ToggleProtected, Edits, TakeOwnership
  <2>3. ASSUME NEW d \in Editor, BeginSave(d) PROVE FALSE BY <2>0, <2>3 DEF BeginSave
  <2>4. ~ParentChange BY DEF ParentChange
  <2>5. PICK d \in Editor : Save(d) BY <2>1, <2>2, <2>3, <2>4 DEF Next, Step
  <2>6. d = e /\ Apply(e, Text(e))
    <3>1. pc' # [pc EXCEPT ![d] = "editing"] BY <2>0
    <3>2. Apply(d, Text(d)) /\ Shut(d) BY <2>5, <3>1, SaveCases
    <3> QED BY <2>0, <3>2 DEF Shut
  <2>7. Text(e).aces = buildSddl(rows[e]) /\ Text(e).owner = owner[e] BY TextType
  <2>8. CASE level[e] = "share" BY <2>6, <2>7, <2>8 DEF Apply
  <2>9. CASE level[e] = "file"
    <3>1. dir'.owner = owner[e] /\ dir'.aces = buildSddl(rows[e]) /\ shareAces' = shareAces
      BY <2>6, <2>7, <2>9 DEF Apply
    <3>2. owner[e] = dir.owner BY <2>9 DEF OwnerInv
    <3>3. PICK own : own = Own(rows[e]) OBVIOUS
    <3>4. PICK b : b = buildSddl(rows[e]) OBVIOUS
    <3>5. DOMAIN b = DOMAIN own /\ \A k \in DOMAIN own : b[k] = Rendered(own[k])
      BY <2>0, <3>3, <3>4, BuiltRows
    <3>6. \A k \in DOMAIN own : b[k].mask = own[k].mask BY <3>5 DEF Rendered
    <3>7. [i \in DOMAIN b |-> b[i].mask] = [i \in DOMAIN own |-> own[i].mask] BY <3>5, <3>6
    <3> QED BY <2>9, <3>1, <3>2, <3>3, <3>4, <3>7
  <2> QED BY <2>0, <2>8, <2>9
<1> HIDE DEF Stored
<1>4. SavedAsShown <=> [][\A e \in Editor : Stored(e)]_vars BY DEF SavedAsShown, Stored
<1> QED BY <1>1, <1>2, <1>3, <1>4, TypeCorrect, PTL DEF Spec

===============================================================================
