------------------------------ MODULE Permissions ------------------------------
(***************************************************************************)
(* Reading, editing and writing security descriptors (srv/acl.py,          *)
(* srv/shareacl.py, api/v1/permissions.py and the editor of the web        *)
(* interface, PermissionEditor.tsx).  One share and one directory inside   *)
(* it; administrators in different sessions, each with an editor.          *)
(*                                                                         *)
(* A mask is a set of rights.  A rights field of SDDL is the rights its    *)
(* known letters stand for and whether it holds letters the parser does    *)
(* not know.  An entry with a condition has brackets inside its brackets,  *)
(* which the expression that finds entries does not match.                 *)
(***************************************************************************)
EXTENDS Naturals, Sequences

CONSTANTS
    Editor,         \* openings of the editor, each made once
    Trustee,        \* accounts as entries name them
    Relative,       \* those of them written relative to a domain: DA
    Right,          \* what a mask can hold, generic bits apart
    ReadRights,     \* FILE_GENERIC_READ
    WriteRights,    \* FILE_GENERIC_WRITE
    Account,        \* the account the server takes an editor's session for
    Everyone,       \* the trustee of DEFAULT_SDDL
    Held,           \* entries the directory may have of its own at the start
    Handed,         \* entries the parent directory may hand down
    Standing,       \* what the server may let an account do to the directory
    MaxEdits,       \* bound: changes made in one opening of the editor
    None

Generic == {"GENERIC_ALL", "GENERIC_READ", "GENERIC_WRITE"}
Mask == SUBSET (Right \cup Generic)

\* An entry as the server holds it.
Entry == [trustee : Trustee, kind : {"allow", "deny"}, mask : Mask,
          odd : BOOLEAN, condition : BOOLEAN, inherited : BOOLEAN, below : BOOLEAN]

\* An entry as the editor has it: one row of its table.
Ace == [trustee : Trustee, kind : {"allow", "deny"}, mask : Mask,
        understood : BOOLEAN, inherited : BOOLEAN, below : BOOLEAN]

ASSUME PermissionsAssumption ==
    /\ Relative \subseteq Trustee /\ Everyone \in Trustee \ Relative
    /\ Right \cap Generic = {}
    /\ ReadRights \subseteq Right /\ WriteRights \subseteq Right
    /\ Account \in [Editor -> Trustee \ Relative]
    /\ Held \cup Handed \subseteq {e \in Entry : ~e.inherited}
    /\ Standing \subseteq SUBSET {"change", "take"}
    /\ MaxEdits \in Nat
    /\ None \notin Trustee

PRESETS == {Right, ReadRights \cup WriteRights, ReadRights, WriteRights}

VARIABLES
    dir,        \* the directory's own descriptor: owner, protected, aces
    parent,     \* the entries the parent directory hands down
    shareSd,    \* "absent", "unreadable" or "there"
    shareAces,  \* the entries of the share's descriptor, when it is there
    domain,     \* the server says which domain it belongs to
    may,        \* may[e]: what the server lets e's account do to the directory
    pc,         \* pc[e]: "closed", "editing", "writing", "done"
    level,      \* level[e]: the descriptor e's editor is open on
    owner,      \* owner[e]: the owner its descriptor was fetched with
    rows,       \* rows[e]: the rows of the table, as edited
    protect,    \* protect[e]: the checkbox, as edited
    edits,      \* edits[e]: changes made
    offered,    \* offered[e]: e's editor offers to take the ownership
    answer,     \* answer[e]: the refusal of the console itself that e's editor shows
    stale       \* history: another has written the descriptor since e fetched it

serverVars == <<dir, parent, shareSd, shareAces, domain, may>>
tableVars  == <<level, owner, rows, protect, edits>>
vars == <<serverVars, tableVars, pc, offered, answer, stale>>

-------------------------------------------------------------------------------
(* What the parser makes of a descriptor, and what is rendered from it.      *)

\* The entries of a list at the places in I, in their order.
At(q, I) ==
    LET upTo[n \in 0..Len(q)] ==
            IF n = 0 THEN <<>>
            ELSE IF n \in I THEN Append(upTo[n - 1], q[n]) ELSE upTo[n - 1]
    IN upTo[Len(q)]

\* The places of the entries the expression finds.
Found(entries) == {i \in DOMAIN entries : ~entries[i].condition}

\* Mutant of parse: an inherited entry looks like the directory's own.
parseForgettingOrigin(entries) ==
    LET known == At(entries, Found(entries)) IN
    [i \in DOMAIN known |->
        [trustee |-> known[i].trustee, kind |-> known[i].kind, mask |-> known[i].mask,
         understood |-> ~known[i].odd, inherited |-> FALSE, below |-> known[i].below]]

\* Mutant of parse: what was found is handed on unparsed.
parseNothing(entries) == At(entries, Found(entries))

\* The entries the expression finds, each with the part of its rights that is known.
parse(entries) ==
    LET known == At(entries, Found(entries)) IN
    [i \in DOMAIN known |->
        [trustee |-> known[i].trustee, kind |-> known[i].kind, mask |-> known[i].mask,
         understood |-> ~known[i].odd, inherited |-> known[i].inherited, below |-> known[i].below]]

\* The directory's own rows.
Own(aces) == At(aces, {i \in DOMAIN aces : ~aces[i].inherited})

Rendered(a) ==
    [trustee |-> a.trustee, kind |-> a.kind, mask |-> a.mask,
     odd |-> FALSE, condition |-> FALSE, inherited |-> FALSE, below |-> a.below]

\* Mutant of buildSddl: inherited rows are written as the directory's own.
buildSddlOfAllRows(aces) == [i \in DOMAIN aces |-> Rendered(aces[i])]

\* Mutant of buildSddl: a mask on no named level is rounded to one.
buildSddlRounding(aces) ==
    [i \in DOMAIN Own(aces) |->
        [Rendered(Own(aces)[i]) EXCEPT !.mask = IF @ \in PRESETS THEN @ ELSE ReadRights]]

\* The editor's rendering: the mask of every row, whatever was understood of it.
buildSddl(aces) == [i \in DOMAIN Own(aces) |-> Rendered(Own(aces)[i])]

\* The relative spellings a text names; without a DACL the text does not parse.
domain_relative_trustees(text) ==
    ({text.aces[i].trustee : i \in DOMAIN text.aces} \cup {text.owner}) \cap Relative

-------------------------------------------------------------------------------
(* What an account may do.                                                   *)

expand_generic(mask) ==
    (mask \ Generic)
    \cup (IF "GENERIC_ALL" \in mask THEN Right ELSE {})
    \cup (IF "GENERIC_READ" \in mask THEN ReadRights ELSE {})
    \cup (IF "GENERIC_WRITE" \in mask THEN WriteRights ELSE {})

\* The rights the entries of one kind name a trustee for.
Named(aces, who, kind) ==
    UNION {expand_generic(aces[i].mask) :
              i \in {j \in DOMAIN aces : aces[j].trustee = who /\ aces[j].kind = kind}}

\* Mutant of _mask_for: what is denied is not taken away.
mask_forAllowed(aces, who) == Named(aces, who, "allow")

_mask_for(aces, who) == Named(aces, who, "allow") \ Named(aces, who, "deny")

effective_access(shareMask, fileMask) == expand_generic(shareMask) \cap expand_generic(fileMask)

\* MS-DTYP 2.5.3.2 for the entries that name one trustee: a right is granted when
\* an entry allows it and no entry before that one denies it.  An entry that is only
\* for what lies below (INHERIT_ONLY) takes no part.
Applies(ace, who, kind, r) ==
    /\ ace.trustee = who /\ ace.kind = kind /\ ~ace.below
    /\ r \in expand_generic(ace.mask)

Granted(aces, who) ==
    {r \in Right :
        \E i \in DOMAIN aces :
            /\ Applies(aces[i], who, "allow", r)
            /\ \A j \in 1..(i - 1) : ~Applies(aces[j], who, "deny", r)}

-------------------------------------------------------------------------------
(* The server.                                                               *)

\* The directory's own entries, then what flows in from the parent.
Directory == dir.aces \o (IF dir.protected THEN <<>> ELSE parent)

DEFAULT_SDDL == <<[trustee |-> Everyone, kind |-> "allow", mask |-> Right,
                   odd |-> FALSE, condition |-> FALSE, inherited |-> FALSE, below |-> FALSE]>>

\* Mutant of ShareRead: what cannot be read is taken for what is not there.
ShareReadOrDefault == TRUE

\* shareacl.read answers: not for a descriptor that is there and cannot be rendered.
ShareRead == shareSd # "unreadable"

\* A reply of srvsvc with no descriptor in it means the default.
Descriptor(l) ==
    IF l = "file" THEN Directory ELSE IF shareSd = "there" THEN shareAces ELSE DEFAULT_SDDL

HandedDown == {<<>>} \cup {<<[h EXCEPT !.inherited = TRUE]>> : h \in Handed}

Init ==
    /\ dir \in [owner : Trustee \ Relative, protected : BOOLEAN,
                aces : {<<>>} \cup {p \in Held \X Held : p[1] # p[2]}]
    /\ parent \in HandedDown
    /\ shareSd \in {"absent", "unreadable", "there"}
    /\ shareAces \in IF shareSd = "there" THEN {<<h>> : h \in Held \cup Handed} ELSE {<<>>}
    /\ domain \in BOOLEAN
    /\ may \in {[e \in Editor |-> m[Account[e]]] : m \in [{Account[e] : e \in Editor} -> Standing]}
    /\ pc = [e \in Editor |-> "closed"]
    /\ level = [e \in Editor |-> "file"]
    /\ owner = [e \in Editor |-> None]
    /\ rows = [e \in Editor |-> <<>>]
    /\ protect = [e \in Editor |-> FALSE]
    /\ edits = [e \in Editor |-> 0]
    /\ offered = [e \in Editor |-> FALSE]
    /\ answer = [e \in Editor |-> "none"]
    /\ stale = [e \in Editor |-> FALSE]

\* Somebody changes what the parent directory hands down.
ParentChange ==
    /\ parent' \in HandedDown
    /\ UNCHANGED <<dir, shareSd, shareAces, domain, may, tableVars, pc, offered, answer, stale>>

-------------------------------------------------------------------------------
(* The editor.                                                               *)

\* Mutant of probe_access: a question that did not get through is a refusal.
probe_accessOrNo(e, question) == IF question \in may[e] THEN {"yes", "no"} ELSE {"no"}

\* The server's answer to opening a handle, or that it could not be asked.
probe_access(e, question) == {IF question \in may[e] THEN "yes" ELSE "no", "unknown"}

\* own_access puts both questions.  Ownership is offered once the server has refused
\* the one right and not the other.
Offers(e) ==
    {c = "no" /\ t # "no" : c \in probe_access(e, "change"), t \in probe_access(e, "take")}

\* get_share_permissions, get_path_permissions: the editor is filled from the
\* answer.  The worker parses it; without an answer the editor stays closed.  At
\* file level the editor also asks what its account may do.
Load(e, l) ==
    /\ pc[e] = "closed"
    /\ l = "share" => ShareRead
    /\ pc' = [pc EXCEPT ![e] = "editing"]
    /\ level' = [level EXCEPT ![e] = l]
    /\ owner' = [owner EXCEPT ![e] = dir.owner]
    /\ rows' = [rows EXCEPT ![e] = parse(Descriptor(l))]
    /\ protect' = [protect EXCEPT ![e] = l = "file" /\ dir.protected]
    /\ stale' = [stale EXCEPT ![e] = FALSE]
    /\ offered' \in {[offered EXCEPT ![e] = o] : o \in IF l = "file" THEN Offers(e) ELSE {FALSE}}
    /\ UNCHANGED <<serverVars, edits, answer>>

\* A closed editor forgets its table.
Shut(e) ==
    /\ pc' = [pc EXCEPT ![e] = "done"]
    /\ level' = [level EXCEPT ![e] = "file"]
    /\ owner' = [owner EXCEPT ![e] = None]
    /\ rows' = [rows EXCEPT ![e] = <<>>]
    /\ protect' = [protect EXCEPT ![e] = FALSE]
    /\ edits' = [edits EXCEPT ![e] = 0]
    /\ offered' = [offered EXCEPT ![e] = FALSE]
    /\ answer' = [answer EXCEPT ![e] = "none"]

Edits(e) ==
    /\ pc[e] = "editing" /\ edits[e] < MaxEdits
    /\ edits' = [edits EXCEPT ![e] = @ + 1]
    /\ UNCHANGED <<serverVars, level, owner, pc, offered, answer, stale>>

\* A level is offered for the directory's own rows that were understood.
SetPreset(e) ==
    /\ Edits(e)
    /\ \E i \in DOMAIN rows[e], preset \in PRESETS :
        /\ ~rows[e][i].inherited /\ rows[e][i].understood
        /\ rows' = [rows EXCEPT ![e][i].mask = preset]
    /\ UNCHANGED protect

RemoveRow(e) ==
    /\ Edits(e)
    /\ \E i \in DOMAIN rows[e] :
        /\ ~rows[e][i].inherited
        /\ rows' = [rows EXCEPT ![e] = SubSeq(@, 1, i - 1) \o SubSeq(@, i + 1, Len(@))]
    /\ UNCHANGED protect

AddRow(e) ==
    /\ Edits(e)
    /\ \E s \in Trustee \ Relative :
        /\ rows' = [rows EXCEPT ![e] = Append(@, [trustee |-> s, kind |-> "allow", mask |-> ReadRights,
                                                  understood |-> TRUE, inherited |-> FALSE, below |-> FALSE])]
    /\ UNCHANGED protect

ToggleProtected(e) ==
    /\ Edits(e) /\ level[e] = "file"
    /\ protect' = [protect EXCEPT ![e] = ~@]
    /\ UNCHANGED rows

-------------------------------------------------------------------------------
(* Writes.  The session's worker reads the descriptor first, for the audit   *)
(* log, and then replaces it: two calls to the server.                       *)

Answered(e, how) == answer' = [answer EXCEPT ![e] = how]

\* A descriptor that cannot be read ends a save before it began.
BeginSave(e) ==
    /\ pc[e] = "editing"
    /\ \/ /\ level[e] = "share" => ShareRead
          /\ pc' = [pc EXCEPT ![e] = "writing"]
          /\ UNCHANGED answer
       \/ Answered(e, "none") /\ UNCHANGED pc
    /\ UNCHANGED <<serverVars, tableVars, offered, stale>>

\* The text the editor sends.
Text(e) == [dacl |-> TRUE, owner |-> owner[e], aces |-> buildSddl(rows[e])]

\* to_descriptor: a text without a DACL is not parsed; one that needs a domain the
\* server does not name is refused.
to_descriptor(text) ==
    IF ~text.dacl THEN "no_dacl"
    ELSE IF domain_relative_trustees(text) # {} /\ ~domain THEN "sddl_domain_unknown"
    ELSE "ok"

\* The others who have the descriptor open show something out of date.
Outdate(e) ==
    stale' = [d \in Editor |-> d # e /\ (stale[d] \/ (level[d] = level[e] /\ pc[d] \in {"editing", "writing"}))]

\* set_acl with owner, group and DACL; NetShareSetInfo at level 1501.
Apply(e, text) ==
    /\ IF level[e] = "share"
       THEN shareSd' = "there" /\ shareAces' = text.aces /\ UNCHANGED dir
       ELSE /\ dir' = [owner |-> text.owner, protected |-> protect[e], aces |-> text.aces]
            /\ UNCHANGED <<shareSd, shareAces>>
    /\ Outdate(e)

\* A save that succeeded ends this opening: the editor fetches again.  One that
\* failed leaves the rows as they are, and may have been carried out all the same.
Save(e) ==
    LET parsed == to_descriptor(Text(e))
        allowed == parsed = "ok" /\ (level[e] = "file" => "change" \in may[e]) IN
    /\ pc[e] = "writing"
    /\ \/ allowed /\ Apply(e, Text(e)) /\ Shut(e)
       \/ /\ \/ allowed /\ Apply(e, Text(e))
             \/ UNCHANGED <<dir, shareSd, shareAces, stale>>
          /\ Answered(e, IF parsed = "ok" THEN "none" ELSE parsed)
          /\ pc' = [pc EXCEPT ![e] = "editing"]
          /\ UNCHANGED <<tableVars, offered>>
    /\ UNCHANGED <<parent, domain, may>>

\* take_ownership: the text is the owner alone.
TakeOwnership(e) ==
    LET text == [dacl |-> FALSE, owner |-> Account[e], aces |-> <<>>]
        parsed == to_descriptor(text) IN
    /\ pc[e] = "editing" /\ offered[e]
    /\ \E reached \in BOOLEAN :
        IF parsed = "ok" /\ "take" \in may[e] /\ reached
        THEN dir' = [dir EXCEPT !.owner = Account[e]] /\ Outdate(e)
        ELSE UNCHANGED <<dir, stale>>
    /\ Answered(e, IF parsed = "ok" THEN "none" ELSE parsed)
    /\ UNCHANGED <<parent, shareSd, shareAces, domain, may, tableVars, pc, offered>>

Step(e) ==
    \/ Load(e, "share") \/ Load(e, "file")
    \/ SetPreset(e) \/ RemoveRow(e) \/ AddRow(e) \/ ToggleProtected(e)
    \/ BeginSave(e) \/ Save(e) \/ TakeOwnership(e)

Next == ParentChange \/ \E e \in Editor : Step(e)

Spec == Init /\ [][Next]_vars

-------------------------------------------------------------------------------
(* What the permission routes promise.                                       *)

TypeOK ==
    /\ dir \in [owner : Trustee, protected : BOOLEAN, aces : Seq(Entry)]
    /\ parent \in Seq(Entry) /\ shareAces \in Seq(Entry)
    /\ shareSd \in {"absent", "unreadable", "there"}
    /\ domain \in BOOLEAN /\ may \in [Editor -> Standing]
    /\ pc \in [Editor -> {"closed", "editing", "writing", "done"}]
    /\ level \in [Editor -> {"share", "file"}]
    /\ owner \in [Editor -> Trustee \cup {None}]
    /\ rows \in [Editor -> Seq(Ace)]
    /\ protect \in [Editor -> BOOLEAN] /\ edits \in [Editor -> 0..MaxEdits]
    /\ offered \in [Editor -> BOOLEAN]
    /\ answer \in [Editor -> {"none", "no_dacl", "sddl_domain_unknown"}]
    /\ stale \in [Editor -> BOOLEAN]

\* However editors load, save and overtake one another while the parent changes, no
\* entry that came from the parent is ever stored as the directory's own.  Those
\* of the trustees only the parent names are recognised among the stored ones.
\* (buildSddl: "how an inheritance chain turns into frozen copies".)
InheritanceIsNotFrozen ==
    LET parental == {h.trustee : h \in Handed} \cap (Relative \ {h.trustee : h \in Held}) IN
    \A i \in DOMAIN dir.aces : dir.aces[i].trustee \notin parental

\* A share descriptor that is there and cannot be rendered is not replaced by
\* anything, and in particular not by the default.  (shareacl.read)
UnreadableIsNotReplaced == [][shareSd = "unreadable" => shareSd' = "unreadable"]_vars

\* A save of an editor nobody has overtaken stores what its table shows, under the
\* owner the directory had, and leaves the other descriptor alone.
SavedAsShown ==
    [][\A e \in Editor :
        pc[e] = "writing" /\ pc'[e] = "done" /\ ~stale[e] =>
            IF level[e] = "share" THEN parse(shareAces') = parse(buildSddl(rows[e])) /\ dir' = dir
            ELSE /\ dir'.owner = dir.owner /\ shareAces' = shareAces
                 /\ [i \in DOMAIN dir'.aces |-> dir'.aces[i].mask]
                       = [i \in DOMAIN Own(rows[e]) |-> Own(rows[e])[i].mask]]_vars

\* Where every entry is for the object itself, what effective_access reports is granted
\* by both descriptors as the protocol evaluates them, and where no entry that denies
\* comes after one that allows it is all of it.  (_mask_for: "Deny wins over allow, as it does on the wire".)
Canonical(aces) ==
    \A i, j \in DOMAIN aces : i < j /\ aces[j].kind = "deny" => aces[i].kind = "deny"

AllHere(aces) == \A i \in DOMAIN aces : ~aces[i].below

\* The answer of GET /permissions/effective.
Reported(t) ==
    effective_access(_mask_for(parse(Descriptor("share")), t), _mask_for(parse(Directory), t))

ReallyGranted(t) == Granted(parse(Descriptor("share")), t) \cap Granted(parse(Directory), t)

EffectiveIsGranted ==
    ShareRead /\ AllHere(Descriptor("share")) /\ AllHere(Directory) =>
        \A t \in Trustee :
            /\ Reported(t) \subseteq ReallyGranted(t)
            /\ Canonical(Descriptor("share")) /\ Canonical(Directory)
                  => Reported(t) = ReallyGranted(t)

\* Taking ownership is offered only to an account the server refuses the
\* permissions, not to one it could not be asked about.
OfferedOnRefusal == \A e \in Editor : offered[e] => "change" \notin may[e]

-------------------------------------------------------------------------------
(* What the comments of the code say, and the code does not do.              *)

\* srv/acl.py:233, an entry the parser does not understand "keeps its text and is
\* reported as unparsed rather than dropped": a save of an editor in which nothing
\* was changed leaves the directory's entries as they are.
IdleSaveChangesNothing ==
    [][\A e \in Editor :
        pc[e] = "writing" /\ level[e] = "file" /\ ~stale[e] /\ rows[e] = parse(Directory)
            => dir'.aces = dir.aces]_vars

\* srv/acl.py:799, "A caller who cannot change the permissions can still take the
\* ownership that lets them": no claim is refused before the server is asked.
ClaimReachesServer == \A e \in Editor : answer[e] # "no_dacl"

===============================================================================
