------------------------------- MODULE Listings -------------------------------
(***************************************************************************)
(* The lists the console shows of what a server has: shares, sessions and  *)
(* open files through srvsvc, accounts through samr (_enumerate of         *)
(* srv/shares.py, srv/sessions.py and srv/accounts.py), what is concluded  *)
(* from them, and the closing of a file somebody picked from one           *)
(* (api/v1/sessions.py).                                                   *)
(*                                                                         *)
(* A reply carries a batch, a handle to go on from and a number.  The list *)
(* changes on the server between the replies.                              *)
(***************************************************************************)
EXTENDS Naturals, Sequences, FiniteSets

CONSTANTS
    Id,             \* handles the server gives out, in the order it lists them
    Name,           \* what an entry is called: a share, or the path of a file
    Levels,         \* information levels of a call, the most informative first
    MaxChanges      \* bound: changes on the server

ASSUME ListingsAssumption ==
    /\ Id \subseteq Nat \ {0}
    /\ Levels \in Seq(Nat) /\ Levels # <<>>
    /\ MaxChanges \in Nat

Entry == [id : Id, name : Name]

\* What is asked for.  A close reads the open files first, to name its victim.
Purpose == {"files", "accounts", "shares", "served", "close"}

VARIABLES
    entries,    \* what the server has to list
    sections,   \* the names with a section in the registry
    supported,  \* the levels the server implements
    list,       \* the enumeration that runs, or the last one
    picked,     \* the file that somebody picked from the list to be closed, as listed, or nothing
    answer,     \* what the console last concluded or answered
    changes,    \* changes made on the server
    disturbed   \* history: the server changed since the enumeration began

vars == <<entries, sections, supported, list, picked, answer, changes, disturbed>>

Nothing == [id |-> 0, name |-> "nothing"]

Quiet == [purpose |-> "none", at |-> "idle", level |-> 1, resume |-> 0, found |-> {}, many |-> 0,
          sections |-> {}]

\* An enumeration that has ended leaves nothing behind.
Over == Quiet

Init ==
    /\ entries \in {S \in SUBSET Entry : IsFiniteSet(S) /\ \A e, f \in S : e.id = f.id => e = f}
    /\ sections \in SUBSET Name
    /\ supported \in SUBSET {Levels[i] : i \in DOMAIN Levels}
    /\ list = Quiet
    /\ picked = Nothing
    /\ answer = "none"
    /\ changes = 0 /\ disturbed = FALSE

-------------------------------------------------------------------------------
(* The server and its registry change meanwhile.  A handle may be given out   *)
(* again.                                                                    *)

Change ==
    /\ changes < MaxChanges
    /\ changes' = changes + 1 /\ disturbed' = TRUE
    /\ \/ \E e \in entries : entries' = entries \ {e} /\ UNCHANGED sections
       \/ \E e \in Entry : /\ \A f \in entries : f.id # e.id
                           /\ entries' = entries \cup {e}
                           /\ UNCHANGED sections
       \/ \E name \in Name : /\ sections' \in {sections \cup {name}, sections \ {name}} \ {sections}
                             /\ UNCHANGED entries
    /\ UNCHANGED <<supported, list, picked, answer>>

-------------------------------------------------------------------------------
(* One enumeration.                                                          *)

\* Whether the server ignores its registry is asked with the registry first.
Ask(purpose) ==
    /\ list.at = "idle"
    /\ purpose = "close" <=> picked # Nothing
    /\ list' = [Quiet EXCEPT !.purpose = purpose,
                             !.at = IF purpose = "served" THEN "sections" ELSE "page"]
    /\ disturbed' = FALSE
    /\ answer' = "none"
    /\ UNCHANGED <<entries, sections, supported, picked, changes>>

\* The buffer size each call is given: 0xFFFFFFFF, and -1 for the accounts, which
\* the binding does not marshal (srv/sessions.py:34).
Marshalled == [p \in Purpose |-> p # "accounts"]

\* Whether the level matters: sessions.py negotiates it, shares.py and
\* accounts.py have one.
Negotiates(purpose) == purpose \in {"files", "close"}

\* Mutant of Total: what the reply holds is taken for what there is.
TotalOfBatch(purpose, batch) == Cardinality(batch)

\* The number in a reply: srvsvc counts all there is, samr what the reply holds.
Total(purpose, batch) == IF purpose = "accounts" THEN Cardinality(batch) ELSE Cardinality(entries)

\* Mutant of Ended: the first reply is the list.
EndedAlways(batch, out, many) == TRUE

\* No progress, no handle, or the number reached.
Ended(batch, out, many) ==
    \/ batch = {}
    \/ out \in {0, list.resume}
    \/ many >= Total(list.purpose, batch)

\* One reply: what comes next, up to some entry.  The server may say with its last
\* batch that there is no more.
Page ==
    LET rest == {e \in entries : e.id > list.resume} IN
    /\ list.at = "page"
    /\ Negotiates(list.purpose) => Levels[list.level] \in supported
    /\ Marshalled[list.purpose]
    /\ \E last \in (IF rest = {} THEN {list.resume} ELSE {e.id : e \in rest}) :
        LET batch == {e \in rest : e.id <= last}
            many == list.many + Cardinality(batch) IN
        \E out \in {last} \cup (IF batch = rest THEN {0} ELSE {}) :
            list' = [list EXCEPT !.found = @ \cup batch, !.many = many, !.resume = out,
                                 !.at = IF Ended(batch, out, many) THEN "listed" ELSE "page"]
    /\ UNCHANGED <<entries, sections, supported, picked, answer, changes, disturbed>>

Fail(how) ==
    /\ list' = Over
    /\ answer' = how
    /\ picked' = Nothing
    /\ UNCHANGED <<entries, sections, supported, changes, disturbed>>

\* Mutant of NextLevel: any failure is taken for a level that is not there.
NextLevelAfterAny == list.at = "page" /\ list.level < Len(Levels)

\* WERR_INVALID_LEVEL, and only that, moves to the next level; the list begins again.
NextLevel ==
    /\ list.at = "page" /\ list.level < Len(Levels)
    /\ Negotiates(list.purpose) /\ Levels[list.level] \notin supported

Fallback ==
    /\ NextLevel
    /\ list' = [list EXCEPT !.level = @ + 1, !.found = {}, !.many = 0, !.resume = 0]
    /\ UNCHANGED <<entries, sections, supported, picked, answer, changes, disturbed>>

NoLevel ==
    /\ list.at = "page" /\ list.level = Len(Levels)
    /\ Negotiates(list.purpose) /\ Levels[list.level] \notin supported
    /\ Fail("unsupported_info_level")

Unmarshalled == list.at = "page" /\ ~Marshalled[list.purpose] /\ Fail("unexpected")

\* Any other failure, of any reply, ends the enumeration; what was found is dropped.
\* registry_shares_served takes it for no verdict.
Refused == list.at = "page" /\ Fail(IF list.purpose = "served" THEN "none" ELSE "error")

-------------------------------------------------------------------------------
(* What is made of a list.                                                   *)

\* The list is on the screen.  Somebody may pick a file from it to be closed.
Show ==
    /\ list.at = "listed" /\ list.purpose \in {"files", "accounts", "shares"}
    /\ list' = Over
    /\ picked' \in {Nothing} \cup IF list.purpose = "files" THEN list.found ELSE {}
    /\ answer' = "listed"
    /\ UNCHANGED <<entries, sections, supported, changes, disturbed>>

\* _registry_sections answers None for a registry that cannot be read.
ReadSections ==
    /\ list.at = "sections"
    /\ \/ Fail("none")
       \/ IF sections = {} THEN Fail("none")
          ELSE /\ list' = [list EXCEPT !.sections = sections, !.at = "page"]
               /\ UNCHANGED <<entries, sections, supported, picked, answer, changes, disturbed>>

\* registry_shares_served: no section among the live shares means the registry is ignored.
Conclude ==
    /\ list.at = "listed" /\ list.purpose = "served"
    /\ list' = Over
    /\ answer' = IF \E e \in list.found : e.name \in list.sections
                 THEN "served" ELSE "ignored"
    /\ UNCHANGED <<entries, sections, supported, picked, changes, disturbed>>

\* The entry the handler found for the id, to be named in its answer.
Victim == {e \in list.found : e.id = picked.id}

\* Mutant of Missing: the server's code is handed on.
MissingUntranslated == "not_found"

\* Mutant of Missing: a file that is not open any more was closed.
MissingIsClosed == "closed"

\* What NetFileClose means for a handle the server does not have.
Missing == "file_not_open"

\* NetFileClose.  The answer may be lost.
CloseFile ==
    /\ list.at = "listed" /\ list.purpose = "close"
    /\ list' = Over
    /\ picked' = Nothing
    /\ \/ /\ entries' = {e \in entries : e.id # picked.id}
          /\ answer' = IF entries' = entries THEN Missing ELSE "closed"
       \/ /\ entries' \in {entries, {e \in entries : e.id # picked.id}}
          /\ answer' = "error"
    /\ UNCHANGED <<sections, supported, changes, disturbed>>

Next ==
    \/ Change
    \/ \E p \in Purpose : Ask(p)
    \/ Page \/ Fallback \/ NoLevel \/ Unmarshalled \/ Refused
    \/ Show \/ ReadSections \/ Conclude \/ CloseFile

Spec == Init /\ [][Next]_vars

-------------------------------------------------------------------------------
(* What the lists promise.                                                   *)

TypeOK ==
    /\ entries \in SUBSET Entry /\ sections \in SUBSET Name /\ supported \in SUBSET {Levels[i] : i \in DOMAIN Levels}
    /\ list \in [purpose : Purpose \cup {"none"}, at : {"idle", "sections", "page", "listed"},
                 level : DOMAIN Levels, resume : Id \cup {0}, found : SUBSET Entry, many : Nat,
                 sections : SUBSET Name]
    /\ picked \in Entry \cup {Nothing}
    /\ answer \in {"none", "listed", "served", "ignored", "closed", "file_not_open",
                   "unsupported_info_level", "unexpected", "error"}
    /\ changes \in 0..MaxChanges /\ disturbed \in BOOLEAN

\* However the server cuts its replies, a list of shares, sessions or files during
\* which nothing changed has every entry, and has it once.  (_enumerate: "a share is
\* simply missing from the list with no error at all".)
Complete == list.found = entries /\ list.many = Cardinality(entries)

NothingIsMissing == list.at = "listed" /\ ~disturbed /\ list.purpose # "accounts" => Complete

\* A list of open files is at the most informative level the server has: a level is
\* passed over only when the server does not have it.  (_enumerate_levels)
BestLevel == \A i \in 1..(list.level - 1) : Levels[i] \notin supported

\* "Closed" is answered when the call closed the file with that handle, which is the
\* one the answer names unless the server changed in between; and no other file is
\* closed with it.
ClosedIsClosed ==
    [][list.at = "listed" /\ list.purpose = "close" /\ list'.at = "idle" =>
          /\ answer' = "closed" => /\ \E e \in entries : e.id = picked.id /\ e \notin entries'
                                   /\ ~disturbed => Victim = entries \ entries'
          /\ answer' = "file_not_open" => entries' = entries
          /\ \A e \in entries : e.id # picked.id => e \in entries']_vars

\* The console says that the server ignores its registry only where no section of it
\* is among the shares.  (registry_shares_served; it hides the creation of shares.)
IgnoredIsCertain ==
    [][list.purpose = "served" /\ answer' = "ignored" /\ list'.at = "idle" /\ list.at = "listed"
          /\ ~disturbed => \A e \in entries : e.name \notin sections]_vars

-------------------------------------------------------------------------------
(* What the comments of the code say, and the code does not do.              *)

\* srv/accounts.py:200, list_users is "every local user account": asked of a server that
\* answers and does not change, it answers and is complete.
EveryAccountIsListed ==
    /\ answer # "unexpected"
    /\ list.purpose = "accounts" /\ list.at = "listed" /\ ~disturbed => Complete

===============================================================================
