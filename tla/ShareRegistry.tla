----------------------------- MODULE ShareRegistry -----------------------------
(***************************************************************************)
(* Creating, changing and deleting shares (srv/shares.py, with the writes  *)
(* of srv/registry.py): each is a sequence of calls to the file server,    *)
(* any of which can fail, and administrators in different sessions make    *)
(* theirs at the same time.                                                *)
(*                                                                         *)
(* The server has two views of a share.  The registry holds its key and    *)
(* its values; srvsvc answers for the shares smbd serves, those of the     *)
(* text smb.conf among them, and follows the registry when smbd re-reads   *)
(* it.  A call that fails may have been carried out: only its reply was    *)
(* lost.  The comment, which an update treats as it does the path, is left *)
(* out.                                                                    *)
(***************************************************************************)
EXTENDS FiniteSets

CONSTANTS
    Share,      \* share names that are not the server's own
    Call,       \* calls of the three routes, each made once
    Option,     \* smb.conf options, the path and the comment apart
    Value,      \* what a path or an option can be set to
    None,       \* no such value, no share
    Keep        \* a field the request does not mention

ASSUME ShareAssumption ==
    /\ "path" \notin Option
    /\ None \notin Value \cup Share
    /\ Keep \notin Value \cup {None}

Field == {"path"} \cup Option
Section == [Field -> Value \cup {None}]
Empty == [f \in Field |-> None]

VARIABLES
    text,       \* shares defined in the text smb.conf
    included,   \* smb.conf says registry shares = yes
    key,        \* shares with a registry key
    conf,       \* conf[s]: the values under the key, Empty without one
    srvsvc,     \* srvsvc[s]: the path srvsvc reports, None when not served
    pc,         \* pc[c]: how far a call has come
    kind,       \* kind[c]: "create", "update" or "delete"
    share,      \* share[c]: the share it is about
    want,       \* want[c]: what it asks of each field
    seen,       \* seen[c]: the values it has read
    todo,       \* todo[c]: the fields it has still to write
    before,     \* history: the section when the call began
    alone,      \* history: no other call on the share ran beside this one
    sure        \* history: every walk over the values came to its end

serverVars == <<text, included, key, conf, srvsvc>>
askedVars  == <<kind, share, want, before>>
vars == <<serverVars, askedVars, pc, seen, todo, alone, sure>>

Kind == {"create", "update", "delete"}
Stage == {"idle", "look", "stored", "open", "read", "write", "confirm", "rollback",
          "remove", "done", "refused", "failed"}
Over == {"done", "refused", "failed"}

Init ==
    /\ text \in SUBSET Share
    /\ included \in BOOLEAN
    /\ conf \in [Share -> Section]
    /\ key \in SUBSET (Share \ text)
    /\ srvsvc \in [Share -> Value \cup {None}]
    /\ \A s \in Share :
        /\ s \notin key => conf[s] = Empty
        /\ s \in text => srvsvc[s] # None
        /\ s \notin text /\ ~included => srvsvc[s] = None
    /\ pc = [c \in Call |-> "idle"]
    /\ kind = [c \in Call |-> "none"]
    /\ share = [c \in Call |-> None]
    /\ want = [c \in Call |-> [f \in Field |-> Keep]]
    /\ seen = [c \in Call |-> Empty]
    /\ todo = [c \in Call |-> {}]
    /\ before = [c \in Call |-> Empty]
    /\ alone = [c \in Call |-> FALSE]
    /\ sure = [c \in Call |-> TRUE]

-------------------------------------------------------------------------------
(* The server.                                                               *)

\* smbd re-reads the registry on its own schedule, one share at a time.
Reload(s) ==
    /\ s \notin text
    /\ srvsvc' = [srvsvc EXCEPT ![s] = IF included THEN conf[s]["path"] ELSE None]
    /\ UNCHANGED <<text, included, key, conf, askedVars, pc, seen, todo, alone, sure>>

Served(s) == srvsvc[s] # None

\* DeleteKey takes the values with it.
DropKey(s) == key' = key \ {s} /\ conf' = [conf EXCEPT ![s] = Empty]

\* What a walk over the values returns: the ones read before it stopped.
Walk(s, reached) == [f \in Field |-> IF f \in reached THEN conf[s][f] ELSE None]

-------------------------------------------------------------------------------
(* A call of create_share, update_share or delete_share.                     *)

\* What a validated request can ask for.  Only an update may remove an option,
\* and only an update may leave the path out.
Request(k) ==
    IF k = "delete" THEN {[f \in Field |-> Keep]}
    ELSE {w \in [Field -> Value \cup {None, Keep}] :
             /\ w["path"] # None
             /\ k = "create" => w["path"] # Keep /\ \A f \in Option : w[f] # None}

Active(c) == pc[c] \notin Over \cup {"idle"}

Begin(c) ==
    /\ pc[c] = "idle"
    /\ pc' = [pc EXCEPT ![c] = "look"]
    /\ \E k \in Kind, s \in Share :
        LET beside == {d \in Call : Active(d) /\ share[d] = s} IN
        /\ kind' = [kind EXCEPT ![c] = k]
        /\ share' = [share EXCEPT ![c] = s]
        /\ want' \in {[want EXCEPT ![c] = w] : w \in Request(k)}
        /\ before' = [before EXCEPT ![c] = conf[s]]
        /\ alone' = [d \in Call |-> IF d = c THEN beside = {} ELSE alone[d] /\ d \notin beside]
    /\ UNCHANGED <<serverVars, seen, todo, sure>>

\* The fields the request mentions.
Sent(c) == {f \in Field : want[c][f] # Keep}

\* Mutant of LookUp: a refusal of the server is taken for an absence.
LookUpRefusalAsAbsence(c) ==
    /\ pc[c] = "look"
    /\ pc' = [pc EXCEPT ![c] =
                 CASE kind[c] = "create" -> "open" [] kind[c] = "update" -> "stored"
                   [] kind[c] = "delete" -> "remove"]
    /\ seen' = [seen EXCEPT ![c] = [Empty EXCEPT !["path"] = srvsvc[share[c]]]]
    /\ todo' = [todo EXCEPT ![c] = Sent(c)]
    /\ UNCHANGED <<serverVars, askedVars, alone, sure>>

\* Mutant of LookUp: the fields the request left out are written as well.
LookUpWritingAllFields(c) ==
    /\ pc[c] = "look"
    /\ pc' = [pc EXCEPT ![c] = IF Served(share[c]) = (kind[c] = "create") THEN "refused"
                               ELSE CASE kind[c] = "create" -> "open"
                                      [] kind[c] = "update" -> "stored"
                                      [] kind[c] = "delete" -> "remove"]
    /\ seen' = [seen EXCEPT ![c] = [Empty EXCEPT !["path"] = srvsvc[share[c]]]]
    /\ todo' = [todo EXCEPT ![c] = Field]
    /\ UNCHANGED <<serverVars, askedVars, alone, sure>>

\* NetShareGetInfo: _exists for a creation or a deletion, get_share for an
\* update, which goes on with the path srvsvc reports.
LookUp(c) ==
    /\ pc[c] = "look"
    /\ \/ /\ pc' = [pc EXCEPT ![c] =
                       IF Served(share[c]) = (kind[c] = "create") THEN "refused"
                       ELSE CASE kind[c] = "create" -> "open"
                              [] kind[c] = "update" -> "stored"
                              [] kind[c] = "delete" -> "remove"]
          /\ seen' = [seen EXCEPT ![c] = [Empty EXCEPT !["path"] = srvsvc[share[c]]]]
          /\ todo' = [todo EXCEPT ![c] = Sent(c)]
       \/ pc' = [pc EXCEPT ![c] = "failed"] /\ UNCHANGED <<seen, todo>>
    /\ UNCHANGED <<serverVars, askedVars, alone, sure>>

\* Mutant of ReadStored: the path to compare with stays the one srvsvc reported.
ReadStoredTrustingSrvsvc(c) ==
    /\ pc[c] = "stored"
    /\ \E reached \in SUBSET Field :
        LET stored == Walk(share[c], reached)
            rest == {f \in todo[c] : f = "path" => want[c][f] # seen[c][f]} IN
        /\ todo' = [todo EXCEPT ![c] = rest]
        /\ pc' = [pc EXCEPT ![c] = IF stored = Empty THEN "refused"
                                   ELSE IF rest = {} THEN "done" ELSE "open"]
        /\ sure' = [sure EXCEPT ![c] = Walk(share[c], Field) = stored]
    /\ UNCHANGED <<serverVars, askedVars, seen, alone>>

\* get_share, second half, and the rest of update_share up to the write: a share
\* with nothing stored is not editable; the registry's path wins over srvsvc's;
\* a path that is already the current one is not sent.
ReadStored(c) ==
    /\ pc[c] = "stored"
    /\ \/ \E reached \in SUBSET Field :
            LET stored == Walk(share[c], reached)
                path == IF stored["path"] # None THEN stored["path"] ELSE seen[c]["path"]
                rest == {f \in todo[c] : f = "path" => want[c][f] # path} IN
            /\ todo' = [todo EXCEPT ![c] = rest]
            /\ pc' = [pc EXCEPT ![c] = IF stored = Empty THEN "refused"
                                       ELSE IF rest = {} THEN "done" ELSE "open"]
            /\ sure' = [sure EXCEPT ![c] = Walk(share[c], Field) = stored]
       \/ pc' = [pc EXCEPT ![c] = "failed"] /\ UNCHANGED <<todo, sure>>
    /\ UNCHANGED <<serverVars, askedVars, seen, alone>>

\* write_options raised: a creation takes the key back, an update reports it.
Raise(c) == pc' = [pc EXCEPT ![c] = IF kind[c] = "create" THEN "rollback" ELSE "failed"]

\* open_section(create=True): CreateKey opens the key or makes it.
OpenKey(c) ==
    /\ pc[c] = "open"
    /\ \/ key' = key \cup {share[c]} /\ pc' = [pc EXCEPT ![c] = "read"]
       \/ key' \in {key, key \cup {share[c]}} /\ Raise(c)
    /\ UNCHANGED <<text, included, conf, srvsvc, askedVars, seen, todo, alone, sure>>

\* write_options reads the current values; a failure ends the walk, not the call.
ReadValues(c) ==
    /\ pc[c] = "read"
    /\ \E reached \in SUBSET Field :
        /\ seen' = [seen EXCEPT ![c] = Walk(share[c], reached)]
        /\ sure' = [sure EXCEPT ![c] = @ /\ Walk(share[c], Field) = Walk(share[c], reached)]
    /\ pc' = [pc EXCEPT ![c] = "write"]
    /\ UNCHANGED <<serverVars, askedVars, todo, alone>>

\* The fields write_options may come to next: a creation sends the path first,
\* an update last of those modelled here.
Upcoming(c) ==
    IF "path" \notin todo[c] \/ Cardinality(todo[c]) = 1 THEN todo[c]
    ELSE IF kind[c] = "create" THEN {"path"} ELSE Option \cap todo[c]

Written(c, f) ==
    /\ todo' = [todo EXCEPT ![c] = @ \ {f}]
    /\ pc' = [pc EXCEPT ![c] = IF todo[c] # {f} THEN "write"
                               ELSE IF kind[c] = "create" THEN "confirm" ELSE "done"]

\* A value that is already what was asked for is left alone.
SkipValue(c) ==
    /\ pc[c] = "write"
    /\ \E f \in Upcoming(c) : want[c][f] = seen[c][f] /\ Written(c, f)
    /\ UNCHANGED <<serverVars, askedVars, seen, alone, sure>>

\* Mutant of WriteValue: the section is written back as it was read.
WriteWholeSection(c) ==
    /\ pc[c] = "write"
    /\ \E f \in Upcoming(c) :
        /\ want[c][f] # seen[c][f] /\ share[c] \in key
        /\ seen' = [seen EXCEPT ![c][f] = want[c][f]]
        /\ conf' = [conf EXCEPT ![share[c]] = seen'[c]]
        /\ Written(c, f)
    /\ UNCHANGED <<text, included, key, srvsvc, askedVars, alone, sure>>

\* SetValue, or DeleteValue for None.  Neither works on a key that is gone, and
\* a value that is gone cannot be deleted.
WriteValue(c) ==
    /\ pc[c] = "write"
    /\ \E f \in Upcoming(c) :
        LET s == share[c]
            possible == s \in key /\ (want[c][f] = None => conf[s][f] # None)
            done == conf' = [conf EXCEPT ![s][f] = want[c][f]] IN
        /\ want[c][f] # seen[c][f]
        /\ \/ possible /\ done /\ Written(c, f)
           \/ possible /\ done /\ Raise(c) /\ UNCHANGED todo
           \/ Raise(c) /\ UNCHANGED <<conf, todo>>
    /\ UNCHANGED <<text, included, key, srvsvc, askedVars, seen, alone, sure>>

\* create_share asks whether the server serves the share yet; the answer does
\* not matter to the outcome, a failure to ask does.
Confirm(c) ==
    /\ pc[c] = "confirm"
    /\ pc' \in {[pc EXCEPT ![c] = "done"], [pc EXCEPT ![c] = "failed"]}
    /\ UNCHANGED <<serverVars, askedVars, seen, todo, alone, sure>>

\* A failed creation deletes the key; a failure of that is suppressed.
Rollback(c) ==
    /\ pc[c] = "rollback"
    /\ DropKey(share[c]) \/ UNCHANGED <<key, conf>>
    /\ pc' = [pc EXCEPT ![c] = "failed"]
    /\ UNCHANGED <<text, included, srvsvc, askedVars, seen, todo, alone, sure>>

\* delete_section: no key to delete is a fine outcome.
Remove(c) ==
    /\ pc[c] = "remove"
    /\ \/ DropKey(share[c]) /\ pc' = [pc EXCEPT ![c] = "done"]
       \/ (DropKey(share[c]) \/ UNCHANGED <<key, conf>>) /\ pc' = [pc EXCEPT ![c] = "failed"]
    /\ UNCHANGED <<text, included, srvsvc, askedVars, seen, todo, alone, sure>>

CallStep(c) ==
    \/ Begin(c) \/ LookUp(c) \/ ReadStored(c) \/ OpenKey(c) \/ ReadValues(c)
    \/ SkipValue(c) \/ WriteValue(c) \/ Confirm(c) \/ Rollback(c) \/ Remove(c)

Next == (\E c \in Call : CallStep(c)) \/ (\E s \in Share : Reload(s))

Spec == Init /\ [][Next]_vars

-------------------------------------------------------------------------------
(* What the share routes promise.                                            *)

TypeOK ==
    /\ text \in SUBSET Share /\ included \in BOOLEAN
    /\ key \in SUBSET Share
    /\ conf \in [Share -> Section]
    /\ srvsvc \in [Share -> Value \cup {None}]
    /\ pc \in [Call -> Stage]
    /\ kind \in [Call -> Kind \cup {"none"}]
    /\ share \in [Call -> Share \cup {None}]
    /\ \A c \in Call : pc[c] # "idle" => kind[c] \in Kind /\ share[c] \in Share
    /\ want \in [Call -> [Field -> Value \cup {None, Keep}]]
    /\ seen \in [Call -> Section] /\ before \in [Call -> Section]
    /\ todo \in [Call -> SUBSET Field]
    /\ alone \in [Call -> BOOLEAN] /\ sure \in [Call -> BOOLEAN]

\* No call makes a registry key for a share the text smb.conf defines, and values
\* are stored only under a key.  (shares.py: a key shadowing a text-file share
\* "would produce a server whose configuration says two different things".)
NoKeyShadowsText ==
    /\ text \cap key = {}
    /\ \A s \in Share \ key : conf[s] = Empty

\* What the section of c's share holds once c has done what it was asked.
Outcome(c) ==
    IF kind[c] = "delete" THEN Empty
    ELSE [f \in Field |-> IF want[c][f] = Keep THEN before[c][f] ELSE want[c][f]]

\* The walks of c read everything, and an update found a path in the registry: one
\* that finds none compares with srvsvc's, which may be out of date.
Informed(c) == sure[c] /\ (kind[c] = "update" => before[c]["path"] # None)

\* An informed call that no other one overlapped reports success only when the
\* section is what it asked for, and nothing else in it has changed: however stale
\* srvsvc's answers, and whatever the key held before.
\* (update_share: "Only what was sent is changed.")
ReportedCallWasDone ==
    [][\A c \in Call :
        pc[c] # "done" /\ pc'[c] = "done" /\ alone[c] /\ Informed(c)'
            => conf'[share[c]] = Outcome(c)]_vars

\* Every other call on c's share is an update that leaves f alone.
Undisputed(c, f) ==
    \A d \in Call \ {c} : share[d] = share[c] => kind[d] = "update" /\ want[d][f] = Keep

\* An informed update c sends f, and no other call on the share touches f.
Own(c, f) == kind[c] = "update" /\ Informed(c) /\ want[c][f] # Keep /\ Undisputed(c, f)

\* Two administrators change different fields of one share at the same time:
\* both changes are there afterwards, also when one of the calls fails part way.
ConcurrentEditsMerge ==
    \A c \in Call, f \in Field :
        pc[c] = "done" /\ Own(c, f) => conf[share[c]][f] = want[c][f]

\* The inductive strengthening the proofs use.  Text shares are always served; only
\* a call that found its share outside smb.conf goes on to open a key; each stage
\* belongs to its kind of call and writes only what was sent.
ProgressInv ==
    /\ \A s \in text : Served(s)
    /\ \A c \in Call :
        /\ pc[c] = "idle" => share[c] = None
        /\ pc[c] \in {"idle", "look", "stored"} => sure[c]
        /\ pc[c] = "stored" => kind[c] = "update" /\ todo[c] = Sent(c)
        /\ pc[c] = "open" => share[c] \notin text
        /\ pc[c] \in {"open", "read", "write"} => kind[c] # "delete" /\ todo[c] \subseteq Sent(c)
        /\ pc[c] \in {"confirm", "rollback"} => kind[c] = "create"
        /\ pc[c] = "remove" => kind[c] = "delete"
        /\ want[c]["path"] # None

\* How far an update has come with a field that is its own: a field that is not to
\* be written holds what was asked for, one that is holds what was read.
OnCourse(c, f) ==
    LET stored == conf[share[c]][f] IN
    /\ pc[c] \in {"look", "stored"} /\ f = "path" => stored # None
    /\ pc[c] \in {"open", "read", "write"} /\ f \notin todo[c] => stored = want[c][f]
    /\ pc[c] = "write" /\ f \in todo[c] => seen[c][f] = stored
    /\ pc[c] = "done" => stored = want[c][f]

EditInv == \A c \in Call, f \in Field : Own(c, f) => OnCourse(c, f)

ShareInv == TypeOK /\ NoKeyShadowsText /\ ProgressInv /\ EditInv

\* How far a call that runs alone has come with its section: nothing in it has
\* changed before the first write; a field that is not to be written is as it will
\* be in the end, and one that is holds what was read.
OnItsWay(c) ==
    LET now == conf[share[c]] IN
    /\ pc[c] \in {"look", "stored", "open", "read", "remove"} => now = before[c]
    /\ pc[c] \in {"open", "read", "write"} => \A f \in Field \ todo[c] : now[f] = Outcome(c)[f]
    /\ pc[c] = "write" => \A f \in todo[c] : seen[c][f] = now[f]
    /\ pc[c] = "confirm" => now = Outcome(c)

AloneInv ==
    \A c \in Call : alone[c] /\ Active(c) =>
        /\ \A d \in Call \ {c} : Active(d) => share[d] # share[c]
        /\ Informed(c) => OnItsWay(c)

-------------------------------------------------------------------------------
(* What the comments of the code say, and the code does not do.              *)

\* api/v1/shares.py:174, "Remove a share, and the configuration that belongs to
\* it": a share reported as deleted is not one the text smb.conf still defines.
DeletedShareIsGone ==
    \A c \in Call : pc[c] = "done" /\ kind[c] = "delete" => share[c] \notin text

\* srv/shares.py:219, the rollback takes the key back "rather than leave one behind
\* that nobody meant to make": it removes no value that was there when the
\* creation began.
RollbackSparesOthers ==
    [][\A c \in Call : pc[c] = "rollback" /\ pc'[c] # "rollback" /\ before[c] # Empty
                       => conf'[share[c]] # Empty]_vars

\* srv/shares.py:194, "Everything is written in one go": a share whose creation is
\* still writing is not served without what it was created with.
ServedWithItsOptions ==
    \A c \in Call :
        kind[c] = "create" /\ pc[c] = "write" /\ alone[c] /\ Served(share[c])
            => conf[share[c]] = Outcome(c)

===============================================================================
