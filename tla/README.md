# SAMFSCON in TLA+

SAMFSCON is a web console for one Samba file server at a time: a FastAPI back
end (`backend/samfscon`) signs an administrator in against the server, keeps a
session with a worker thread and a live SMB/RPC connection, and turns HTTP
requests into srvsvc, winreg, samr and SMB calls. This directory holds TLA+
models of the parts where order, concurrency and failure decide what is right,
the TLC runs that check them, and proofs of the properties that matter most.
Paths below are relative to `backend/samfscon/` unless they begin with
`frontend/`.

## 1. Inventory

| Part | State it keeps | Operations | What is hard | What makes it correct |
|---|---|---|---|---|
| Session store, sign-in, sign-out (`auth/session.py`, `api/v1/auth.py`, `auth/deps.py`) | `_sessions`, their deadlines, ticket file or password buffer | `login`, `logout`, `get`, `drop`, `sweep`, `close_all` | three awaits in `login`, each with its own failure path; request dependencies on pool threads beside the event loop; expiry, logout, sweep and failure all drop | a credential always has an owner; a failed sign-in leaves nothing; a session is dropped once; ids are used once |
| Workers (`core/executor.py`) | a thread and queue per worker, `_closed`, `_workers`, cached handles | `run`, `close`, `ExecutorRegistry.get/drop/shutdown` | a timeout abandons the wait and not the call; `close` against `run`; lookup and creation by id | one open worker per stored session; calls of a session never overlap and never run twice |
| Connection bridge (`srv/access.py`) | the connection in `worker.state` | `srv_read`, `srv_write` | reads run again after a reconnect, writes must not; a write given up goes on | every operation is recorded once |
| Process (`main.py`) | sweeper task | start, sweep, shutdown | shutdown while worker threads still run | abandoned credentials are destroyed |
| Tickets and `krb5.conf` (`auth/kerberos.py`, `auth/krb5conf.py`) | ticket files; the realms known and the file they are written to | `acquire_ticket`, `ensure_realm` | an exchange that outlives its timeout; a write that fails; a configuration made by whoever comes first | no ticket without an owner; every write brings every realm |
| Sign-in throttle, rate limit (`auth/session.py`, `core/ratelimit.py`) | failures per account and per address; when probes were admitted | `check`, `record_failure`, `record_success`; `check` | check and count are two awaits apart; ages and windows | failures are bounded; the wait that is told is enough |
| Discovery and targets (`srv/discovery.py`, `srv/target.py`, `srv/targets.py`) | none | probe, `resolve_target`, `_require_decision` | three sources that each may refuse; gaps filled in an order | a mode nobody chose is the server's; refusals lead somewhere |
| Share configuration (`srv/shares.py`, `srv/registry.py`, `srv/shareconf.py`, `api/v1/shares.py`) | none: the server's registry and what smbd has loaded | create, update, delete, list | many RPCs each, each can fail or lose its reply; other administrators; smbd reads on its own schedule | text shares untouched; success means done; edits merge |
| Global configuration (`srv/globalconf.py`, `api/v1/config.py`) | the `[global]` section | read, judgement, write, verify | judged against values read before the write; three-valued answers; pairs of options of which one half is sent | a change never shuts the console out unless confirmed; verdicts are true |
| Accounts, audit (`srv/accounts.py`, `api/v1/accounts.py`, `core/audit.py`) | users, groups; the audit trail and its file | create with rollback, update, password, delete, members; `record` | one SAMR call per field, partial creation, flags written as one word; an audit file that fails | no usable account without a password; what is reported is done; one entry per operation |
| Permissions (`srv/acl.py`, `srv/shareacl.py`, `api/v1/permissions.py`, `frontend/src/features/permissions/PermissionEditor.tsx`) | security descriptors on the server; the rows of an open editor | read, edit, save, take ownership, effective rights | text that is only partly understood, inheritance, editors that overtake one another, an empty and an unreadable descriptor | nothing inherited is stored; the unreadable is not replaced; reported rights are granted |
| Lists (`srv/shares.py`, `srv/sessions.py`, `srv/accounts.py`) | none | enumerate, close a file, judge whether the registry is served | batches, levels, handles that are given out again, a server that changes between replies | an undisturbed list is complete; a close closes what it says |
| Identity translation (`srv/identity.py`) | the domain's SID and a policy handle, per connection | names to SIDs and back | nothing: one read-only question each | |
| Findings, diagnostics (`core/findings.py`, `srv/diagnostics.py`) | none | rules over what was read | three-valued inputs | unknown is never reported as fine |
| Folders, errors, settings, command line, `core/cache.py` | none that matters | one call each, tables, parsing; the cache is used by nothing | nothing | |
| Web interface (`frontend/src`) | windows, session, drafts | state reducers | an editor whose rows decide what the server is told: modelled with the permissions | |

A request passes through the parts from top to bottom: the dependencies in
`auth/deps.py` find session and worker, the handler calls `srv_read` or
`srv_write`, which submits a function to the worker, which opens or reuses the
connection and calls a `srv/` module. Event loop, pool threads and worker
threads share the store and the registry under locks; the locks cover single
operations, not sequences of them. A worker runs one call at a time, so the
administrators of two sessions interleave between the calls their operations
make to the server, and nowhere else. That is why the modules below the session
layer have administrators with one operation each, and steps that are calls to
the server. `PROJECT.json` lists every component with its status and, under
`hazards`, what is hard to test at its line.

## 2. Modules

| Module | Models | Checked as | Proofs |
|---|---|---|---|
| `SessionLifecycle` | store, workers and registry, login and logout, request dependencies, connection bridge, sweeper, shutdown | `MCSessionLifecycle` | `SessionLifecycleProofs` |
| `SessionContract` | what signing in promises, without threads, queues or workers | as a property of `SessionLifecycle` | `SessionLifecycleProofs` |
| `Resolution` | the functions from a server's answers, settings and form to a target or a refusal | through `SignInForm` and `SignIn` | |
| `SignInForm` | an administrator who submits the form until it is let through | itself | `SignInFormProofs` |
| `SignIn` | throttle, `krb5.conf`, the stretch of `login()` between them, the limiter of the probe | `MCSignIn` | `SignInProofs` |
| `ShareRegistry` | creation, update and deletion of shares against registry, srvsvc and smbd | `MCShareRegistry` | `ShareRegistryProofs` |
| `GlobalConfig` | reading, judging, changing and verifying the `[global]` section | `MCGlobalConfig` | `GlobalConfigProofs` |
| `Accounts` | operations on an account and a group, timeouts, audit trail and file | `MCAccounts` | `AccountsProofs` |
| `Permissions` | descriptors, editors, both write paths, effective rights | `MCPermissions` | `PermissionsProofs` |
| `Listings` | enumerations, what is concluded from them, closing a file | `MCListings` | `ListingsProofs` |

Composition: `SignInForm` and `SignIn` extend `Resolution`, so the sign-ins the
throttle sees go on with exactly the targets resolution accepts.
`SessionLifecycle` has the same `login()` with its workers, tickets and
sessions; there the refusals of resolution and throttle are outcomes of
`AfterResolve`. `Accounts` takes the worker from `SessionLifecycle` as what it
was shown to be: one call at a time per session, which outlives its request.

Operators introduced by a comment "Mutant of X" are plausible mistakes in X.
They are not part of the specification: each is substituted for X to see that
the property named beside it in `PROJECT.json` notices.

### SessionLifecycle and SessionContract

A member of `Sid` is one sign-in attempt and the session it may open (ids are
random, never reused). A member of `Req` is one HTTP request. A worker carries
the name of whoever created it.

| Variable | Code |
|---|---|
| `login`, `answer` | how far `login()` has come, and the result of the `worker.run` it awaits |
| `stored`, `expired` | `SessionStore._sessions` and the sessions in it for which `is_expired` is true |
| `cred`, `kerberos` | the ccache file exists, or the `SessionSecret` holds a password; which of the two |
| `reg`, `pool`, `queue`, `phase`, `conn` | `_workers`; `_closed` and the state of the executor; its queue; how far the thread is with the head job; whether `worker.state` holds a connection |
| `drop`, `closing` | how far a `drop` has come and the worker it closes |
| `loop` | the stretch of a handler the event loop is in the middle of |
| `pc`, `cookie`, `hand`, `op` | a request's progress, session id, worker, and read or write |

One action is one stretch between points where another thread can step in:
between two awaits on the event loop, between two locked operations on a pool
thread, between the three effects of `close()`. `SessionStore.get` is one
action (lookup, expiry test and touch), `ExecutorRegistry.get` two (lookup;
insertion). `session_info`, which calls `registry.get` on the event loop, is a
special case of the request path. `Shutdown` is taken when no handler is under
way because uvicorn lets requests finish before the lifespan ends; worker
threads may still be busy. The ticket exchange is a step that creates the file
and one that writes or removes it, since it runs in the worker whether or not
the handler still waits. Not in this module: the CSRF refusal and the refusal of
a sign-in at the worker limit (no state changes), the audit record, and what an
operation does on the server.

`SessionContract` is the abstract specification: sign-in ids go from none over
opening and open to ended and never back; a request is admitted by an open
session; its operation runs once, and while the session is open no two of its
operations run at the same time. `SessionLifecycle` maps to it with
`ContractState` and `ContractRun`. Operations of an ended session may still run:
the code promises no more, since `close()` lets queued work finish.

### Resolution, SignInForm, SignIn

`Resolution` is a set of functions. A `Question` is a server with what it would
answer, the settings and the form; names and realms are told apart by where they
come from ("reported", "composed", "ptr"; "server's", "given"), never by their
letters. `FoundMode` is `_decide_mode`, `FoundName` the order of srvsvc's name,
`_derive_fqdn` and `_reverse_lookup`, `Enriched` how a probe fills gaps,
`Refusal` the refusals of `resolve_target`, `_require_decision` and their order.
What servers answer (`DnsReplies`, the refusals per query) is external.

`SignInForm` has one administrator and three variables: the question, the
outcome, the number of refusals. `Submit` is one `resolve_target`; `SayMode`,
`SayRealm` and `SayName` do what the hint of a refusal asks for.

In `SignIn`, `failures` is `LoginThrottle._failures`, `conf` and `file` are
`Krb5Configuration` and what `krb5.conf` says, `setting` is `SAMFSCON_REALM`,
`bucket` the limiter's window for one address. `Begin` is resolution and
`throttle.check`, `Register` the making of the configuration and `ensure_realm`,
`Ticket` the exchange, `Connect` the first connection; each awaits the next.
Time is kept as ages that stop counting when they no longer matter. `Left` and
`Fresh` are the limiter's loop: probes are dropped from the front of the window
as long as they are too old. The key
distribution centres of a realm, the same for every realm of one configuration,
are left out, and so is the switch that turns the throttle off.

### ShareRegistry

The server: `text` (shares of the text smb.conf), `included` (`registry shares
= yes`), `key` and `conf` (keys and values under `smbconf`), `srvsvc` (the path
srvsvc reports, `None` for a share smbd does not serve). `Reload` is smbd
re-reading one share whenever it likes. The server side is external to the
repository and modelled from what the comments and calls of `srv/shares.py` and
`srv/registry.py` expect of it.

A call goes through the stages of `pc`: `LookUp` (`_exists` or
`NetShareGetInfo`), for an update `ReadStored` (`read_options`, the editable
test, the comparison of the path), `OpenKey` (`CreateKey`), `ReadValues`
(`_enumerate_values`, which may stop early and then returns what it has),
`SkipValue`/`WriteValue` per field in the order of the code, `Confirm`,
`Rollback`, `Remove`. Every call to the server can fail, with or without having
taken effect. `before`, `alone` and `sure` are history variables that only the
properties read. Values are compared, never parsed. The comment of a share is
left out: an update treats it as it treats the path. Initially a text share has
no key; otherwise the registry holds anything, keys without a path and stale
srvsvc answers included.

### GlobalConfig

`stored` is the section, with one option of each kind the catalogue has: the two
ends of the dialect window, the two hosts lists, the server string (the one
option a report of srvsvc can be compared with), one that is shown and never
written, one that is not written on a member, one that only a member has. A
hosts list is what it names and what its EXCEPT takes away; a name is an entry
the console cannot decide, and `resolves` whether it stands for this console.
`live` is what smbd reports, `Reload` its re-reading.

`op[a].at` runs through `ReadSections`, `ReadStored`, `Judge` (validation and
`_check_hosts` with the values just read), `Open`, `Skip`/`Write` per option,
`Verify`, `Answer`. A request without options is the GET. `Admitted` is smbd's
rule for the two lists, against which the console's own verdict is judged.

### Accounts

`sam` is one account name with what it stands for (a name deleted and made again
has another rid), `group` the members of one group, `op[a]` the operation of
administrator `a` with the list of calls it still has to make. `create_user`,
`update_user`, `set_password`, `delete_user` and `set_members` are those lists;
`Answered`, `Skipped` and `Failed` carry one call out, pass it over, or have it
fail with or without effect; `Failed` takes a half-made account back
(`RollsBack`). `GiveUp` is the timeout of the request. `trail` is what stdout
has of the audit log, `file` the audit file, `degraded` that it failed once.

### Permissions

`dir` and `shareAces` are the two descriptors, `parent` what the directory above
hands down. A mask is a set of rights; `odd` says that the text of an entry has
letters the parser does not know, `condition` that the expression which finds
entries passes it over; `Found` is where that expression finds one, and `At`
what stands at a set of places, in order. An editor loads (`parse`), has its rows edited (`SetPreset`,
`RemoveRow`, `AddRow`, `ToggleProtected`), and saves in two steps: the worker
reads the descriptor for the audit log, then replaces it. `buildSddl` is the web
interface's rendering, `to_descriptor` the two refusals of the parser,
`TakeOwnership` the claim with its text that is an owner and nothing else.
`Granted` is the reference for rights: MS-DTYP's walk over the entries in order.

### Listings

`entries` are what a server has to list, `list` the enumeration under way with
its purpose, level, resume handle, what it has found and how many that is (the
list's length: an entry that is met twice counts twice). `Change` takes an entry
away, adds one, or changes the registry's sections. `Page` is one reply with a
batch of any size; the number in a reply is the total for srvsvc and the
batch for samr (`Total`); `Fallback` is the next level after
`WERR_INVALID_LEVEL`; `Conclude` is `registry_shares_served`; `CloseFile` is the
close of a picked file, whose id the handler looks up in a fresh list first.
Shares, sessions, connections and files are one kind of entry.

## 3. What the runs show

| Run | Instance | Distinct states | Shows |
|---|---|---|---|
| `session_safety` | 2 sign-ins, 2 requests, 2 worker slots | 1.5 million | a stored session has one worker; credentials have owners; a failed sign-in leaves nothing; destroyed credentials stay gone |
| `session_contract` | 1 session, 2 requests | 20 000 | `ImplementsContract`: the refinement of `SessionContract`; `AbandonedCredentialsDestroyed` |
| `share_configuration` | 1 share, 2 calls, 1 option beside the path, 2 values | 5.2 million | no key shadows a text share; edits of different fields merge; an undisturbed call that reports success did what it was asked |
| `global_configuration` | 2 administrators, 3 dialects, lists for each branch of the hosts check | 1.4 million | judged changes keep this console connected; the registry is said to be read only where it is |
| `local_accounts` | 2 administrators, 2 operations, 1 text, 1 member | 1.8 million | no usable account without a password; half-made accounts are taken back; what is reported is done; one audit entry each, and a file without gaps |
| `permission_editing` | 2 editors, 2 trustees, 2 rights, 1 edit each | 1.0 million | inheritance is not frozen; the unreadable is not replaced; a save nobody overtook stores what was shown; reported rights are granted; ownership is offered on a refusal only |
| `server_listings` | up to 4 entries, 2 names, 2 levels, 2 changes | 800 000 | undisturbed lists are complete and at the best level; closes and verdicts are right |
| `target_resolution` | every server, form, configuration and setting | 185 000 | a mode nobody chose is the server's; reverse DNS yields; refusals lead in |
| `sign_in_limits` | 2 sign-ins, 2 accounts, 1 address, limits of 2 | 1.4 million | failures are bounded; the wait that is told is enough; every write of `krb5.conf` brings all realms |
| `shutdown_credentials` | as `session_contract` | | finding: a ticket exchange that outlived its timeout leaves a ticket nobody removes |
| `empty_window` | as `global_configuration` | | finding: a floor sent alone is not compared with the stored ceiling |
| `first_sign_in` | as `sign_in_limits` | | finding: with `SAMFSCON_REALM` set the first sign-in of a member fails, and the realm is never registered |

The last three contradict a sentence of the repository and are described under
`findings` in `PROJECT.json`, with the line and the sentence.

**Bounds.** The hazards need two of something and no more: two sign-ins compete
for worker slots and the event loop, two requests for one worker or its
creation, two operations for one share, section, account or descriptor. (A third
request in `session_contract`, so that one waits while one runs and one is
abandoned, was checked as well; it takes three minutes.) Calls on different
shares, accounts or descriptors share no state. Two values tell "changed by the
other" from "as asked"; three dialects make a window that can be empty, and a
console floor inside it; four entries make a list of several batches with room
for a change. `MaxCalls`, `MaxEdits` and `MaxChanges` bound operations begun,
edits made and server changes; `Servers`, `Requests`, `Tokens`, `Sendable`,
`Held`, `Handed` and `Standing` choose the inputs. `MCRequests` has, for each
test of the judgement, values on both sides of it; `MCTokens` has each
confirmation with and without its being needed. `MCHeldOddly` and
`MCHeldBelow` are alternative values for `Held`, with entries the parser does not
understand and entries for what lies below; all properties hold for them too.
`target_resolution` has no bound: it enumerates all questions. Queues,
counters of failures and the trail need none. Ages stop at one past the limit.
Deadlock checking is off where the modelled activity ends because each request
or operation is made once; `SignIn` goes on for ever and is checked for deadlock.

**Fairness** (`session_contract` only). `Expire`: time passes. `Sweep`: the
sweeper task wakes every `SWEEP_INTERVAL_SECONDS` and catches every exception
(`main.py`). `DropStep` and `Submit`: a function that has started returns; none
of their steps waits. Nothing is assumed of the worker threads, of users or of
the file server, so the property holds also when a worker hangs forever in a
call, which is what it is about.

## 4. What is proved

Checked by TLAPS for every value of the constants, under the assumption named in
each module. `ActorsAssumption`, `ShareAssumption`, `SignInAssumption`,
`AccountsAssumption` and `PermissionsAssumption` keep names apart, sets of actors
finite and limits positive; `ListingsAssumption` says that handles are positive
numbers and that there is a level to begin with; `SignInForm` has no constants;
`GlobalAssumption` also says that a request is a dictionary (an option is in it
once) whose values have passed `_validate_one`. Bounds on operations are among
the constants, so the theorems hold for any number of them.

*Sessions.* `SessionInv` is inductive: `TypeOK`; `RequestsInv` (a request
carries the id of a signed-in session and holds a worker of that session; it
makes a worker only for a session that is gone); `WorkersInv` (a drop has popped
its session and closes a worker of that session); `LoginInv` (a session is
stored only between the handler's `store.create` and a drop, and keeps the
worker of its sign-in until then); `TicketInv` (only a sign-in that waits for
its ticket or gave up on it has `kinit` in a queue); `CredentialHasOwner`. The
safety properties are not inductive alone: that credentials never come back
needs to know which queue can still hold a `kinit`, and that a stored session
has one worker needs to know when a request can miss. From it: `TypeCorrect`,
`OneWorkerPerStoredSession`, `CredentialsAreOwned`, `FailureLeavesNothing`, and
the action property `NoCredentialComesBack`. One lemma per action; facts about
queues come first.

*The contract.* `ContractImplemented` proves the refinement, `Spec =>
ImplementsContract`, for any number of sign-ins and requests. It needs two
invariants more: `QueuesInv` (an operation is queued once, on the worker its
request was handed, as long as the request waits or has given up; a busy thread
has a job) and `HandedInv` (a handed worker has been created). The steps fall
into a few kinds by what the contract can see of them: the queues stay as they
are (`CalmKeeps`), a request without an operation moves (`RequestMoves`), a
thread takes its head job or ends it (`PhaseMoves`, `FinishMoves`). That an
operation which begins is the only one running of a stored session is
`OneBusyWorker`: whoever has one of its operations queued is the worker of its
sign-in, since the workers requests make belong to sessions that are gone.

*Shares.* `ShareInv` adds to the properties `ProgressInv` (which stage belongs
to which kind of call; only a call that found its share outside smb.conf opens a
key) and `EditInv` (a field that only one update touches holds what that update
read until it writes it and what it asked for afterwards). From it:
`ShareTypeCorrect`, `TextSharesAreNotShadowed`, `ConcurrentEditsAreKept`, for
any number of calls and administrators. `AloneInv` follows a call that runs
alone: no call under way is about its share, and `OnItsWay` says that before the
first write the section is what the call found, that a field which is no longer
on the list of what is left to do is as it will be in the end, and that one
which is still on it holds what `ReadValues` saw. That last part is what makes
it right to pass a field over because the value read is the one asked for
(`SkipValue`). From it `ReportedCallsAreDone`, for updates and deletions, whatever
failed and was made again on the way.

*Sign-in.* The limit on failures is not inductive, since a failure is counted
when a sign-in ends: `LimitInv` counts sign-ins under way as if they had failed
already, and the argument is about the size of the set of sign-ins a key has
pending (`FailuresBounded`, for any number of them). `FileInv` (the file has no
realm the configuration does not know) is what makes a rewrite lose nothing
(`WritesBringAll`). For the limiter, `WaitInv` is an equation: what a refused
probe was told and the age of the oldest probe in the window add up to one more
than the window, and both change with time. When the wait is over the oldest
probe is too old, and dropping it makes room (`WaitingHelps`).

*The form.* `FormInv`: what is on the screen is what the form as it stands leads
to (`OutcomeInv`), and no refusal is met twice (`RefusalsInv`): each one that
was answered put a mode, a realm or a name into the form, which nothing takes
out again, so there are three at most (`ThreeRefusalsAtMost`). That a mode nobody
chose is the server's (`UnchosenModeIsTheServers`) and that reverse DNS yields
(`ReverseDnsComesLast`) are facts about `Resolution` for every question. The run
enumerates the same questions; the proofs say which answers of the server they
rest on.

*Accounts.* `DoorInv` says what an operation that has its account knows of it: a
creation about to write the flags has set a password, an update that has read
the flags knows an account without a password to be disabled, and a rid that was
taken back is gone. It needs the order of the calls that are left (`InOrder`)
and that rids are not given out again. From it `NoDoorIsOpened` and
`FailedCreationIsTakenBack`. `SoFarInv` is about an operation nobody disturbs
and of which no call failed: what it does not still have to do is as asked.
Its list has exactly the calls its request comes to (`CallsOf`), so at the end,
when the list is empty, everything is as asked; members are added before any is
removed, so that one who is on both lists ends outside (`WhatIsReportedIsDone`).
`RequestsRecordedOnce` is an argument about the size
of the set of operations still waited for; `AuditFileIsPrefix` is inductive as it
stands.

*Global section.* `ChangeInv` carries the judgement from the read to the last
write: a change that may open the section passed the tests with what it read
(`Judged`), what it read is what is stored until it writes (`UpToDate`), and
while it writes, the options it has come past have what was sent and the others
what it read (`Written`). At the end the section is the one that was judged,
and `HostsKept` follows from comparing the console's verdict with smbd's rule,
`DialectsKept` from the two tests of the window. `LiveInv` (a server that does not
read its registry reports what its text file comes to) gives
`ConfirmationIsTrue`.

*Permissions.* What the parser finds in a descriptor is the descriptor with
entries left out: `ParseEmbeds` gives the order-preserving map, so that entries
in the canonical order (denying ones first) are still in that order after it
(`ParseKeepsOrder`). `MaskIsGranted` shows, for descriptors of any length, that
the console's deny-wins mask names only rights which the walk over the entries
grants, and all of them when the order is canonical; both are about the entries
the parser finds, and need them to be for the object itself (`EffectiveRights`). `FrozenInv` says that the directory and the rows of
its editors have no entry of the parent's kind that is not marked as inherited;
it has to be about the rows as well, since a save writes what a load saw long
ago (`NothingInheritedStored`). `ReadableInv` (no editor of an unreadable share
descriptor is open) and `OwnerInv` (an editor that was not overtaken holds the
owner the directory has) give the two action properties, `UnreadableStays` and
`SavesAreAsShown`. `OfferFollowsRefusal` needs no more than the types.

*Lists.* `CompleteInv`: as long as nothing changes on the server, an enumeration
has found exactly the entries up to its resume handle, each counted once. An
enumeration ends in one of three ways (an empty batch, a handle that is zero or
does not move, a count that reaches the total), and each of them then means that
there is nothing after the handle (`NothingMissing`). `LevelIsBest` is inductive.
`SectionsInv` (the sections read first are still those of the registry) gives
`VerdictIsCertain`. `CloseClosesWhatItSays` holds for any server that gives handles
out again; that the file is also the one the answer names needs the list to be
complete.

Where a proof needs induction over a length, it takes the least counterexample
instead (`Least`), since the induction theorems of the library take an operator
the provers cannot instantiate.

*Only model-checked:* `AbandonedCredentialsDestroyed`, because liveness under
fairness is out of the prover's reach. Every other property of the passing runs
is also a theorem. The findings, and the statements of the next section, are
refuted by runs and have no proof.

## 5. What the code does besides

Some comments of the code say more than the code does. Three of them are
findings above. The others are stated in the modules under "What the comments of
the code say, and the code does not do" and are in no run; adding the name to the
`.cfg` of the module's run shows TLC's counterexample.

| Statement | Module | What happens |
|---|---|---|
| `RefusedNameLeavesNoWorker` | `SessionLifecycle` | a user name refused between two `try` blocks of `login` leaves a worker registered for good |
| `EndedSessionHasNoWorker` | `SessionLifecycle` | a request between its two dependencies makes a worker for a session that has ended |
| `HandlesReleasedBeforeCredentials` | `SessionLifecycle` | `drop` destroys the credentials before the worker has released its handles |
| `ShutWorkerReleasesHandle` | `SessionLifecycle` | an operation submitted inside `close()` opens a connection nothing closes |
| `DeletedShareIsGone` | `ShareRegistry` | deleting a share of the text smb.conf reports success |
| `RollbackSparesOthers` | `ShareRegistry` | a failed creation deletes configuration that was there before |
| `ServedWithItsOptions` | `ShareRegistry` | a share is served before its restrictions are written |
| `IdleSaveChangesNothing` | `Permissions` | with `MCHeldOddly`: a save of unchanged rows drops what the parser did not understand |
| `ClaimReachesServer` | `Permissions` | the text of a claim of ownership has no DACL and is refused by the console's own parser |
| `OnlyWhatWasSent` | `Accounts` | flags that were not sent are written back as they were read |
| `TrailNamesMembers` | `Accounts` | the handler fills keys of the audit record that `AuditLog` never reads |
| `EveryAccountIsListed` | `Listings` | the buffer size of the samr enumerations is one the binding does not marshal |

Seen on the way, and in no module as a statement of its own:

- In `kerberos_host` a name from reverse DNS outranks the NetBIOS name with a
  typed realm (`srv/target.py:99`), although `_reverse_lookup` calls itself the
  last source (`srv/discovery.py:433`).
- The hint of a missing realm, "or sign in as user@REALM"
  (`srv/targets.py:247`), does not help: `resolve_target` never sees the user
  name.
- A member of an NT4 domain that refuses the DNS query is taken for a member of
  a realm and asked for one. A domain controller, whose account domain is its
  domain, would be decided standalone; it is not among the model's servers.
- The throttle's count by account also pauses sign-ins from other addresses.
- The rate limiter's cleanup removes empty buckets, of which there are none.
- The four audit calls that set keys `AuditLog` does not read are in
  `api/v1/accounts.py`, `permissions.py`, `sessions.py` and `shares.py`.

## 6. Not modelled

- The Samba bindings and the wire formats (`srv/connection.py`, the candidates
  for call shapes in `srv/registry.py`): what a call does on the server is in the
  modules, how it is marshalled is not.
- Identity translation and folders: one read-only call, or one call, per
  request, and no state that a second request could find changed.
- Findings and diagnostics: rules without state over what was just read. Their
  inputs' three values (readable, unreadable, absent) are modelled where they
  decide a write, in `GlobalConfig`, `Permissions` and `Listings`.
- Error tables, settings, the command line, packaging: no state, no order.
- `core/cache.py`: nothing in the program uses it.
- The web interface except the permission editor: window placement, language,
  drafts, views and styling.
- The option catalogues of `srv/globalconf.py` and `srv/shareconf.py` beyond one
  option of each kind, and the parsing of single values: a rule per option, each
  of which a unit test reaches.
- Of the audit log, redaction and rotation; of the sign-in, the choice between
  the two ways to get a ticket and the parsing of `klist`.
