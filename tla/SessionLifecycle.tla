--------------------------- MODULE SessionLifecycle ---------------------------
(***************************************************************************)
(* Sign-in, requests, sign-out and expiry of SAMFSCON sessions: the        *)
(* SessionStore (auth/session.py), the ExecutorRegistry with one           *)
(* SessionWorker thread per session (core/executor.py), the login and      *)
(* logout handlers (api/v1/auth.py), the request dependencies              *)
(* (auth/deps.py), the connection cached on the worker (srv/access.py) and *)
(* the sweeper and shutdown of main.py.                                    *)
(*                                                                         *)
(* Three kinds of thread take steps.  The event loop runs one handler      *)
(* segment at a time; the variable loop names the one it is in the middle  *)
(* of, so that other threads interleave with it and other handlers do not. *)
(* Request dependencies are plain functions, so they run on pool threads.  *)
(* Each worker thread runs the jobs of its own queue in order.             *)
(*                                                                         *)
(* A session id is drawn fresh for each sign-in attempt, so a member of    *)
(* Sid is one attempt and the session it may open.  A worker is named by   *)
(* who created it: the sign-in s, or a request r that found none.          *)
(***************************************************************************)
EXTENDS Naturals, Sequences, FiniteSets

CONSTANTS
    Sid,          \* session ids, one per sign-in attempt
    Req,          \* requests, each made once
    None,         \* no session, no worker, an idle event loop
    MaxSessions   \* ExecutorRegistry.max_sessions

ASSUME ActorsAssumption ==
    /\ Sid \cap Req = {}
    /\ {"resolve", "kinit", "connect", "cleanup", "none"} \cap Req = {}
    /\ None \notin Sid \cup Req
    /\ MaxSessions \in Nat \ {0}

Worker == Sid \cup Req

\* What a worker's queue can hold: the three calls of a sign-in, the cleanup
\* that close() submits, and the operation of a request.
Job == {"resolve", "kinit", "connect", "cleanup"} \cup Req

LoginStage == {"idle", "resolving", "ticket", "connecting", "signed_in", "failed",
               "bad_name", "timed_out"}
PoolStage == {"unborn", "open", "closed", "cleaned", "shut"}
DropStage == {"no", "unregister", "cleanup", "shutdown", "credentials"}
RequestStage == {"idle", "session", "miss", "handed", "submitting", "waiting",
                 "unauthorised", "refused", "timed_out", "done"}

VARIABLES
    up,        \* the process is serving
    login,     \* login[s]: how far the login handler of s has come
    kerberos,  \* the sessions whose target is a domain member
    stored,    \* SessionStore._sessions
    expired,   \* stored sessions whose expires_at has passed
    cred,      \* sessions whose ticket file or password buffer exists
    reg,       \* reg[s]: ExecutorRegistry._workers, None when absent
    pool,      \* pool[w]: "unborn", "open", "closed", "cleaned" or "shut"
    queue,     \* queue[w]: jobs submitted to the worker's thread
    phase,     \* phase[w]: how far the thread is with the head of its queue
    conn,      \* workers with a connection in worker.state
    answer,    \* answer[s]: what the login's last worker call returned
    drop,      \* drop[s]: how far a drop of s has come
    closing,   \* closing[s]: the worker that drop is closing
    loop,      \* the handler the event loop is in the middle of
    pc,        \* pc[r]: how far a request has come
    cookie,    \* cookie[r]: the session id the request carries
    hand,      \* hand[r]: the worker the dependency handed to the request
    op         \* op[r]: "read" (srv_read) or "write" (srv_write)

loginVars  == <<login, kerberos, answer>>
storeVars  == <<stored, expired, cred>>
workerVars == <<pool, queue, phase, conn>>
dropVars   == <<drop, closing>>
reqVars    == <<pc, cookie, hand, op>>
vars == <<up, loginVars, storeVars, reg, workerVars, dropVars, loop, reqVars>>

\* The session a worker belongs to.
Owner(w) == IF w \in Sid THEN w ELSE cookie[w]

Head1(w) == IF queue[w] = <<>> THEN "none" ELSE Head(queue[w])

Registered == {s \in Sid : reg[s] # None}

Init ==
    /\ up = TRUE
    /\ login = [s \in Sid |-> "idle"]
    /\ kerberos = {} /\ stored = {} /\ expired = {} /\ cred = {} /\ conn = {}
    /\ reg = [s \in Sid |-> None]
    /\ pool = [w \in Worker |-> "unborn"]
    /\ queue = [w \in Worker |-> <<>>]
    /\ phase = [w \in Worker |-> "waiting"]
    /\ answer = [s \in Sid |-> "none"]
    /\ drop = [s \in Sid |-> "no"]
    /\ closing = [s \in Sid |-> None]
    /\ loop = None
    /\ pc = [r \in Req |-> "idle"]
    /\ cookie = [r \in Req |-> None]
    /\ hand = [r \in Req |-> None]
    /\ op = [r \in Req |-> "read"]

-------------------------------------------------------------------------------
(* Dropping a session: SessionStore.drop, ExecutorRegistry.drop and          *)
(* SessionWorker.close.  A drop started on the event loop holds it.          *)

\* Mutant of Pop: the deadline of a session outlives it.
PopKeepingDeadline(s) ==
    /\ stored' = stored \ {s}
    /\ UNCHANGED expired
    /\ drop' = [drop EXCEPT ![s] = "unregister"]

\* Pop the session from the store.  Whoever pops it does the rest.
Pop(s) ==
    /\ stored' = stored \ {s}
    /\ expired' = expired \ {s}
    /\ drop' = [drop EXCEPT ![s] = "unregister"]

\* registry.drop(id): pop the worker and set its _closed flag.
Unregister(s) ==
    /\ drop[s] = "unregister"
    /\ reg' = [reg EXCEPT ![s] = None]
    /\ closing' = [closing EXCEPT ![s] = reg[s]]
    /\ IF reg[s] = None
       THEN /\ drop' = [drop EXCEPT ![s] = "credentials"]
            /\ UNCHANGED pool
       ELSE /\ drop' = [drop EXCEPT ![s] = "cleanup"]
            /\ pool' = [pool EXCEPT ![reg[s]] = "closed"]
    /\ UNCHANGED <<up, loginVars, storeVars, queue, phase, conn, loop, reqVars>>

\* close(): hand the closing of the connection to the worker's own thread.
SubmitCleanup(s) ==
    /\ drop[s] = "cleanup"
    /\ drop' = [drop EXCEPT ![s] = "shutdown"]
    /\ pool' = [pool EXCEPT ![closing[s]] = "cleaned"]
    /\ queue' = [queue EXCEPT ![closing[s]] = Append(@, "cleanup")]
    /\ UNCHANGED <<up, loginVars, storeVars, reg, phase, conn, closing, loop, reqVars>>

\* close(): shutdown(wait=False) refuses new work and leaves the queue alone.
ShutPool(s) ==
    /\ drop[s] = "shutdown"
    /\ drop' = [drop EXCEPT ![s] = "credentials"]
    /\ pool' = [pool EXCEPT ![closing[s]] = "shut"]
    /\ UNCHANGED <<up, loginVars, storeVars, reg, queue, phase, conn, closing, loop, reqVars>>

\* Mutant of DestroyCredentials: the password buffer is forgotten.
DestroyTicketOnly(s) ==
    /\ drop[s] = "credentials"
    /\ drop' = [drop EXCEPT ![s] = "no"]
    /\ closing' = [closing EXCEPT ![s] = None]
    /\ cred' = IF s \in kerberos THEN cred \ {s} ELSE cred
    /\ loop' = IF loop = s THEN None ELSE loop
    /\ UNCHANGED <<up, loginVars, stored, expired, reg, workerVars, reqVars>>

\* drop(), and _fail of the login handler: unlink the ticket, clear the password.
DestroyCredentials(s) ==
    /\ drop[s] = "credentials"
    /\ drop' = [drop EXCEPT ![s] = "no"]
    /\ closing' = [closing EXCEPT ![s] = None]
    /\ cred' = cred \ {s}
    /\ loop' = IF loop = s THEN None ELSE loop
    /\ UNCHANGED <<up, loginVars, stored, expired, reg, workerVars, reqVars>>

DropStep(s) ==
    Unregister(s) \/ SubmitCleanup(s) \/ ShutPool(s) \/ DestroyCredentials(s)

-------------------------------------------------------------------------------
(* The worker thread.                                                        *)

\* The head job is finished; a waiting login learns its outcome and a waiting
\* request is done.  Nobody waits for a call that timed out.
Finish(w, outcome) ==
    LET j == Head(queue[w]) IN
    /\ queue' = [queue EXCEPT ![w] = Tail(@)]
    /\ phase' = [phase EXCEPT ![w] = "waiting"]
    /\ answer' = IF w \in Sid /\ j \notin Req
                 THEN IF login[w] \in {"resolving", "ticket", "connecting"} /\ j # "cleanup"
                      THEN [answer EXCEPT ![w] = outcome] ELSE answer
                 ELSE answer
    /\ pc' = IF j \in Req /\ pc[j] = "waiting" THEN [pc EXCEPT ![j] = "done"] ELSE pc

\* targets.resolve_target: the network probe, whatever it finds.
RunResolve(w) ==
    /\ Head1(w) = "resolve"
    /\ \E outcome \in {"ok", "error"} : Finish(w, outcome)
    /\ UNCHANGED <<up, login, kerberos, storeVars, reg, pool, conn, dropVars, loop,
                   cookie, hand, op>>

\* kerberos.acquire_ticket refuses (no password, no realm, configuration not
\* writable) before it touches the cache file ...
RefuseKinit(w) ==
    /\ Head1(w) = "kinit" /\ phase[w] = "waiting"
    /\ Finish(w, "error")
    /\ UNCHANGED <<up, login, kerberos, storeVars, reg, pool, conn, dropVars, loop,
                   cookie, hand, op>>

\* ... or creates the file (O_CREAT, 0600) and asks the KDC ...
BeginKinit(w) ==
    /\ Head1(w) = "kinit" /\ phase[w] = "waiting"
    /\ phase' = [phase EXCEPT ![w] = "running"]
    /\ cred' = cred \cup {Owner(w)}
    /\ UNCHANGED <<up, loginVars, stored, expired, reg, pool, queue, conn, dropVars,
                   loop, reqVars>>

\* ... and the ticket is written, creating the file again if somebody removed
\* it meanwhile, or the request fails and the file is destroyed.
EndKinit(w) ==
    /\ Head1(w) = "kinit" /\ phase[w] = "running"
    /\ \/ cred' = cred \cup {Owner(w)} /\ Finish(w, "ok")
       \/ cred' = cred \ {Owner(w)} /\ Finish(w, "error")
    /\ UNCHANGED <<up, login, kerberos, stored, expired, reg, pool, conn, dropVars,
                   loop, cookie, hand, op>>

Operation(w) == Head1(w) \in Req \cup {"connect"}

\* srv_read applies to the sign-in's own connect as well as to reads.
Retried(w) == Head1(w) = "connect" \/ (Head1(w) \in Req /\ op[Head1(w)] = "read")

\* _connection: reuse the cached connection or open one.  Opening needs the
\* credentials; without them, or when the server refuses, the call has failed.
BeginOperation(w) ==
    /\ Operation(w) /\ phase[w] = "waiting"
    /\ \/ /\ w \in conn \/ Owner(w) \in cred
          /\ conn' = conn \cup {w}
          /\ phase' = [phase EXCEPT ![w] = "running"]
          /\ UNCHANGED <<queue, answer, pc>>
       \/ /\ w \notin conn
          /\ Finish(w, "error")
          /\ UNCHANGED conn
    /\ UNCHANGED <<up, login, kerberos, storeVars, reg, pool, dropVars, loop,
                   cookie, hand, op>>

\* srv_read only: the server dropped the connection; _reconnect closes the
\* stale one, opens another and the operation runs once more.
Reconnect(w) ==
    /\ Operation(w) /\ phase[w] = "running" /\ Retried(w)
    /\ \/ /\ Owner(w) \in cred
          /\ phase' = [phase EXCEPT ![w] = "again"]
          /\ UNCHANGED <<queue, conn, answer, pc>>
       \/ /\ conn' = conn \ {w}
          /\ Finish(w, "error")
    /\ UNCHANGED <<up, login, kerberos, storeVars, reg, pool, dropVars, loop,
                   cookie, hand, op>>

EndOperation(w) ==
    /\ Operation(w) /\ phase[w] \in {"running", "again"}
    /\ \E outcome \in {"ok", "error"} : Finish(w, outcome)
    /\ UNCHANGED <<up, login, kerberos, storeVars, reg, pool, conn, dropVars, loop,
                   cookie, hand, op>>

\* close()'s _cleanup, on the thread that opened the connection.
RunCleanup(w) ==
    /\ Head1(w) = "cleanup"
    /\ conn' = conn \ {w}
    /\ Finish(w, "ok")
    /\ UNCHANGED <<up, login, kerberos, storeVars, reg, pool, dropVars, loop,
                   cookie, hand, op>>

WorkerStep(w) ==
    \/ RunResolve(w) \/ RefuseKinit(w) \/ BeginKinit(w) \/ EndKinit(w)
    \/ BeginOperation(w) \/ Reconnect(w) \/ EndOperation(w) \/ RunCleanup(w)

-------------------------------------------------------------------------------
(* The login handler, one action per stretch between two awaits.             *)

LoopFree == up /\ loop = None

\* registry.get for a new id, then the call that resolves the target.
StartLogin(s) ==
    /\ LoopFree /\ login[s] = "idle"
    /\ Cardinality(Registered) < MaxSessions
    /\ login' = [login EXCEPT ![s] = "resolving"]
    /\ reg' = [reg EXCEPT ![s] = s]
    /\ pool' = [pool EXCEPT ![s] = "open"]
    /\ queue' = [queue EXCEPT ![s] = <<"resolve">>]
    /\ UNCHANGED <<up, kerberos, storeVars, phase, conn, answer, dropVars, loop, reqVars>>

\* A sign-in that fails before store.create: the worker is dropped, and the
\* ticket file with it.  The event loop stays with it until that is done.
FailLogin(s) ==
    /\ login' = [login EXCEPT ![s] = "failed"]
    /\ drop' = [drop EXCEPT ![s] = "unregister"]
    /\ loop' = s
    /\ UNCHANGED <<kerberos, stored, expired, cred, queue>>

\* store.create and the submission of the first connection.
OpenSession(s) ==
    /\ login' = [login EXCEPT ![s] = "connecting"]
    /\ stored' = stored \cup {s}
    /\ queue' = [queue EXCEPT ![s] = Append(@, "connect")]
    /\ UNCHANGED <<expired, drop, loop>>

\* The target is resolved.  parse_principal may raise outside every handler
\* that drops the worker; the throttle may refuse; a domain member needs a
\* ticket; a standalone session keeps the password.
AfterResolve(s) ==
    /\ LoopFree /\ login[s] = "resolving" /\ answer[s] # "none"
    /\ answer' = [answer EXCEPT ![s] = "none"]
    /\ \/ FailLogin(s)
       \/ /\ answer[s] = "ok"
          /\ login' = [login EXCEPT ![s] = "bad_name"]
          /\ UNCHANGED <<kerberos, storeVars, queue, drop, loop>>
       \/ /\ answer[s] = "ok"
          /\ login' = [login EXCEPT ![s] = "ticket"]
          /\ kerberos' = kerberos \cup {s}
          /\ queue' = [queue EXCEPT ![s] = Append(@, "kinit")]
          /\ UNCHANGED <<storeVars, drop, loop>>
       \/ /\ answer[s] = "ok"
          /\ OpenSession(s)
          /\ cred' = cred \cup {s}
          /\ UNCHANGED kerberos
    /\ UNCHANGED <<up, reg, pool, phase, conn, closing, reqVars>>

AfterTicket(s) ==
    /\ LoopFree /\ login[s] = "ticket" /\ answer[s] # "none"
    /\ answer' = [answer EXCEPT ![s] = "none"]
    /\ \/ answer[s] = "error" /\ FailLogin(s)
       \/ answer[s] = "ok" /\ OpenSession(s) /\ UNCHANGED <<kerberos, cred>>
    /\ UNCHANGED <<up, reg, pool, phase, conn, closing, reqVars>>

\* store.drop in the event loop; a session that is already gone is left alone.
DropOnLoop(s) ==
    IF s \in stored
    THEN Pop(s) /\ loop' = s
    ELSE UNCHANGED <<stored, expired, drop, loop>>

\* Mutant of AfterConnect: a failed first connection leaves the session stored.
AfterConnectWithoutDrop(s) ==
    /\ LoopFree /\ login[s] = "connecting" /\ answer[s] # "none"
    /\ answer' = [answer EXCEPT ![s] = "none"]
    /\ login' = [login EXCEPT ![s] = IF answer[s] = "ok" THEN "signed_in" ELSE "failed"]
    /\ UNCHANGED <<up, kerberos, storeVars, reg, workerVars, dropVars, loop, reqVars>>

\* The first connection was made, or the session is dropped again.
AfterConnect(s) ==
    /\ LoopFree /\ login[s] = "connecting" /\ answer[s] # "none"
    /\ answer' = [answer EXCEPT ![s] = "none"]
    /\ \/ /\ answer[s] = "ok"
          /\ login' = [login EXCEPT ![s] = "signed_in"]
          /\ UNCHANGED <<stored, expired, drop, loop>>
       \/ /\ answer[s] = "error"
          /\ login' = [login EXCEPT ![s] = "failed"]
          /\ DropOnLoop(s)
    /\ UNCHANGED <<up, kerberos, cred, reg, workerVars, closing, reqVars>>

\* Mutant of LoginTimeout: a KDC that is slow to answer does not end the sign-in.
LoginTimeoutGoesOn(s) ==
    /\ LoopFree /\ answer[s] = "none" /\ login[s] = "ticket"
    /\ OpenSession(s)
    /\ UNCHANGED <<up, kerberos, cred, reg, pool, phase, conn, answer, closing, reqVars>>

\* wait_for gives up on the worker; the job goes on.
LoginTimeout(s) ==
    /\ LoopFree /\ answer[s] = "none"
    /\ \/ login[s] = "resolving" /\ FailLogin(s)
       \/ /\ login[s] = "ticket"
          /\ login' = [login EXCEPT ![s] = "timed_out"]
          /\ drop' = [drop EXCEPT ![s] = "unregister"]
          /\ loop' = s
          /\ UNCHANGED <<kerberos, storeVars, queue>>
       \/ /\ login[s] = "connecting"
          /\ login' = [login EXCEPT ![s] = "failed"]
          /\ DropOnLoop(s)
          /\ UNCHANGED <<kerberos, cred, queue>>
    /\ UNCHANGED <<up, reg, pool, phase, conn, answer, closing, reqVars>>

LoginStep(s) ==
    StartLogin(s) \/ AfterResolve(s) \/ AfterTicket(s) \/ AfterConnect(s) \/ LoginTimeout(s)

-------------------------------------------------------------------------------
(* Requests: current_session and session_worker run on pool threads, the     *)
(* handler and its call to SessionWorker.run on the event loop.              *)

\* current_session, that is SessionStore.get.
Authenticate(r) ==
    /\ up /\ pc[r] = "idle"
    /\ \E s \in Sid, kind \in {"read", "write"} :
        /\ login[s] = "signed_in"
        /\ cookie' = [cookie EXCEPT ![r] = s]
        /\ op' = [op EXCEPT ![r] = kind]
        /\ \/ /\ s \in stored \ expired
              /\ pc' = [pc EXCEPT ![r] = "session"]
              /\ UNCHANGED <<stored, expired, drop>>
           \/ /\ s \in expired
              /\ pc' = [pc EXCEPT ![r] = "unauthorised"]
              /\ Pop(s)
           \/ /\ s \notin stored
              /\ pc' = [pc EXCEPT ![r] = "unauthorised"]
              /\ UNCHANGED <<stored, expired, drop>>
    /\ UNCHANGED <<up, loginVars, cred, reg, workerVars, closing, loop, hand>>

\* Mutant of LookUpWorker: a worker that is busy is not handed out again.
LookUpIdleWorker(r) ==
    /\ pc[r] = "session"
    /\ LET w == reg[cookie[r]]
           free == w # None /\ queue[w] = <<>> IN
       /\ pc' = [pc EXCEPT ![r] = IF free THEN "handed"
                                  ELSE IF Cardinality(Registered) < MaxSessions THEN "miss"
                                  ELSE "refused"]
       /\ hand' = [hand EXCEPT ![r] = IF free THEN w ELSE None]
    /\ UNCHANGED <<up, loginVars, storeVars, reg, workerVars, dropVars, loop, cookie, op>>

\* session_worker, that is ExecutorRegistry.get: hand out the registered
\* worker, refuse when full, or go on to create one.
LookUpWorker(r) ==
    /\ pc[r] = "session"
    /\ LET w == reg[cookie[r]] IN
       /\ pc' = [pc EXCEPT ![r] = IF w # None THEN "handed"
                                  ELSE IF Cardinality(Registered) < MaxSessions THEN "miss"
                                  ELSE "refused"]
       /\ hand' = [hand EXCEPT ![r] = w]
    /\ UNCHANGED <<up, loginVars, storeVars, reg, workerVars, dropVars, loop, cookie, op>>

MakeWorker(r) ==
    /\ pc[r] = "miss"
    /\ pc' = [pc EXCEPT ![r] = "handed"]
    /\ hand' = [hand EXCEPT ![r] = r]
    /\ reg' = [reg EXCEPT ![cookie[r]] = r]
    /\ pool' = [pool EXCEPT ![r] = "open"]
    /\ UNCHANGED <<up, loginVars, storeVars, queue, phase, conn, dropVars, loop, cookie, op>>

\* run(): the test of _closed.  The event loop is busy until the submission.
EnterRun(r) ==
    /\ LoopFree /\ pc[r] = "handed"
    /\ IF pool[hand[r]] = "open"
       THEN pc' = [pc EXCEPT ![r] = "submitting"] /\ loop' = r
       ELSE pc' = [pc EXCEPT ![r] = "refused"] /\ UNCHANGED loop
    /\ UNCHANGED <<up, loginVars, storeVars, reg, workerVars, dropVars, cookie, hand, op>>

\* run(): run_in_executor, which raises once the pool is shut.
Submit(r) ==
    /\ pc[r] = "submitting"
    /\ loop' = None
    /\ IF pool[hand[r]] # "shut"
       THEN /\ pc' = [pc EXCEPT ![r] = "waiting"]
            /\ queue' = [queue EXCEPT ![hand[r]] = Append(@, r)]
       ELSE pc' = [pc EXCEPT ![r] = "refused"] /\ UNCHANGED queue
    /\ UNCHANGED <<up, loginVars, storeVars, reg, pool, phase, conn, dropVars, cookie, hand, op>>

\* Mutant of RequestTimeout: the call is submitted again.
RequestTimeoutResubmits(r) ==
    /\ LoopFree /\ pc[r] = "waiting"
    /\ pc' = [pc EXCEPT ![r] = "timed_out"]
    /\ queue' = [queue EXCEPT ![hand[r]] = Append(@, r)]
    /\ UNCHANGED <<up, loginVars, storeVars, reg, pool, phase, conn, dropVars, loop, cookie, hand, op>>

\* run(): the caller gives up, the worker keeps running the call.
RequestTimeout(r) ==
    /\ LoopFree /\ pc[r] = "waiting"
    /\ pc' = [pc EXCEPT ![r] = "timed_out"]
    /\ UNCHANGED <<up, loginVars, storeVars, reg, workerVars, dropVars, loop, cookie, hand, op>>

RequestStep(r) ==
    \/ Authenticate(r) \/ LookUpWorker(r) \/ MakeWorker(r)
    \/ EnterRun(r) \/ Submit(r) \/ RequestTimeout(r)

-------------------------------------------------------------------------------
(* The end of a session, and of the process.                                 *)

\* Time: the idle timeout or the hard limit of a stored session passes.
Expire(s) ==
    /\ s \in stored \ expired
    /\ expired' = expired \cup {s}
    /\ UNCHANGED <<up, loginVars, stored, cred, reg, workerVars, dropVars, loop, reqVars>>

\* Mutant of Sweep: sessions with an open connection are left alone.
SweepUnconnected(s) ==
    /\ LoopFree /\ s \in expired /\ reg[s] \notin conn
    /\ DropOnLoop(s)
    /\ UNCHANGED <<up, loginVars, cred, reg, workerVars, closing, reqVars>>

\* SessionStore.sweep, for one stale session.
Sweep(s) ==
    /\ LoopFree /\ s \in expired
    /\ DropOnLoop(s)
    /\ UNCHANGED <<up, loginVars, cred, reg, workerVars, closing, reqVars>>

\* The logout handler: store.get, which touches or drops, then store.drop.
Logout(s) ==
    /\ LoopFree /\ login[s] = "signed_in" /\ s \in stored
    /\ DropOnLoop(s)
    /\ UNCHANGED <<up, loginVars, cred, reg, workerVars, closing, reqVars>>

\* The lifespan's finally clause, once the server has let its requests end:
\* close_all, then registry.shutdown.  Worker threads finish what they have.
Shutdown ==
    /\ LoopFree
    /\ \A s \in Sid : drop[s] = "no" /\ login[s] \notin {"resolving", "ticket", "connecting"}
    /\ \A r \in Req : pc[r] \in {"idle", "unauthorised", "refused", "timed_out", "done"}
    /\ up' = FALSE
    /\ stored' = {} /\ expired' = {}
    /\ cred' = cred \ stored
    /\ reg' = [s \in Sid |-> None]
    /\ LET dropped == {reg[s] : s \in Registered} IN
       /\ pool' = [w \in Worker |-> IF w \in dropped THEN "shut" ELSE pool[w]]
       /\ queue' = [w \in Worker |-> IF w \in dropped THEN Append(queue[w], "cleanup")
                                     ELSE queue[w]]
    /\ UNCHANGED <<loginVars, phase, conn, dropVars, loop, reqVars>>

Next ==
    \/ \E s \in Sid : LoginStep(s) \/ DropStep(s) \/ Expire(s) \/ Sweep(s) \/ Logout(s)
    \/ \E r \in Req : RequestStep(r)
    \/ \E w \in Worker : WorkerStep(w)
    \/ Shutdown

Spec == Init /\ [][Next]_vars

\* Time passes, the sweeper runs every SWEEP_INTERVAL_SECONDS, every wait has a
\* timeout, and a function that has started returns control.  Nothing is
\* assumed of the worker threads, of users or of the file server.
Fairness ==
    /\ \A s \in Sid : WF_vars(Expire(s)) /\ WF_vars(DropStep(s)) /\ WF_vars(Sweep(s))
    /\ \A r \in Req : WF_vars(Submit(r))

FairSpec == Spec /\ Fairness

-------------------------------------------------------------------------------
(* What the session layer promises.                                          *)

TypeOK ==
    /\ up \in BOOLEAN
    /\ login \in [Sid -> LoginStage]
    /\ kerberos \in SUBSET Sid /\ stored \in SUBSET Sid /\ cred \in SUBSET Sid
    /\ expired \in SUBSET stored
    /\ reg \in [Sid -> Worker \cup {None}]
    /\ pool \in [Worker -> PoolStage]
    /\ queue \in [Worker -> Seq(Job)]
    /\ phase \in [Worker -> {"waiting", "running", "again"}]
    /\ conn \in SUBSET Worker
    /\ answer \in [Sid -> {"none", "ok", "error"}]
    /\ drop \in [Sid -> DropStage]
    /\ closing \in [Sid -> Worker \cup {None}]
    /\ loop \in Sid \cup Req \cup {None}
    /\ pc \in [Req -> RequestStage]
    /\ cookie \in [Req -> Sid \cup {None}]
    /\ hand \in [Req -> Worker \cup {None}]
    /\ op \in [Req -> {"read", "write"}]

\* While a session is stored its operations have one place to go: the worker its
\* sign-in created is registered and open, and no request has created another.
\* (executor.py: one worker thread per session serialises its operations; a
\* second worker for a live session would run two of them at once.)
StoredSessionHasOneWorker ==
    \A s \in stored :
        /\ reg[s] = s /\ pool[s] = "open"
        /\ \A r \in Req : cookie[r] = s => pool[r] = "unborn"

\* A ticket file or a password buffer belongs to a stored session or to a drop
\* that is about to destroy it.  The exceptions are all tickets: one being
\* acquired, and one whose sign-in gave up waiting.  (auth.py, session.drop)
CredentialHasOwner ==
    \A s \in cred :
        \/ s \in stored
        \/ drop[s] # "no"
        \/ s \in kerberos /\ login[s] \in {"ticket", "timed_out"}

\* A sign-in that _fail or store.drop has ended leaves nothing: no session, no
\* registered worker, no credential.
FailedSignInLeavesNothing ==
    \A s \in Sid :
        login[s] = "failed" /\ drop[s] = "no" =>
            s \notin stored /\ reg[s] = None /\ s \notin cred

\* The credentials of a session that was opened never come back once they are
\* destroyed: no call still queued on the worker writes them again.
DestroyedCredentialStaysGone ==
    [][\A s \in Sid : login[s] \in {"connecting", "signed_in", "failed"} /\ s \notin cred
                      => s \notin cred']_vars

\* An abandoned session does not keep its credentials: they are destroyed without
\* anybody signing out and whatever the worker thread is stuck in.
\* (main.py: the sweeper exists so that a ticket does not sit in tmpfs.)
AbandonedCredentialsDestroyed == \A s \in Sid : (s \in stored) ~> (s \notin cred)

\* The inductive strengthening the proofs use.  A request carries the id of a
\* session that was signed in; a drop has popped its session and closes that
\* session's own worker; a worker a request makes belongs to an ended session;
\* only an unfinished ticket exchange can have "kinit" in a queue.
RequestsInv ==
    \A r \in Req :
        /\ pc[r] = "idle" => cookie[r] = None
        /\ cookie[r] # None => login[cookie[r]] = "signed_in"
        /\ pc[r] \notin {"idle", "unauthorised"} => cookie[r] \in Sid
        /\ pc[r] \in {"handed", "submitting", "waiting"} =>
               hand[r] \in Worker /\ Owner(hand[r]) = cookie[r]
        /\ pc[r] \in {"idle", "session", "miss", "unauthorised"} => pool[r] = "unborn"
        /\ pc[r] = "miss" \/ pool[r] # "unborn" => cookie[r] \in Sid \ stored

WorkersInv ==
    \A s \in Sid :
        /\ reg[s] # None => Owner(reg[s]) = s /\ pool[reg[s]] = "open"
        /\ drop[s] \in {"cleanup", "shutdown"} =>
               /\ closing[s] # None /\ Owner(closing[s]) = s
               /\ pool[closing[s]] \in {"closed", "cleaned"}
        /\ drop[s] # "no" => s \notin stored

LoginInv ==
    \A s \in Sid :
        /\ login[s] = "idle" => s \notin cred /\ answer[s] = "none"
        /\ login[s] \in {"idle", "resolving", "ticket"} => s \notin stored /\ drop[s] = "no"
        /\ login[s] \in {"resolving", "ticket"} \/ s \in stored
               => reg[s] = s /\ pool[s] = "open"
        /\ s \in stored => login[s] \in {"connecting", "signed_in"}
        /\ login[s] \in {"connecting", "failed"} /\ s \notin stored
               => drop[s] = "unregister" \/ reg[s] = None

TicketInv ==
    /\ \A s \in Sid :
        /\ login[s] = "ticket" => s \in kerberos
        /\ login[s] \in {"resolving", "ticket"} =>
               queue[s] = IF answer[s] # "none" THEN <<>>
                          ELSE IF login[s] = "resolving" THEN <<"resolve">> ELSE <<"kinit">>
    /\ \A w \in Worker : \A i \in 1..Len(queue[w]) : queue[w][i] = "kinit" =>
           w \in Sid /\ w \in kerberos /\ login[w] \in {"ticket", "timed_out"}

SessionInv ==
    TypeOK /\ RequestsInv /\ WorkersInv /\ LoginInv /\ TicketInv /\ CredentialHasOwner

\* For the refinement.  An operation is queued once, on the worker its request was
\* handed, from its submission to its end; a thread that is with a job has one.
QueuesInv ==
    /\ \A w \in Worker :
        /\ phase[w] # "waiting" => queue[w] # <<>>
        /\ \A i \in 1..Len(queue[w]), r \in Req : queue[w][i] = r =>
              /\ pc[r] \in {"waiting", "timed_out"} /\ hand[r] = w /\ Owner(w) = cookie[r]
              /\ pool[w] # "unborn"
              /\ \A k \in 1..Len(queue[w]) : queue[w][k] = r => k = i
    /\ \A r \in Req : pc[r] = "waiting" =>
          \E i \in 1..Len(queue[hand[r]]) : queue[hand[r]][i] = r

-------------------------------------------------------------------------------
(* What the comments of the code say, and the code does not do.              *)

\* executor.py:163, "Keeps one SessionWorker per active session": a sign-in that
\* ended on an unusable user name keeps no worker.
RefusedNameLeavesNoWorker ==
    \A s \in Sid : login[s] = "bad_name" => reg[s] = None

\* executor.py:163: no worker is registered for a session that has ended.
EndedSessionHasNoWorker ==
    \A s \in Sid : login[s] = "signed_in" /\ s \notin stored /\ drop[s] = "no"
                  => reg[s] = None

\* session.py:196, "release the Samba handles on their own worker thread first,
\* then remove the credentials they authenticate with": while the process serves,
\* credentials are destroyed only when no worker of the session is connected.
HandlesReleasedBeforeCredentials ==
    [][up' => \A s \in Sid : s \in cred /\ s \notin cred' =>
                  \A w \in conn : Owner(w) # s]_vars

\* executor.py:137, "Cached handles are released first so an ldb/SMB connection is
\* torn down on the very thread that opened it": a shut worker with an open
\* connection still has the cleanup in its queue.
ShutWorkerReleasesHandle ==
    \A w \in conn : pool[w] = "shut" =>
        \E i \in 1..Len(queue[w]) : queue[w][i] = "cleanup"

\* main.py:100, shutdown "Destroys every ticket, clears every held password".
ShutdownDestroysEveryCredential == ~up => cred = {}

-------------------------------------------------------------------------------
(* The session layer implements SessionContract.                             *)

ContractState(s) ==
    IF s \in stored THEN "open"
    ELSE IF login[s] = "idle" THEN "none"
    ELSE IF login[s] \in {"resolving", "ticket"} THEN "opening"
    ELSE "ended"

ContractRun(r) ==
    IF \E w \in Worker : Head1(w) = r /\ phase[w] # "waiting" THEN "running"
    ELSE IF \/ pc[r] \in {"refused", "done"}
            \/ /\ pc[r] = "timed_out"
               /\ \A w \in Worker : \A i \in 1..Len(queue[w]) : queue[w][i] # r
    THEN "over" ELSE "not_yet"

Contract == INSTANCE SessionContract WITH
    state <- [s \in Sid |-> ContractState(s)],
    admitted <- [r \in Req |-> IF pc[r] \in {"idle", "unauthorised"} THEN None ELSE cookie[r]],
    run <- [r \in Req |-> ContractRun(r)]

\* Every step is a step of the contract or leaves it alone: session ids are used
\* once, requests are admitted by open sessions only, an operation that ran is
\* never run again, and an open session's operations never overlap.
ImplementsContract == Contract!CSpec

===============================================================================
