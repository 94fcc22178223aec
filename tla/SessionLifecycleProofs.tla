------------------------ MODULE SessionLifecycleProofs ------------------------
(* Proofs about SessionLifecycle: its type invariant, the inductive invariant *)
(* SessionInv, the safety properties that follow from it, and that it         *)
(* implements SessionContract: the initial states map to initial states and   *)
(* every step maps to a step or to a stutter.                                 *)
EXTENDS SessionLifecycle, TLAPS

(***************************************************************************)
(* Facts about the worker queues.                                          *)
(***************************************************************************)
\* What appending to a queue does.
LEMMA AppendFacts ==
  ASSUME NEW S, NEW q \in Seq(S), NEW e \in S
  PROVE  /\ Append(q, e) \in Seq(S)
         /\ Len(q) \in Nat
         /\ Len(Append(q, e)) = Len(q) + 1
         /\ Append(q, e)[Len(q) + 1] = e
         /\ \A i \in 1..Len(q) : Append(q, e)[i] = q[i]
OBVIOUS

\* What taking the head of a queue does.
LEMMA TailFacts ==
  ASSUME NEW S, NEW q \in Seq(S), q # <<>>
  PROVE  /\ Head(q) \in S /\ Head(q) = q[1]
         /\ Tail(q) \in Seq(S)
         /\ Len(q) \in Nat \ {0}
         /\ Len(Tail(q)) = Len(q) - 1
         /\ \A i \in 1..Len(q) - 1 : Tail(q)[i] = q[i + 1]
OBVIOUS

\* A queue of length zero is empty.
LEMMA EmptyFact == ASSUME NEW S, NEW q \in Seq(S), Len(q) = 0 PROVE q = <<>>
OBVIOUS

\* A queue of one job.
LEMMA SingletonFacts == ASSUME NEW e PROVE Head(<<e>>) = e /\ Tail(<<e>>) = <<>>
<1>1. <<e>> \in Seq({e}) /\ Len(<<e>>) = 1
  OBVIOUS
<1>2. Tail(<<e>>) \in Seq({e}) /\ Len(Tail(<<e>>)) = 0
  BY <1>1
<1> QED BY <1>1, <1>2, EmptyFact

\* Submitting a job to a worker: nothing else is added to any queue.
LEMMA SubmitFacts ==
  ASSUME queue \in [Worker -> Seq(Job)], NEW w \in Worker, NEW j \in Job,
         queue' = [queue EXCEPT ![w] = Append(@, j)]
  PROVE  /\ queue' \in [Worker -> Seq(Job)]
         /\ \A v \in Worker : v # w => queue'[v] = queue[v]
         /\ \A v \in Worker : \A i \in 1..Len(queue'[v]) :
               \/ v = w /\ queue'[v][i] = j
               \/ i \in 1..Len(queue[v]) /\ queue'[v][i] = queue[v][i]
<1>1. /\ Append(queue[w], j) \in Seq(Job)
      /\ Len(queue[w]) \in Nat
      /\ Len(Append(queue[w], j)) = Len(queue[w]) + 1
      /\ Append(queue[w], j)[Len(queue[w]) + 1] = j
      /\ \A i \in 1..Len(queue[w]) : Append(queue[w], j)[i] = queue[w][i]
  BY AppendFacts
<1>2. queue'[w] = Append(queue[w], j) /\ \A v \in Worker : v # w => queue'[v] = queue[v]
  OBVIOUS
<1>3. ASSUME NEW i \in 1..Len(queue'[w])
      PROVE  queue'[w][i] = j \/ (i \in 1..Len(queue[w]) /\ queue'[w][i] = queue[w][i])
  BY <1>1, <1>2
<1> QED BY <1>1, <1>2, <1>3

\* Finishing the head job: types, and what is left in the queues.
LEMMA FinishFacts ==
  ASSUME TypeOK, NEW w \in Worker, queue[w] # <<>>,
         NEW o \in {"ok", "error"}, Finish(w, o)
  PROVE  /\ queue' \in [Worker -> Seq(Job)]
         /\ phase' \in [Worker -> {"waiting", "running", "again"}]
         /\ answer' \in [Sid -> {"none", "ok", "error"}]
         /\ pc' \in [Req -> RequestStage]
         /\ queue'[w] = Tail(queue[w])
         /\ \A v \in Worker : v # w => queue'[v] = queue[v]
         /\ \A v \in Worker : \A i \in 1..Len(queue'[v]) :
               \E k \in 1..Len(queue[v]) : queue'[v][i] = queue[v][k]
<1> USE DEF TypeOK, Finish, RequestStage
<1>1. /\ Head(queue[w]) \in Job
      /\ Tail(queue[w]) \in Seq(Job)
      /\ Len(queue[w]) \in Nat \ {0}
      /\ Len(Tail(queue[w])) = Len(queue[w]) - 1
      /\ \A i \in 1..Len(queue[w]) - 1 : Tail(queue[w])[i] = queue[w][i + 1]
  BY TailFacts
<1>2. /\ queue' \in [Worker -> Seq(Job)]
      /\ queue'[w] = Tail(queue[w])
      /\ \A v \in Worker : v # w => queue'[v] = queue[v]
  BY <1>1
<1>3. ASSUME NEW v \in Worker, NEW i \in 1..Len(queue'[v])
      PROVE  \E k \in 1..Len(queue[v]) : queue'[v][i] = queue[v][k]
  <2>1. CASE v = w
    <3>1. i \in 1..Len(queue[w]) - 1 /\ i + 1 \in 1..Len(queue[w])
      BY <1>1, <1>2, <2>1
    <3> QED BY <1>1, <1>2, <2>1, <3>1
  <2>2. CASE v # w
    BY <1>2, <2>2
  <2> QED BY <2>1, <2>2
<1>4. phase' \in [Worker -> {"waiting", "running", "again"}]
  OBVIOUS
<1>5. answer' \in [Sid -> {"none", "ok", "error"}]
  OBVIOUS
<1>6. pc' \in [Req -> RequestStage]
  OBVIOUS
<1> QED BY <1>2, <1>3, <1>4, <1>5, <1>6

\* Finishing a job never disturbs the account of who may still run kinit.
LEMMA FinishKeepsTicketInv ==
  ASSUME TypeOK, TicketInv, NEW w \in Worker, queue[w] # <<>>,
         NEW o \in {"ok", "error"}, Finish(w, o), UNCHANGED <<login, kerberos>>
  PROVE  TicketInv'
<1>1. /\ queue'[w] = Tail(queue[w])
      /\ \A v \in Worker : v # w => queue'[v] = queue[v]
      /\ \A v \in Worker : \A i \in 1..Len(queue'[v]) :
            \E k \in 1..Len(queue[v]) : queue'[v][i] = queue[v][k]
  BY FinishFacts
<1>2. ASSUME NEW s \in Sid, login[s] \in {"resolving", "ticket"}
      PROVE  queue'[s] = IF answer'[s] # "none" THEN <<>>
                         ELSE IF login[s] = "resolving" THEN <<"resolve">> ELSE <<"kinit">>
  <2>1. CASE s # w
    <3>1. answer'[s] = answer[s]
      BY <2>1 DEF Finish, TypeOK
    <3>2. queue'[s] = queue[s]
      BY <1>1, <2>1 DEF Worker
    <3> QED BY <1>2, <3>1, <3>2 DEF TicketInv
  <2>2. CASE s = w
    <3>1. queue[w] = <<"resolve">> \/ queue[w] = <<"kinit">>
      BY <1>2, <2>2 DEF TicketInv
    <3>2. Head(queue[w]) \in {"resolve", "kinit"} /\ Tail(queue[w]) = <<>>
      BY <3>1, SingletonFacts
    <3>3. answer'[w] = o
      BY ActorsAssumption, <1>2, <2>2, <3>2 DEF Finish, TypeOK
    <3> QED BY <1>1, <2>2, <3>2, <3>3
  <2> QED BY <2>1, <2>2
<1>3. ASSUME NEW v \in Worker, NEW i \in 1..Len(queue'[v]), queue'[v][i] = "kinit"
      PROVE  v \in Sid /\ v \in kerberos /\ login[v] \in {"ticket", "timed_out"}
  BY <1>1, <1>3 DEF TicketInv
<1> QED BY <1>2, <1>3 DEF TicketInv

(***************************************************************************)
(* The definitions every action's proof looks into are visible from here   *)
(* on; each leaf adds the parts of the invariant it needs.                 *)
(***************************************************************************)
USE ActorsAssumption
    DEF SessionInv, loginVars, storeVars, workerVars, dropVars, reqVars, Worker, Job, Owner,
        LoginStage, PoolStage, DropStage, RequestStage

\* A worker that is to run kinit belongs to a sign-in whose ticket exchange is
\* under way or was given up.
LEMMA KinitWorker ==
  ASSUME TypeOK, TicketInv, NEW w \in Worker, Head1(w) = "kinit"
  PROVE  w \in Sid /\ w \in kerberos /\ login[w] \in {"ticket", "timed_out"}
<1>1. /\ Head(queue[w]) = "kinit" /\ Len(queue[w]) \in Nat \ {0}
      /\ Head(queue[w]) = queue[w][1]
  BY TailFacts DEF Head1, TypeOK
<1> QED BY <1>1 DEF TicketInv

(***************************************************************************)
(* The pieces the handlers share.                                          *)
(***************************************************************************)
\* A sign-in that fails before its session is stored (_fail in the login handler).
LEMMA FailLoginKeeps ==
  ASSUME SessionInv, NEW s \in Sid, FailLogin(s),
         login[s] = "resolving" \/ (login[s] = "ticket" /\ answer[s] # "none"),
         answer' = answer \/ answer' = [answer EXCEPT ![s] = "none"],
         UNCHANGED <<up, reg, pool, phase, conn, closing, reqVars>>
  PROVE  SessionInv'
<1> USE DEF FailLogin
<1>0. /\ login' \in [Sid -> LoginStage]
      /\ answer' \in [Sid -> {"none", "ok", "error"}]
      /\ drop' \in [Sid -> DropStage]
      /\ \A t \in Sid : login'[t] \in {"resolving", "ticket"} =>
            login'[t] = login[t] /\ answer'[t] = answer[t]
      /\ \A t \in Sid : t # s => login'[t] = login[t]
  BY DEF TypeOK
<1>a. queue[s] \in {<<>>, <<"resolve">>}
  BY DEF TicketInv
<1>1. TypeOK'
  BY <1>0 DEF TypeOK
<1>2. RequestsInv'
  BY DEF RequestsInv
<1>3. WorkersInv'
  BY DEF TypeOK, WorkersInv, LoginInv
<1>4. LoginInv'
  BY DEF TypeOK, LoginInv
<1>5. TicketInv'
  <2>1. \A i \in 1..Len(queue[s]) : queue[s][i] # "kinit"
    BY <1>a
  <2> QED BY <1>0, <2>1 DEF TicketInv
<1>6. CredentialHasOwner'
  BY DEF TypeOK, CredentialHasOwner
<1> QED BY <1>1, <1>2, <1>3, <1>4, <1>5, <1>6

\* store.create: a resolved sign-in becomes a stored session.
LEMMA OpenSessionKeeps ==
  ASSUME SessionInv, NEW s \in Sid, OpenSession(s), login[s] \in {"resolving", "ticket"},
         answer[s] # "none", answer' = [answer EXCEPT ![s] = "none"],
         cred' = cred \/ cred' = cred \cup {s},
         UNCHANGED <<up, kerberos, reg, pool, phase, conn, closing, reqVars>>
  PROVE  SessionInv'
<1> USE DEF OpenSession
<1>1. TypeOK'
  BY DEF TypeOK
<1>2. RequestsInv'
  BY DEF RequestsInv
<1>3. WorkersInv'
  BY DEF TypeOK, WorkersInv, LoginInv
<1>4. LoginInv'
  BY DEF TypeOK, LoginInv
<1>5. TicketInv'
  BY DEF TypeOK, TicketInv
<1>6. CredentialHasOwner'
  BY DEF CredentialHasOwner
<1> QED BY <1>1, <1>2, <1>3, <1>4, <1>5, <1>6

\* store.drop pops a stored session, perhaps ending its sign-in.
LEMMA PopKeeps ==
  ASSUME SessionInv, NEW s \in stored, Pop(s),
         \/ login' = login
         \/ login[s] = "connecting" /\ login' = [login EXCEPT ![s] = "failed"],
         answer' = answer \/ answer' = [answer EXCEPT ![s] = "none"],
         loop' \in {loop, s},
         UNCHANGED <<up, kerberos, cred, reg, workerVars, closing, reqVars>>
  PROVE  SessionInv'
<1> USE DEF Pop
<1>a. login' \in [Sid -> LoginStage]
  <2>1. login \in [Sid -> LoginStage]
    BY DEF TypeOK
  <2> QED BY <2>1
<1>b. answer' \in [Sid -> {"none", "ok", "error"}]
  BY DEF TypeOK
<1>0. /\ \A t \in Sid : t # s => login'[t] = login[t] /\ answer'[t] = answer[t]
      /\ login[s] \in {"connecting", "signed_in"}
      /\ login'[s] \in {"connecting", "signed_in", "failed"}
  BY DEF TypeOK, LoginInv
<1>c. /\ drop' \in [Sid -> DropStage]
      /\ stored' \in SUBSET Sid /\ expired' \in SUBSET stored'
      /\ loop' \in Sid \cup Req \cup {None}
  BY DEF TypeOK
<1>1. TypeOK'
  BY <1>a, <1>b, <1>c DEF TypeOK
<1>2. RequestsInv'
  BY DEF TypeOK, RequestsInv
<1>3. WorkersInv'
  BY DEF WorkersInv
<1>4. LoginInv'
  BY DEF TypeOK, LoginInv
<1>5. TicketInv'
  BY <1>0 DEF TicketInv
<1>6. CredentialHasOwner'
  BY DEF TypeOK, CredentialHasOwner
<1> QED BY <1>1, <1>2, <1>3, <1>4, <1>5, <1>6

\* The first connection is decided and nothing else changes.
LEMMA EndConnectingKeeps ==
  ASSUME SessionInv, NEW s \in Sid, login[s] = "connecting",
         \/ login' = [login EXCEPT ![s] = "failed"] /\ s \notin stored
         \/ login' = [login EXCEPT ![s] = "signed_in"],
         answer' = answer \/ answer' = [answer EXCEPT ![s] = "none"],
         UNCHANGED <<up, kerberos, storeVars, reg, workerVars, dropVars, loop, reqVars>>
  PROVE  SessionInv'
<1>a. login' \in [Sid -> LoginStage]
  <2>1. login \in [Sid -> LoginStage]
    BY DEF TypeOK
  <2> QED BY <2>1
<1>b. answer' \in [Sid -> {"none", "ok", "error"}]
  BY DEF TypeOK
<1>0. /\ \A t \in Sid : t # s => login'[t] = login[t] /\ answer'[t] = answer[t]
      /\ login'[s] = "signed_in" \/ (login'[s] = "failed" /\ s \notin stored)
      /\ UNCHANGED <<stored, drop, reg, pool, cred, kerberos>>
  BY DEF TypeOK
<1>1. TypeOK'
  BY <1>a, <1>b DEF TypeOK
<1>2. RequestsInv'
  BY DEF TypeOK, RequestsInv
<1>3. WorkersInv'
  BY DEF WorkersInv
<1>4. LoginInv'
  <2>1. ASSUME NEW t \in Sid, t # s
        PROVE  /\ login[t] = "idle" => t \notin cred /\ answer[t] = "none"
               /\ login[t] \in {"idle", "resolving", "ticket"} => t \notin stored /\ drop[t] = "no"
               /\ login[t] \in {"resolving", "ticket"} \/ t \in stored
                     => reg[t] = t /\ pool[t] = "open"
               /\ t \in stored => login[t] \in {"connecting", "signed_in"}
               /\ login[t] \in {"connecting", "failed"} /\ t \notin stored
                     => drop[t] = "unregister" \/ reg[t] = None
    BY DEF LoginInv
  <2>2. /\ s \in stored => reg[s] = s /\ pool[s] = "open"
        /\ s \notin stored => drop[s] = "unregister" \/ reg[s] = None
    BY DEF LoginInv
  <2> QED BY <1>0, <2>1, <2>2 DEF LoginInv
<1>5. TicketInv'
  BY <1>0 DEF TicketInv
<1>6. CredentialHasOwner'
  <2>1. ASSUME NEW t \in Sid, t # s, t \in cred
        PROVE  \/ t \in stored \/ drop[t] # "no"
               \/ t \in kerberos /\ login[t] \in {"ticket", "timed_out"}
    BY <2>1 DEF CredentialHasOwner
  <2>2. s \in cred => s \in stored \/ drop[s] # "no"
    BY DEF CredentialHasOwner
  <2> QED BY <1>0, <2>1, <2>2 DEF CredentialHasOwner, TypeOK
<1> QED BY <1>1, <1>2, <1>3, <1>4, <1>5, <1>6

\* Registry.drop takes the worker away: the invariant is kept.
LEMMA UnregisterKeeps ==
  ASSUME SessionInv, NEW s \in Sid, Unregister(s)
  PROVE  SessionInv'
<1> USE DEF Unregister
<1>a. pool' = IF reg[s] = None THEN pool ELSE [pool EXCEPT ![reg[s]] = "closed"]
  OBVIOUS
<1>b. drop' = [drop EXCEPT ![s] = IF reg[s] = None THEN "credentials" ELSE "cleanup"]
  OBVIOUS
<1>0. /\ pool' \in [Worker -> PoolStage]
      /\ \A w \in Worker : w # reg[s] => pool'[w] = pool[w]
      /\ reg[s] # None => pool'[reg[s]] = "closed"
  BY <1>a DEF TypeOK
<1>c. /\ drop' \in [Sid -> DropStage]
      /\ reg[s] = None => drop'[s] = "credentials"
      /\ \A t \in Sid : t # s =>
            drop'[t] = drop[t] /\ reg'[t] = reg[t] /\ closing'[t] = closing[t]
      /\ reg'[s] = None /\ closing'[s] = reg[s]
      /\ drop[s] = "unregister" /\ UNCHANGED <<stored, cookie>>
  BY <1>b DEF TypeOK
<1>1. TypeOK'
  BY <1>0, <1>c DEF TypeOK
<1>2. RequestsInv'
  BY DEF TypeOK, RequestsInv, WorkersInv
<1>3. WorkersInv'
  <2>1. ASSUME NEW t \in Sid, reg'[t] # None
        PROVE  (Owner(reg[t]) = t /\ pool[reg[t]] = "open")'
    BY <1>0, <1>c, <2>1 DEF TypeOK, WorkersInv
  <2>2. ASSUME NEW t \in Sid, drop'[t] \in {"cleanup", "shutdown"}
        PROVE  (/\ closing[t] # None /\ Owner(closing[t]) = t
                /\ pool[closing[t]] \in {"closed", "cleaned"})'
    <3>1. CASE t = s
      <4>1. reg[s] # None /\ reg[s] \in Worker /\ Owner(reg[s]) = s
        BY <1>c, <2>2, <3>1 DEF TypeOK, WorkersInv
      <4> QED BY <1>0, <1>c, <3>1, <4>1
    <3>2. CASE t # s
      <4>1. /\ closing[t] # None /\ closing[t] \in Worker /\ Owner(closing[t]) = t
            /\ pool[closing[t]] \in {"closed", "cleaned"}
        BY <1>c, <2>2, <3>2 DEF TypeOK, WorkersInv
      <4>2. reg[s] # None => Owner(reg[s]) = s
        BY DEF WorkersInv
      <4> QED BY <1>0, <1>c, <3>2, <4>1, <4>2
    <3> QED BY <3>1, <3>2
  <2>3. ASSUME NEW t \in Sid, drop'[t] # "no" PROVE t \notin stored'
    BY <1>0, <1>c, <2>3 DEF WorkersInv
  <2> QED BY <2>1, <2>2, <2>3 DEF WorkersInv
<1>4. LoginInv'
  BY DEF TypeOK, LoginInv, WorkersInv
<1>5. TicketInv'
  BY DEF TicketInv
<1>6. CredentialHasOwner'
  BY DEF TypeOK, CredentialHasOwner
<1> QED BY <1>1, <1>2, <1>3, <1>4, <1>5, <1>6

\* Close() queues the release of the handles: the invariant is kept.
LEMMA SubmitCleanupKeeps ==
  ASSUME SessionInv, NEW s \in Sid, SubmitCleanup(s)
  PROVE  SessionInv'
<1> USE DEF SubmitCleanup
<1>0. /\ closing[s] \in Worker /\ Owner(closing[s]) = s
      /\ pool[closing[s]] \in {"closed", "cleaned"} /\ pool'[closing[s]] = "cleaned"
      /\ \A w \in Worker : w # closing[s] => pool'[w] = pool[w]
      /\ drop[s] # "no" /\ drop'[s] = "shutdown"
      /\ \A t \in Sid : t # s => drop'[t] = drop[t]
  BY DEF TypeOK, WorkersInv
<1>1. TypeOK'
  <2>1. queue' \in [Worker -> Seq(Job)]
    BY <1>0, SubmitFacts DEF TypeOK
  <2>2. pool' \in [Worker -> PoolStage] /\ drop' \in [Sid -> DropStage]
    BY DEF TypeOK
  <2> QED BY <2>1, <2>2 DEF TypeOK
<1>2. RequestsInv'
  <2>1. \A r \in Req : pool'[r] = "unborn" <=> pool[r] = "unborn"
    BY <1>0
  <2> QED BY <2>1 DEF RequestsInv
<1>3. WorkersInv'
  <2>1. ASSUME NEW t \in Sid, reg'[t] # None
        PROVE  (Owner(reg[t]) = t /\ pool[reg[t]] = "open")'
    BY <1>0, <2>1 DEF TypeOK, WorkersInv
  <2>2. ASSUME NEW t \in Sid, drop'[t] \in {"cleanup", "shutdown"}
        PROVE  (/\ closing[t] # None /\ Owner(closing[t]) = t
                /\ pool[closing[t]] \in {"closed", "cleaned"})'
    BY <1>0, <2>2 DEF TypeOK, WorkersInv
  <2>3. ASSUME NEW t \in Sid, drop'[t] # "no" PROVE t \notin stored'
    BY <1>0, <2>3 DEF WorkersInv
  <2> QED BY <2>1, <2>2, <2>3 DEF WorkersInv
<1>4. LoginInv'
  BY DEF TypeOK, LoginInv, WorkersInv
<1>5. TicketInv'
  <2>1. /\ \A v \in Worker : v # closing[s] => queue'[v] = queue[v]
        /\ \A v \in Worker : \A i \in 1..Len(queue'[v]) :
              \/ v = closing[s] /\ queue'[v][i] = "cleanup"
              \/ i \in 1..Len(queue[v]) /\ queue'[v][i] = queue[v][i]
    BY <1>0, SubmitFacts DEF TypeOK
  <2>2. \A t \in Sid : login[t] \in {"resolving", "ticket"} => t # closing[s]
    BY <1>0 DEF LoginInv
  <2> QED BY <2>1, <2>2 DEF TicketInv
<1>6. CredentialHasOwner'
  BY DEF CredentialHasOwner
<1> QED BY <1>1, <1>2, <1>3, <1>4, <1>5, <1>6

\* Close() shuts the pool: the invariant is kept.
LEMMA ShutPoolKeeps ==
  ASSUME SessionInv, NEW s \in Sid, ShutPool(s)
  PROVE  SessionInv'
<1> USE DEF ShutPool
<1>0. /\ closing[s] \in Worker
      /\ pool'[closing[s]] = "shut" /\ drop'[s] = "credentials"
      /\ \A w \in Worker : w # closing[s] => pool'[w] = pool[w]
      /\ \A t \in Sid : t # s => drop'[t] = drop[t]
  BY DEF TypeOK, WorkersInv
<1>1. TypeOK'
  BY DEF TypeOK
<1>2. RequestsInv'
  BY DEF TypeOK, RequestsInv, WorkersInv
<1>3. WorkersInv'
  <2>1. ASSUME NEW t \in Sid, reg'[t] # None
        PROVE  (Owner(reg[t]) = t /\ pool[reg[t]] = "open")'
    <3>1. reg[t] \in Worker /\ Owner(reg[t]) = t /\ pool[reg[t]] = "open"
      BY <2>1 DEF TypeOK, WorkersInv
    <3>2. pool[closing[s]] # "open"
      BY DEF WorkersInv
    <3> QED BY <1>0, <3>1, <3>2
  <2>2. ASSUME NEW t \in Sid, drop'[t] \in {"cleanup", "shutdown"}
        PROVE  (/\ closing[t] # None /\ Owner(closing[t]) = t
                /\ pool[closing[t]] \in {"closed", "cleaned"})'
    BY <1>0, <2>2 DEF TypeOK, WorkersInv
  <2>3. ASSUME NEW t \in Sid, drop'[t] # "no" PROVE t \notin stored'
    BY <1>0, <2>3 DEF WorkersInv
  <2> QED BY <2>1, <2>2, <2>3 DEF WorkersInv
<1>4. LoginInv'
  BY DEF TypeOK, LoginInv, WorkersInv
<1>5. TicketInv'
  BY DEF TicketInv
<1>6. CredentialHasOwner'
  BY DEF CredentialHasOwner
<1> QED BY <1>1, <1>2, <1>3, <1>4, <1>5, <1>6

\* The ticket or password is destroyed: the invariant is kept.
LEMMA DestroyCredentialsKeeps ==
  ASSUME SessionInv, NEW s \in Sid, DestroyCredentials(s)
  PROVE  SessionInv'
<1> USE DEF DestroyCredentials
<1>1. TypeOK'
  BY DEF TypeOK
<1>2. RequestsInv'
  BY DEF RequestsInv
<1>3. WorkersInv'
  BY DEF WorkersInv
<1>4. LoginInv'
  BY DEF LoginInv
<1>5. TicketInv'
  BY DEF TicketInv
<1>6. CredentialHasOwner'
  BY DEF CredentialHasOwner
<1> QED BY <1>1, <1>2, <1>3, <1>4, <1>5, <1>6

\* The worker resolves the target: the invariant is kept.
LEMMA RunResolveKeeps ==
  ASSUME SessionInv, NEW w \in Worker, RunResolve(w)
  PROVE  SessionInv'
<1> USE DEF RunResolve, Finish, Head1
<1>0. queue[w] # <<>> /\ \E o \in {"ok", "error"} : Finish(w, o)
  BY DEF Head1
<1>1. TypeOK'
  BY DEF TypeOK
<1>2. RequestsInv'
  BY DEF RequestsInv
<1>3. WorkersInv'
  BY DEF WorkersInv
<1>4. LoginInv'
  BY DEF LoginInv
<1>5. TicketInv' BY <1>0, FinishKeepsTicketInv
<1>6. CredentialHasOwner'
  BY DEF CredentialHasOwner
<1> QED BY <1>1, <1>2, <1>3, <1>4, <1>5, <1>6

\* Kinit is refused before it starts: the invariant is kept.
LEMMA RefuseKinitKeeps ==
  ASSUME SessionInv, NEW w \in Worker, RefuseKinit(w)
  PROVE  SessionInv'
<1> USE DEF RefuseKinit, Finish, Head1
<1>0. queue[w] # <<>> /\ \E o \in {"ok", "error"} : Finish(w, o)
  BY DEF Head1
<1>1. TypeOK'
  BY DEF TypeOK
<1>2. RequestsInv'
  BY DEF RequestsInv
<1>3. WorkersInv'
  BY DEF WorkersInv
<1>4. LoginInv'
  BY DEF LoginInv
<1>5. TicketInv' BY <1>0, FinishKeepsTicketInv
<1>6. CredentialHasOwner'
  BY DEF CredentialHasOwner
<1> QED BY <1>1, <1>2, <1>3, <1>4, <1>5, <1>6

\* The ticket file is created: the invariant is kept.
LEMMA BeginKinitKeeps ==
  ASSUME SessionInv, NEW w \in Worker, BeginKinit(w)
  PROVE  SessionInv'
<1> USE DEF BeginKinit, Head1
<1>0. w \in Sid /\ login[w] \in {"ticket", "timed_out"} /\ w \in kerberos
  BY KinitWorker
<1>1. TypeOK'
  BY <1>0 DEF TypeOK
<1>2. RequestsInv'
  BY DEF RequestsInv
<1>3. WorkersInv'
  BY DEF WorkersInv
<1>4. LoginInv'
  BY <1>0 DEF LoginInv
<1>5. TicketInv'
  BY DEF TicketInv
<1>6. CredentialHasOwner'
  BY <1>0 DEF CredentialHasOwner
<1> QED BY <1>1, <1>2, <1>3, <1>4, <1>5, <1>6

\* The KDC exchange ends: the invariant is kept.
LEMMA EndKinitKeeps ==
  ASSUME SessionInv, NEW w \in Worker, EndKinit(w)
  PROVE  SessionInv'
<1> USE DEF EndKinit, Finish, Head1
<1>0. queue[w] # <<>> /\ \E o \in {"ok", "error"} : Finish(w, o)
  BY DEF Head1
<1>a. w \in Sid /\ login[w] \in {"ticket", "timed_out"} /\ w \in kerberos
  BY KinitWorker
<1>b. cred' \in SUBSET Sid /\ \A t \in Sid : t # w => (t \in cred' <=> t \in cred)
  BY <1>a DEF TypeOK
<1>1. TypeOK'
  BY <1>0, <1>b, FinishFacts DEF TypeOK
<1>2. RequestsInv'
  BY DEF RequestsInv
<1>3. WorkersInv'
  BY DEF WorkersInv
<1>4. LoginInv'
  <2>1. \A t \in Sid : t # w => answer'[t] = answer[t]
    BY DEF TypeOK
  <2> QED BY <1>a, <1>b, <2>1 DEF LoginInv
<1>5. TicketInv' BY <1>0, FinishKeepsTicketInv
<1>6. CredentialHasOwner'
  BY <1>a, <1>b DEF CredentialHasOwner
<1> QED BY <1>1, <1>2, <1>3, <1>4, <1>5, <1>6

\* An operation gets its connection: the invariant is kept.
LEMMA BeginOperationKeeps ==
  ASSUME SessionInv, NEW w \in Worker, BeginOperation(w)
  PROVE  SessionInv'
<1> USE DEF BeginOperation, Operation, Finish, Head1
<1>0. queue[w] # <<>>
  BY DEF Head1
<1>1. TypeOK'
  <2>1. CASE /\ conn' = conn \cup {w}
             /\ phase' = [phase EXCEPT ![w] = "running"]
             /\ UNCHANGED <<queue, answer, pc>>
    BY <2>1 DEF TypeOK
  <2>2. CASE Finish(w, "error") /\ UNCHANGED conn
    BY <1>0, <2>2, FinishFacts DEF TypeOK
  <2> QED BY <2>1, <2>2
<1>2. RequestsInv'
  BY DEF TypeOK, RequestsInv
<1>3. WorkersInv'
  BY DEF WorkersInv
<1>4. LoginInv'
  BY DEF TypeOK, LoginInv
<1>5. TicketInv'
  <2>1. CASE /\ conn' = conn \cup {w}
             /\ phase' = [phase EXCEPT ![w] = "running"]
             /\ UNCHANGED <<queue, answer, pc>>
    BY <2>1 DEF TicketInv
  <2>2. CASE Finish(w, "error") /\ UNCHANGED conn
    BY <1>0, <2>2, FinishKeepsTicketInv
  <2> QED BY <2>1, <2>2
<1>6. CredentialHasOwner'
  BY DEF CredentialHasOwner
<1> QED BY <1>1, <1>2, <1>3, <1>4, <1>5, <1>6

\* A read reconnects: the invariant is kept.
LEMMA ReconnectKeeps ==
  ASSUME SessionInv, NEW w \in Worker, Reconnect(w)
  PROVE  SessionInv'
<1> USE DEF Reconnect, Operation, Retried, Finish, Head1
<1>0. queue[w] # <<>>
  BY DEF Head1
<1>1. TypeOK'
  <2>1. CASE /\ phase' = [phase EXCEPT ![w] = "again"]
             /\ UNCHANGED <<queue, conn, answer, pc>>
    BY <2>1 DEF TypeOK
  <2>2. CASE Finish(w, "error") /\ conn' = conn \ {w}
    BY <1>0, <2>2, FinishFacts DEF TypeOK
  <2> QED BY <2>1, <2>2
<1>2. RequestsInv'
  BY DEF TypeOK, RequestsInv
<1>3. WorkersInv'
  BY DEF WorkersInv
<1>4. LoginInv'
  BY DEF TypeOK, LoginInv
<1>5. TicketInv'
  <2>1. CASE /\ phase' = [phase EXCEPT ![w] = "again"]
             /\ UNCHANGED <<queue, conn, answer, pc>>
    BY <2>1 DEF TicketInv
  <2>2. CASE Finish(w, "error") /\ conn' = conn \ {w}
    BY <1>0, <2>2, FinishKeepsTicketInv
  <2> QED BY <2>1, <2>2
<1>6. CredentialHasOwner'
  BY DEF CredentialHasOwner
<1> QED BY <1>1, <1>2, <1>3, <1>4, <1>5, <1>6

\* An operation ends: the invariant is kept.
LEMMA EndOperationKeeps ==
  ASSUME SessionInv, NEW w \in Worker, EndOperation(w)
  PROVE  SessionInv'
<1> USE DEF EndOperation, Operation, Finish, Head1
<1>0. queue[w] # <<>> /\ \E o \in {"ok", "error"} : Finish(w, o)
  BY DEF Head1
<1>1. TypeOK'
  BY DEF TypeOK
<1>2. RequestsInv'
  BY DEF RequestsInv
<1>3. WorkersInv'
  BY DEF WorkersInv
<1>4. LoginInv'
  BY DEF LoginInv
<1>5. TicketInv' BY <1>0, FinishKeepsTicketInv
<1>6. CredentialHasOwner'
  BY DEF CredentialHasOwner
<1> QED BY <1>1, <1>2, <1>3, <1>4, <1>5, <1>6

\* The worker releases its handles: the invariant is kept.
LEMMA RunCleanupKeeps ==
  ASSUME SessionInv, NEW w \in Worker, RunCleanup(w)
  PROVE  SessionInv'
<1> USE DEF RunCleanup, Finish, Head1
<1>0. queue[w] # <<>> /\ \E o \in {"ok", "error"} : Finish(w, o)
  BY DEF Head1
<1>1. TypeOK'
  BY DEF TypeOK
<1>2. RequestsInv'
  BY DEF RequestsInv
<1>3. WorkersInv'
  BY DEF WorkersInv
<1>4. LoginInv'
  BY DEF LoginInv
<1>5. TicketInv' BY <1>0, FinishKeepsTicketInv
<1>6. CredentialHasOwner'
  BY DEF CredentialHasOwner
<1> QED BY <1>1, <1>2, <1>3, <1>4, <1>5, <1>6

\* A sign-in starts: the invariant is kept.
LEMMA StartLoginKeeps ==
  ASSUME SessionInv, NEW s \in Sid, StartLogin(s)
  PROVE  SessionInv'
<1> USE DEF StartLogin
<1>0. /\ <<"resolve">> \in Seq(Job) /\ <<"resolve">>[1] = "resolve" /\ Len(<<"resolve">>) = 1
      /\ queue'[s] = <<"resolve">> /\ \A w \in Worker : w # s => queue'[w] = queue[w]
      /\ login'[s] = "resolving" /\ \A t \in Sid : t # s => login'[t] = login[t]
      /\ answer'[s] = "none"
  BY DEF TypeOK, LoginInv
<1>1. TypeOK'
  BY DEF TypeOK
<1>2. RequestsInv'
  BY DEF RequestsInv
<1>3. WorkersInv'
  BY DEF TypeOK, WorkersInv, LoginInv
<1>4. LoginInv'
  BY DEF TypeOK, LoginInv
<1>5. TicketInv'
  <2>1. ASSUME NEW t \in Sid, login'[t] \in {"resolving", "ticket"}
        PROVE  queue'[t] = IF answer'[t] # "none" THEN <<>>
                           ELSE IF login'[t] = "resolving" THEN <<"resolve">> ELSE <<"kinit">>
    <3>1. CASE t = s
      BY <1>0, <3>1
    <3>2. CASE t # s
      BY <1>0, <2>1, <3>2 DEF TicketInv
    <3> QED BY <3>1, <3>2
  <2>2. ASSUME NEW w \in Worker, NEW i \in 1..Len(queue'[w]), queue'[w][i] = "kinit"
        PROVE  w \in Sid /\ w \in kerberos /\ login'[w] \in {"ticket", "timed_out"}
    <3>1. w # s
      BY <1>0, <2>2
    <3> QED BY <1>0, <2>2, <3>1 DEF TicketInv
  <2>3. \A t \in Sid : login'[t] = "ticket" => t \in kerberos'
    BY <1>0 DEF TicketInv
  <2> QED BY <2>1, <2>2, <2>3 DEF TicketInv
<1>6. CredentialHasOwner'
  BY DEF CredentialHasOwner
<1> QED BY <1>1, <1>2, <1>3, <1>4, <1>5, <1>6

\* The sign-in goes on with a resolved target: the invariant is kept.
LEMMA AfterResolveKeeps ==
  ASSUME SessionInv, NEW s \in Sid, AfterResolve(s)
  PROVE  SessionInv'
<1> USE DEF AfterResolve
<1>1. login[s] = "resolving" /\ answer[s] # "none"
  OBVIOUS
<1>2. CASE FailLogin(s)
  BY <1>1, <1>2, FailLoginKeeps
<1>3. CASE /\ login' = [login EXCEPT ![s] = "bad_name"]
           /\ UNCHANGED <<kerberos, storeVars, queue, drop, loop>>
  <2> USE <1>1, <1>3
  <2>1. TypeOK'
    BY DEF TypeOK, RequestsInv, WorkersInv, LoginInv, TicketInv, CredentialHasOwner
  <2>2. RequestsInv'
    BY DEF TypeOK, RequestsInv, WorkersInv, LoginInv, TicketInv, CredentialHasOwner
  <2>3. WorkersInv'
    BY DEF TypeOK, RequestsInv, WorkersInv, LoginInv, TicketInv, CredentialHasOwner
  <2>4. LoginInv'
    BY DEF TypeOK, RequestsInv, WorkersInv, LoginInv, TicketInv, CredentialHasOwner
  <2>5. TicketInv'
    BY DEF TypeOK, RequestsInv, WorkersInv, LoginInv, TicketInv, CredentialHasOwner
  <2>6. CredentialHasOwner'
    BY DEF TypeOK, RequestsInv, WorkersInv, LoginInv, TicketInv, CredentialHasOwner
  <2> QED BY <2>1, <2>2, <2>3, <2>4, <2>5, <2>6
<1>4. CASE /\ login' = [login EXCEPT ![s] = "ticket"]
           /\ kerberos' = kerberos \cup {s}
           /\ queue' = [queue EXCEPT ![s] = Append(@, "kinit")]
           /\ UNCHANGED <<storeVars, drop, loop>>
  <2> USE <1>1, <1>4
  <2>1. TypeOK'
    BY DEF TypeOK, RequestsInv, WorkersInv, LoginInv, TicketInv, CredentialHasOwner
  <2>2. RequestsInv'
    BY DEF TypeOK, RequestsInv, WorkersInv, LoginInv, TicketInv, CredentialHasOwner
  <2>3. WorkersInv'
    BY DEF TypeOK, RequestsInv, WorkersInv, LoginInv, TicketInv, CredentialHasOwner
  <2>4. LoginInv'
    BY DEF TypeOK, RequestsInv, WorkersInv, LoginInv, TicketInv, CredentialHasOwner
  <2>5. TicketInv'
    <3>1. queue[s] = <<>> /\ Append(<<>>, "kinit") = <<"kinit">>
      BY DEF TicketInv
    <3>2. /\ queue'[s] = <<"kinit">> /\ login'[s] = "ticket" /\ answer'[s] = "none"
          /\ \A w \in Worker : w # s => queue'[w] = queue[w]
          /\ \A t \in Sid : t # s => login'[t] = login[t] /\ answer'[t] = answer[t]
      BY <3>1 DEF TypeOK
    <3>3. <<"kinit">>[1] = "kinit" /\ Len(<<"kinit">>) = 1
      OBVIOUS
    <3>4. ASSUME NEW t \in Sid, login'[t] \in {"resolving", "ticket"}
          PROVE  queue'[t] = IF answer'[t] # "none" THEN <<>>
                             ELSE IF login'[t] = "resolving" THEN <<"resolve">> ELSE <<"kinit">>
      <4>1. CASE t = s
        BY <3>2, <4>1
      <4>2. CASE t # s
        BY <3>2, <3>4, <4>2 DEF TicketInv
      <4> QED BY <4>1, <4>2
    <3>5. ASSUME NEW w \in Worker, NEW i \in 1..Len(queue'[w]), queue'[w][i] = "kinit"
          PROVE  w \in Sid /\ w \in kerberos' /\ login'[w] \in {"ticket", "timed_out"}
      BY <3>2, <3>5 DEF TicketInv
    <3>6. \A t \in Sid : login'[t] = "ticket" => t \in kerberos'
      BY <3>2 DEF TicketInv
    <3> QED BY <3>4, <3>5, <3>6 DEF TicketInv
  <2>6. CredentialHasOwner'
    BY DEF TypeOK, RequestsInv, WorkersInv, LoginInv, TicketInv, CredentialHasOwner
  <2> QED BY <2>1, <2>2, <2>3, <2>4, <2>5, <2>6
<1>5. CASE OpenSession(s) /\ cred' = cred \cup {s} /\ UNCHANGED kerberos
  BY <1>1, <1>5, OpenSessionKeeps
<1> QED BY <1>2, <1>3, <1>4, <1>5

\* The sign-in goes on after the ticket exchange: the invariant is kept.
LEMMA AfterTicketKeeps ==
  ASSUME SessionInv, NEW s \in Sid, AfterTicket(s)
  PROVE  SessionInv'
<1> USE DEF AfterTicket
<1>1. CASE FailLogin(s)
  BY <1>1, FailLoginKeeps
<1>2. CASE OpenSession(s) /\ UNCHANGED <<kerberos, cred>>
  BY <1>2, OpenSessionKeeps
<1> QED BY <1>1, <1>2

\* The sign-in ends with its first connection: the invariant is kept.
LEMMA AfterConnectKeeps ==
  ASSUME SessionInv, NEW s \in Sid, AfterConnect(s)
  PROVE  SessionInv'
<1> USE DEF AfterConnect, DropOnLoop
<1>1. CASE /\ login' = [login EXCEPT ![s] = "signed_in"]
           /\ UNCHANGED <<stored, expired, drop, loop>>
  BY <1>1, EndConnectingKeeps
<1>2. CASE login' = [login EXCEPT ![s] = "failed"] /\ DropOnLoop(s)
  <2>1. CASE s \in stored
    BY <1>2, <2>1, PopKeeps
  <2>2. CASE s \notin stored
    BY <1>2, <2>2, EndConnectingKeeps
  <2> QED BY <2>1, <2>2
<1> QED BY <1>1, <1>2

\* A sign-in gives up waiting: the invariant is kept.
LEMMA LoginTimeoutKeeps ==
  ASSUME SessionInv, NEW s \in Sid, LoginTimeout(s)
  PROVE  SessionInv'
<1> USE DEF LoginTimeout, DropOnLoop
<1>1. CASE login[s] = "resolving" /\ FailLogin(s)
  BY <1>1, FailLoginKeeps
<1>2. CASE /\ login[s] = "ticket"
           /\ login' = [login EXCEPT ![s] = "timed_out"]
           /\ drop' = [drop EXCEPT ![s] = "unregister"]
           /\ loop' = s
           /\ UNCHANGED <<kerberos, storeVars, queue>>
  <2> USE <1>2
  <2>1. TypeOK'
    BY DEF TypeOK, RequestsInv, WorkersInv, LoginInv, TicketInv, CredentialHasOwner
  <2>2. RequestsInv'
    BY DEF TypeOK, RequestsInv, WorkersInv, LoginInv, TicketInv, CredentialHasOwner
  <2>3. WorkersInv'
    BY DEF TypeOK, RequestsInv, WorkersInv, LoginInv, TicketInv, CredentialHasOwner
  <2>4. LoginInv'
    BY DEF TypeOK, RequestsInv, WorkersInv, LoginInv, TicketInv, CredentialHasOwner
  <2>5. TicketInv'
    BY DEF TypeOK, RequestsInv, WorkersInv, LoginInv, TicketInv, CredentialHasOwner
  <2>6. CredentialHasOwner'
    BY DEF TypeOK, RequestsInv, WorkersInv, LoginInv, TicketInv, CredentialHasOwner
  <2> QED BY <2>1, <2>2, <2>3, <2>4, <2>5, <2>6
<1>3. CASE /\ login[s] = "connecting"
           /\ login' = [login EXCEPT ![s] = "failed"]
           /\ DropOnLoop(s)
           /\ UNCHANGED <<kerberos, cred, queue>>
  <2>1. CASE s \in stored
    BY <1>3, <2>1, PopKeeps
  <2>2. CASE s \notin stored
    BY <1>3, <2>2, EndConnectingKeeps
  <2> QED BY <2>1, <2>2
<1> QED BY <1>1, <1>2, <1>3

\* A request presents its cookie: the invariant is kept.
LEMMA AuthenticateKeeps ==
  ASSUME SessionInv, NEW r \in Req, Authenticate(r)
  PROVE  SessionInv'
<1>1. PICK s \in Sid, kind \in {"read", "write"} :
        /\ login[s] = "signed_in"
        /\ cookie' = [cookie EXCEPT ![r] = s]
        /\ op' = [op EXCEPT ![r] = kind]
        /\ \/ /\ s \in stored \ expired
              /\ pc' = [pc EXCEPT ![r] = "session"]
              /\ UNCHANGED <<stored, expired, drop>>
           \/ /\ s \in expired
              /\ pc' = [pc EXCEPT ![r] = "unauthorised"]
              /\ Pop(s)
           \/ /\ s \notin stored
              /\ pc' = [pc EXCEPT ![r] = "unauthorised"]
              /\ UNCHANGED <<stored, expired, drop>>
  BY DEF Authenticate
<1>2. /\ pc[r] = "idle"
      /\ UNCHANGED <<up, loginVars, cred, reg, workerVars, closing, loop, hand>>
  BY DEF Authenticate
<1>3. /\ s \in stored \/ (s \notin stored /\ UNCHANGED <<stored, expired, drop>>)
      /\ pc' = [pc EXCEPT ![r] = "session"] \/ pc' = [pc EXCEPT ![r] = "unauthorised"]
      /\ UNCHANGED <<stored, expired, drop>> \/ Pop(s)
  BY <1>1 DEF SessionInv, TypeOK
<1> USE <1>1, <1>2 DEF Pop
<1>4. TypeOK'
  <2>1. /\ stored' \in SUBSET Sid /\ expired' \in SUBSET stored'
        /\ drop' \in [Sid -> DropStage]
    <3>1. CASE UNCHANGED <<stored, expired, drop>>
      BY <3>1 DEF TypeOK
    <3>2. CASE Pop(s)
      BY <3>2 DEF TypeOK
    <3> QED BY <1>3, <3>1, <3>2
  <2>2. /\ pc' \in [Req -> RequestStage]
        /\ cookie' \in [Req -> Sid \cup {None}]
        /\ op' \in [Req -> {"read", "write"}]
    BY DEF TypeOK
  <2> QED BY <2>1, <2>2 DEF TypeOK
<1>5. RequestsInv'
  BY DEF TypeOK, RequestsInv
<1>6. WorkersInv'
  BY DEF TypeOK, WorkersInv, RequestsInv
<1>7. LoginInv'
  BY DEF TypeOK, LoginInv
<1>8. TicketInv'
  BY DEF TicketInv
<1>9. CredentialHasOwner'
  BY DEF TypeOK, CredentialHasOwner
<1> QED BY <1>4, <1>5, <1>6, <1>7, <1>8, <1>9

\* A request asks for its worker: the invariant is kept.
LEMMA LookUpWorkerKeeps ==
  ASSUME SessionInv, NEW r \in Req, LookUpWorker(r)
  PROVE  SessionInv'
<1> USE DEF LookUpWorker
<1>0. cookie[r] \in Sid /\ reg[cookie[r]] \in Worker \cup {None}
  <2>1. cookie[r] \in Sid
    BY DEF RequestsInv
  <2> QED BY <2>1 DEF TypeOK
<1>a. /\ pc'[r] \in {"handed", "miss", "refused"} /\ hand'[r] = reg[cookie[r]]
      /\ pc'[r] = "handed" <=> reg[cookie[r]] # None
      /\ \A q \in Req : q # r => pc'[q] = pc[q] /\ hand'[q] = hand[q]
  BY <1>0 DEF TypeOK
<1>b. pc' \in [Req -> RequestStage] /\ hand' \in [Req -> Worker \cup {None}]
  BY <1>0 DEF TypeOK
<1>1. TypeOK'
  BY <1>b DEF TypeOK
<1>2. RequestsInv'
  <2>1. pc'[r] = "handed" => hand'[r] \in Worker /\ Owner(hand'[r]) = cookie[r]
    BY <1>0, <1>a DEF WorkersInv
  <2>2. pc'[r] = "miss" => cookie[r] \notin stored
    BY <1>0, <1>a DEF LoginInv
  <2> QED BY <1>0, <1>a, <2>1, <2>2 DEF RequestsInv
<1>3. WorkersInv'
  BY DEF WorkersInv
<1>4. LoginInv'
  BY DEF LoginInv
<1>5. TicketInv'
  BY DEF TicketInv
<1>6. CredentialHasOwner'
  BY DEF CredentialHasOwner
<1> QED BY <1>1, <1>2, <1>3, <1>4, <1>5, <1>6

\* A request makes a worker: the invariant is kept.
LEMMA MakeWorkerKeeps ==
  ASSUME SessionInv, NEW r \in Req, MakeWorker(r)
  PROVE  SessionInv'
<1> USE DEF MakeWorker
<1>0. /\ cookie[r] \in Sid /\ cookie' = cookie
      /\ reg'[cookie[r]] = r /\ pool[r] = "unborn" /\ pool'[r] = "open"
      /\ \A t \in Sid : t # cookie[r] => reg'[t] = reg[t]
      /\ \A w \in Worker : w # r => pool'[w] = pool[w]
  BY DEF TypeOK, RequestsInv
<1>1. TypeOK'
  BY DEF TypeOK
<1>2. RequestsInv'
  BY DEF TypeOK, RequestsInv
<1>3. WorkersInv'
  <2>1. ASSUME NEW t \in Sid, reg'[t] # None
        PROVE  (Owner(reg[t]) = t /\ pool[reg[t]] = "open")'
    <3>1. CASE t = cookie[r]
      BY <1>0, <3>1
    <3>2. CASE t # cookie[r]
      BY <1>0, <2>1, <3>2 DEF TypeOK, WorkersInv
    <3> QED BY <3>1, <3>2
  <2>2. ASSUME NEW t \in Sid, drop'[t] \in {"cleanup", "shutdown"}
        PROVE  (/\ closing[t] # None /\ Owner(closing[t]) = t
                /\ pool[closing[t]] \in {"closed", "cleaned"})'
    BY <1>0, <2>2 DEF TypeOK, WorkersInv
  <2>3. ASSUME NEW t \in Sid, drop'[t] # "no" PROVE t \notin stored'
    BY <2>3 DEF WorkersInv
  <2> QED BY <2>1, <2>2, <2>3 DEF WorkersInv
<1>4. LoginInv'
  BY DEF TypeOK, LoginInv, RequestsInv
<1>5. TicketInv'
  BY DEF TicketInv
<1>6. CredentialHasOwner'
  BY DEF CredentialHasOwner
<1> QED BY <1>1, <1>2, <1>3, <1>4, <1>5, <1>6

\* A request enters run(): the invariant is kept.
LEMMA EnterRunKeeps ==
  ASSUME SessionInv, NEW r \in Req, EnterRun(r)
  PROVE  SessionInv'
<1> USE DEF EnterRun
<1>1. TypeOK'
  <2>1. /\ pc' = [pc EXCEPT ![r] = "submitting"] \/ pc' = [pc EXCEPT ![r] = "refused"]
        /\ loop' = r \/ loop' = loop
    OBVIOUS
  <2>2. pc \in [Req -> RequestStage] /\ loop \in Sid \cup Req \cup {None}
    BY DEF TypeOK
  <2>3. pc' \in [Req -> RequestStage]
    BY <2>1, <2>2
  <2>4. loop' \in Sid \cup Req \cup {None}
    BY <2>1, <2>2
  <2> QED BY <2>3, <2>4 DEF TypeOK
<1>2. RequestsInv'
  BY DEF TypeOK, RequestsInv
<1>3. WorkersInv'
  BY DEF WorkersInv
<1>4. LoginInv'
  BY DEF LoginInv
<1>5. TicketInv'
  BY DEF TicketInv
<1>6. CredentialHasOwner'
  BY DEF CredentialHasOwner
<1> QED BY <1>1, <1>2, <1>3, <1>4, <1>5, <1>6

\* A request submits its operation: the invariant is kept.
LEMMA SubmitKeeps ==
  ASSUME SessionInv, NEW r \in Req, Submit(r)
  PROVE  SessionInv'
<1> USE DEF Submit
<1>0. /\ hand[r] \in Worker /\ hand[r] # None /\ Owner(hand[r]) = cookie[r]
      /\ login[cookie[r]] = "signed_in" /\ r \in Job
  <2>1. hand[r] \in Worker /\ Owner(hand[r]) = cookie[r] /\ cookie[r] \in Sid
    BY DEF RequestsInv
  <2>2. login[cookie[r]] = "signed_in"
    BY <2>1 DEF RequestsInv
  <2> QED BY <2>1, <2>2
<1>a. UNCHANGED queue \/ queue' = [queue EXCEPT ![hand[r]] = Append(@, r)]
  OBVIOUS
<1>1. TypeOK'
  <2>1. queue' \in [Worker -> Seq(Job)]
    <3>1. queue \in [Worker -> Seq(Job)]
      BY DEF TypeOK
    <3> QED BY <1>0, <1>a, <3>1, SubmitFacts
  <2>2. pc' = [pc EXCEPT ![r] = "waiting"] \/ pc' = [pc EXCEPT ![r] = "refused"]
    OBVIOUS
  <2>3. pc' \in [Req -> RequestStage] /\ loop' \in Sid \cup Req \cup {None}
    BY <2>2 DEF TypeOK
  <2> QED BY <2>1, <2>3 DEF TypeOK
<1>2. RequestsInv'
  <2>1. /\ pc'[r] \in {"waiting", "refused"} /\ pc[r] = "submitting"
        /\ \A q \in Req : q # r => pc'[q] = pc[q]
    BY DEF TypeOK
  <2> QED BY <2>1 DEF RequestsInv
<1>3. WorkersInv'
  BY DEF WorkersInv
<1>4. LoginInv'
  BY DEF LoginInv
<1>5. TicketInv'
  <2>1. CASE UNCHANGED queue
    BY <2>1 DEF TicketInv
  <2>2. CASE queue' = [queue EXCEPT ![hand[r]] = Append(@, r)]
    <3>1. /\ \A v \in Worker : v # hand[r] => queue'[v] = queue[v]
          /\ \A v \in Worker : \A i \in 1..Len(queue'[v]) :
                \/ v = hand[r] /\ queue'[v][i] = r
                \/ i \in 1..Len(queue[v]) /\ queue'[v][i] = queue[v][i]
      BY <1>0, <2>2, SubmitFacts DEF TypeOK
    <3>2. r # "kinit"
      OBVIOUS
    <3>3. \A t \in Sid : login[t] \in {"resolving", "ticket"} => t # hand[r]
      BY <1>0
    <3> QED BY <3>1, <3>2, <3>3 DEF TicketInv
  <2> QED BY <1>a, <2>1, <2>2
<1>6. CredentialHasOwner'
  BY DEF CredentialHasOwner
<1> QED BY <1>1, <1>2, <1>3, <1>4, <1>5, <1>6

\* A request gives up waiting: the invariant is kept.
LEMMA RequestTimeoutKeeps ==
  ASSUME SessionInv, NEW r \in Req, RequestTimeout(r)
  PROVE  SessionInv'
<1> USE DEF RequestTimeout
<1>0. pc'[r] = "timed_out" /\ \A q \in Req : q # r => pc'[q] = pc[q]
  BY DEF TypeOK
<1>1. TypeOK'
  BY DEF TypeOK
<1>2. RequestsInv'
  BY <1>0 DEF TypeOK, RequestsInv
<1>3. WorkersInv'
  BY DEF WorkersInv
<1>4. LoginInv'
  BY DEF LoginInv
<1>5. TicketInv'
  BY DEF TicketInv
<1>6. CredentialHasOwner'
  BY DEF CredentialHasOwner
<1> QED BY <1>1, <1>2, <1>3, <1>4, <1>5, <1>6

\* A session expires: the invariant is kept.
LEMMA ExpireKeeps ==
  ASSUME SessionInv, NEW s \in Sid, Expire(s)
  PROVE  SessionInv'
<1> USE DEF Expire
<1>1. TypeOK'
  BY DEF TypeOK
<1>2. RequestsInv'
  BY DEF RequestsInv
<1>3. WorkersInv'
  BY DEF WorkersInv
<1>4. LoginInv'
  BY DEF LoginInv
<1>5. TicketInv'
  BY DEF TicketInv
<1>6. CredentialHasOwner'
  BY DEF CredentialHasOwner
<1> QED BY <1>1, <1>2, <1>3, <1>4, <1>5, <1>6

\* The sweeper drops a session: the invariant is kept.
LEMMA SweepKeeps ==
  ASSUME SessionInv, NEW s \in Sid, Sweep(s)
  PROVE  SessionInv'
<1>1. s \in stored
  BY DEF Sweep, SessionInv, TypeOK
<1> QED BY <1>1, PopKeeps DEF Sweep, DropOnLoop, loginVars

\* A user signs out: the invariant is kept.
LEMMA LogoutKeeps ==
  ASSUME SessionInv, NEW s \in Sid, Logout(s)
  PROVE  SessionInv'
<1> QED BY PopKeeps DEF Logout, DropOnLoop, loginVars

\* The process stops: the invariant is kept.
LEMMA ShutdownKeeps ==
  ASSUME SessionInv, Shutdown
  PROVE  SessionInv'
<1> USE DEF Shutdown, Registered
<1>1. TypeOK'
  <2>1. queue' \in [Worker -> Seq(Job)]
    <3>1. ASSUME NEW w \in Worker PROVE Append(queue[w], "cleanup") \in Seq(Job)
      BY AppendFacts DEF TypeOK
    <3> QED BY <3>1 DEF TypeOK
  <2>2. pool' \in [Worker -> PoolStage]
    BY DEF TypeOK
  <2> QED BY <2>1, <2>2 DEF TypeOK
<1>2. RequestsInv'
  BY DEF TypeOK, RequestsInv, WorkersInv
<1>3. WorkersInv'
  BY DEF WorkersInv
<1>4. LoginInv'
  BY DEF LoginInv
<1>5. TicketInv'
  BY DEF TicketInv
<1>6. CredentialHasOwner'
  BY DEF CredentialHasOwner
<1> QED BY <1>1, <1>2, <1>3, <1>4, <1>5, <1>6

HIDE ActorsAssumption
    DEF SessionInv, loginVars, storeVars, workerVars, dropVars, reqVars, Worker, Job, Owner,
        LoginStage, PoolStage, DropStage, RequestStage

(***************************************************************************)
(* The inductive invariant.                                                *)
(***************************************************************************)
\* The state the process starts in.
LEMMA InitInv == Init => SessionInv
<1> SUFFICES ASSUME Init PROVE SessionInv
  OBVIOUS
<1> USE ActorsAssumption
        DEF Init, Worker, Job, Owner, LoginStage, PoolStage, DropStage, RequestStage
<1>0. <<>> \in Seq(Job) /\ Len(<<>>) = 0
  OBVIOUS
<1>1. TypeOK
  BY <1>0 DEF TypeOK
<1>2. RequestsInv /\ WorkersInv /\ LoginInv /\ CredentialHasOwner
  BY DEF RequestsInv, WorkersInv, LoginInv, CredentialHasOwner
<1>3. TicketInv
  BY <1>0 DEF TicketInv
<1> QED BY <1>1, <1>2, <1>3 DEF SessionInv

\* No step of any handler, pool thread, worker thread, sweeper or shutdown
\* breaks the invariant.
LEMMA StepInv == SessionInv /\ [Next]_vars => SessionInv'
<1> SUFFICES ASSUME SessionInv, [Next]_vars PROVE SessionInv'
  OBVIOUS
<1>1. ASSUME NEW s \in Sid, LoginStep(s) PROVE SessionInv'
  BY <1>1, StartLoginKeeps, AfterResolveKeeps, AfterTicketKeeps, AfterConnectKeeps,
     LoginTimeoutKeeps DEF LoginStep
<1>2. ASSUME NEW s \in Sid, DropStep(s) PROVE SessionInv'
  BY <1>2, UnregisterKeeps, SubmitCleanupKeeps, ShutPoolKeeps, DestroyCredentialsKeeps
     DEF DropStep
<1>3. ASSUME NEW r \in Req, RequestStep(r) PROVE SessionInv'
  BY <1>3, AuthenticateKeeps, LookUpWorkerKeeps, MakeWorkerKeeps, EnterRunKeeps,
     SubmitKeeps, RequestTimeoutKeeps DEF RequestStep
<1>4. ASSUME NEW w \in Worker, WorkerStep(w) PROVE SessionInv'
  BY <1>4, RunResolveKeeps, RefuseKinitKeeps, BeginKinitKeeps, EndKinitKeeps,
     BeginOperationKeeps, ReconnectKeeps, EndOperationKeeps, RunCleanupKeeps DEF WorkerStep
<1>5. ASSUME UNCHANGED vars PROVE SessionInv'
  BY <1>5 DEF vars, loginVars, storeVars, workerVars, dropVars, reqVars, SessionInv, TypeOK,
     RequestsInv, WorkersInv, LoginInv, TicketInv, CredentialHasOwner, Owner
<1> QED BY <1>1, <1>2, <1>3, <1>4, <1>5, ExpireKeeps, SweepKeeps, LogoutKeeps, ShutdownKeeps
        DEF Next

\* The inductive invariant holds of every execution, for any number of
\* sessions and requests and any limit on workers.
THEOREM SessionInvariant == Spec => []SessionInv
<1>1. Init => SessionInv
  BY InitInv
<1>2. SessionInv /\ [Next]_vars => SessionInv'
  BY StepInv
<1> QED BY <1>1, <1>2, PTL DEF Spec

(***************************************************************************)
(* What follows from it.                                                   *)
(***************************************************************************)
\* Every variable keeps its type.
THEOREM TypeCorrect == Spec => []TypeOK
<1>1. SessionInv => TypeOK
  BY DEF SessionInv
<1> QED BY <1>1, SessionInvariant, PTL

\* The operations of a stored session have one worker thread to go to
\* (core/executor.py, "one worker thread per session").
THEOREM OneWorkerPerStoredSession == Spec => []StoredSessionHasOneWorker
<1>1. SessionInv => StoredSessionHasOneWorker
  BY DEF SessionInv, TypeOK, LoginInv, RequestsInv, StoredSessionHasOneWorker
<1> QED BY <1>1, SessionInvariant, PTL

\* A ticket file or password buffer belongs to a session, to a drop under way or
\* to a ticket exchange (auth/session.py, api/v1/auth.py).
THEOREM CredentialsAreOwned == Spec => []CredentialHasOwner
<1>1. SessionInv => CredentialHasOwner
  BY DEF SessionInv
<1> QED BY <1>1, SessionInvariant, PTL

\* A sign-in that failed has been cleaned up completely (_fail in api/v1/auth.py
\* and SessionStore.drop).
THEOREM FailureLeavesNothing == Spec => []FailedSignInLeavesNothing
<1>1. SessionInv => FailedSignInLeavesNothing
  BY DEF SessionInv, TypeOK, LoginInv, CredentialHasOwner, FailedSignInLeavesNothing
<1> QED BY <1>1, SessionInvariant, PTL

\* Only a ticket exchange and the opening of a session write credentials.
LEMMA CredentialWriters ==
  ASSUME SessionInv, [Next]_vars, NEW s \in Sid, s \in cred', s \notin cred
  PROVE  login[s] \in {"resolving", "ticket", "timed_out"}
<1> USE DEF SessionInv, loginVars, storeVars, workerVars, dropVars, reqVars
<1>1. ASSUME NEW w \in Worker, Head1(w) = "kinit", s = Owner(w)
      PROVE  login[s] \in {"ticket", "timed_out"}
  <2>1. w \in Sid /\ login[w] \in {"ticket", "timed_out"}
    BY <1>1, KinitWorker
  <2> QED BY <1>1, <2>1 DEF Owner
<1>2. ASSUME NEW w \in Worker, WorkerStep(w) PROVE login[s] \in {"ticket", "timed_out"}
  <2>1. Head1(w) = "kinit" /\ s = Owner(w)
    BY <1>2 DEF WorkerStep, RunResolve, RefuseKinit, BeginKinit, EndKinit, BeginOperation,
       Reconnect, EndOperation, RunCleanup
  <2> QED BY <1>1, <2>1
<1>3. ASSUME NEW t \in Sid, LoginStep(t) PROVE login[s] \in {"resolving", "ticket"}
  BY <1>3 DEF LoginStep, StartLogin, AfterResolve, AfterTicket, AfterConnect, LoginTimeout,
     FailLogin, OpenSession, DropOnLoop, Pop
<1>4. ASSUME NEW t \in Sid, DropStep(t) PROVE FALSE
  BY <1>4 DEF DropStep, Unregister, SubmitCleanup, ShutPool, DestroyCredentials
<1>5. ASSUME NEW r \in Req, RequestStep(r) PROVE FALSE
  BY <1>5 DEF RequestStep, Authenticate, LookUpWorker, MakeWorker, EnterRun, Submit,
     RequestTimeout
<1>6. ASSUME NEW t \in Sid, Expire(t) \/ Sweep(t) \/ Logout(t) PROVE FALSE
  BY <1>6 DEF Expire, Sweep, Logout
<1>7. ASSUME Shutdown \/ UNCHANGED vars PROVE FALSE
  BY <1>7 DEF Shutdown, vars
<1> QED BY <1>2, <1>3, <1>4, <1>5, <1>6, <1>7 DEF Next

\* Once a session was opened, no step writes its credentials again, whatever is
\* still queued on its workers (core/executor.py, auth/session.py).
THEOREM NoCredentialComesBack == Spec => DestroyedCredentialStaysGone
<1>1. SessionInv /\ [Next]_vars =>
        [\A s \in Sid : login[s] \in {"connecting", "signed_in", "failed"} /\ s \notin cred
                        => s \notin cred']_vars
  BY CredentialWriters
<1> QED BY <1>1, SessionInvariant, PTL DEF Spec, DestroyedCredentialStaysGone

-------------------------------------------------------------------------------
(* The refinement of SessionContract.                                        *)

\* The session a request counts as admitted by, as the refinement maps it.
Admitted(r) == IF pc[r] \in {"idle", "unauthorised"} THEN None ELSE cookie[r]

\* r is in w's queue, or at its head with the thread busy.
Queued(w, r) == \E i \in 1..Len(queue[w]) : queue[w][i] = r
Busy(w, r) == Len(queue[w]) # 0 /\ queue[w][1] = r /\ phase[w] # "waiting"

(***************************************************************************)
(* What the contract sees of the queues.                                   *)
(***************************************************************************)
\* The head of a queue, by its index.
LEMMA HeadFacts ==
  ASSUME NEW S, NEW q \in Seq(S)
  PROVE  /\ Len(q) \in Nat
         /\ q = <<>> <=> Len(q) = 0
         /\ q # <<>> => Head(q) = q[1] /\ 1 \in 1..Len(q)
OBVIOUS

\* How far an operation is, by the places it has in queues.
LEMMA RunIs ==
  ASSUME ActorsAssumption, queue \in [Worker -> Seq(Job)], NEW r \in Req
  PROVE  ContractRun(r) =
            IF \E w \in Worker : Busy(w, r) THEN "running"
            ELSE IF \/ pc[r] \in {"refused", "done"}
                    \/ pc[r] = "timed_out" /\ ~ \E w \in Worker : Queued(w, r)
            THEN "over" ELSE "not_yet"
<1>1. ASSUME NEW w \in Worker PROVE (Head1(w) = r /\ phase[w] # "waiting") <=> Busy(w, r)
  <2>1. queue[w] \in Seq(Job) /\ r # "none"
    BY DEF ActorsAssumption
  <2>2. queue[w] = <<>> <=> Len(queue[w]) = 0
    BY <2>1, HeadFacts
  <2>3. queue[w] # <<>> => Head(queue[w]) = queue[w][1]
    BY <2>1, HeadFacts
  <2> QED BY <2>1, <2>2, <2>3 DEF Head1, Busy
<1>2. (\A w \in Worker : \A i \in 1..Len(queue[w]) : queue[w][i] # r)
         <=> ~ \E w \in Worker : Queued(w, r)
  BY DEF Queued
<1> QED BY <1>1, <1>2 DEF ContractRun

\* The same after a step.
LEMMA RunIsThen ==
  ASSUME ActorsAssumption, queue' \in [Worker -> Seq(Job)], NEW r \in Req
  PROVE  ContractRun(r)' =
            IF \E w \in Worker : Busy(w, r)' THEN "running"
            ELSE IF \/ pc'[r] \in {"refused", "done"}
                    \/ pc'[r] = "timed_out" /\ ~ \E w \in Worker : Queued(w, r)'
            THEN "over" ELSE "not_yet"
<1>1. ASSUME NEW w \in Worker PROVE (Head1(w)' = r /\ phase'[w] # "waiting") <=> Busy(w, r)'
  <2>1. queue'[w] \in Seq(Job) /\ r # "none"
    BY DEF ActorsAssumption
  <2>2. queue'[w] = <<>> <=> Len(queue'[w]) = 0
    BY <2>1, HeadFacts
  <2>3. queue'[w] # <<>> => Head(queue'[w]) = queue'[w][1]
    BY <2>1, HeadFacts
  <2> QED BY <2>1, <2>2, <2>3 DEF Head1, Busy
<1>2. (\A w \in Worker : \A i \in 1..Len(queue'[w]) : queue'[w][i] # r)
         <=> ~ \E w \in Worker : Queued(w, r)'
  BY DEF Queued
<1> QED BY <1>1, <1>2 DEF ContractRun

\* An operation that is in a queue has not ended; one that is in none is not running.
LEMMA QueuedIs ==
  ASSUME ActorsAssumption, TypeOK, QueuesInv, NEW r \in Req
  PROVE  /\ \A w \in Worker : Busy(w, r) => Queued(w, r)
         /\ \A w \in Worker : Queued(w, r) =>
               /\ pc[r] \in {"waiting", "timed_out"} /\ hand[r] = w
               /\ ContractRun(r) # "over"
<1>1. ASSUME NEW w \in Worker, Busy(w, r) PROVE Queued(w, r)
  <2>1. Len(queue[w]) \in Nat
    BY HeadFacts DEF TypeOK
  <2> QED BY <1>1, <2>1 DEF Busy, Queued
<1>2. ASSUME NEW w \in Worker, Queued(w, r)
      PROVE  pc[r] \in {"waiting", "timed_out"} /\ hand[r] = w /\ ContractRun(r) # "over"
  <2>1. pc[r] \in {"waiting", "timed_out"} /\ hand[r] = w
    BY <1>2 DEF Queued, QueuesInv
  <2> QED BY <1>2, <2>1, RunIs DEF TypeOK
<1> QED BY <1>1, <1>2

\* A request that waits has a worker.
LEMMA WaitingAtWorker ==
  ASSUME RequestsInv, NEW r \in Req, pc[r] = "waiting"
  PROVE  hand[r] \in Worker
BY DEF RequestsInv

(***************************************************************************)
(* The kinds of step, by what they do to queues and requests.              *)
(***************************************************************************)
\* The contract sees nothing of a request's progress change.
Same(r) == ContractRun(r)' = ContractRun(r) /\ Admitted(r)' = Admitted(r)

\* No operation enters or leaves a queue, no request moves, no thread takes a job.
LEMMA CalmKeeps ==
  ASSUME ActorsAssumption, TypeOK, RequestsInv, QueuesInv, UNCHANGED <<phase, reqVars>>,
         queue' \in [Worker -> Seq(Job)],
         \A w \in Worker : pool[w] # "unborn" => pool'[w] # "unborn",
         \A w \in Worker : queue[w] # <<>> => queue'[w] # <<>>,
         \A w \in Worker, r \in Req : \A i \in 1..Len(queue'[w]) :
             queue'[w][i] = r => i \in 1..Len(queue[w]) /\ queue[w][i] = r,
         \A w \in Worker, r \in Req : \A i \in 1..Len(queue[w]) :
             queue[w][i] = r => i \in 1..Len(queue'[w]) /\ queue'[w][i] = r
  PROVE  QueuesInv' /\ \A r \in Req : Same(r)
<1>1. UNCHANGED <<pc, cookie, hand, op>>
  BY DEF reqVars
<1>2. \A w \in Worker : Owner(w)' = Owner(w)
  BY <1>1 DEF Owner
<1>3. ASSUME NEW w \in Worker PROVE phase'[w] # "waiting" => queue'[w] # <<>>
  BY DEF QueuesInv
<1>4. ASSUME NEW w \in Worker, NEW i \in 1..Len(queue'[w]), NEW r \in Req, queue'[w][i] = r
      PROVE  /\ pc'[r] \in {"waiting", "timed_out"} /\ hand'[r] = w /\ Owner(w)' = cookie'[r]
             /\ pool'[w] # "unborn"
             /\ \A k \in 1..Len(queue'[w]) : queue'[w][k] = r => k = i
  BY <1>1, <1>2, <1>4 DEF QueuesInv
<1>5. ASSUME NEW r \in Req, pc'[r] = "waiting"
      PROVE  \E i \in 1..Len(queue'[hand'[r]]) : queue'[hand'[r]][i] = r
  <2>1. PICK i \in 1..Len(queue[hand[r]]) : queue[hand[r]][i] = r
    BY <1>1, <1>5 DEF QueuesInv
  <2>2. hand[r] \in Worker
    BY <1>5, <1>1, WaitingAtWorker
  <2> QED BY <1>1, <2>1, <2>2
<1>6. QueuesInv'
  BY <1>3, <1>4, <1>5 DEF QueuesInv
<1>7. ASSUME NEW r \in Req PROVE Same(r)
  <2>1. ASSUME NEW w \in Worker PROVE Busy(w, r)' <=> Busy(w, r)
    <3>1. /\ Len(queue[w]) \in Nat /\ Len(queue'[w]) \in Nat
          /\ Len(queue[w]) # 0 => 1 \in 1..Len(queue[w])
          /\ Len(queue'[w]) # 0 => 1 \in 1..Len(queue'[w])
      BY HeadFacts DEF TypeOK
    <3> QED BY <3>1 DEF Busy
  <2>2. ASSUME NEW w \in Worker PROVE Queued(w, r)' <=> Queued(w, r)
    BY DEF Queued
  <2> QED BY <1>1, <2>1, <2>2, RunIs, RunIsThen DEF Same, Admitted, TypeOK
<1> QED BY <1>6, <1>7

\* A request with no operation queued moves, and queues none.
LEMMA RequestMoves ==
  ASSUME ActorsAssumption, TypeOK, RequestsInv, QueuesInv, NEW r \in Req,
         pc[r] \notin {"waiting", "timed_out"}, pc'[r] \notin {"waiting", "timed_out"},
         UNCHANGED <<queue, phase>>,
         cookie'[r] = cookie[r] \/ pc[r] = "idle",
         \A q \in Req \ {r} : pc'[q] = pc[q] /\ hand'[q] = hand[q] /\ cookie'[q] = cookie[q],
         \A w \in Worker : pool[w] # "unborn" => pool'[w] # "unborn"
  PROVE  /\ QueuesInv'
         /\ \A q \in Req \ {r} : Same(q)
         /\ ContractRun(r) = IF pc[r] \in {"refused", "done"} THEN "over" ELSE "not_yet"
         /\ ContractRun(r)' = IF pc'[r] \in {"refused", "done"} THEN "over" ELSE "not_yet"
<1>1. \A w \in Worker : ~Queued(w, r) /\ ~Queued(w, r)' /\ ~Busy(w, r) /\ ~Busy(w, r)'
  <2>1. \A w \in Worker : ~Queued(w, r) /\ ~Busy(w, r)
    BY QueuedIs
  <2> QED BY <2>1 DEF Queued, Busy
<1>2. ASSUME NEW w \in Worker, pool[w] # "unborn" PROVE Owner(w)' = Owner(w)
  BY <1>2 DEF Owner, RequestsInv, Worker
<1>3. ASSUME NEW w \in Worker, NEW i \in 1..Len(queue'[w]), NEW q \in Req, queue'[w][i] = q
      PROVE  /\ pc'[q] \in {"waiting", "timed_out"} /\ hand'[q] = w /\ Owner(w)' = cookie'[q]
             /\ pool'[w] # "unborn"
             /\ \A k \in 1..Len(queue'[w]) : queue'[w][k] = q => k = i
  <2>1. q # r
    BY <1>1, <1>3 DEF Queued
  <2>2. /\ pc[q] \in {"waiting", "timed_out"} /\ hand[q] = w /\ Owner(w) = cookie[q]
        /\ pool[w] # "unborn"
        /\ \A k \in 1..Len(queue[w]) : queue[w][k] = q => k = i
    BY <1>3 DEF QueuesInv
  <2> QED BY <1>2, <2>1, <2>2
<1>4. ASSUME NEW q \in Req, pc'[q] = "waiting"
      PROVE  \E i \in 1..Len(queue'[hand'[q]]) : queue'[hand'[q]][i] = q
  <2>1. q # r
    BY <1>4
  <2> QED BY <1>4, <2>1 DEF QueuesInv
<1>5. QueuesInv'
  <2>1. ASSUME NEW w \in Worker PROVE phase'[w] # "waiting" => queue'[w] # <<>>
    BY DEF QueuesInv
  <2> QED BY <1>3, <1>4, <2>1 DEF QueuesInv
<1>6. ASSUME NEW q \in Req \ {r} PROVE Same(q)
  <2>1. \A w \in Worker : Busy(w, q)' = Busy(w, q) /\ Queued(w, q)' = Queued(w, q)
    BY DEF Busy, Queued
  <2> QED BY <2>1, RunIs, RunIsThen DEF Same, Admitted, TypeOK
<1>7. /\ ContractRun(r) = IF pc[r] \in {"refused", "done"} THEN "over" ELSE "not_yet"
      /\ ContractRun(r)' = IF pc'[r] \in {"refused", "done"} THEN "over" ELSE "not_yet"
  BY <1>1, RunIs, RunIsThen DEF TypeOK
<1> QED BY <1>5, <1>6, <1>7

\* A thread takes up its head job, or goes on with it.
LEMMA PhaseMoves ==
  ASSUME ActorsAssumption, TypeOK, QueuesInv, NEW w \in Worker, queue[w] # <<>>,
         NEW x \in {"running", "again"}, phase' = [phase EXCEPT ![w] = x],
         UNCHANGED <<queue, pool, reqVars>>
  PROVE  /\ QueuesInv'
         /\ \A r \in Req : r # Head(queue[w]) \/ phase[w] # "waiting" => Same(r)
         /\ \A r \in Req : r = Head(queue[w]) => ContractRun(r)' = "running"
<1>1. UNCHANGED <<pc, cookie, hand>> /\ phase'[w] = x /\ \A v \in Worker \ {w} : phase'[v] = phase[v]
  BY DEF reqVars, TypeOK
<1>2. /\ Len(queue[w]) \in Nat \ {0} /\ Head(queue[w]) = queue[w][1]
  BY TailFacts DEF TypeOK
<1>3. QueuesInv'
  <2>1. \A v \in Worker : Owner(v)' = Owner(v)
    BY <1>1 DEF Owner
  <2>2. ASSUME NEW v \in Worker PROVE phase'[v] # "waiting" => queue'[v] # <<>>
    BY <1>1 DEF QueuesInv
  <2> QED BY <1>1, <2>1, <2>2 DEF QueuesInv
<1>4. ASSUME NEW r \in Req, r # Head(queue[w]) \/ phase[w] # "waiting" PROVE Same(r)
  <2>1. \A v \in Worker : Queued(v, r)' = Queued(v, r)
    BY DEF Queued
  <2>2. ASSUME NEW v \in Worker PROVE Busy(v, r)' <=> Busy(v, r)
    BY <1>1, <1>2, <1>4 DEF Busy
  <2> QED BY <1>1, <2>1, <2>2, RunIs, RunIsThen DEF Same, Admitted, TypeOK
<1>5. ASSUME NEW r \in Req, r = Head(queue[w]) PROVE ContractRun(r)' = "running"
  <2>1. Busy(w, r)'
    BY <1>1, <1>2, <1>5 DEF Busy
  <2> QED BY <2>1, RunIsThen DEF TypeOK
<1> QED BY <1>3, <1>4, <1>5

\* A thread is through with its head job.
LEMMA FinishMoves ==
  ASSUME ActorsAssumption, TypeOK, RequestsInv, QueuesInv, NEW w \in Worker, queue[w] # <<>>,
         NEW o \in {"ok", "error"}, Finish(w, o), UNCHANGED <<pool, cookie, hand, op>>
  PROVE  /\ QueuesInv'
         /\ \A r \in Req : r # Head(queue[w]) => Same(r)
         /\ \A r \in Req : r = Head(queue[w]) =>
               /\ pc[r] \in {"waiting", "timed_out"} /\ ContractRun(r) # "over"
               /\ ContractRun(r)' = "over" /\ Admitted(r)' = Admitted(r)
<1> DEFINE j == Head(queue[w])
<1>1. /\ queue' \in [Worker -> Seq(Job)] /\ queue'[w] = Tail(queue[w])
      /\ \A v \in Worker : v # w => queue'[v] = queue[v]
  BY FinishFacts
<1>2. /\ Len(queue[w]) \in Nat \ {0} /\ Len(queue'[w]) = Len(queue[w]) - 1 /\ j = queue[w][1]
      /\ \A i \in 1..Len(queue'[w]) : queue'[w][i] = queue[w][i + 1] /\ i + 1 \in 1..Len(queue[w])
      /\ 1 \in 1..Len(queue[w])
  <2>1. /\ Len(queue[w]) \in Nat \ {0} /\ Len(Tail(queue[w])) = Len(queue[w]) - 1
        /\ Head(queue[w]) = queue[w][1]
        /\ \A i \in 1..Len(queue[w]) - 1 : Tail(queue[w])[i] = queue[w][i + 1]
    BY TailFacts DEF TypeOK
  <2> QED BY <1>1, <2>1
<1>3. /\ phase'[w] = "waiting" /\ \A v \in Worker \ {w} : phase'[v] = phase[v]
      /\ \A r \in Req : pc'[r] = IF r = j /\ pc[r] = "waiting" THEN "done" ELSE pc[r]
  BY DEF Finish, TypeOK
<1>4. ASSUME NEW r \in Req, r = j
      PROVE  /\ pc[r] \in {"waiting", "timed_out"} /\ hand[r] = w /\ ContractRun(r) # "over"
             /\ \A v \in Worker : ~Queued(v, r)' /\ ~Busy(v, r)'
  <2>1. Queued(w, r)
    BY <1>2, <1>4 DEF Queued
  <2>2. pc[r] \in {"waiting", "timed_out"} /\ hand[r] = w /\ ContractRun(r) # "over"
    BY <2>1, QueuedIs
  <2>3. \A k \in 1..Len(queue[w]) : queue[w][k] = r => k = 1
    BY <1>2, <1>4 DEF QueuesInv
  <2>4. ~Queued(w, r)'
    <3> SUFFICES ASSUME NEW i \in 1..Len(queue'[w]), queue'[w][i] = r PROVE FALSE
      BY DEF Queued
    <3> QED BY <1>2, <2>3
  <2>5. ASSUME NEW v \in Worker, v # w PROVE ~Queued(v, r)'
    <3>1. ~Queued(v, r)
      BY <2>2, <2>5, QueuedIs
    <3> QED BY <1>1, <2>5, <3>1 DEF Queued
  <2>6. ASSUME NEW v \in Worker, Busy(v, r)' PROVE Queued(v, r)'
    <3>1. Len(queue'[v]) \in Nat
      BY <1>1, HeadFacts
    <3> QED BY <2>6, <3>1 DEF Busy, Queued
  <2> QED BY <2>2, <2>4, <2>5, <2>6
<1>5. ASSUME NEW r \in Req, r # j
      PROVE  /\ \A v \in Worker : Queued(v, r)' <=> Queued(v, r)
             /\ \A v \in Worker : Busy(v, r)' <=> Busy(v, r)
  <2>1. Queued(w, r)' => Queued(w, r)
    BY <1>2 DEF Queued
  <2>2. Queued(w, r) => Queued(w, r)'
    <3> SUFFICES ASSUME NEW i \in 1..Len(queue[w]), queue[w][i] = r PROVE Queued(w, r)'
      BY DEF Queued
    <3>1. i # 1
      BY <1>2, <1>5
    <3>2. i - 1 \in 1..Len(queue'[w]) /\ queue'[w][i - 1] = queue[w][(i - 1) + 1]
      BY <1>2, <3>1
    <3>3. (i - 1) + 1 = i
      OBVIOUS
    <3> QED BY <3>2, <3>3 DEF Queued
  <2>3. ~Busy(w, r) /\ ~Busy(w, r)'
    BY <1>2, <1>3, <1>5 DEF Busy
  <2>4. ASSUME NEW v \in Worker, v # w
        PROVE  (Queued(v, r)' <=> Queued(v, r)) /\ (Busy(v, r)' <=> Busy(v, r))
    BY <1>1, <1>3, <2>4 DEF Queued, Busy
  <2> QED BY <2>1, <2>2, <2>3, <2>4
<1>6. QueuesInv'
  <2>1. ASSUME NEW v \in Worker PROVE phase'[v] # "waiting" => queue'[v] # <<>>
    BY <1>1, <1>3 DEF QueuesInv
  <2>2. ASSUME NEW v \in Worker, NEW i \in 1..Len(queue'[v]), NEW r \in Req, queue'[v][i] = r
        PROVE  /\ pc'[r] \in {"waiting", "timed_out"} /\ hand'[r] = v /\ Owner(v)' = cookie'[r]
               /\ pool'[v] # "unborn"
               /\ \A k \in 1..Len(queue'[v]) : queue'[v][k] = r => k = i
    <3>1. r # j
      BY <1>4, <2>2 DEF Queued
    <3>2. pc'[r] = pc[r] /\ Owner(v)' = Owner(v)
      BY <1>3, <3>1 DEF Owner
    <3>3. CASE v # w
      <4>1. i \in 1..Len(queue[v]) /\ queue[v][i] = r /\ queue'[v] = queue[v]
        BY <1>1, <2>2, <3>3
      <4>2. /\ pc[r] \in {"waiting", "timed_out"} /\ hand[r] = v /\ Owner(v) = cookie[r]
            /\ pool[v] # "unborn"
            /\ \A k \in 1..Len(queue[v]) : queue[v][k] = r => k = i
        BY <4>1 DEF QueuesInv
      <4> QED BY <3>2, <4>1, <4>2
    <3>4. CASE v = w
      <4>1. i + 1 \in 1..Len(queue[w]) /\ queue[w][i + 1] = r
        BY <1>2, <2>2, <3>4
      <4>2. /\ pc[r] \in {"waiting", "timed_out"} /\ hand[r] = w /\ Owner(w) = cookie[r]
            /\ pool[w] # "unborn"
            /\ \A k \in 1..Len(queue[w]) : queue[w][k] = r => k = i + 1
        BY <4>1 DEF QueuesInv
      <4>3. ASSUME NEW k \in 1..Len(queue'[w]), queue'[w][k] = r PROVE k = i
        <5>1. k + 1 \in 1..Len(queue[w]) /\ queue[w][k + 1] = r
          BY <1>2, <4>3
        <5>2. k + 1 = i + 1
          BY <4>2, <5>1
        <5> QED BY <3>4, <5>2
      <4> QED BY <3>2, <3>4, <4>2, <4>3
    <3> QED BY <3>3, <3>4
  <2>3. ASSUME NEW r \in Req, pc'[r] = "waiting"
        PROVE  \E i \in 1..Len(queue'[hand'[r]]) : queue'[hand'[r]][i] = r
    <3>1. r # j /\ pc[r] = "waiting" /\ hand[r] \in Worker
      BY <1>3, <2>3, WaitingAtWorker
    <3>2. Queued(hand[r], r)
      BY <3>1 DEF Queued, QueuesInv
    <3>3. Queued(hand[r], r)'
      <4>1. \A v \in Worker : Queued(v, r)' <=> Queued(v, r)
        BY <1>5, <3>1
      <4>2. \A v \in Worker : (\E i \in 1..Len(queue'[v]) : queue'[v][i] = r)
                                 <=> (\E i \in 1..Len(queue[v]) : queue[v][i] = r)
        BY <4>1 DEF Queued
      <4> QED BY <3>1, <3>2, <4>2 DEF Queued
    <3> QED BY <3>3 DEF Queued
  <2> QED BY <2>1, <2>2, <2>3 DEF QueuesInv
<1>7. ASSUME NEW r \in Req, r # j PROVE Same(r)
  <2>1. pc'[r] = pc[r] /\ cookie' = cookie
    BY <1>3, <1>7
  <2> QED BY <1>1, <1>5, <1>7, <2>1, RunIs, RunIsThen DEF Same, Admitted, TypeOK
<1>8. ASSUME NEW r \in Req, r = j
      PROVE  ContractRun(r)' = "over" /\ Admitted(r)' = Admitted(r)
  <2>1. pc'[r] \in {"done", "timed_out"} /\ pc[r] \in {"waiting", "timed_out"} /\ cookie' = cookie
    BY <1>3, <1>4, <1>8
  <2>2. ContractRun(r)' = "over"
    BY <1>1, <1>4, <1>8, <2>1, RunIsThen
  <2> QED BY <2>1, <2>2 DEF Admitted
<1> QED BY <1>4, <1>6, <1>7, <1>8

(***************************************************************************)
(* Steps of the contract.                                                  *)
(***************************************************************************)
\* A step the contract does not see.
LEMMA Stutters ==
  ASSUME \A s \in Sid : ContractState(s)' = ContractState(s), \A r \in Req : Same(r)
  PROVE  UNCHANGED Contract!cvars
BY DEF Contract!cvars, Same, Admitted

\* Some sign-ins fail or sessions end; none, and nothing is seen.
LEMMA Ends ==
  ASSUME NEW S \in SUBSET Sid,
         \A s \in S : ContractState(s) \in {"opening", "open"} /\ ContractState(s)' = "ended",
         \A s \in Sid \ S : ContractState(s)' = ContractState(s),
         \A r \in Req : Same(r)
  PROVE  [Contract!CNext]_(Contract!cvars)
<1>1. CASE S = {}
  BY <1>1, Stutters
<1>2. CASE S # {}
  <2>1. Contract!End(S)
    BY <1>2 DEF Contract!End, Same, Admitted
  <2> QED BY <2>1 DEF Contract!CNext
<1> QED BY <1>1, <1>2

\* One of them.
LEMMA EndsOne ==
  ASSUME NEW s \in Sid, ContractState(s) \in {"opening", "open"}, ContractState(s)' = "ended",
         \A t \in Sid \ {s} : ContractState(t)' = ContractState(t),
         \A r \in Req : Same(r)
  PROVE  [Contract!CNext]_(Contract!cvars)
<1>1. {s} \in SUBSET Sid
  OBVIOUS
<1>2. Contract!End({s})
  BY DEF Contract!End, Same, Admitted
<1> QED BY <1>1, <1>2 DEF Contract!CNext

\* A sign-in begins, or opens its session.
LEMMA Advances ==
  ASSUME NEW s \in Sid,
         \/ ContractState(s) = "none" /\ ContractState(s)' = "opening"
         \/ ContractState(s) = "opening" /\ ContractState(s)' = "open",
         \A t \in Sid \ {s} : ContractState(t)' = ContractState(t),
         \A r \in Req : Same(r)
  PROVE  Contract!CNext
<1>1. Contract!Advance(s)
  BY DEF Contract!Advance, Same, Admitted
<1> QED BY <1>1 DEF Contract!CNext

\* A request is admitted.
LEMMA Admits ==
  ASSUME NEW r \in Req, NEW s \in Sid, ContractState(s) = "open",
         Admitted(r) = None, Admitted(r)' = s,
         \A t \in Sid : ContractState(t)' = ContractState(t),
         \A q \in Req : ContractRun(q)' = ContractRun(q),
         \A q \in Req \ {r} : Same(q)
  PROVE  Contract!CNext
<1>1. Contract!Admit(r, s)
  BY DEF Contract!Admit, Same, Admitted
<1> QED BY <1>1 DEF Contract!CNext

\* An operation begins.
LEMMA Starts ==
  ASSUME NEW r \in Req, ContractRun(r) = "not_yet", ContractRun(r)' = "running",
         Admitted(r) \in Sid, Admitted(r) # None, Admitted(r)' = Admitted(r),
         ContractState(Admitted(r)) = "open" =>
            \A q \in Req : Admitted(q) = Admitted(r) => ContractRun(q) # "running",
         \A t \in Sid : ContractState(t)' = ContractState(t),
         \A q \in Req \ {r} : Same(q)
  PROVE  Contract!CNext
<1>1. Contract!Start(r)
  BY DEF Contract!Start, Same, Admitted
<1> QED BY <1>1 DEF Contract!CNext

\* An operation is over, or is given up.
LEMMA Overs ==
  ASSUME NEW r \in Req, ContractRun(r) # "over", ContractRun(r)' = "over",
         Admitted(r) # None, Admitted(r)' = Admitted(r),
         \A t \in Sid : ContractState(t)' = ContractState(t),
         \A q \in Req \ {r} : Same(q)
  PROVE  Contract!CNext
<1>1. Contract!Over(r)
  BY DEF Contract!Over, Same, Admitted
<1> QED BY <1>1 DEF Contract!CNext

(***************************************************************************)
(* The steps of the event loop, of the sweeper and of a drop.              *)
(***************************************************************************)
\* The step is one of the contract, and the queues stay in order.
Refines == QueuesInv' /\ [Contract!CNext]_(Contract!cvars)

\* A job that is no request's operation is queued.
LEMMA EnqueueKeeps ==
  ASSUME ActorsAssumption, TypeOK, RequestsInv, QueuesInv, UNCHANGED <<phase, reqVars>>,
         NEW w \in Worker, NEW j \in Job \ Req, queue' = [queue EXCEPT ![w] = Append(@, j)],
         \A v \in Worker : pool[v] # "unborn" => pool'[v] # "unborn"
  PROVE  QueuesInv' /\ \A r \in Req : Same(r)
<1>1. /\ Append(queue[w], j) \in Seq(Job) /\ Len(queue[w]) \in Nat
      /\ Len(Append(queue[w], j)) = Len(queue[w]) + 1
      /\ Append(queue[w], j)[Len(queue[w]) + 1] = j
      /\ \A i \in 1..Len(queue[w]) : Append(queue[w], j)[i] = queue[w][i]
  BY AppendFacts DEF TypeOK
<1>2. queue'[w] = Append(queue[w], j) /\ \A v \in Worker : v # w => queue'[v] = queue[v]
  BY DEF TypeOK
<1>3. queue' \in [Worker -> Seq(Job)]
  BY <1>1 DEF TypeOK
<1>4. queue'[w] # <<>>
  <2>1. Len(queue'[w]) # 0
    BY <1>1, <1>2
  <2> QED BY <1>3, <2>1, HeadFacts
<1>5. ASSUME NEW v \in Worker, NEW r \in Req, NEW i \in 1..Len(queue'[v]), queue'[v][i] = r
      PROVE  i \in 1..Len(queue[v]) /\ queue[v][i] = r
  <2>1. CASE v = w
    <3>1. i \in 1..(Len(queue[w]) + 1) /\ i # Len(queue[w]) + 1
      BY <1>1, <1>2, <1>5, <2>1
    <3> QED BY <1>1, <1>2, <1>5, <2>1, <3>1
  <2> QED BY <1>2, <1>5, <2>1
<1>6. ASSUME NEW v \in Worker, NEW r \in Req, NEW i \in 1..Len(queue[v]), queue[v][i] = r
      PROVE  i \in 1..Len(queue'[v]) /\ queue'[v][i] = r
  BY <1>1, <1>2, <1>6
<1> QED BY <1>2, <1>3, <1>4, <1>5, <1>6, CalmKeeps

\* Nothing is queued, and no thread and no request moves.
LEMMA IdleKeeps ==
  ASSUME ActorsAssumption, TypeOK, RequestsInv, QueuesInv, UNCHANGED <<queue, phase, reqVars>>,
         \A v \in Worker : pool[v] # "unborn" => pool'[v] # "unborn"
  PROVE  QueuesInv' /\ \A r \in Req : Same(r)
<1>1. queue' \in [Worker -> Seq(Job)]
  BY DEF TypeOK
<1> QED BY <1>1, CalmKeeps

\* A sign-in ends before its session was stored.
LEMMA LoginEnds ==
  ASSUME ActorsAssumption, SessionInv, QueuesInv, NEW s \in Sid,
         login[s] \in {"resolving", "ticket"},
         NEW x \in {"failed", "bad_name", "timed_out"}, login' = [login EXCEPT ![s] = x],
         UNCHANGED <<stored, queue, phase, pool, reqVars>>
  PROVE  Refines
<1>1. QueuesInv' /\ \A r \in Req : Same(r)
  BY IdleKeeps DEF SessionInv
<1>2. s \notin stored /\ login'[s] = x /\ \A t \in Sid \ {s} : login'[t] = login[t]
  BY DEF SessionInv, LoginInv, TypeOK
<1>3. ContractState(s) = "opening" /\ ContractState(s)' = "ended"
  BY <1>2 DEF ContractState
<1>4. \A t \in Sid \ {s} : ContractState(t)' = ContractState(t)
  BY <1>2 DEF ContractState
<1> QED BY <1>1, <1>3, <1>4, EndsOne DEF Refines

\* A session is stored.
LEMMA Opens ==
  ASSUME ActorsAssumption, SessionInv, QueuesInv, NEW s \in Sid, OpenSession(s),
         login[s] \in {"resolving", "ticket"}, UNCHANGED <<phase, pool, reqVars>>
  PROVE  Refines
<1>1. "connect" \in Job \ Req /\ s \in Worker
  BY DEF Job, Worker, ActorsAssumption
<1>2. QueuesInv' /\ \A r \in Req : Same(r)
  BY <1>1, EnqueueKeeps DEF OpenSession, SessionInv
<1>3. s \notin stored /\ stored' = stored \cup {s} /\ \A t \in Sid \ {s} : login'[t] = login[t]
  BY DEF SessionInv, LoginInv, TypeOK, OpenSession
<1>4. ContractState(s) = "opening" /\ ContractState(s)' = "open"
  BY <1>3 DEF ContractState
<1>5. \A t \in Sid \ {s} : ContractState(t)' = ContractState(t)
  BY <1>3 DEF ContractState
<1> QED BY <1>2, <1>4, <1>5, Advances DEF Refines

\* A stored session is popped.
LEMMA Pops ==
  ASSUME ActorsAssumption, SessionInv, NEW s \in stored, stored' = stored \ {s},
         \/ login' = login
         \/ login[s] = "connecting" /\ login' = [login EXCEPT ![s] = "failed"],
         \A r \in Req : Same(r)
  PROVE  [Contract!CNext]_(Contract!cvars)
<1>1. s \in Sid /\ login[s] \in {"connecting", "signed_in"}
  BY DEF SessionInv, LoginInv, TypeOK
<1>2. login'[s] \in {"connecting", "signed_in", "failed"} /\ \A t \in Sid \ {s} : login'[t] = login[t]
  BY <1>1 DEF SessionInv, TypeOK
<1>3. ContractState(s) = "open" /\ ContractState(s)' = "ended"
  BY <1>2 DEF ContractState
<1>4. \A t \in Sid \ {s} : ContractState(t)' = ContractState(t)
  BY <1>2 DEF ContractState
<1> QED BY <1>1, <1>3, <1>4, EndsOne

\* A session is popped on the event loop, if it is still stored.
LEMMA DropsOnLoop ==
  ASSUME ActorsAssumption, SessionInv, QueuesInv, NEW s \in Sid, DropOnLoop(s),
         \/ login' = login
         \/ login[s] = "connecting" /\ login' = [login EXCEPT ![s] = "failed"],
         UNCHANGED <<queue, phase, pool, reqVars>>
  PROVE  Refines
<1>1. QueuesInv' /\ \A r \in Req : Same(r)
  BY IdleKeeps DEF SessionInv
<1>2. CASE s \in stored
  <2>1. stored' = stored \ {s}
    BY <1>2 DEF DropOnLoop, Pop
  <2> QED BY <1>1, <1>2, <2>1, Pops DEF Refines
<1>3. CASE s \notin stored
  <2>1. stored' = stored
    BY <1>3 DEF DropOnLoop
  <2>2. \A t \in Sid : ContractState(t)' = ContractState(t)
    BY <1>3, <2>1 DEF ContractState, SessionInv, TypeOK
  <2> QED BY <1>1, <2>2, Stutters DEF Refines
<1> QED BY <1>2, <1>3

\* Every step of the login handler.
LEMMA LoginRefines ==
  ASSUME ActorsAssumption, SessionInv, QueuesInv, NEW s \in Sid, LoginStep(s)
  PROVE  Refines
<1>t. TypeOK /\ RequestsInv /\ LoginInv
  BY DEF SessionInv
<1>1. CASE StartLogin(s)
  <2> USE <1>1 DEF StartLogin
  <2>1. s \in Worker /\ queue' = [queue EXCEPT ![s] = <<"resolve">>] /\ UNCHANGED <<phase, reqVars, stored>>
    BY DEF Worker, storeVars
  <2>2. ASSUME NEW r \in Req, NEW i \in 1..Len(queue[s]), queue[s][i] = r PROVE FALSE
    <3>1. Owner(s) = cookie[r]
      BY <2>1, <2>2 DEF QueuesInv
    <3>2. cookie[r] = s /\ cookie[r] # None
      BY <3>1 DEF Owner, ActorsAssumption
    <3>3. login[s] = "signed_in"
      BY <3>2, <1>t DEF RequestsInv
    <3> QED BY <3>3
  <2>3. /\ queue'[s] = <<"resolve">> /\ queue'[s] \in Seq(Job) /\ queue'[s] # <<>>
        /\ \A i \in 1..Len(queue'[s]) : queue'[s][i] \notin Req
        /\ \A w \in Worker : w # s => queue'[w] = queue[w]
    <3>1. <<"resolve">> \in Seq(Job) /\ <<"resolve">>[1] = "resolve" /\ Len(<<"resolve">>) = 1
      BY DEF Job
    <3>2. queue'[s] = <<"resolve">> /\ \A w \in Worker : w # s => queue'[w] = queue[w]
      BY <2>1, <1>t DEF TypeOK
    <3>3. queue'[s] # <<>>
      BY <3>1, <3>2, HeadFacts
    <3>4. \A i \in 1..Len(queue'[s]) : queue'[s][i] = "resolve"
      BY <3>1, <3>2
    <3> QED BY <3>1, <3>2, <3>3, <3>4 DEF ActorsAssumption
  <2>4. queue' \in [Worker -> Seq(Job)]
    BY <2>1, <2>3, <1>t DEF TypeOK
  <2>5. \A w \in Worker : pool[w] # "unborn" => pool'[w] # "unborn"
    BY <1>t DEF TypeOK
  <2>6. ASSUME NEW w \in Worker, NEW r \in Req
        PROVE  /\ \A i \in 1..Len(queue'[w]) :
                     queue'[w][i] = r => i \in 1..Len(queue[w]) /\ queue[w][i] = r
               /\ \A i \in 1..Len(queue[w]) :
                     queue[w][i] = r => i \in 1..Len(queue'[w]) /\ queue'[w][i] = r
    BY <2>2, <2>3
  <2>7. QueuesInv' /\ \A r \in Req : Same(r)
    BY <2>1, <2>3, <2>4, <2>5, <2>6, <1>t, CalmKeeps
  <2>8. s \notin stored /\ login'[s] = "resolving" /\ \A t \in Sid \ {s} : login'[t] = login[t]
    BY <1>t DEF LoginInv, TypeOK
  <2>9. ContractState(s) = "none" /\ ContractState(s)' = "opening"
    BY <2>1, <2>8 DEF ContractState
  <2>10. \A t \in Sid \ {s} : ContractState(t)' = ContractState(t)
    BY <2>1, <2>8 DEF ContractState
  <2> QED BY <2>7, <2>9, <2>10, Advances DEF Refines
<1>2. CASE AfterResolve(s)
  <2> USE <1>2 DEF AfterResolve
  <2>0. login[s] = "resolving" /\ UNCHANGED <<phase, pool, reqVars>>
    OBVIOUS
  <2>1. CASE FailLogin(s)
    BY <2>0, <2>1, LoginEnds DEF FailLogin
  <2>2. CASE login' = [login EXCEPT ![s] = "bad_name"] /\ UNCHANGED <<kerberos, storeVars, queue, drop, loop>>
    BY <2>0, <2>2, LoginEnds DEF storeVars
  <2>3. CASE /\ login' = [login EXCEPT ![s] = "ticket"]
             /\ queue' = [queue EXCEPT ![s] = Append(@, "kinit")]
             /\ UNCHANGED <<storeVars, drop, loop>>
    <3>1. "kinit" \in Job \ Req /\ s \in Worker
      BY DEF Job, Worker, ActorsAssumption
    <3>2. QueuesInv' /\ \A r \in Req : Same(r)
      BY <2>0, <2>3, <3>1, <1>t, EnqueueKeeps
    <3>3. \A t \in Sid : ContractState(t)' = ContractState(t)
      BY <2>0, <2>3, <1>t DEF ContractState, storeVars, TypeOK
    <3> QED BY <3>2, <3>3, Stutters DEF Refines
  <2>4. CASE OpenSession(s)
    BY <2>0, <2>4, Opens
  <2> QED BY <2>1, <2>2, <2>3, <2>4
<1>3. CASE AfterTicket(s)
  <2> USE <1>3 DEF AfterTicket
  <2>1. CASE FailLogin(s)
    BY <2>1, LoginEnds DEF FailLogin
  <2>2. CASE OpenSession(s)
    BY <2>2, Opens
  <2> QED BY <2>1, <2>2
<1>4. CASE AfterConnect(s)
  <2> USE <1>4 DEF AfterConnect
  <2>0. login[s] = "connecting" /\ UNCHANGED <<queue, phase, pool, reqVars>>
    BY DEF workerVars
  <2>1. CASE login' = [login EXCEPT ![s] = "signed_in"] /\ UNCHANGED <<stored, expired, drop, loop>>
    <3>1. QueuesInv' /\ \A r \in Req : Same(r)
      BY <2>0, <1>t, IdleKeeps
    <3>2. \A t \in Sid : ContractState(t)' = ContractState(t)
      BY <2>0, <2>1, <1>t DEF ContractState, TypeOK
    <3> QED BY <3>1, <3>2, Stutters DEF Refines
  <2>2. CASE login' = [login EXCEPT ![s] = "failed"] /\ DropOnLoop(s)
    BY <2>0, <2>2, DropsOnLoop
  <2> QED BY <2>1, <2>2
<1>5. CASE LoginTimeout(s)
  <2> USE <1>5 DEF LoginTimeout
  <2>0. UNCHANGED <<phase, pool, reqVars>>
    OBVIOUS
  <2>1. CASE login[s] = "resolving" /\ FailLogin(s)
    BY <2>0, <2>1, LoginEnds DEF FailLogin
  <2>2. CASE /\ login[s] = "ticket" /\ login' = [login EXCEPT ![s] = "timed_out"]
             /\ UNCHANGED <<kerberos, storeVars, queue>>
    BY <2>0, <2>2, LoginEnds DEF storeVars
  <2>3. CASE /\ login[s] = "connecting" /\ login' = [login EXCEPT ![s] = "failed"]
             /\ DropOnLoop(s) /\ UNCHANGED <<kerberos, cred, queue>>
    BY <2>0, <2>3, DropsOnLoop
  <2> QED BY <2>1, <2>2, <2>3
<1> QED BY <1>1, <1>2, <1>3, <1>4, <1>5 DEF LoginStep

\* The steps of a drop are invisible: the session has ended when it was popped.
LEMMA DropRefines ==
  ASSUME ActorsAssumption, SessionInv, QueuesInv, NEW s \in Sid, DropStep(s)
  PROVE  Refines
<1>t. TypeOK /\ RequestsInv /\ WorkersInv
  BY DEF SessionInv
<1>1. UNCHANGED <<login, stored, phase, reqVars>>
  BY DEF DropStep, Unregister, SubmitCleanup, ShutPool, DestroyCredentials, loginVars,
     storeVars, workerVars
<1>2. \A t \in Sid : ContractState(t)' = ContractState(t)
  BY <1>1 DEF ContractState
<1>3. \A w \in Worker : pool[w] # "unborn" => pool'[w] # "unborn"
  BY <1>t DEF DropStep, Unregister, SubmitCleanup, ShutPool, DestroyCredentials, workerVars, TypeOK
<1>4. QueuesInv' /\ \A r \in Req : Same(r)
  <2>1. CASE SubmitCleanup(s)
    <3>1. closing[s] \in Worker /\ "cleanup" \in Job \ Req
      BY <1>t, <2>1 DEF SubmitCleanup, TypeOK, WorkersInv, Job, ActorsAssumption
    <3>2. queue' = [queue EXCEPT ![closing[s]] = Append(@, "cleanup")]
      BY <2>1 DEF SubmitCleanup
    <3> QED BY <1>1, <1>3, <1>t, <3>1, <3>2, EnqueueKeeps
  <2>2. CASE Unregister(s) \/ ShutPool(s) \/ DestroyCredentials(s)
    <3>1. queue' = queue
      BY <2>2 DEF Unregister, ShutPool, DestroyCredentials, workerVars
    <3> QED BY <1>1, <1>3, <1>t, <3>1, IdleKeeps
  <2> QED BY <2>1, <2>2 DEF DropStep
<1> QED BY <1>2, <1>4, Stutters DEF Refines

\* Time passes, the sweeper runs, a user signs out.
LEMMA EndRefines ==
  ASSUME ActorsAssumption, SessionInv, QueuesInv, NEW s \in Sid, Expire(s) \/ Sweep(s) \/ Logout(s)
  PROVE  Refines
<1>1. UNCHANGED <<login, queue, phase, pool, reqVars>>
  BY DEF Expire, Sweep, Logout, loginVars, workerVars
<1>2. CASE Expire(s)
  <2>1. stored' = stored
    BY <1>2 DEF Expire
  <2>2. \A t \in Sid : ContractState(t)' = ContractState(t)
    BY <1>1, <2>1 DEF ContractState
  <2>3. QueuesInv' /\ \A r \in Req : Same(r)
    BY <1>1, IdleKeeps DEF SessionInv
  <2> QED BY <2>2, <2>3, Stutters DEF Refines
<1>3. CASE Sweep(s) \/ Logout(s)
  <2>1. DropOnLoop(s)
    BY <1>3 DEF Sweep, Logout
  <2> QED BY <1>1, <2>1, DropsOnLoop
<1> QED BY <1>2, <1>3

\* The process stops: every stored session ends.
LEMMA ShutdownRefines ==
  ASSUME ActorsAssumption, SessionInv, QueuesInv, Shutdown
  PROVE  Refines
<1> USE DEF Shutdown
<1>t. TypeOK /\ RequestsInv /\ LoginInv
  BY DEF SessionInv
<1> DEFINE Dropped == {reg[s] : s \in Registered}
<1>1. /\ UNCHANGED <<login, phase, reqVars>> /\ stored' = {}
      /\ pool' = [w \in Worker |-> IF w \in Dropped THEN "shut" ELSE pool[w]]
      /\ queue' = [w \in Worker |-> IF w \in Dropped THEN Append(queue[w], "cleanup") ELSE queue[w]]
  BY DEF loginVars
<1>2. ASSUME NEW w \in Worker
      PROVE  /\ Append(queue[w], "cleanup") \in Seq(Job) /\ Len(queue[w]) \in Nat
             /\ Len(Append(queue[w], "cleanup")) = Len(queue[w]) + 1
             /\ Append(queue[w], "cleanup")[Len(queue[w]) + 1] = "cleanup"
             /\ \A i \in 1..Len(queue[w]) : Append(queue[w], "cleanup")[i] = queue[w][i]
  <2>1. "cleanup" \in Job
    BY DEF Job
  <2> QED BY <2>1, <1>t, AppendFacts DEF TypeOK
<1> HIDE DEF Dropped
<1>3. queue' \in [Worker -> Seq(Job)]
  BY <1>1, <1>2, <1>t DEF TypeOK
<1>4. ASSUME NEW w \in Worker
      PROVE  queue'[w] = queue[w] \/ queue'[w] = Append(queue[w], "cleanup")
  BY <1>1
<1>5. ASSUME NEW w \in Worker, queue[w] # <<>> PROVE queue'[w] # <<>>
  <2>1. Len(queue'[w]) # 0
    BY <1>2, <1>4, <1>5, <1>t, HeadFacts DEF TypeOK
  <2> QED BY <1>3, <2>1, HeadFacts
<1>6. ASSUME NEW w \in Worker, NEW r \in Req
      PROVE  /\ \A i \in 1..Len(queue'[w]) :
                   queue'[w][i] = r => i \in 1..Len(queue[w]) /\ queue[w][i] = r
             /\ \A i \in 1..Len(queue[w]) :
                   queue[w][i] = r => i \in 1..Len(queue'[w]) /\ queue'[w][i] = r
  <2>1. CASE queue'[w] = queue[w]
    BY <2>1
  <2>2. CASE queue'[w] = Append(queue[w], "cleanup")
    <3>1. ASSUME NEW i \in 1..Len(queue'[w]), queue'[w][i] = r
          PROVE  i \in 1..Len(queue[w]) /\ queue[w][i] = r
      <4>1. i \in 1..(Len(queue[w]) + 1) /\ i # Len(queue[w]) + 1
        BY <1>2, <2>2, <3>1 DEF ActorsAssumption
      <4> QED BY <1>2, <2>2, <3>1, <4>1
    <3>2. ASSUME NEW i \in 1..Len(queue[w]), queue[w][i] = r
          PROVE  i \in 1..Len(queue'[w]) /\ queue'[w][i] = r
      BY <1>2, <2>2, <3>2
    <3> QED BY <3>1, <3>2
  <2> QED BY <1>4, <2>1, <2>2
<1>7. \A w \in Worker : pool[w] # "unborn" => pool'[w] # "unborn"
  BY <1>1
<1>8. QueuesInv' /\ \A r \in Req : Same(r)
  BY <1>1, <1>3, <1>5, <1>6, <1>7, <1>t, CalmKeeps
<1>9. stored \in SUBSET Sid
  BY <1>t DEF TypeOK
<1>10. \A s \in stored : ContractState(s) \in {"opening", "open"} /\ ContractState(s)' = "ended"
  BY <1>1, <1>9, <1>t DEF ContractState, LoginInv
<1>11. \A s \in Sid \ stored : ContractState(s)' = ContractState(s)
  BY <1>1 DEF ContractState
<1> QED BY <1>8, <1>9, <1>10, <1>11, Ends DEF Refines

(***************************************************************************)
(* The steps of a request.                                                 *)
(***************************************************************************)
\* The worker handed to a request has been created.
HandedInv == \A r \in Req : pc[r] \in {"handed", "submitting"} => pool[hand[r]] # "unborn"

\* Every step keeps it: a worker that was created stays created.
LEMMA HandedKept ==
  ASSUME ActorsAssumption, SessionInv, HandedInv, [Next]_vars
  PROVE  HandedInv'
<1>t. TypeOK /\ RequestsInv /\ WorkersInv
  BY DEF SessionInv
<1> USE DEF loginVars, storeVars, workerVars, dropVars, reqVars
<1> SUFFICES ASSUME NEW r \in Req, pc'[r] \in {"handed", "submitting"}
             PROVE  pool'[hand'[r]] # "unborn"
  BY DEF HandedInv
<1>0. pc[r] \in {"handed", "submitting"} => hand[r] \in Worker /\ pool[hand[r]] # "unborn"
  BY <1>t DEF HandedInv, RequestsInv
<1> DEFINE Kept == /\ pc'[r] \in {"handed", "submitting"} => pc[r] \in {"handed", "submitting"}
                   /\ hand'[r] = hand[r]
                   /\ \A w \in Worker : pool[w] # "unborn" => pool'[w] # "unborn"
<1>k. Kept => pool'[hand'[r]] # "unborn"
  BY <1>0
<1>1. ASSUME NEW s \in Sid, LoginStep(s) PROVE Kept
  BY <1>1, <1>t DEF LoginStep, StartLogin, AfterResolve, AfterTicket, AfterConnect,
     LoginTimeout, TypeOK
<1>2. ASSUME NEW s \in Sid, DropStep(s) PROVE Kept
  BY <1>2, <1>t DEF DropStep, Unregister, SubmitCleanup, ShutPool, DestroyCredentials, TypeOK
<1>3. ASSUME NEW s \in Sid, Expire(s) \/ Sweep(s) \/ Logout(s) PROVE Kept
  BY <1>3 DEF Expire, Sweep, Logout
<1>4. ASSUME NEW w \in Worker, WorkerStep(w) PROVE Kept
  <2>1. pool' = pool /\ hand' = hand
    BY <1>4 DEF WorkerStep, RunResolve, RefuseKinit, BeginKinit, EndKinit, BeginOperation,
       Reconnect, EndOperation, RunCleanup
  <2>2. pc' = pc \/ \E o \in {"ok", "error"} : Finish(w, o)
    BY <1>4 DEF WorkerStep, RunResolve, RefuseKinit, BeginKinit, EndKinit, BeginOperation,
       Reconnect, EndOperation, RunCleanup
  <2>3. pc'[r] = pc[r] \/ pc'[r] = "done"
    BY <2>2, <1>t DEF Finish, TypeOK
  <2> QED BY <2>1, <2>3
<1>5. ASSUME Shutdown PROVE Kept
  BY <1>5, <1>t DEF Shutdown, TypeOK
<1>6. ASSUME UNCHANGED vars PROVE Kept
  BY <1>6 DEF vars
<1>7. ASSUME NEW q \in Req, RequestStep(q) PROVE pool'[hand'[r]] # "unborn"
  <2>1. CASE Authenticate(q)
    <3>1. Kept
      BY <2>1, <1>t DEF Authenticate, TypeOK
    <3> QED BY <3>1, <1>k
  <2>2. CASE LookUpWorker(q) /\ q = r
    <3>1. cookie[r] \in Sid /\ pool' = pool /\ hand'[r] = reg[cookie[r]] /\ reg[cookie[r]] # None
      BY <2>2, <1>t DEF LookUpWorker, RequestsInv, TypeOK
    <3> QED BY <3>1, <1>t DEF WorkersInv
  <2>3. CASE LookUpWorker(q) /\ q # r
    <3>1. Kept
      BY <2>3, <1>t DEF LookUpWorker, TypeOK
    <3> QED BY <3>1, <1>k
  <2>4. CASE MakeWorker(q) /\ q = r
    BY <2>4, <1>t DEF MakeWorker, TypeOK, Worker
  <2>5. CASE MakeWorker(q) /\ q # r
    <3>1. Kept
      BY <2>5, <1>t DEF MakeWorker, TypeOK
    <3> QED BY <3>1, <1>k
  <2>6. CASE EnterRun(q) \/ Submit(q) \/ RequestTimeout(q)
    <3>1. Kept
      BY <2>6, <1>t DEF EnterRun, Submit, RequestTimeout, TypeOK
    <3> QED BY <3>1, <1>k
  <2> QED BY <1>7, <2>1, <2>2, <2>3, <2>4, <2>5, <2>6 DEF RequestStep
<1> QED BY <1>1, <1>2, <1>3, <1>4, <1>5, <1>6, <1>7, <1>k DEF Next

\* An admitted request moves on towards its submission, or is refused.
LEMMA GoesOn ==
  ASSUME ActorsAssumption, SessionInv, QueuesInv, NEW r \in Req,
         pc[r] \in {"session", "miss", "handed", "submitting"},
         NEW x \in {"miss", "handed", "submitting", "refused"}, pc' = [pc EXCEPT ![r] = x],
         UNCHANGED <<login, stored, queue, phase, cookie>>,
         \A q \in Req \ {r} : hand'[q] = hand[q],
         \A w \in Worker : pool[w] # "unborn" => pool'[w] # "unborn"
  PROVE  Refines
<1>t. TypeOK /\ RequestsInv
  BY DEF SessionInv
<1>1. pc'[r] = x /\ \A q \in Req \ {r} : pc'[q] = pc[q]
  BY <1>t DEF TypeOK
<1>2. /\ QueuesInv'
      /\ \A q \in Req \ {r} : Same(q)
      /\ ContractRun(r) = "not_yet"
      /\ ContractRun(r)' = IF x = "refused" THEN "over" ELSE "not_yet"
  <2>1. pc[r] \notin {"waiting", "timed_out"} /\ pc'[r] \notin {"waiting", "timed_out"}
    BY <1>1
  <2>2. \A q \in Req \ {r} : pc'[q] = pc[q] /\ hand'[q] = hand[q] /\ cookie'[q] = cookie[q]
    BY <1>1
  <2>3. /\ QueuesInv'
        /\ \A q \in Req \ {r} : Same(q)
        /\ ContractRun(r) = IF pc[r] \in {"refused", "done"} THEN "over" ELSE "not_yet"
        /\ ContractRun(r)' = IF pc'[r] \in {"refused", "done"} THEN "over" ELSE "not_yet"
    BY <1>t, <2>1, <2>2, RequestMoves
  <2> QED BY <1>1, <2>3
<1>3. Admitted(r) = cookie[r] /\ Admitted(r)' = cookie[r] /\ cookie[r] \in Sid /\ cookie[r] # None
  BY <1>1, <1>t DEF Admitted, RequestsInv, ActorsAssumption
<1>4. \A t \in Sid : ContractState(t)' = ContractState(t)
  BY DEF ContractState
<1>5. CASE x = "refused"
  BY <1>2, <1>3, <1>4, <1>5, Overs DEF Refines
<1>6. CASE x # "refused"
  <2>1. \A q \in Req : Same(q)
    BY <1>2, <1>3, <1>6 DEF Same
  <2> QED BY <1>2, <1>4, <2>1, Stutters DEF Refines
<1> QED BY <1>5, <1>6

\* The session is looked up in the store: it admits the request, or not.
LEMMA AuthenticateRefines ==
  ASSUME ActorsAssumption, SessionInv, QueuesInv, NEW r \in Req, Authenticate(r)
  PROVE  Refines
<1>t. TypeOK /\ RequestsInv
  BY DEF SessionInv
<1>1. /\ pc[r] = "idle" /\ UNCHANGED <<login, queue, phase, pool, hand>>
      /\ \A q \in Req \ {r} : cookie'[q] = cookie[q]
  BY <1>t DEF Authenticate, loginVars, workerVars, TypeOK
<1>2. PICK s \in Sid :
        /\ login[s] = "signed_in" /\ cookie' = [cookie EXCEPT ![r] = s]
        /\ \/ /\ s \in stored \ expired
              /\ pc' = [pc EXCEPT ![r] = "session"]
              /\ UNCHANGED <<stored, expired, drop>>
           \/ /\ s \in expired
              /\ pc' = [pc EXCEPT ![r] = "unauthorised"]
              /\ Pop(s)
           \/ /\ s \notin stored
              /\ pc' = [pc EXCEPT ![r] = "unauthorised"]
              /\ UNCHANGED <<stored, expired, drop>>
  BY DEF Authenticate
<1>3. pc'[r] \in {"session", "unauthorised"} /\ \A q \in Req \ {r} : pc'[q] = pc[q]
  BY <1>2, <1>t DEF TypeOK
<1>4. /\ QueuesInv'
      /\ \A q \in Req \ {r} : Same(q)
      /\ ContractRun(r)' = ContractRun(r)
  <2>1. /\ pc[r] \notin {"waiting", "timed_out"} /\ pc'[r] \notin {"waiting", "timed_out"}
        /\ pc[r] \notin {"refused", "done"} /\ pc'[r] \notin {"refused", "done"}
    BY <1>1, <1>3
  <2>2. \A q \in Req \ {r} : pc'[q] = pc[q] /\ hand'[q] = hand[q] /\ cookie'[q] = cookie[q]
    BY <1>1, <1>3
  <2>3. /\ QueuesInv'
        /\ \A q \in Req \ {r} : Same(q)
        /\ ContractRun(r) = IF pc[r] \in {"refused", "done"} THEN "over" ELSE "not_yet"
        /\ ContractRun(r)' = IF pc'[r] \in {"refused", "done"} THEN "over" ELSE "not_yet"
    BY <1>1, <1>t, <2>1, <2>2, RequestMoves
  <2> QED BY <2>1, <2>3
<1>5. Admitted(r) = None
  BY <1>1 DEF Admitted
<1>6. CASE pc'[r] = "unauthorised"
  <2>1. \A q \in Req : Same(q)
    BY <1>4, <1>5, <1>6 DEF Same, Admitted
  <2>2. CASE s \in expired /\ Pop(s)
    <3>1. s \in stored /\ stored' = stored \ {s}
      BY <2>2, <1>t DEF Pop, TypeOK
    <3> QED BY <1>1, <1>4, <2>1, <3>1, Pops DEF Refines
  <2>3. CASE stored' = stored
    <3>1. \A t \in Sid : ContractState(t)' = ContractState(t)
      BY <1>1, <2>3 DEF ContractState
    <3> QED BY <1>4, <2>1, <3>1, Stutters DEF Refines
  <2> QED BY <1>2, <1>6, <1>t, <2>2, <2>3 DEF TypeOK
<1>7. CASE pc'[r] = "session"
  <2>1. s \in stored /\ stored' = stored
    BY <1>2, <1>7, <1>t DEF TypeOK
  <2>2. Admitted(r)' = s /\ ContractState(s) = "open"
    BY <1>2, <1>7, <1>t, <2>1 DEF Admitted, ContractState, TypeOK
  <2>3. \A t \in Sid : ContractState(t)' = ContractState(t)
    BY <1>1, <2>1 DEF ContractState
  <2>4. \A q \in Req : ContractRun(q)' = ContractRun(q)
    BY <1>4 DEF Same
  <2> QED BY <1>4, <1>5, <2>2, <2>3, <2>4, Admits DEF Refines
<1> QED BY <1>3, <1>6, <1>7

\* The operation is queued on the worker the request was handed.
LEMMA SubmitMoves ==
  ASSUME ActorsAssumption, TypeOK, RequestsInv, QueuesInv, NEW r \in Req, pc[r] = "submitting",
         pool[hand[r]] # "unborn", pc' = [pc EXCEPT ![r] = "waiting"],
         queue' = [queue EXCEPT ![hand[r]] = Append(@, r)],
         UNCHANGED <<phase, pool, cookie, hand>>
  PROVE  QueuesInv' /\ \A q \in Req : Same(q)
<1> DEFINE w == hand[r]
           n == Len(queue[w]) + 1
<1>1. w \in Worker /\ Owner(w) = cookie[r] /\ r \in Job
  BY DEF RequestsInv, Job
<1>2. /\ Append(queue[w], r) \in Seq(Job) /\ Len(queue[w]) \in Nat
      /\ Len(Append(queue[w], r)) = n /\ Append(queue[w], r)[n] = r
      /\ \A i \in 1..Len(queue[w]) : Append(queue[w], r)[i] = queue[w][i]
  BY <1>1, AppendFacts DEF TypeOK
<1>3. queue'[w] = Append(queue[w], r) /\ \A v \in Worker : v # w => queue'[v] = queue[v]
  BY <1>1 DEF TypeOK
<1>4. queue' \in [Worker -> Seq(Job)]
  BY <1>1, <1>2 DEF TypeOK
<1>5. \A v \in Worker : ~Queued(v, r) /\ ~Busy(v, r)
  BY QueuedIs
<1> HIDE DEF w, n
<1>6. ASSUME NEW v \in Worker, NEW i \in 1..Len(queue'[v])
      PROVE  \/ v = w /\ i = n /\ queue'[v][i] = r
             \/ i \in 1..Len(queue[v]) /\ queue'[v][i] = queue[v][i]
  <2>1. CASE v = w
    BY <1>2, <1>3, <2>1 DEF n
  <2> QED BY <1>3, <2>1
<1>7. ASSUME NEW v \in Worker, NEW i \in 1..Len(queue[v])
      PROVE  i \in 1..Len(queue'[v]) /\ queue'[v][i] = queue[v][i]
  <2>1. CASE v = w
    BY <1>2, <1>3, <2>1 DEF n
  <2> QED BY <1>3, <2>1
<1>8. n \in 1..Len(queue'[w]) /\ queue'[w][n] = r
  BY <1>2, <1>3 DEF n
<1>9. /\ pc'[r] = "waiting" /\ \A q \in Req \ {r} : pc'[q] = pc[q]
      /\ \A v \in Worker : Owner(v)' = Owner(v)
  BY DEF TypeOK, Owner
<1>10. QueuesInv'
  <2>1. ASSUME NEW v \in Worker PROVE phase'[v] # "waiting" => queue'[v] # <<>>
    <3>1. queue[v] # <<>> => Len(queue[v]) # 0 /\ 1 \in 1..Len(queue[v])
      BY HeadFacts DEF TypeOK
    <3>2. queue[v] # <<>> => queue'[v] # <<>>
      BY <1>4, <1>7, <3>1, HeadFacts
    <3> QED BY <3>2 DEF QueuesInv
  <2>2. ASSUME NEW v \in Worker, NEW i \in 1..Len(queue'[v]), NEW q \in Req, queue'[v][i] = q
        PROVE  /\ pc'[q] \in {"waiting", "timed_out"} /\ hand'[q] = v /\ Owner(v)' = cookie'[q]
               /\ pool'[v] # "unborn"
               /\ \A k \in 1..Len(queue'[v]) : queue'[v][k] = q => k = i
    <3>1. CASE q = r
      <4>1. \A k \in 1..Len(queue'[v]) : queue'[v][k] = r => v = w /\ k = n
        BY <1>5, <1>6 DEF Queued
      <4>2. v = w /\ i = n
        BY <2>2, <3>1, <4>1
      <4> QED BY <1>1, <1>9, <3>1, <4>1, <4>2 DEF w
    <3>2. CASE q # r
      <4>1. i \in 1..Len(queue[v]) /\ queue[v][i] = q
        BY <1>6, <2>2, <3>2
      <4>2. /\ pc[q] \in {"waiting", "timed_out"} /\ hand[q] = v /\ Owner(v) = cookie[q]
            /\ pool[v] # "unborn"
            /\ \A k \in 1..Len(queue[v]) : queue[v][k] = q => k = i
        BY <4>1 DEF QueuesInv
      <4>3. \A k \in 1..Len(queue'[v]) : queue'[v][k] = q => k = i
        BY <1>6, <3>2, <4>2
      <4> QED BY <1>9, <3>2, <4>2, <4>3
    <3> QED BY <3>1, <3>2
  <2>3. ASSUME NEW q \in Req, pc'[q] = "waiting"
        PROVE  \E i \in 1..Len(queue'[hand'[q]]) : queue'[hand'[q]][i] = q
    <3>1. CASE q = r
      BY <1>8, <3>1 DEF w
    <3>2. CASE q # r
      <4>1. pc[q] = "waiting" /\ hand[q] \in Worker
        BY <1>9, <2>3, <3>2, WaitingAtWorker
      <4>2. PICK i \in 1..Len(queue[hand[q]]) : queue[hand[q]][i] = q
        BY <4>1 DEF QueuesInv
      <4> QED BY <1>7, <4>1, <4>2
    <3> QED BY <3>1, <3>2
  <2> QED BY <2>1, <2>2, <2>3 DEF QueuesInv
<1>11. ASSUME NEW q \in Req PROVE Same(q)
  <2>1. ASSUME NEW v \in Worker PROVE Busy(v, q)' <=> Busy(v, q)
    <3>1. /\ Len(queue[v]) \in Nat /\ Len(queue'[v]) \in Nat
          /\ Len(queue[v]) # 0 => 1 \in 1..Len(queue[v])
          /\ Len(queue'[v]) # 0 => 1 \in 1..Len(queue'[v])
      BY <1>4, HeadFacts DEF TypeOK
    <3>2. phase[v] # "waiting" => Len(queue[v]) # 0
      <4>1. phase[v] # "waiting" => queue[v] # <<>>
        BY DEF QueuesInv
      <4> QED BY <4>1, HeadFacts DEF TypeOK
    <3> QED BY <1>7, <3>1, <3>2 DEF Busy
  <2>2. ASSUME NEW v \in Worker, q # r PROVE Queued(v, q)' <=> Queued(v, q)
    BY <1>6, <1>7, <2>2 DEF Queued
  <2>3. ContractRun(q)' = ContractRun(q)
    <3>1. CASE q = r
      BY <1>4, <1>5, <1>9, <2>1, <3>1, RunIs, RunIsThen DEF TypeOK
    <3>2. CASE q # r
      BY <1>4, <1>9, <2>1, <2>2, <3>2, RunIs, RunIsThen DEF TypeOK
    <3> QED BY <3>1, <3>2
  <2> QED BY <1>9, <2>3 DEF Same, Admitted
<1> QED BY <1>10, <1>11

\* The caller gives up; the operation stays where it is.
LEMMA TimeoutMoves ==
  ASSUME ActorsAssumption, TypeOK, RequestsInv, QueuesInv, NEW r \in Req, pc[r] = "waiting",
         pc' = [pc EXCEPT ![r] = "timed_out"], UNCHANGED <<queue, phase, pool, cookie, hand>>
  PROVE  QueuesInv' /\ \A q \in Req : Same(q)
<1>1. /\ pc'[r] = "timed_out" /\ \A q \in Req \ {r} : pc'[q] = pc[q]
      /\ \A v \in Worker : Owner(v)' = Owner(v)
  BY DEF TypeOK, Owner
<1>2. QueuesInv'
  <2>1. ASSUME NEW v \in Worker PROVE phase'[v] # "waiting" => queue'[v] # <<>>
    BY DEF QueuesInv
  <2>2. ASSUME NEW v \in Worker, NEW i \in 1..Len(queue'[v]), NEW q \in Req, queue'[v][i] = q
        PROVE  /\ pc'[q] \in {"waiting", "timed_out"} /\ hand'[q] = v /\ Owner(v)' = cookie'[q]
               /\ pool'[v] # "unborn"
               /\ \A k \in 1..Len(queue'[v]) : queue'[v][k] = q => k = i
    BY <1>1, <2>2 DEF QueuesInv
  <2>3. ASSUME NEW q \in Req, pc'[q] = "waiting"
        PROVE  \E i \in 1..Len(queue'[hand'[q]]) : queue'[hand'[q]][i] = q
    BY <1>1, <2>3 DEF QueuesInv
  <2> QED BY <2>1, <2>2, <2>3 DEF QueuesInv
<1>3. ASSUME NEW q \in Req PROVE Same(q)
  <2>1. \A v \in Worker : Busy(v, q)' = Busy(v, q) /\ Queued(v, q)' = Queued(v, q)
    BY DEF Busy, Queued
  <2>2. \E v \in Worker : Queued(v, r)
    BY WaitingAtWorker DEF Queued, QueuesInv
  <2>3. ContractRun(q)' = ContractRun(q)
    BY <1>1, <2>1, <2>2, RunIs, RunIsThen DEF TypeOK
  <2> QED BY <1>1, <2>3 DEF Same, Admitted
<1> QED BY <1>2, <1>3

\* Every step of a request.
LEMMA RequestRefines ==
  ASSUME ActorsAssumption, SessionInv, QueuesInv, HandedInv, NEW r \in Req, RequestStep(r)
  PROVE  Refines
<1>t. TypeOK /\ RequestsInv
  BY DEF SessionInv
<1> USE DEF loginVars, storeVars, workerVars
<1>1. CASE Authenticate(r)
  BY <1>1, AuthenticateRefines
<1>2. CASE LookUpWorker(r)
  <2>1. PICK x \in {"handed", "miss", "refused"} : pc' = [pc EXCEPT ![r] = x]
    BY <1>2 DEF LookUpWorker
  <2>2. /\ pc[r] = "session" /\ UNCHANGED <<login, stored, queue, phase, cookie, pool>>
        /\ \A q \in Req \ {r} : hand'[q] = hand[q]
    BY <1>2, <1>t DEF LookUpWorker, TypeOK
  <2> QED BY <2>1, <2>2, GoesOn
<1>3. CASE MakeWorker(r)
  <2>1. /\ pc[r] = "miss" /\ pc' = [pc EXCEPT ![r] = "handed"]
        /\ UNCHANGED <<login, stored, queue, phase, cookie>>
        /\ \A q \in Req \ {r} : hand'[q] = hand[q]
        /\ \A w \in Worker : pool[w] # "unborn" => pool'[w] # "unborn"
    BY <1>3, <1>t DEF MakeWorker, TypeOK
  <2> QED BY <2>1, GoesOn
<1>4. CASE EnterRun(r)
  <2>1. PICK x \in {"submitting", "refused"} : pc' = [pc EXCEPT ![r] = x]
    BY <1>4 DEF EnterRun
  <2>2. pc[r] = "handed" /\ UNCHANGED <<login, stored, queue, phase, cookie, pool, hand>>
    BY <1>4 DEF EnterRun
  <2> QED BY <2>1, <2>2, GoesOn
<1>5. CASE Submit(r)
  <2>1. pc[r] = "submitting" /\ UNCHANGED <<login, stored, phase, pool, cookie, hand>>
    BY <1>5 DEF Submit
  <2>2. CASE pool[hand[r]] # "shut"
    <3>1. pc' = [pc EXCEPT ![r] = "waiting"] /\ queue' = [queue EXCEPT ![hand[r]] = Append(@, r)]
      BY <1>5, <2>2 DEF Submit
    <3>2. pool[hand[r]] # "unborn"
      BY <2>1 DEF HandedInv
    <3>3. QueuesInv' /\ \A q \in Req : Same(q)
      BY <1>t, <2>1, <3>1, <3>2, SubmitMoves
    <3>4. \A t \in Sid : ContractState(t)' = ContractState(t)
      BY <2>1 DEF ContractState
    <3> QED BY <3>3, <3>4, Stutters DEF Refines
  <2>3. CASE pool[hand[r]] = "shut"
    <3>1. pc' = [pc EXCEPT ![r] = "refused"] /\ queue' = queue
      BY <1>5, <2>3 DEF Submit
    <3> QED BY <2>1, <3>1, GoesOn
  <2> QED BY <2>2, <2>3
<1>6. CASE RequestTimeout(r)
  <2>1. /\ pc[r] = "waiting" /\ pc' = [pc EXCEPT ![r] = "timed_out"]
        /\ UNCHANGED <<login, stored, queue, phase, pool, cookie, hand>>
    BY <1>6 DEF RequestTimeout
  <2>2. QueuesInv' /\ \A q \in Req : Same(q)
    BY <1>t, <2>1, TimeoutMoves
  <2>3. \A t \in Sid : ContractState(t)' = ContractState(t)
    BY <2>1 DEF ContractState
  <2> QED BY <2>2, <2>3, Stutters DEF Refines
<1> QED BY <1>1, <1>2, <1>3, <1>4, <1>5, <1>6 DEF RequestStep

(***************************************************************************)
(* The steps of a worker thread.                                           *)
(***************************************************************************)
\* A thread ends its head job: if that is an operation, it is over.
LEMMA FinishRefines ==
  ASSUME ActorsAssumption, SessionInv, QueuesInv, NEW w \in Worker, queue[w] # <<>>,
         NEW o \in {"ok", "error"}, Finish(w, o),
         UNCHANGED <<login, stored, pool, cookie, hand, op>>
  PROVE  Refines
<1>t. TypeOK /\ RequestsInv
  BY DEF SessionInv
<1>1. /\ QueuesInv'
      /\ \A r \in Req : r # Head(queue[w]) => Same(r)
      /\ \A r \in Req : r = Head(queue[w]) =>
            /\ pc[r] \in {"waiting", "timed_out"} /\ ContractRun(r) # "over"
            /\ ContractRun(r)' = "over" /\ Admitted(r)' = Admitted(r)
  BY <1>t, FinishMoves
<1>2. \A t \in Sid : ContractState(t)' = ContractState(t)
  BY DEF ContractState
<1>3. CASE Head(queue[w]) \in Req
  <2>0. PICK r \in Req : r = Head(queue[w])
    BY <1>3
  <2>1. /\ pc[r] \in {"waiting", "timed_out"} /\ ContractRun(r) # "over"
        /\ ContractRun(r)' = "over" /\ Admitted(r)' = Admitted(r)
        /\ \A q \in Req \ {r} : Same(q)
    BY <1>1, <2>0
  <2>2. Admitted(r) # None
    BY <2>1, <1>t DEF Admitted, RequestsInv, ActorsAssumption
  <2> QED BY <1>1, <1>2, <2>1, <2>2, Overs DEF Refines
<1>4. CASE Head(queue[w]) \notin Req
  <2>1. \A r \in Req : Same(r)
    BY <1>1, <1>4
  <2> QED BY <1>1, <1>2, <2>1, Stutters DEF Refines
<1> QED BY <1>3, <1>4

\* The session's own worker is the only one that can be with its operations while
\* it is stored.
LEMMA OneBusyWorker ==
  ASSUME ActorsAssumption, SessionInv, QueuesInv, NEW s \in stored,
         NEW w \in Worker, NEW r \in Req, Queued(w, r), cookie[r] = s
  PROVE  w = s
<1>1. Owner(w) = s /\ pool[w] # "unborn"
  BY DEF Queued, QueuesInv
<1>2. w \notin Req
  <2> SUFFICES ASSUME w \in Req PROVE FALSE
    OBVIOUS
  <2>1. cookie[w] = s
    BY <1>1 DEF Owner, ActorsAssumption
  <2> QED BY <1>1, <2>1 DEF SessionInv, RequestsInv
<1> QED BY <1>1, <1>2 DEF Owner, Worker

\* A thread takes up its head job or goes on with it: if that is an operation, it
\* begins, and no other operation of its session is running.
LEMMA TakesRefines ==
  ASSUME ActorsAssumption, SessionInv, QueuesInv, NEW w \in Worker, queue[w] # <<>>,
         NEW x \in {"running", "again"}, phase' = [phase EXCEPT ![w] = x],
         UNCHANGED <<login, stored, queue, pool, reqVars>>
  PROVE  Refines
<1>t. TypeOK /\ RequestsInv
  BY DEF SessionInv
<1>1. /\ QueuesInv'
      /\ \A r \in Req : r # Head(queue[w]) \/ phase[w] # "waiting" => Same(r)
      /\ \A r \in Req : r = Head(queue[w]) => ContractRun(r)' = "running"
  BY <1>t, PhaseMoves
<1>2. \A t \in Sid : ContractState(t)' = ContractState(t)
  BY DEF ContractState
<1>3. CASE Head(queue[w]) \in Req /\ phase[w] = "waiting"
  <2>0. PICK r \in Req : r = Head(queue[w])
    BY <1>3
  <2>1. /\ ContractRun(r)' = "running" /\ Admitted(r)' = Admitted(r)
        /\ \A q \in Req \ {r} : Same(q)
    BY <1>1, <2>0 DEF Admitted, reqVars
  <2>2. Queued(w, r)
    BY <1>t, <2>0, HeadFacts DEF Queued, TypeOK
  <2>3. pc[r] \in {"waiting", "timed_out"} /\ hand[r] = w /\ ContractRun(r) # "over"
    BY <1>t, <2>2, QueuedIs
  <2>4. Admitted(r) = cookie[r] /\ cookie[r] \in Sid /\ cookie[r] # None
    BY <2>1, <2>3, <1>t DEF Admitted, RequestsInv, ActorsAssumption
  <2>5. \A v \in Worker : ~Busy(v, r)
    <3> SUFFICES ASSUME NEW v \in Worker, Busy(v, r) PROVE FALSE
      OBVIOUS
    <3>1. hand[r] = v
      BY <1>t, <2>1, QueuedIs
    <3> QED BY <1>3, <2>3, <3>1 DEF Busy
  <2>6. ContractRun(r) = "not_yet"
    BY <1>t, <2>1, <2>3, <2>5, RunIs DEF TypeOK
  <2>7. ASSUME ContractState(Admitted(r)) = "open", NEW q \in Req, Admitted(q) = Admitted(r)
        PROVE  ContractRun(q) # "running"
    <3>1. cookie[r] \in stored
      BY <2>4, <2>7 DEF ContractState
    <3>2. cookie[q] = cookie[r]
      BY <2>4, <2>7 DEF Admitted
    <3>3. w = cookie[r]
      BY <2>1, <2>2, <3>1, OneBusyWorker
    <3>4. ASSUME NEW v \in Worker, Busy(v, q) PROVE FALSE
      <4>1. Queued(v, q)
        BY <1>t, <3>4, QueuedIs
      <4>2. v = cookie[r]
        BY <3>1, <3>2, <4>1, OneBusyWorker
      <4> QED BY <1>3, <3>3, <3>4, <4>2 DEF Busy
    <3> QED BY <1>t, <3>4, RunIs DEF TypeOK
  <2> QED BY <1>1, <1>2, <2>1, <2>4, <2>6, <2>7, Starts DEF Refines
<1>4. CASE ~(Head(queue[w]) \in Req /\ phase[w] = "waiting")
  <2>1. \A r \in Req : Same(r)
    BY <1>1, <1>4
  <2> QED BY <1>1, <1>2, <2>1, Stutters DEF Refines
<1> QED BY <1>3, <1>4

\* Every step of a worker thread.
LEMMA WorkerRefines ==
  ASSUME ActorsAssumption, SessionInv, QueuesInv, NEW w \in Worker, WorkerStep(w)
  PROVE  Refines
<1> USE DEF loginVars, storeVars
<1>1. queue[w] # <<>>
  <2>1. Head1(w) # "none"
    BY DEF WorkerStep, RunResolve, RefuseKinit, BeginKinit, EndKinit, BeginOperation, Reconnect,
       EndOperation, RunCleanup, Operation, ActorsAssumption
  <2> QED BY <2>1 DEF Head1
<1>2. UNCHANGED <<login, stored, pool, cookie, hand, op>>
  BY DEF WorkerStep, RunResolve, RefuseKinit, BeginKinit, EndKinit, BeginOperation, Reconnect,
     EndOperation, RunCleanup, reqVars
<1>3. \/ \E o \in {"ok", "error"} : Finish(w, o)
      \/ /\ \E x \in {"running", "again"} : phase' = [phase EXCEPT ![w] = x]
         /\ UNCHANGED <<queue, pc>>
  BY DEF WorkerStep, RunResolve, RefuseKinit, BeginKinit, EndKinit, BeginOperation, Reconnect,
     EndOperation, RunCleanup, reqVars
<1>4. CASE \E o \in {"ok", "error"} : Finish(w, o)
  BY <1>1, <1>2, <1>4, FinishRefines
<1>5. CASE /\ \E x \in {"running", "again"} : phase' = [phase EXCEPT ![w] = x]
           /\ UNCHANGED <<queue, pc>>
  <2>1. UNCHANGED reqVars
    BY <1>2, <1>5 DEF reqVars
  <2> QED BY <1>1, <1>2, <1>5, <2>1, TakesRefines
<1> QED BY <1>3, <1>4, <1>5

(***************************************************************************)
(* The refinement.                                                         *)
(***************************************************************************)
\* A program that has just started is in an initial state of the contract.
LEMMA InitRefines ==
  ASSUME ActorsAssumption, Init
  PROVE  QueuesInv /\ HandedInv /\ Contract!CInit
<1> USE DEF Init
<1>1. Len(<<>>) = 0
  OBVIOUS
<1>2. QueuesInv
  <2>1. ASSUME NEW w \in Worker PROVE phase[w] = "waiting" /\ Len(queue[w]) = 0
    BY <1>1
  <2> QED BY <2>1 DEF QueuesInv
<1>3. HandedInv
  BY DEF HandedInv
<1>4. ASSUME NEW s \in Sid PROVE ContractState(s) = "none"
  BY DEF ContractState
<1>5. ASSUME NEW r \in Req PROVE ContractRun(r) = "not_yet" /\ Admitted(r) = None
  BY DEF ContractRun, Admitted
<1> QED BY <1>2, <1>3, <1>4, <1>5 DEF Contract!CInit, Admitted

\* Every step keeps the queues in order and is a step of the contract, or invisible.
LEMMA StepRefines ==
  ASSUME ActorsAssumption, SessionInv, QueuesInv, HandedInv, [Next]_vars
  PROVE  Refines
<1>1. ASSUME UNCHANGED vars PROVE Refines
  <2>1. UNCHANGED <<login, stored, queue, phase, pool, reqVars>>
    BY <1>1 DEF vars, loginVars, storeVars, workerVars
  <2>2. QueuesInv' /\ \A r \in Req : Same(r)
    BY <2>1, IdleKeeps DEF SessionInv
  <2>3. \A t \in Sid : ContractState(t)' = ContractState(t)
    BY <2>1 DEF ContractState
  <2> QED BY <2>2, <2>3, Stutters DEF Refines
<1>2. ASSUME Next PROVE Refines
  BY <1>2, LoginRefines, DropRefines, EndRefines, RequestRefines, WorkerRefines, ShutdownRefines
     DEF Next
<1> QED BY <1>1, <1>2

\* Operations are queued once, on the worker their request was handed, from their
\* submission to their end (SessionWorker.run and the thread of core/executor.py).
THEOREM OperationsAreQueuedOnce == Spec => [](QueuesInv /\ HandedInv)
<1>1. Init => QueuesInv /\ HandedInv
  BY ActorsAssumption, InitRefines
<1>2. SessionInv /\ QueuesInv /\ HandedInv /\ [Next]_vars => QueuesInv' /\ HandedInv'
  BY ActorsAssumption, StepRefines, HandedKept DEF Refines
<1> QED BY <1>1, <1>2, SessionInvariant, PTL DEF Spec

\* The session layer implements its contract: an id is opened at most once, requests
\* are admitted by open sessions only, each operation runs at most once and in one
\* stretch, and an open session's operations never overlap (core/executor.py, "one
\* worker thread per session"; auth/session.py; auth/deps.py).
THEOREM ContractImplemented == Spec => ImplementsContract
<1>1. Init => Contract!CInit
  BY ActorsAssumption, InitRefines
<1>2. SessionInv /\ QueuesInv /\ HandedInv /\ [Next]_vars => [Contract!CNext]_(Contract!cvars)
  BY ActorsAssumption, StepRefines DEF Refines
<1> QED BY <1>1, <1>2, SessionInvariant, OperationsAreQueuedOnce, PTL
    DEF Spec, ImplementsContract, Contract!CSpec

===============================================================================
