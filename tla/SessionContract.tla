--------------------------- MODULE SessionContract ---------------------------
(***************************************************************************)
(* What signing in to SAMFSCON promises, without workers, queues, stores   *)
(* or threads: a session id is opened at most once and never comes back, a *)
(* request is admitted only while its session is open, its operation runs  *)
(* at most once and in one stretch, and the operations of an open session  *)
(* never overlap.                                                          *)
(***************************************************************************)
EXTENDS Naturals

CONSTANTS Sid, Req, None

VARIABLES
    state,      \* state[s]: "none", "opening", "open" or "ended"
    admitted,   \* admitted[r]: the session that admitted r, or None
    run         \* run[r]: "not_yet", "running" or "over"

cvars == <<state, admitted, run>>

CInit ==
    /\ state = [s \in Sid |-> "none"]
    /\ admitted = [r \in Req |-> None]
    /\ run = [r \in Req |-> "not_yet"]

\* A sign-in begins, and later opens its session.
Advance(s) ==
    /\ \/ state[s] = "none" /\ state' = [state EXCEPT ![s] = "opening"]
       \/ state[s] = "opening" /\ state' = [state EXCEPT ![s] = "open"]
    /\ UNCHANGED <<admitted, run>>

\* Sign-ins that fail and sessions that are closed, several when the process stops.
End(S) ==
    /\ S # {}
    /\ \A s \in S : state[s] \in {"opening", "open"}
    /\ state' = [s \in Sid |-> IF s \in S THEN "ended" ELSE state[s]]
    /\ UNCHANGED <<admitted, run>>

Admit(r, s) ==
    /\ admitted[r] = None
    /\ state[s] = "open"
    /\ admitted' = [admitted EXCEPT ![r] = s]
    /\ UNCHANGED <<state, run>>

\* An operation may begin after its session has ended; what the session promises
\* is that while it is open no two of its operations run at once.
Start(r) ==
    /\ run[r] = "not_yet" /\ admitted[r] # None
    /\ state[admitted[r]] = "open" =>
          \A q \in Req : admitted[q] = admitted[r] => run[q] # "running"
    /\ run' = [run EXCEPT ![r] = "running"]
    /\ UNCHANGED <<state, admitted>>

\* The operation is over, or was given up before it began.
Over(r) ==
    /\ run[r] # "over" /\ admitted[r] # None
    /\ run' = [run EXCEPT ![r] = "over"]
    /\ UNCHANGED <<state, admitted>>

CNext ==
    \/ \E s \in Sid : Advance(s)
    \/ \E S \in SUBSET Sid : End(S)
    \/ \E r \in Req : Start(r) \/ Over(r) \/ \E s \in Sid : Admit(r, s)

CSpec == CInit /\ [][CNext]_cvars

===============================================================================
