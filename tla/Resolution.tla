------------------------------ MODULE Resolution -------------------------------
(***************************************************************************)
(* How a sign-in form becomes a target: what an unauthenticated probe of   *)
(* the server hears (srv/discovery.py), how it fills the gaps of what was  *)
(* chosen or configured, and when the sign-in is refused instead           *)
(* (srv/targets.py, srv/target.py).                                        *)
(*                                                                         *)
(* A question is a server with what it would answer, the settings and the  *)
(* form.  Names and realms are told apart by where they come from.         *)
(***************************************************************************)
EXTENDS Naturals

Nothing == "nothing"
Modes == {"ad_member", "standalone"}

\* A joined server reports its domain, and its realm unless the domain is an NT4
\* one.  A standalone server has no realm or is its own domain.
DnsReplies(kind) ==
    CASE kind = "member" -> {[workgroup |-> "domain", realm |-> "server's"]}
      [] kind = "nt4" -> {[workgroup |-> "domain", realm |-> Nothing]}
      [] OTHER -> {[workgroup |-> "domain", realm |-> Nothing],
                   [workgroup |-> "self", realm |-> "server's"]}

Refused == [workgroup |-> "refused", realm |-> "refused"]

\* lsa: how far lsarpc lets an anonymous caller.  account: the account domain,
\* which is the server's own name, can be read.  srvsvc: with or without a
\* dotted name.  ptr: DNS has a name for the address.
Server ==
    UNION {[kind : {k}, lsa : {"no pipe", "no policy", "policy"}, account : BOOLEAN,
            dns : DnsReplies(k) \cup {Refused}, srvsvc : {"refused", "plain", "dotted"},
            ptr : BOOLEAN] : k \in {"member", "nt4", "standalone"}}

\* What was typed, or what a profile or the default server says.
Form == [mode : Modes \cup {"auto"}, realm : {Nothing, "given"}]

\* A typed address has no configuration behind it.
Question ==
    [server : Server, host : {"name", "address"}, form : Form,
     typed : {TRUE}, configured : {[mode |-> "auto", realm |-> Nothing]},
     customAllowed : BOOLEAN, standaloneAllowed : BOOLEAN]
    \cup
    [server : Server, host : {"name", "address"}, form : Form,
     typed : {FALSE}, configured : Form,
     customAllowed : BOOLEAN, standaloneAllowed : BOOLEAN]

-------------------------------------------------------------------------------
(* The probe.                                                                *)

PolicyOpen(s) == s.lsa = "policy"
DnsRead(s) == PolicyOpen(s) /\ s.dns # Refused
Reachable(s) == s.lsa # "no pipe" \/ s.srvsvc # "refused"

Workgroup(s) == IF DnsRead(s) THEN s.dns.workgroup ELSE Nothing
FoundRealm(s) == IF DnsRead(s) THEN s.dns.realm ELSE Nothing

\* Either of the two names the server: the account domain first.
NetbiosKnown(s) == (PolicyOpen(s) /\ s.account) \/ s.srvsvc # "refused"

\* SV_TYPE_DOMAIN_MEMBER, which only srvsvc tells.
SaysJoined(s) == s.srvsvc # "refused" /\ s.kind # "standalone"

\* Mutant of FoundMode: a refused query says that there is no domain.
FoundModeOfSilence(s) ==
    IF FoundRealm(s) # Nothing /\ NetbiosKnown(s) /\ Workgroup(s) # "self"
    THEN "ad_member" ELSE "standalone"

\* _decide_mode.  A refused query decides nothing; a flag that is set does.
FoundMode(s) ==
    CASE ~DnsRead(s) -> IF SaysJoined(s) THEN "ad_member" ELSE "auto"
      [] DnsRead(s) /\ ~NetbiosKnown(s) -> "auto"
      [] OTHER -> IF FoundRealm(s) # Nothing /\ Workgroup(s) # "self"
                  THEN "ad_member" ELSE "standalone"

\* Mutant of FoundName: DNS is asked before the name is put together.
FoundNameDnsFirst(s, host) ==
    CASE s.srvsvc = "dotted" -> "reported"
      [] s.srvsvc # "dotted" /\ host = "address" /\ s.ptr -> "ptr"
      [] OTHER -> Nothing

\* The dotted name srvsvc reports, then the server's name in its realm
\* (_derive_fqdn, for a server found to be a member), then reverse DNS.
FoundName(s, host) ==
    LET composed == FoundMode(s) = "ad_member" /\ NetbiosKnown(s) /\ FoundRealm(s) # Nothing IN
    CASE s.srvsvc = "dotted" -> "reported"
      [] s.srvsvc # "dotted" /\ composed -> "composed"
      [] s.srvsvc # "dotted" /\ ~composed /\ host = "address" /\ s.ptr -> "ptr"
      [] OTHER -> Nothing

-------------------------------------------------------------------------------
(* The target.                                                               *)

Either(a, b) == IF a # Nothing THEN a ELSE b
PickMode(chosen, fallback) == IF chosen \in Modes THEN chosen ELSE fallback

\* Mutant of Chosen: the realm is taken from the configuration only.
ChosenConfigured(q) == [mode |-> PickMode(q.form.mode, q.configured.mode),
                        realm |-> q.configured.realm]

\* Before the probe: what the form says, then what is configured.
Chosen(q) == [mode |-> PickMode(q.form.mode, q.configured.mode),
              realm |-> Either(q.form.realm, q.configured.realm)]

Decided(q) == Chosen(q).mode \in Modes

\* The probe fills gaps; one that failed fills none.
Enriched(q) ==
    IF Reachable(q.server)
    THEN [mode |-> PickMode(Chosen(q).mode, FoundMode(q.server)),
          realm |-> Either(Chosen(q).realm, FoundRealm(q.server)),
          netbios |-> NetbiosKnown(q.server), name |-> FoundName(q.server, q.host)]
    ELSE [mode |-> Chosen(q).mode, realm |-> Chosen(q).realm, netbios |-> FALSE, name |-> Nothing]

\* The name a Kerberos ticket is asked for.
KerberosHost(q) ==
    LET t == Enriched(q) IN
    CASE t.name # Nothing -> t.name
      [] t.name = Nothing /\ t.netbios /\ t.realm # Nothing /\ q.host = "address" -> "composed"
      [] OTHER -> q.host

\* Mutant of Undecided: a mode that nobody settled is not refused.
UndecidedNever(t) == FALSE

Undecided(t) == t.mode = "auto"

\* Why a sign-in is refused before the password is used, in this order.
Refusal(q) ==
    LET t == Enriched(q) IN
    IF q.typed /\ ~q.customAllowed THEN "custom_servers_disabled"
    ELSE IF ~Reachable(q.server) /\ ~Decided(q) THEN "server_unreachable"
    ELSE IF Undecided(t) THEN "mode_undecided"
    ELSE IF t.mode = "ad_member" /\ KerberosHost(q) = "address" THEN "kerberos_needs_a_name"
    ELSE IF t.mode = "ad_member" /\ t.realm = Nothing THEN "missing_realm"
    ELSE IF t.mode = "standalone" /\ ~q.standaloneAllowed THEN "standalone_disabled"
    ELSE Nothing

\* What the sign-in goes on with: a refusal, or the mode and realm.
Target(q) ==
    IF Refusal(q) # Nothing THEN [mode |-> "refused", realm |-> Nothing]
    ELSE [mode |-> Enriched(q).mode,
          realm |-> IF Enriched(q).mode = "ad_member" THEN Enriched(q).realm ELSE Nothing]

Targets == {Target(q) : q \in Question}
Accepted == {t \in Targets : t.mode # "refused"}

===============================================================================
