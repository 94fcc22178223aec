---------------------------- MODULE MCGlobalConfig ----------------------------
(* Model-checking instance of GlobalConfig: three dialects, and the lists that *)
(* decide each branch of the hosts check.                                      *)
EXTENDS GlobalConfig, TLC

Hosts(names, except) == [names |-> names, except |-> except]

Sure == Hosts({"us"}, {})
Lost == Hosts({"other"}, {})
Open_ == Hosts({"name"}, {})
Cut == Hosts({"us", "other"}, {"name"})

MCServers ==
    {[mode |-> "standalone", reads |-> FALSE, text |-> "Samba", resolves |-> TRUE],
     [mode |-> "ad_member", reads |-> TRUE, text |-> "Dateiserver", resolves |-> FALSE]}

MCRequests ==
    {<<>>}
        \cup {<<<<min, 3>>>>, <<<<max, 1>>>>, <<<<max, None>>>>}
        \cup {<<<<max, 2>>, <<min, d>>>> : d \in 2..3}
        \cup {<<<<allow, v>>>> : v \in {None, Lost, Cut}}
        \cup {<<<<deny, v>>>> : v \in {Sure}}
        \cup {<<<<deny, Sure>>, <<allow, v>>>> : v \in {Sure, Open_}}
        \cup {<<<<string, v>>>> : v \in {"Samba", "Dateiserver"}}
        \cup {<<<<o, "yes">>>> : o \in {"netbios name", "workgroup", "winbind enum users"}}

Named == {min, max, allow, deny, "workgroup"}

MCTokens ==
    {{}, Named, Named \cup {UNDECIDABLE_CONFIRM_FOR[allow], UNDECIDABLE_CONFIRM_FOR[deny]},
     Named \cup {ADDRESS_UNKNOWN_CONFIRM}}

Symmetry == Permutations(Admin)

===============================================================================
