----------------------------- MODULE MCPlanner -----------------------------
(* Packages of two rules, and of two rules with a last one that denies all.  *)
EXTENDS Planner, MCCatalogs

MCInterfaces == {[name |-> "port1", net |-> 0..3], [name |-> "port2", net |-> {2, 3}],
                 [name |-> "port3", net |-> {6, 7}]}

Rule == [src |-> {"all"}, srcNegate |-> FALSE, dst |-> {"all"}, dstNegate |-> FALSE,
         svc |-> {"all"}, action |-> "accept", status |-> "enable", always |-> TRUE,
         srcintf |-> "any", dstintf |-> "any"]

PlannedRules ==
    {[Rule EXCEPT !.src = {"hosts"}, !.dst = {"far"}, !.svc = {"SVC"}],
     [Rule EXCEPT !.src = {"low"}, !.svc = {"WEB", "DNS"}],
     [Rule EXCEPT !.src = {"pair"}, !.dst = {"range"}, !.always = FALSE],
     [Rule EXCEPT !.dst = {"nested"}, !.dstNegate = TRUE, !.svc = {"WEB"}],
     [Rule EXCEPT !.src = {"dark", "host"}, !.svc = {"WEB"}, !.srcintf = "port1"],
     [Rule EXCEPT !.src = {"host"}, !.svc = {"GRE"}, !.action = "deny"],
     [Rule EXCEPT !.src = {"loop"}, !.dst = {"far"}, !.svc = {"WEB"}, !.action = "deny"],
     [Rule EXCEPT !.src = {"range"}, !.action = "deny", !.dstintf = "port3"],
     [Rule EXCEPT !.status = "disable", !.action = "deny"],
     [Rule EXCEPT !.src = {}, !.dst = {}, !.svc = {}, !.action = "deny"],
     [Rule EXCEPT !.src = {"mixed"}, !.svc = {"WEB"}],
     [Rule EXCEPT !.action = "ipsec", !.svc = {"PING"}]}

MCPlannedPackages == {<< >>} \cup [1..2 -> PlannedRules] \cup
    {<<r, s, [Rule EXCEPT !.action = "deny"]>> : r \in PlannedRules, s \in PlannedRules}
MCFlowAddrs == {{}, {0}, {0, 1}, {2, 3}, {6}}
MCFlowSvcs == {{}, {Tcp(1, 1)}, {Tcp(1, 1), Tcp(3, 3)}, {Tcp(2, 1)},
               {[protocol |-> "ip", start |-> 0, end |-> 0]}}
=============================================================================
