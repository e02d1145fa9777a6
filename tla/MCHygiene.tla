----------------------------- MODULE MCHygiene -----------------------------
(* Packages of three rules out of those that differ in what hygiene.py      *)
(* compares: networks that contain each other, a group with an opaque       *)
(* member, a group that contains itself, an FQDN, identities, a disabled    *)
(* rule and a policy block, and in what it does not: interfaces, schedules, *)
(* negation, an object that is misread.  Group tables two levels deep.      *)
EXTENDS Hygiene

MCPoints == 0..3
MCObjects ==
    [all |-> [kind |-> "ipmask", points |-> 0..3],
     net |-> [kind |-> "ipmask", points |-> {0, 1}],
     host |-> [kind |-> "ipmask", points |-> {0}],
     range |-> [kind |-> "iprange", points |-> {0, 1, 2}],
     fqdn |-> [kind |-> "fqdn", points |-> {}],
     mapped |-> [kind |-> "misread", points |-> {2}, read |-> {0}]]
MCGroups == [grp |-> {"host", "net"}, mixed |-> {"host", "fqdn"},
             loop |-> {"loop", "host"}, empty |-> {}]

Base == [src |-> {"all"}, dst |-> {"all"}, svc |-> {"all"}, action |-> "accept",
         status |-> "enable", identity |-> {}, block |-> FALSE,
         negated |-> {}, intf |-> {"any"}, schedule |-> "always"]

Compared ==
    {[Base EXCEPT !.src = s] :
        s \in {{"host"}, {"range"}, {"grp"}, {"mixed"}, {"fqdn"}, {"loop"}}} \cup
    {[Base EXCEPT !.src = s, !.action = "deny"] : s \in {{"net"}, {"fqdn"}}} \cup
    {[Base EXCEPT !.dst = {"net"}, !.svc = {"host"}],
     [Base EXCEPT !.dst = {"net"}, !.action = "deny"],
     [Base EXCEPT !.status = "disable", !.action = "deny"],
     [Base EXCEPT !.identity = {"staff"}, !.action = "deny"],
     [Base EXCEPT !.identity = {"staff"}, !.src = {"net"}],
     [Base EXCEPT !.block = TRUE, !.src = {}, !.dst = {}, !.svc = {}],
     [Base EXCEPT !.intf = {"lan"}, !.action = "deny"],
     [Base EXCEPT !.schedule = "office", !.action = "deny"],
     [Base EXCEPT !.negated = {"src"}, !.src = {"net"}],
     [Base EXCEPT !.dst = {"mapped"}, !.action = "deny"]}

MCPackages == [1..3 -> Compared]

MCRules ==
    [named : BOOLEAN, commented : {TRUE}, logtraffic : {"disable", "all"},
     schedule : {"always", "past date", "future date", "office"},
     utm : {"enable"}, profiles : {{}, {"ips"}}, block : BOOLEAN,
     status : {"enable", "disable"}, action : {"accept", "deny"},
     src : {{"all"}, {"empty"}}, dst : {{"all"}, {"none"}}, svc : {{"all"}}]

MCGroupTables ==
    {[g1 |-> a, g2 |-> b] : a \in {<<"g2">>, <<"x">>, <<"x", "g2">>, <<"g2", "y">>},
                            b \in {<<"y">>, <<"g1">>, << >>, <<"x", "y">>}}
MCCatalog == {"x", "y", "g1", "g2", "isdb-z"}
MCBuiltIns == {"isdb-z"}
=============================================================================
