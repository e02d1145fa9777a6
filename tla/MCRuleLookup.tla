---------------------------- MODULE MCRuleLookup ----------------------------
(* Pairs of rules, and queries by network, by name and by port, bare and of  *)
(* one protocol.                                                             *)
EXTENDS RuleLookup, MCCatalogs

Cached == [src |-> {"all"}, srcNegate |-> FALSE, dst |-> {"all"}, dstNegate |-> FALSE,
           svc |-> {"all"}]
LookedUp ==
    {[Cached EXCEPT !.src = {"mixed", "far"}, !.svc = {"SVC"}],
     [Cached EXCEPT !.src = {"range"}, !.dst = {"nested"}, !.svc = {"WEB2", "DNS"}],
     [Cached EXCEPT !.src = {"loop"}, !.srcNegate = TRUE, !.svc = {"WEB"}],
     [Cached EXCEPT !.src = {"pair"}, !.dst = {"low"}, !.svc = {"PING", "GRE"}],
     [Cached EXCEPT !.dst = {"dark"}, !.dstNegate = TRUE],
     [Cached EXCEPT !.src = {"fqdn", "all"}, !.dst = {"host"}]}
MCLookupRules == {<<r, s>> : r \in LookedUp, s \in LookedUp}

ByNet(nets) == [pattern |-> FALSE, nets |-> nets]
ByName(names) == [pattern |-> TRUE, names |-> names]
Of(proto, a, b) == [protocol |-> proto, start |-> a, end |-> b]

Searched == {ByNet({0}), ByNet({0, 1}), ByNet({2, 3}), ByNet({6}), ByNet(0..7),
             ByName({"fqdn", "range"})}
SearchedPorts ==
    {{{Of("tcp", 1, 1)}, {Of("udp", 1, 1)}}, {{Of("tcp", 1, 3)}},
     {{Of("tcp", 0, 0), Of("udp", 0, 0)}}, {{Of("tcp", 1, 1), Of("tcp", 2, 3)}}}
MCLookupQueries ==
    {<< >>, [invalid |-> TRUE]}
    \cup {[src |-> s] : s \in Searched}
    \cup {[port |-> p] : p \in SearchedPorts}
    \cup {[src |-> s, dst |-> d] : s \in Searched, d \in Searched}
    \cup {[dst |-> d, port |-> p] : d \in Searched, p \in SearchedPorts}
=============================================================================
