---------------------------- MODULE MCRuleReview ----------------------------
(* Three ADOMs: east, with one firewall that has a package for all of its    *)
(* VDOMs and one without any; south, whose names are its own; and west,      *)
(* which shares a name with east and one with the global tables.  A group of *)
(* a group, one of which half is readable, one of which nothing is; a host   *)
(* name that resolves and one that does not.  Services of one and of two     *)
(* ranges, of none, and groups of them.                                      *)
EXTENDS RuleReview, MCCatalogs

Firewall(a, d, v) == [adom |-> a, device |-> d, vdom |-> v]
Fw1 == Firewall("east", "fw1", "root")
Fw4 == Firewall("south", "fw4", "root")
Fw5 == Firewall("west", "fw5", "root")
MCSelections ==
    {<<Fw1>>, <<Firewall("east", "fw3", "root")>>, <<Fw1, Firewall("east", "fw2", "dmz")>>,
     <<Fw1, Fw4>>, <<Fw5>>, <<Fw5, Fw1>>}

Package(a, members) == [adom |-> a, members |-> members]
Member(d, v) == [device |-> d, vdom |-> v]
MCPackageScopes ==
    <<Package("east", {Member("fw1", "")}),
      Package("east", {Member("fw2", "dmz"), Member("fw1", "root")}),
      Package("south", {Member("fw4", "root")}), Package("west", {Member("fw5", "")})>>

MCAddressTexts == [a |-> 0, b |-> 3, c |-> 7, n1 |-> 0, n2 |-> 2]

NameTable(objects, groups) == [objects |-> objects, groups |-> groups]
MCAddressTables ==
    [global |-> NameTable([wan |-> "c"], << >>),
     east |-> NameTable([net |-> "n1", net2 |-> "n2", web |-> "www", span |-> ""],
                    [pair |-> <<"net", "net2">>, nested |-> <<"net", "pair">>,
                     spans |-> <<"span">>, sites |-> <<"web", "net">>]),
     south |-> NameTable([dmz |-> "b"], [inner |-> <<"dmz", "wan">>]),
     west |-> NameTable([wan |-> "n2", net |-> "b"], [pair |-> <<"net">>])]
MCHostNames == [host |-> <<"a", "b">>, lost |-> << >>]

MCServiceTexts == {"tcp/443", "tcp/80", "udp/53"}
Service(tcp, udp, other) == [tcp |-> tcp, udp |-> udp, other |-> other]
MCServiceTables ==
    [east |-> NameTable([HTTP |-> Service(<<"tcp/80">>, << >>, FALSE),
                     PORTS |-> Service(<<"tcp/443", "tcp/80">>, <<"udp/53">>, FALSE),
                     PING |-> Service(<< >>, << >>, TRUE)],
                    [WEB |-> <<"HTTP", "TLS">>]),
     south |-> NameTable([HTTP |-> Service(<<"tcp/80">>, << >>, FALSE),
                      TLS |-> Service(<<"tcp/443">>, <<"udp/53">>, FALSE)],
                     [WEB |-> <<"HTTP", "TLS">>, ALLWEB |-> <<"WEB">>]),
     west |-> NameTable(<< >>, << >>)]

MCFaulty == {<<1, "objects">>, <<1, "groups">>, <<3, "objects">>, <<1, "services">>}

SrcTexts ==
    {"a", "c", "net", "span", "pair", "nested", "spans", "sites", "host", "lost", "inner"}
MCReviewFlows ==
    [src : SrcTexts, dst : {"b", "pair", "wan"}, svc : {"tcp/443", "WEB"}]
        \cup [src : {"net"}, dst : {"b"}, svc : {"PORTS", "PING", "ALLWEB"}]

MCRouting ==
    [fw1 |-> [interfaces |-> {[name |-> "in", net |-> {0, 1}, up |-> TRUE],
                              [name |-> "out", net |-> {2, 3}, up |-> FALSE]},
              routes |-> {[name |-> "out", net |-> 0..3], [name |-> "wan", net |-> 0..7]}],
     fw2 |-> [interfaces |-> {[name |-> "in", net |-> 0..3, up |-> TRUE]}, routes |-> {}],
     fw4 |-> [interfaces |-> {}, routes |-> {[name |-> "wan", net |-> 0..7]}],
     fw5 |-> [interfaces |-> {[name |-> "in", net |-> 0..3, up |-> TRUE]}, routes |-> {}]]
=============================================================================
