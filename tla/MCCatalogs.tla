---------------------------- MODULE MCCatalogs ----------------------------
(* Addresses of three bits: hosts have prefix 3, and what /24 is to a host   *)
(* on the wire, 2 is here.  Groups of groups, a group with an FQDN among its *)
(* members, one of nothing else, and one that contains itself.               *)
EXTENDS Catalogs

MCAddresses == 0..7
MCBlocks == {0..7, 0..3, 4..7} \cup {{2 * i, 2 * i + 1} : i \in 0..3} \cup {{i} : i \in 0..7}
MCPrefix == [b \in MCBlocks |-> CASE Cardinality(b) = 8 -> 0
                                  [] Cardinality(b) = 4 -> 1
                                  [] Cardinality(b) = 2 -> 2
                                  [] Cardinality(b) = 1 -> 3]

Known(parts) == [known |-> TRUE, parts |-> parts]
Dark == [known |-> FALSE, parts |-> {}]

MCAddrObjects ==
    [low |-> Known({0..3}), pair |-> Known({{0, 1}}), host |-> Known({{0}}),
     host1 |-> Known({{1}}), far |-> Known({{6}}), range |-> Known({{1}, {2, 3}}), fqdn |-> Dark]
MCAddrGroups ==
    [hosts |-> <<"host", "host1">>, nested |-> <<"hosts", "far">>,
     mixed |-> <<"host", "fqdn">>, dark |-> <<"fqdn">>, loop |-> <<"loop", "host">>]

Tcp(a, b) == [protocol |-> "tcp", start |-> a, end |-> b]
Udp(a, b) == [protocol |-> "udp", start |-> a, end |-> b]
MCPorts == 0..3
MCSvcObjects ==
    [WEB |-> Known({Tcp(1, 1)}), WEB2 |-> Known({Tcp(2, 3)}), DNS |-> Known({Tcp(0, 0), Udp(0, 0)}),
     GRE |-> Dark, PING |-> Known({[protocol |-> "icmp", start |-> 0, end |-> 3]})]
MCSvcGroups == [SVC |-> <<"WEB", "SUB">>, SUB |-> <<"WEB2", "SVC">>]

(* _resolve as the descent that it is: what one name is, and what has been   *)
(* seen by then.                                                             *)
Descent(objects, groups, everything) ==
    LET Resolve[name \in STRING, seen \in SUBSET STRING] ==
            IF IsWildcardName(name) THEN [r |-> Resolved({everything}), seen |-> seen]
            ELSE IF name \in seen THEN [r |-> Resolved({}), seen |-> seen]
            ELSE IF name \in DOMAIN objects
            THEN [r |-> objects[name], seen |-> seen \cup {name}]
            ELSE FoldLeft(LAMBDA acc, m :
                              LET sub == Resolve[m, acc.seen]
                              IN  [r |-> IF sub.r.known
                                         THEN Resolved(acc.r.parts \cup sub.r.parts)
                                         ELSE acc.r,
                                   seen |-> sub.seen],
                          [r |-> Unresolved, seen |-> seen \cup {name}],
                          IF name \in DOMAIN groups THEN groups[name] ELSE << >>)
    IN  [name \in NamesIn(objects, groups) |-> Resolve[name, {}].r]

(* Resolution is that descent, for the tables of the runs and for every two  *)
(* groups of up to two members, repeated, nested or circular, of which "off" *)
(* is in no table.                                                           *)
ASSUME DescentIsResolution ==
    /\ AddrRef = Descent(AddrObjects, AddrGroups, Addresses)
    /\ SvcRef = Descent(SvcObjects, SvcGroups, WildcardRange)
    /\ LET objects == [o |-> Known({1}), d |-> Dark]
           members == UNION {[1..n -> {"o", "d", "g", "h", "all", "off"}] : n \in 0..2}
       IN  \A g, h \in members :
              LET groups == [g |-> g, h |-> h]
              IN  Resolution(objects, groups, 0) = Descent(objects, groups, 0)
=============================================================================
