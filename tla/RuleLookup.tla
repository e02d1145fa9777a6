----------------------------- MODULE RuleLookup -----------------------------
(***************************************************************************)
(* The rule lookup of the hygiene page: rule_lookup.py, and the route that *)
(* asks it (hygiene_routes.py) of the cached rules of an ADOM.             *)
(*                                                                         *)
(* A query has the searched source, destination and port in fields that    *)
(* are absent when not searched: a set of addresses, the names that a name *)
(* pattern matches, or the alternatives of a port search (a bare port is   *)
(* tcp or udp), each a set of ranges.  A text that is neither is "invalid".*)
(***************************************************************************)
EXTENDS Catalogs

CONSTANTS LookupRules, LookupQueries

None == "none"
NonPort == {"ip", "icmp"}

(* The rules of a cache entry, and what the parsers let through: networks    *)
(* of one address at least, ranges of a port protocol (_validated).  A       *)
(* wildcard that is a member of an address group is one of the objects: "all"*)
(* comes with every table.                                                   *)
LookupRule ==
    [src : SUBSET AddrNames, srcNegate : BOOLEAN, dst : SUBSET AddrNames, dstNegate : BOOLEAN,
     svc : SUBSET SvcNames]

ASSUME LookupAssumption ==
    /\ \A rules \in LookupRules : rules \in Seq(LookupRule)
    /\ \A q \in LookupQueries :
          /\ DOMAIN q \subseteq {"src", "dst", "port", "invalid"}
          /\ \A f \in {"src", "dst"} \cap DOMAIN q :
                /\ q[f].pattern \in BOOLEAN
                /\ ~q[f].pattern => q[f].nets \in (SUBSET Addresses) \ {{}}
          /\ "port" \in DOMAIN q =>
                \A alt \in q.port :
                   alt # {} /\ \A r \in alt : r \in PortRanges /\ r.protocol \notin NonPort
    /\ \A g \in DOMAIN AddrGroups : \A name \in ToSet(AddrGroups[g]) :
          IsWildcardName(name) => name \in DOMAIN AddrObjects

-----------------------------------------------------------------------------
(* rule_lookup.py: comparison *)

Rank == [exact |-> 0, name |-> 0, broader |-> 1, narrower |-> 2, overlap |-> 3]

(* _best                                                                     *)
Best(labels) ==
    LET found == labels \ {None}
    IN  IF found = {} THEN None
        ELSE CHOOSE a \in found : \A b \in found : Rank[a] <= Rank[b]

(* resolve_groups: a group is its members that resolve, groups before        *)
(* objects of the same name; the empty set is a name that does not resolve.  *)
LookupAddr(name) ==
    UNION {UNION AddrRef[leaf].parts : leaf \in AddrLeaves[name] \cap DOMAIN AddrObjects}

(* compare_networks, of the addresses searched and those of one name         *)
CompareNetworks(search, rule) ==
    CASE rule = {} -> None
      [] rule # {} /\ search = rule -> "exact"
      [] search # rule /\ search \subseteq rule -> "broader"
      [] rule # {} /\ search # rule /\ rule \subseteq search -> "narrower"
      [] OTHER -> IF search \cap rule # {} THEN "overlap" ELSE None

(* Mutants, here and below: what a plausible bug would make of the           *)
(* definition that follows.  No behaviour of LookupSpec uses them.           *)

(* Each of the rule's ranges, instead of each searched one, inside another. *)
CompareRangesSwapped(search, rule) ==
    CASE rule = {} -> None
      [] \A r \in rule : \E s \in search : RangeContains(s, r) -> "broader"
      [] OTHER -> IF \E s \in search, r \in rule : RangesOverlap(s, r) THEN "overlap" ELSE None

(* compare_ranges                                                            *)
CompareRanges(search, rule) ==
    CASE rule = {} -> None
      [] rule # {} /\ search = rule -> "exact"
      [] OTHER ->
            IF \A s \in search : \E r \in rule : RangeContains(r, s) THEN "broader"
            ELSE IF \A r \in rule : \E s \in search : RangeContains(s, r) THEN "narrower"
            ELSE IF \E s \in search, r \in rule : RangesOverlap(s, r) THEN "overlap"
            ELSE None

-----------------------------------------------------------------------------
(* rule_lookup.py: one rule *)

Match(label, skipped) == [label |-> label, skipped |-> skipped]

(* _match_addr_field                                                         *)
MatchAddrField(names, negate, q, field) ==
    IF field \notin DOMAIN q THEN Match(None, FALSE)
    ELSE Match(IF negate THEN None
               ELSE Best({IF q[field].pattern
                          THEN IF n \in q[field].names THEN "name" ELSE None
                          ELSE CompareNetworks(q[field].nets, LookupAddr(n)) :
                             n \in {m \in names : ~IsWildcardName(m)}}),
               negate \/ \E n \in names : IsWildcardName(n))

(* _label_service: [label, whether the name is as good as ALL]               *)
LabelService(name, wanted) ==
    LET ranges == IF SvcRef[name].known THEN SvcRef[name].parts ELSE {}
    IN  Match(Best({CompareRanges(alt, {r \in ranges : r.protocol \notin NonPort}) :
                       alt \in wanted}),
              \E r \in ranges : r.protocol = "ip")

(* _match_port_field; via are the objects that account for a group.          *)
MatchPortField(names, q) ==
    IF "port" \notin DOMAIN q THEN [label |-> None, skipped |-> FALSE, via |-> {}]
    ELSE LET searched == {n \in names : ~IsWildcardName(n)}
         IN  [label |-> Best({LabelService(n, q.port).label : n \in searched}),
              skipped |-> \/ \E n \in names : IsWildcardName(n)
                          \/ \E n \in searched : LabelService(n, q.port).skipped,
              via |-> {leaf \in UNION {SvcLeaves(n) : n \in searched} :
                          LabelService(leaf, q.port).label # None}]

(* The rules whose field is negated would not be counted. *)
MatchRuleSilent(rule, q) ==
    [src |-> MatchAddrField(rule.src, rule.srcNegate, q, "src"),
     dst |-> MatchAddrField(rule.dst, rule.dstNegate, q, "dst"),
     port |-> MatchPortField(rule.svc, q),
     skipped |-> \/ \E f \in {"src", "dst"} \cap DOMAIN q : \E n \in rule[f] : IsWildcardName(n)
                 \/ MatchPortField(rule.svc, q).skipped]

(* match_rule                                                                *)
MatchedBy(src, dst, port) ==
    [src |-> src, dst |-> dst, port |-> port,
     skipped |-> src.skipped \/ dst.skipped \/ port.skipped]

MatchRule(rule, q) ==
    MatchedBy(MatchAddrField(rule.src, rule.srcNegate, q, "src"),
              MatchAddrField(rule.dst, rule.dstNegate, q, "dst"),
              MatchPortField(rule.svc, q))

(* The elements of the finite set S in the order that before, a set of       *)
(* pairs, gives: SetToSortSeq by the rank of each, which can be proved about. *)
Sorted(S, before) ==
    [k \in 1..Cardinality(S) |->
        CHOOSE i \in S : Cardinality({j \in S : <<j, i>> \in before}) = k - 1]

(* search: the rows by falling score, in the order of the cache within one,  *)
(* with the rules that only match on the port last, when they are asked for. *)
RowsOf(rules, m, addressed, withPortOnly) ==
    LET onAddr == {i \in DOMAIN rules : m[i].src.label # None \/ m[i].dst.label # None}
        onPort == {i \in DOMAIN rules : m[i].port.label # None}
        main == IF addressed THEN onAddr ELSE onPort
        portOnly == IF addressed THEN onPort \ onAddr ELSE {}
        score == [i \in DOMAIN rules |->
                    Cardinality({f \in {"src", "dst", "port"} : m[i][f].label # None})]
        earlier == {p \in (DOMAIN rules) \X (DOMAIN rules) : p[1] < p[2]}
        better == {p \in (DOMAIN rules) \X (DOMAIN rules) :
                      \/ score[p[1]] > score[p[2]]
                      \/ score[p[1]] = score[p[2]] /\ p \in earlier}
    IN  [status |-> "200",
         rows |-> Sorted(main, better)
                  \o (IF withPortOnly THEN Sorted(portOnly, earlier) ELSE << >>),
         match |-> m,
         portOnly |-> Cardinality(portOnly),
         skipped |-> {i \in DOMAIN rules : m[i].skipped}]

Search(rules, q, withPortOnly) ==
    RowsOf(rules, [i \in DOMAIN rules |-> MatchRule(rules[i], q)],
           {"src", "dst"} \cap DOMAIN q # {}, withPortOnly)

-----------------------------------------------------------------------------
(* hygiene_routes.py: hygiene_rule_lookup *)

AskLookup ==
    \E rules \in LookupRules : \E q \in LookupQueries :
    \E cached, portOnly \in BOOLEAN :
        /\ asked = [part |-> "lookup", rules |-> rules, q |-> q,
                    cached |-> cached, portOnly |-> portOnly]
        /\ known = [step |-> "lookup"]

LookupInit == AskLookup /\ answer = {}

(* No field at all, or no entry yet: the refresh that is started then is     *)
(* of Caches.                                                                *)
DeferLookup ==
    /\ Asked("lookup") /\ AtStep("lookup")
    /\ DOMAIN asked.q = {} \/ ~asked.cached
    /\ Answer([status |-> IF DOMAIN asked.q = {} THEN "400" ELSE "202 warming"])

(* parse_ip_query, parse_port_query or _validated refuses a text.            *)
RefuseLookup ==
    /\ Asked("lookup") /\ AtStep("lookup")
    /\ DOMAIN asked.q # {} /\ asked.cached /\ "invalid" \in DOMAIN asked.q
    /\ Answer([status |-> "400"])

AnswerLookup ==
    /\ Asked("lookup") /\ AtStep("lookup")
    /\ DOMAIN asked.q # {} /\ asked.cached /\ "invalid" \notin DOMAIN asked.q
    /\ Answer(Search(asked.rules, asked.q, asked.portOnly))

LookupNext == DeferLookup \/ RefuseLookup \/ AnswerLookup

LookupSpec == LookupInit /\ [][LookupNext]_questionVars

-----------------------------------------------------------------------------
(* Properties *)

ByAddress(f) == f \in DOMAIN asked.q => ~asked.q[f].pattern

Wanted(field) ==
    IF field \notin DOMAIN asked.q THEN Addresses ELSE asked.q[field].nets

WantedPorts ==
    IF "port" \notin DOMAIN asked.q THEN Traffic({WildcardRange})
    ELSE UNION {Traffic(alt) : alt \in asked.q.port}

(* A rule that takes some connection that the query describes, by what its   *)
(* names that can be resolved stand for, is among the rows or is counted as  *)
(* skipped (match_rule, search).                                             *)
NothingHidden ==
    (Answered("lookup") /\ answer.status = "200" /\ ByAddress("src") /\ ByAddress("dst")) =>
        \A i \in DOMAIN asked.rules :
            LET rule == asked.rules[i]
                src == Wanted("src") \cap AddrMeaning(rule.src, {})
                dst == Wanted("dst") \cap AddrMeaning(rule.dst, {})
            IN  (/\ IF rule.srcNegate THEN Wanted("src") # src ELSE src # {}
                 /\ IF rule.dstNegate THEN Wanted("dst") # dst ELSE dst # {}
                 /\ WantedPorts \cap SvcMeaning(rule.svc, {}) # {})
                => i \in ToSet(answer.rows) \cup answer.skipped

(* A label is true: exact and broader say that the rule takes all of what    *)
(* was searched (for a port, all of one alternative), any label that it      *)
(* takes some of it (compare_networks, compare_ranges).                      *)
LabelsAreTrue ==
    (Answered("lookup") /\ answer.status = "200") =>
        \A i \in DOMAIN asked.rules :
            LET m == answer.match[i]
                rule == asked.rules[i]
                ports == SvcMeaning(rule.svc, {})
            IN  /\ \A f \in {"src", "dst"} \cap DOMAIN asked.q :
                      LET takes == AddrMeaning(rule[f], {})
                      IN  /\ m[f].label \in {"exact", "broader"} => Wanted(f) \subseteq takes
                          /\ m[f].label \notin {None, "name"} => Wanted(f) \cap takes # {}
                /\ m.port.label \in {"exact", "broader"} =>
                      \E alt \in asked.q.port : Traffic(alt) \subseteq ports
                /\ m.port.label # None => WantedPorts \cap ports # {}
=============================================================================
