----------------------------- MODULE RuleReview -----------------------------
(***************************************************************************)
(* A Rule Validation request: rr_analyze of rule_review_routes.py, which   *)
(* gathers what it needs, and analyze_flows of rule_review.py, which       *)
(* expands the names of a flow and asks plan_flow (Planner) and run_query  *)
(* (Zones) for every combination.                                          *)
(*                                                                         *)
(* The texts of a flow are addresses, or names of objects, groups and      *)
(* hosts.  The tables of objects and groups are read for each ADOM of the  *)
(* request, its own and then the global ones, and put one after the other. *)
(***************************************************************************)
EXTENDS Catalogs

CONSTANTS
    ReviewFlows,      \* the flows: [src, dst, svc]
    Selections,       \* sequences of the firewalls chosen: [adom, device, vdom]
    PackageScopes,    \* PackageScopes[p]: a package, [adom, members: [device, vdom or ""]]
    AddressTexts,     \* the address of a text that is one, or a subnet
    AddressTables,    \* of each ADOM and "global": [objects, groups]; the text of an
                      \* object is its subnet, its FQDN or "" when it has neither
    HostNames,        \* HostNames[h]: what _resolve_fqdn finds
    ServiceTexts,     \* the services that parse_service_request reads
    ServiceTables,    \* of each ADOM: [objects, groups]; an object has the ranges in
                      \* its fields tcp and udp, and other: is ICMP, IP or SCTP
    Faulty,           \* the reads of tables that may fail
    Routing,          \* Routing[device]: its interfaces [name, net, up] and routes
    ComboLimit

Written == STRING \ {""}

(* Groups and objects of a pool share one name space, and a text that is an *)
(* address is never looked up as a name.                                     *)
ASSUME RequestAssumption ==
    /\ ComboLimit \in Nat \ {0}
    /\ Selections \subseteq Seq([adom : DOMAIN ServiceTables, device : STRING, vdom : STRING])
    /\ DOMAIN ServiceTables \cup {"global"} \subseteq DOMAIN AddressTables
    /\ DOMAIN AddressTexts \cup ServiceTexts \subseteq Written
    /\ \A a \in DOMAIN AddressTables :
          LET t == AddressTables[a]
          IN  /\ IsFiniteSet(DOMAIN t.groups)
              /\ DOMAIN t.groups \cap DOMAIN t.objects = {}
              /\ (DOMAIN t.groups \cup DOMAIN t.objects) \cap DOMAIN AddressTexts = {}
              /\ \A g \in DOMAIN t.groups : t.groups[g] \in Seq(STRING)
              /\ \A o \in DOMAIN t.objects : t.objects[o] \in STRING
    /\ \A h \in DOMAIN HostNames : HostNames[h] \in Seq(STRING)
    /\ \A a \in DOMAIN ServiceTables :
          LET t == ServiceTables[a]
          IN  /\ IsFiniteSet(DOMAIN t.groups)
              /\ DOMAIN t.groups \cap DOMAIN t.objects = {}
              /\ \A g \in DOMAIN t.groups : t.groups[g] \in Seq(STRING)
              /\ \A o \in DOMAIN t.objects : /\ t.objects[o].tcp \in Seq(ServiceTexts)
                                             /\ t.objects[o].udp \in Seq(ServiceTexts)

-----------------------------------------------------------------------------
(* rule_review_routes.py, fmg_client.py: the tables *)

(* The selections that are the first of their ADOM.                          *)
Firsts ==
    {i \in DOMAIN asked.selections :
        \A j \in 1..(i - 1) : asked.selections[j].adom # asked.selections[i].adom}

(* The address tables in the order in which they are read: for each ADOM its *)
(* own, which are at an odd place, and the global ones.                      *)
Pools == {2 * i - 1 : i \in Firsts} \cup {2 * i : i \in Firsts}

PoolName(k) ==
    IF k % 2 = 1 THEN asked.selections[(k + 1) \div 2].adom ELSE "global"

Reads == (Pools \X {"objects", "groups"}) \cup (Firsts \X {"services", "service groups"})

(* A read that fails leaves nothing: get_address_objects, get_address_groups *)
(* and get_service_objects, get_service_groups swallow the exception.        *)
ObjectsRead(k) ==
    IF <<k, "objects">> \in known.lost THEN << >> ELSE AddressTables[PoolName(k)].objects
GroupsRead(k) ==
    IF <<k, "groups">> \in known.lost THEN << >> ELSE AddressTables[PoolName(k)].groups

ServiceTable(i) == ServiceTables[asked.selections[i].adom]
ServicesRead(i) == IF <<i, "services">> \in known.lost THEN << >> ELSE ServiceTable(i).objects
ServiceGroupsRead(i) ==
    IF <<i, "service groups">> \in known.lost THEN << >> ELSE ServiceTable(i).groups

Earliest(S) == CHOOSE k \in S : \A j \in S : k <= j
Latest(S) == CHOOSE k \in S : \A j \in S : j <= k

(* obj_index, and the _objects of the AddressCatalog that build_snapshot     *)
(* makes of the same list: the last object of a name; "" when there is none. *)
TextOf(name) ==
    LET at == {k \in Pools : name \in DOMAIN ObjectsRead(k)}
    IN  IF at = {} THEN "" ELSE ObjectsRead(Latest(at))[name]

-----------------------------------------------------------------------------
(* rule_review.py: the names of a flow *)

Expansion(texts, warned) == [found |-> TRUE, texts |-> texts, warned |-> warned]
NotFound == [found |-> FALSE, texts |-> << >>, warned |-> FALSE]

(* A member that is itself a group would go missing without a warning. *)
ExpandMembersQuietly(text, members) ==
    LET usable == OnlyIn([i \in DOMAIN members |-> TextOf(members[i])], Written)
    IN  Expansion(IF usable = << >> THEN <<text>> ELSE usable, FALSE)

(* The members of a group that are objects with a text, one level deep; when *)
(* there is none the name itself goes on.                                    *)
ExpandMembers(text, members) ==
    LET usable == OnlyIn([i \in DOMAIN members |-> TextOf(members[i])], Written)
    IN  Expansion(IF usable = << >> THEN <<text>> ELSE usable, Len(usable) < Len(members))

(* _expand_addr_name, _resolve_fqdn and the warnings of analyze_flows: the   *)
(* first group of the name, else the last object of it, else a host.         *)
ExpandAddr(text) ==
    LET groups == {k \in Pools : text \in DOMAIN GroupsRead(k)}
        objects == {k \in Pools : text \in DOMAIN ObjectsRead(k)}
    IN  IF text \in DOMAIN AddressTexts THEN Expansion(<<text>>, FALSE)
        ELSE IF groups # {}
        THEN ExpandMembers(text, GroupsRead(Earliest(groups))[text])
        ELSE IF objects # {}
        THEN Expansion(<<IF TextOf(text) = "" THEN text ELSE TextOf(text)>>, FALSE)
        ELSE IF text \in DOMAIN HostNames /\ HostNames[text] # << >>
        THEN Expansion(HostNames[text], TRUE)
        ELSE NotFound

FirstOf(ranges) == IF ranges = << >> THEN "" ELSE ranges[1]

(* _obj_to_specs: the first TCP range and the first UDP range of the last    *)
(* object of a name; "" when there is none.                                  *)
SpecOf(name, protocol) ==
    LET at == {i \in Firsts : name \in DOMAIN ServicesRead(i)}
    IN  IF at = {} THEN "" ELSE FirstOf(ServicesRead(Latest(at))[name][protocol])

SpecsOf(names) ==
    OnlyIn([k \in 1..(2 * Len(names)) |->
              SpecOf(names[(k + 1) \div 2], IF k % 2 = 1 THEN "tcp" ELSE "udp")], Written)

(* _expand_svc_name, without a warning of any kind.                          *)
ExpandSvc(text) ==
    LET groups == {i \in Firsts : text \in DOMAIN ServiceGroupsRead(i)}
        objects == {i \in Firsts : text \in DOMAIN ServicesRead(i)}
        Specs(names) == IF SpecsOf(names) = << >> THEN <<text>> ELSE SpecsOf(names)
    IN  IF text \in ServiceTexts THEN Expansion(<<text>>, FALSE)
        ELSE IF groups # {}
        THEN Expansion(Specs(ServiceGroupsRead(Earliest(groups))[text]), FALSE)
        ELSE IF objects # {} THEN Expansion(Specs(<<text>>), FALSE)
        ELSE NotFound

(* The combinations, by source, destination and service, up to the limit.    *)
Combinations(src, dst, svc) ==
    LET all == [n \in 1..(Len(src) * Len(dst) * Len(svc)) |->
                  [src |-> src[((n - 1) \div (Len(svc) * Len(dst))) + 1],
                   dst |-> dst[(((n - 1) \div Len(svc)) % Len(dst)) + 1],
                   svc |-> svc[((n - 1) % Len(svc)) + 1]]]
    IN  SubSeq(all, 1, IF Len(all) < ComboLimit THEN Len(all) ELSE ComboLimit)

Readable(text) == text \in DOMAIN AddressTexts

(* query_zone_policy is asked once, with the flow as it was typed: a name of *)
(* an object, a group or a host is no endpoint that it can read.             *)
ZoneVerdictOf(flow) ==
    IF Readable(flow.src) /\ Readable(flow.dst) THEN "verdict" ELSE "ERROR"

-----------------------------------------------------------------------------
(* rule_review.py: check_path_relevance *)

(* The interface by which an address is reached: connected, else by the      *)
(* longest route; "" when there is none.                                     *)
Via(address, data) ==
    LET near == {i \in data.interfaces : i.up /\ address \in i.net}
        routed == {r \in data.routes : address \in r.net}
        Longest(S) == (CHOOSE i \in S : \A j \in S : Prefix[j.net] <= Prefix[i.net]).name
    IN  IF near # {} THEN Longest(near)
        ELSE IF routed # {} THEN Longest(routed) ELSE ""

InPath(src, dst, data) ==
    CASE data.interfaces = {} /\ data.routes = {} -> "unknown"
      [] data.interfaces \cup data.routes # {} ->
            LET s == Via(src, data)
                d == Via(dst, data)
            IN  IF s # "" /\ d # "" /\ s # d THEN "yes" ELSE "no"

(* The address that a text which is no address is taken for: none.           *)
PathOf(src, dst, data) ==
    IF src \in DOMAIN AddressTexts /\ dst \in DOMAIN AddressTexts
    THEN InPath(AddressTexts[src], AddressTexts[dst], data) ELSE "no"

-----------------------------------------------------------------------------
(* rule_review_routes.py: rr_analyze *)

AskReview ==
    \E flow \in ReviewFlows : \E sel \in Selections :
        /\ asked = [part |-> "review", flow |-> flow, selections |-> sel]
        /\ known = [step |-> "resolve"]

ReviewRequestInit == AskReview /\ answer = {}

(* make_client: without a session there is no answer.                        *)
LoginFails ==
    /\ Asked("review") /\ AtStep("resolve")
    /\ Answer([status |-> "error"])

(* The package of its ADOM whose scope has the firewall, for all of its      *)
(* VDOMs or this one: the first that does.                                   *)
PackageOf(sel) ==
    {p \in DOMAIN PackageScopes :
        LET Scoped(q) == /\ PackageScopes[q].adom = sel.adom
                         /\ \E m \in PackageScopes[q].members :
                               m.device = sel.device /\ m.vdom \in {"", sel.vdom}
        IN  Scoped(p) /\ \A q \in 1..(p - 1) : ~Scoped(q)}

(* get_policy_packages of each ADOM; one that fails counts as empty.         *)
ResolvePackages ==
    /\ Asked("review") /\ AtStep("resolve")
    /\ \E unread \in SUBSET {asked.selections[i].adom : i \in Firsts} :
          known' = [step |-> "policies",
                    missing |-> {i \in DOMAIN asked.selections :
                                   \/ asked.selections[i].adom \in unread
                                   \/ PackageOf(asked.selections[i]) = {}},
                    policies |-> << >>, lost |-> {}, routing |-> << >>]
    /\ UNCHANGED <<asked, answer>>

Chosen == DOMAIN asked.selections \ known.missing
Wanting == UNION {PackageOf(asked.selections[i]) : i \in Chosen}
Devices == {asked.selections[i].device : i \in Chosen}

(* get_policies of one package; one that fails counts as empty.              *)
FetchPolicies ==
    /\ Asked("review") /\ AtStep("policies")
    /\ \E p \in Wanting \ DOMAIN known.policies : \E rules \in {"rules", "none"} :
          known' = [known EXCEPT !.policies = @ @@ (p :> rules)]
    /\ UNCHANGED <<asked, answer>>

(* The object tables of every ADOM, of which any may fail.                   *)
FetchObjects ==
    /\ Asked("review") /\ AtStep("policies")
    /\ Wanting \subseteq DOMAIN known.policies
    /\ \E lost \in SUBSET (Reads \cap Faulty) :
          known' = [known EXCEPT !.step = "routing", !.lost = lost]
    /\ UNCHANGED <<asked, answer>>

(* The interfaces and routes of one device; they too count as empty.         *)
FetchRouting ==
    /\ Asked("review") /\ AtStep("routing")
    /\ \E d \in Devices \ DOMAIN known.routing :
       \E data \in {Routing[d], [interfaces |-> {}, routes |-> {}]} :
          known' = [known EXCEPT !.routing = @ @@ (d :> data)]
    /\ UNCHANGED <<asked, answer>>

(* analyze_flows and plan_flow as far as one row is concerned: an ERROR for  *)
(* a text that it cannot read, and NEW_RULE_NEEDED when there are no rules.  *)
Row(i, combo, warned) ==
    LET sel == asked.selections[i]
        p == CHOOSE q \in PackageOf(sel) : TRUE
    IN  [selection |-> i, combo |-> combo, warned |-> warned,
         zone |-> ZoneVerdictOf(asked.flow),
         verdict |-> IF ~Readable(combo.src) \/ ~Readable(combo.dst)
                            \/ combo.svc \notin ServiceTexts THEN "ERROR"
                     ELSE IF known.policies[p] = "none" THEN "NEW_RULE_NEEDED"
                     ELSE "judged",
         path |-> PathOf(combo.src, combo.dst, known.routing[sel.device])]

AnalyzeFlows ==
    /\ Asked("review") /\ AtStep("routing")
    /\ Devices \subseteq DOMAIN known.routing
    /\ LET src == ExpandAddr(asked.flow.src)
           dst == ExpandAddr(asked.flow.dst)
           svc == ExpandSvc(asked.flow.svc)
           combos == Combinations(src.texts, dst.texts, svc.texts)
           truncated == Len(combos) < Len(src.texts) * Len(dst.texts) * Len(svc.texts)
           unanswered == {[selection |-> i, verdict |-> "ERROR"] : i \in known.missing}
       IN  Answer([status |-> "ok",
                   rows |-> unanswered \cup
                       IF Chosen = {} THEN {}
                       ELSE IF ~(src.found /\ dst.found /\ svc.found)
                       THEN {[selection |-> 0, verdict |-> "ERROR"]}
                       ELSE {Row(i, c, src.warned \/ dst.warned \/ truncated) :
                                i \in Chosen, c \in ToSet(combos)}])

ReviewRequestNext ==
    \/ LoginFails \/ ResolvePackages \/ FetchPolicies \/ FetchObjects
    \/ FetchRouting \/ AnalyzeFlows

ReviewRequestSpec == ReviewRequestInit /\ [][ReviewRequestNext]_questionVars

-----------------------------------------------------------------------------
(* Properties *)

(* What the firewalls of an ADOM have: its own names before the global ones. *)
Shadowing(own, global) ==
    [n \in DOMAIN own \cup DOMAIN global |-> IF n \in DOMAIN own THEN own[n] ELSE global[n]]

ObjectsOf(adom) == Shadowing(AddressTables[adom].objects, AddressTables["global"].objects)
GroupsOf(adom) == Shadowing(AddressTables[adom].groups, AddressTables["global"].groups)

(* The addresses that a text stands for there, through groups of groups.     *)
StandsFor(adom, text) ==
    ({text} \cup {ObjectsOf(adom)[n] :
                     n \in Under(GroupsOf(adom), text) \cap DOMAIN ObjectsOf(adom)})
        \cap DOMAIN AddressTexts

(* The services that it stands for.                                          *)
ServicesFor(adom, text) ==
    LET t == ServiceTables[adom]
    IN  IF text \in ServiceTexts THEN {text}
        ELSE UNION {ToSet(t.objects[n].tcp) \cup ToSet(t.objects[n].udp) :
                       n \in Under(t.groups, text) \cap DOMAIN t.objects}

(* The tables of two ADOMs, or of one and the global one, agree on the names *)
(* that both have.  Where they do not, the last object of a name counts, the *)
(* global one, although AddressCatalog says that "Per-ADOM names shadow      *)
(* global-ADOM names".                                                       *)
Agreeing(t, u) ==
    /\ \A n \in DOMAIN t.objects \cap DOMAIN u.objects : t.objects[n] = u.objects[n]
    /\ \A n \in DOMAIN t.groups \cap DOMAIN u.groups : t.groups[n] = u.groups[n]
    /\ DOMAIN t.objects \cap DOMAIN u.groups = {}

OneMeaning ==
    \A k, l \in Pools : Agreeing(AddressTables[PoolName(k)], AddressTables[PoolName(l)])

(* A service that _expand_svc_name can express: its tables were read and     *)
(* agree, and it is an object of at most one TCP and one UDP range, or a     *)
(* group of such objects.  What it is meant to do is to "resolve a FortiGate *)
(* service object or group name to a list of port-spec strings"; of others   *)
(* it gives a part, and nothing says so.                                     *)
Single(o) == Len(o.tcp) <= 1 /\ Len(o.udp) <= 1 /\ ~o.other

Expressible(adom, text) ==
    LET t == ServiceTables[adom]
    IN  \/ text \in ServiceTexts
        \/ /\ known.lost \cap (Firsts \X {"services", "service groups"}) = {}
           /\ \A i, j \in Firsts : Agreeing(ServiceTable(i), ServiceTable(j))
           /\ \A n \in IF text \in DOMAIN t.groups THEN ToSet(t.groups[text]) ELSE {text} :
                 n \in DOMAIN t.objects /\ Single(t.objects[n])

(* An ERROR, or a warning, about the selection i or the whole flow.          *)
Flagged(i, rows) ==
    \E row \in rows : row.selection \in {0, i} /\ (row.verdict = "ERROR" \/ row.warned)

(* For every firewall that was chosen, each pair of addresses that the flow  *)
(* stands for in its ADOM has a row, and with each of its services if        *)
(* _expand_svc_name can express them; or the firewall or the flow has a row  *)
(* that is an ERROR or carries a warning.  Neither a nested group, nor an    *)
(* address table that could not be read, nor the limit on combinations, nor  *)
(* a firewall without a package drops a part of the request in silence       *)
(* (analyze_flows, rr_analyze), as long as the tables that are put together  *)
(* agree on the names that they share.                                       *)
NothingDroppedSilently ==
    (Answered("review") /\ answer.status = "ok" /\ OneMeaning) =>
        \A i \in DOMAIN asked.selections :
            LET adom == asked.selections[i].adom
                flow == asked.flow
                Has(s, d) == {row \in answer.rows : /\ row.selection = i
                                                    /\ row.combo.src = s /\ row.combo.dst = d}
            IN  \/ Flagged(i, answer.rows)
                \/ \A s \in StandsFor(adom, flow.src), d \in StandsFor(adom, flow.dst) :
                      /\ Has(s, d) # {}
                      /\ Expressible(adom, flow.svc) =>
                            \A v \in ServicesFor(adom, flow.svc) :
                               \E row \in Has(s, d) : row.combo.svc = v
=============================================================================
