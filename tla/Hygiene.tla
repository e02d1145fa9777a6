------------------------------ MODULE Hygiene ------------------------------
(***************************************************************************)
(* hygiene.py on the rules of one package, with the resolvers of           *)
(* hygiene_routes.py: which rules an earlier one hides or repeats, which   *)
(* were never hit, which objects nothing uses, and the checks that look    *)
(* at one rule.                                                            *)
(*                                                                         *)
(* A network is the set of its addresses, a port range the set of its      *)
(* ports, a name that cannot be resolved (None) the empty set of networks; *)
(* the name "all" is any spelling of all and any.                          *)
(***************************************************************************)
EXTENDS Questions, Naturals, Sequences, FiniteSets

CONSTANTS
    Points,       \* addresses, and ports: 0..3
    Objects,      \* name -> [kind, points, read]: address and service objects
    Groups,       \* name -> the names that are its members
    Packages,     \* the rule lists that are tried
    Rules,        \* the single rules that are tried
    GroupTables,  \* name -> members, in order: group tables for unused objects
    Catalog,      \* names of the objects and groups of those tables
    BuiltIns,     \* those of them that _is_builtin_obj passes over
    ScopeLimit    \* scope[:10]: devices asked for live hit counts

(* Objects and groups share one name space on the firewall, whose built-in   *)
(* address "all" is everything.  points is what an object stands for there.  *)
(* A "misread" one is taken for the points in read: a service "dst:src", of  *)
(* which the source ports are read, or an address with a mapping for each    *)
(* device, of which the default or the first is.  A package is numbered from *)
(* its first rule.                                                           *)
ASSUME HygieneAssumption ==
    /\ ScopeLimit \in Nat
    /\ Points \subseteq Nat /\ 0 \in Points
    /\ IsFiniteSet(DOMAIN Groups) /\ "all" \notin DOMAIN Groups
    /\ DOMAIN Objects \cap DOMAIN Groups = {}
    /\ \A n \in DOMAIN Objects :
          /\ Objects[n].kind \in {"ipmask", "iprange", "fqdn", "misread"}
          /\ Objects[n].points \subseteq Points
          /\ Objects[n].kind = "misread" => Objects[n].read \subseteq Points
          /\ n = "all" => Objects[n].kind = "ipmask" /\ Objects[n].points = Points
    /\ \A rules \in Packages : DOMAIN rules \subseteq Nat
    /\ \A groups \in GroupTables :
          IsFiniteSet(DOMAIN groups) /\ \A g \in DOMAIN groups : groups[g] \in Seq(STRING)

-----------------------------------------------------------------------------
(* hygiene_routes.py: the resolvers *)

(* The prefixes: aligned blocks of a power of two.                           *)
Cidrs == {{p} : p \in Points} \cup {{p, p + 1} : p \in {q \in Points : q % 2 = 0}}
           \cup {Points}

(* _parse_portrange: "src:dst", the part after the colon is taken.           *)
ReadAs(object) == {object.read}

(* _parse_subnet_to_networks: a range becomes its maximal prefixes, a name   *)
(* or a country nothing.                                                     *)
ParsedSubnet(object) ==
    CASE object.kind = "ipmask" -> {object.points}
      [] object.kind = "iprange" ->
            LET inside == {n \in Cidrs : n \subseteq object.points}
            IN  {n \in inside : \A m \in inside : n \subseteq m => n = m}
      [] object.kind = "fqdn" -> {}
      [] object.kind = "misread" -> ReadAs(object)

(* build_addr_resolver: an object, or the networks of a group none of whose  *)
(* members is unresolved; a group that contains itself is unresolved.        *)
GroupNets(resolved, name) ==
    LET nets == {IF m \in DOMAIN resolved THEN resolved[m] ELSE {} : m \in Groups[name]}
    IN  IF {} \in nets THEN {} ELSE UNION nets

ResolvedAt[depth \in 0..(Cardinality(DOMAIN Groups) + 1)] ==
    [name \in DOMAIN Objects \cup DOMAIN Groups |->
        IF name \in DOMAIN Objects THEN ParsedSubnet(Objects[name])
        ELSE IF depth = 0 THEN {} ELSE GroupNets(ResolvedAt[depth - 1], name)]

AddrResolver == ResolvedAt[Cardinality(DOMAIN Groups) + 1]

(* resolver.get(name) *)
Resolve(name) ==
    IF name \in DOMAIN AddrResolver THEN AddrResolver[name] ELSE {}

-----------------------------------------------------------------------------
(* hygiene.py: the checks that compare two rules *)

(* Mutants, here and below: what a plausible bug would make of the           *)
(* definition that follows.  No behaviour of HygieneSpec uses them.          *)

(* The networks would only have to meet. *)
CoversSome(as, bs, resolver) ==
    \/ bs = {} \/ "all" \in as \/ bs \subseteq as
    \/ resolver /\ \A b \in bs : \E n \in Resolve(b), a \in as :
          \E m \in Resolve(a) : n \cap m # {}

(* _covers; resolver is FALSE when the objects could not be fetched.         *)
Covers(as, bs, resolver) ==
    \/ bs = {}
    \/ "all" \in as
    \/ bs \subseteq as
    \/ /\ resolver
       /\ as # {} /\ \A name \in as \cup bs : Resolve(name) # {}
       /\ \A n \in UNION {Resolve(b) : b \in bs} :
             \E m \in UNION {Resolve(a) : a \in as} : n \subseteq m

CoversRule(a, b, resolver) ==
    /\ Covers(a.src, b.src, resolver)
    /\ Covers(a.dst, b.dst, resolver)
    /\ Covers(a.svc, b.svc, resolver)

(* The rules that both checks compare.                                       *)
Live(rules) == {j \in DOMAIN rules : rules[j].status # "disable" /\ ~rules[j].block}

(* check_shadow *)
Shadowed(rules, j, resolver) ==
    \E i \in Live(rules) :
        /\ i < j
        /\ CoversRule(rules[i], rules[j], resolver)
        /\ rules[i].identity = rules[j].identity

(* check_redundant_rules *)
Redundant(rules, j, resolver) ==
    \E i \in Live(rules) :
        /\ i < j
        /\ rules[i].action = rules[j].action
        /\ rules[i].identity = rules[j].identity
        /\ CoversRule(rules[i], rules[j], resolver)
        /\ CoversRule(rules[j], rules[i], resolver)

PairFindings(rules, resolver) ==
    {<<"shadow", j>> : j \in {k \in Live(rules) : Shadowed(rules, k, resolver)}} \cup
    {<<"redundant", j>> : j \in {k \in Live(rules) : Redundant(rules, k, resolver)}}

-----------------------------------------------------------------------------
(* hygiene.py: the checks of one rule r, which is no policy block *)

Unnamed(r) == ~r.named \/ ~r.commented
Unlogged(r) == r.logtraffic \in {"disable", ""}
Disabled(r) == r.status = "disable"

(* check_expired: a schedule that is a date, or the name of one to look at.  *)
Expired(r) == r.schedule \notin {"always", "none", "", "future date"}

(* check_security_profile_gap *)
ProfileGap(r) == r.action = "accept" /\ (r.utm # "enable" \/ r.profiles = {})

Open(names) == "all" \in names
OpenDims(r) == {d \in {"src", "dst", "svc"} : Open(r[d])}

(* check_over_permissive; three open dimensions are critical, two high.      *)
OverPermissive(r) ==
    r.status = "enable" /\ r.action = "accept" /\ Cardinality(OpenDims(r)) >= 2

(* check_broken_refs: FortiOS's placeholder, or a group without members.     *)
BrokenRefs(r) ==
    \E name \in r.src \cup r.dst \cup r.svc :
        name = "none" \/ (name \in DOMAIN Groups /\ Groups[name] = {})

RuleFindings(r) ==
    IF r.block THEN {}
    ELSE {c \in {"unnamed", "unlogged", "disabled", "expired",
                 "missing_security_profile", "over_permissive", "broken_refs"} :
            CASE c = "unnamed" -> Unnamed(r)
              [] c = "unlogged" -> Unlogged(r)
              [] c = "disabled" -> Disabled(r)
              [] c = "expired" -> Expired(r)
              [] c = "missing_security_profile" -> ProfileGap(r)
              [] c = "over_permissive" -> OverPermissive(r)
              [] c = "broken_refs" -> BrokenRefs(r)}

(* check_unhit: a count is "zero", "some" or, when there is none, "none".    *)
Unhit(count) == count = "zero"

-----------------------------------------------------------------------------
(* hygiene.py: unused objects *)

(* The elements of S in any order: the order of a Python set of names.       *)
Orders(S) == {q \in [1..Cardinality(S) -> S] : RangeOf(q) = S}

(* hygiene_run, _hygiene_for_pkg and hygiene_unused_objects ask run_checks   *)
(* and find_unused_objects.                                                  *)
AskRules ==
    \E rules \in Packages, resolver \in BOOLEAN :
        /\ asked = [part |-> "hygiene", rules |-> rules, resolver |-> resolver]
        /\ known = [step |-> "rules"]

AskRule ==
    \E r \in Rules :
        /\ asked = [part |-> "hygiene", rule |-> r]
        /\ known = [step |-> "rule"]

(* The count that FortiManager has stored for one rule, and what each device *)
(* of the scope answers: its own count, nothing of this rule, or nothing.    *)
AskUnhit ==
    \E stored \in {"none", "zero", "some"}, n \in 1..(ScopeLimit + 1) :
    \E hits \in [1..n -> {"fails", "omits", "zero", "some"}] :
        /\ asked = [part |-> "hygiene", stored |-> stored, hits |-> hits]
        /\ known = [step |-> "hits", next |-> 1, replies |-> {}]

(* One package, or all of an ADOM: group tables and what the rules name.     *)
AskUnused ==
    \E groups \in GroupTables : \E refs \in SUBSET Catalog :
    \E queue \in Orders(refs \cap DOMAIN groups) :
        /\ asked = [part |-> "hygiene", groups |-> groups, refs |-> refs]
        /\ known = [step |-> "expand", visited |-> {}, queue |-> queue]

HygieneInit ==
    /\ AskRules \/ AskRule \/ AskUnhit \/ AskUnused
    /\ answer = {}

CheckRules ==
    /\ Asked("hygiene") /\ AtStep("rules")
    /\ Answer(PairFindings(asked.rules, asked.resolver))

CheckRule ==
    /\ Asked("hygiene") /\ AtStep("rule")
    /\ Answer(RuleFindings(asked.rule))

(* hygiene_run: get_live_policy_hits of the first devices of the scope.      *)
ReadHits ==
    /\ Asked("hygiene") /\ AtStep("hits")
    /\ known.next <= Len(asked.hits) /\ known.next <= ScopeLimit
    /\ known' = [known EXCEPT !.next = @ + 1,
                             !.replies = @ \cup ({asked.hits[known.next]} \ {"fails"})]
    /\ UNCHANGED <<asked, answer>>

(* The last device's count instead of the sum. *)
OverlaidLast(stored, replies) ==
    IF "zero" \in replies THEN "zero"
    ELSE IF "some" \in replies THEN "some" ELSE stored

(* live_hits replaces the stored count: the sum over the devices that list   *)
(* the rule; for a rule that none of those that answered lists, the stored   *)
(* count, or 0.                                                              *)
Overlaid(stored, replies) ==
    CASE replies = {} -> stored
      [] "some" \in replies -> "some"
      [] replies # {} /\ "some" \notin replies ->
            IF "zero" \in replies \/ stored = "none" THEN "zero" ELSE stored

CheckUnhit ==
    /\ Asked("hygiene") /\ AtStep("hits")
    /\ known.next > Len(asked.hits) \/ known.next > ScopeLimit
    /\ Answer(IF Unhit(Overlaid(asked.stored, known.replies)) THEN {"unhit"} ELSE {})

(* _expand_group_members: one round of its loop.  The members of a group are *)
(* marked as visited when it is, and a marked group is passed over.          *)
ExpandGroup ==
    /\ Asked("hygiene") /\ AtStep("expand")
    /\ known.queue # << >>
    /\ LET name == known.queue[Len(known.queue)]
           rest == SubSeq(known.queue, 1, Len(known.queue) - 1)
           members == asked.groups[name]
       IN  known' = IF name \in known.visited
                    THEN [known EXCEPT !.queue = rest]
                    ELSE [known EXCEPT
                            !.visited = @ \cup {name} \cup RangeOf(members),
                            !.queue = rest \o OnlyIn(members, DOMAIN asked.groups)]
    /\ UNCHANGED <<asked, answer>>

(* The groups would be left out of the report. *)
ReportUnusedObjects ==
    /\ Asked("hygiene") /\ AtStep("expand")
    /\ known.queue = << >>
    /\ Answer(Catalog \ (DOMAIN asked.groups \cup BuiltIns \cup asked.refs \cup known.visited))

(* find_unused_objects; a built-in object, by its name or its prefix, is     *)
(* never reported.                                                           *)
ReportUnused ==
    /\ Asked("hygiene") /\ AtStep("expand")
    /\ known.queue = << >>
    /\ Answer((Catalog \cup DOMAIN asked.groups)
                \ (BuiltIns \cup asked.refs \cup known.visited))

HygieneNext ==
    \/ CheckRules \/ CheckRule
    \/ ReadHits \/ CheckUnhit
    \/ ExpandGroup \/ ReportUnused

HygieneSpec == HygieneInit /\ [][HygieneNext]_questionVars

(* Only the questions about the rules that hide or repeat others, and only   *)
(* those about unused objects.                                               *)
PairsSpec == AskRules /\ answer = {} /\ [][HygieneNext]_questionVars
UnusedSpec == AskUnused /\ answer = {} /\ [][HygieneNext]_questionVars

-----------------------------------------------------------------------------
(* Properties *)

(* What a name stands for on the firewall.  elsewhere is what the names that *)
(* the resolver gives up on (FQDNs, countries, names of no table) happen to  *)
(* be today; a group that only leads back to itself stands for nothing.      *)
Names == DOMAIN Objects \cup DOMAIN Groups

Opaque(n) ==
    IF n \in DOMAIN Objects THEN Objects[n].kind = "fqdn"
    ELSE n \notin {"all"} \cup DOMAIN Groups

Closure[d \in 0..(Cardinality(DOMAIN Groups) + 1)] ==
    [n \in Names |->
        IF d = 0 \/ n \notin DOMAIN Groups THEN {n}
        ELSE UNION {IF m \in Names THEN Closure[d - 1][m] ELSE {m} : m \in Groups[n]}]

LeafMembers(n) ==
    IF n \in Names THEN Closure[Cardinality(DOMAIN Groups) + 1][n] ELSE {n}

LeafMeaning(n, elsewhere) ==
    IF n = "all" THEN Points
    ELSE IF Opaque(n) THEN elsewhere
    ELSE IF n \in DOMAIN Objects THEN Objects[n].points ELSE {}

Meaning(names, elsewhere) ==
    UNION {LeafMeaning(n, elsewhere) : n \in UNION {LeafMembers(m) : m \in names}}

(* A field without a name: the rule names internet services or IPv6          *)
(* addresses elsewhere.                                                      *)
FieldMeaning(names, elsewhere) ==
    IF names = {} THEN elsewhere ELSE Meaning(names, elsewhere)

Means(rules, live, elsewhere) ==
    [j \in live |-> [d \in {"src", "dst", "svc"} |-> FieldMeaning(rules[j][d], elsewhere)]]

Connections ==
    [src : Points, dst : Points, svc : Points, user : {"guest", "staff"},
     intf : {"lan", "dmz"}, time : {"office", "night"}]

(* The rules among keep that take the connection c, by all that the firewall *)
(* goes by.  A schedule is named for the time when it is in force.           *)
Hits(rules, means, keep, c) ==
    {j \in keep :
        /\ \A d \in {"src", "dst", "svc"} :
              IF d \in rules[j].negated THEN c[d] \notin means[j][d] ELSE c[d] \in means[j][d]
        /\ rules[j].identity = {} \/ c.user \in rules[j].identity
        /\ rules[j].intf \cap {"any", c.intf} # {}
        /\ rules[j].schedule \in {"always", c.time}}

(* The action of the first of them, or the implicit deny.                    *)
Decision(rules, means, keep, c) ==
    LET hit == Hits(rules, means, keep, c)
    IN  IF hit = {} THEN "implicit"
        ELSE rules[CHOOSE j \in hit : \A k \in hit : j <= k].action

(* In what the two checks do not look at, a is as wide as b.                 *)
NoNarrower(a, b) ==
    /\ "any" \in a.intf \/ b.intf \subseteq a.intf
    /\ a.schedule \in {"always", b.schedule}

Misread(n) == n \in DOMAIN Objects /\ Objects[n].kind = "misread"

WellRead(names) == \A n \in names : \A l \in LeafMembers(n) : ~Misread(l)

(* A package whose rules differ in nothing else that matters: each names     *)
(* what it takes, none is negated, every object is read for what it is, and  *)
(* no rule is narrower than a later one in interfaces or schedule.           *)
Plain(rules) ==
    /\ \A j \in Live(rules) :
          /\ rules[j].negated = {}
          /\ \A d \in {"src", "dst", "svc"} : rules[j][d] # {} /\ WellRead(rules[j][d])
    /\ \A i, j \in Live(rules) : i < j => NoNarrower(rules[i], rules[j])

(* Deleting every rule of a plain package that is reported as shadowed or as *)
(* redundant, all at once, changes the decision on no connection, whatever   *)
(* the names that the resolver cannot resolve stand for, with and without    *)
(* the object tables (check_shadow, check_redundant_rules,                   *)
(* build_addr_resolver).                                                     *)
CleanupIsSafe ==
    (Answered("hygiene") /\ "rules" \in DOMAIN asked /\ Plain(asked.rules)) =>
        LET rules == asked.rules
            live == Live(rules)
            keep == live \ {f[2] : f \in answer}
        IN  \A elsewhere \in {{}, {0}, Points} :
               LET means == Means(rules, live, elsewhere)
               IN  keep = live \/ \A c \in Connections :
                      Decision(rules, means, keep, c) = Decision(rules, means, live, c)

(* check_shadow: "Flag rules that will never be hit because an earlier rule  *)
(* already matches every connection that could reach them".                  *)
ShadowedNeverHit ==
    (Answered("hygiene") /\ "rules" \in DOMAIN asked) =>
        LET rules == asked.rules
            live == Live(rules)
        IN  \A elsewhere \in {{}, {0}, Points} :
               LET means == Means(rules, live, elsewhere)
               IN  \A f \in {g \in answer : g[1] = "shadow"}, c \in Connections :
                      LET hit == Hits(rules, means, live, c)
                      IN  f[2] \in hit => \E i \in hit : i < f[2]

(* When every device of the scope was asked and has answered for the rule,   *)
(* "never matched traffic" is what all of them say (hygiene_run,             *)
(* check_unhit).                                                             *)
UnhitEverywhere ==
    (Answered("hygiene") /\ "hits" \in DOMAIN asked /\ answer # {}
        /\ Len(asked.hits) <= ScopeLimit
        /\ \A i \in DOMAIN asked.hits : asked.hits[i] \in {"zero", "some"})
    => \A i \in DOMAIN asked.hits : asked.hits[i] = "zero"

UsedThrough(groups, refs) ==
    Reach(refs, [g \in DOMAIN groups |-> RangeOf(groups[g])])

(* An object that no reference of a rule reaches is reported, unless its     *)
(* name is taken for a built-in one: following members never marks too much  *)
(* (_expand_group_members, _is_builtin_obj).                                 *)
UnusedIsReported ==
    (Answered("hygiene") /\ "groups" \in DOMAIN asked) =>
        (Catalog \cup DOMAIN asked.groups)
            \ (BuiltIns \cup UsedThrough(asked.groups, asked.refs)) \subseteq answer

(* hygiene.py: "Objects used only inside a group that IS referenced by a     *)
(* policy are considered used (via group membership expansion)", and         *)
(* "BFS-expand group members reachable from any directly-referenced group    *)
(* name".                                                                    *)
UsedThroughGroups ==
    (Answered("hygiene") /\ "groups" \in DOMAIN asked) =>
        answer \cap UsedThrough(asked.groups, asked.refs) = {}
=============================================================================
