------------------------------ MODULE Planner ------------------------------
(***************************************************************************)
(* Rule Validation of one flow against one policy package: plan_flow of    *)
(* planner/engine.py, PolicyMatcher, and plan_insertion.                   *)
(*                                                                         *)
(* A package is the sequence of its rules, whose position stands for their *)
(* policyid.  A flow that cannot be parsed has an empty src, dst or svc.   *)
(* A rule whose schedule is not "always" is matched like any other; so it  *)
(* is here.                                                                *)
(***************************************************************************)
EXTENDS Catalogs

CONSTANTS
    Interfaces,        \* of the device: records [name, net]
    PlannedPackages,
    FlowAddrs, FlowSvcs

(* A rule, as the device manager has it, and a flow, as it is parsed: any    *)
(* two numbers make a range (_parse_port_expr).                              *)
Policy ==
    [src : SUBSET AddrNames, srcNegate : BOOLEAN, dst : SUBSET AddrNames, dstNegate : BOOLEAN,
     svc : SUBSET SvcNames, action : STRING, status : STRING, always : BOOLEAN,
     srcintf : STRING, dstintf : STRING]

ASSUME PlannerAssumption ==
    /\ \A rules \in PlannedPackages : rules \in Seq(Policy)
    /\ \A block \in FlowAddrs : block \subseteq Addresses /\ IsFiniteSet(block)
    /\ \A ranges \in FlowSvcs : ranges \subseteq PortRange

-----------------------------------------------------------------------------
(* PolicyMatcher.  A verdict on one dimension is [m |-> matched, f |-> full] *)

Dim(m, f) == [m |-> m, f |-> f]

UnknownAddr(names) == \E n \in names : ~AddrRef[n].known
UnknownSvc(names) == \E n \in names : ~SvcRef[n].known
Nets(names) == UNION {AddrRef[n].parts : n \in names}
Ranges(names) == UNION {SvcRef[n].parts : n \in names}

(* collapse_addresses: the largest blocks inside the union.                  *)
Collapsed(nets) ==
    LET inside == {b \in Blocks : b \subseteq UNION nets}
    IN  {b \in inside : \A c \in inside : b \subseteq c => b = c}

(* _addr_dim, once it is known whether a network of the rule touches the     *)
(* target, whether one contains it, whether a name is unknown, and whether   *)
(* the target is a host.                                                     *)
AddrVerdict(negate, overlap, contained, unknown, host) ==
    CASE negate /\ unknown -> Dim(TRUE, FALSE)
      [] negate /\ ~unknown -> Dim(IF host THEN ~overlap ELSE ~contained, ~overlap)
      [] ~negate -> Dim(contained \/ overlap \/ unknown, contained)

AddrDim(names, negate, target) ==
    AddrVerdict(negate, \E n \in Nets(names) : n \cap target # {},
                \E n \in Collapsed(Nets(names)) : target \subseteq n,
                UnknownAddr(names), Cardinality(target) = 1)

(* A host that is covered only by way of a subnet wider than /24.            *)
Broad(names, negate, target) ==
    /\ ~negate /\ Prefix[target] = HostPrefix
    /\ \E n \in Collapsed(Nets(names)) :
          target \subseteq n /\ 0 < Prefix[n] /\ Prefix[n] < BroadPrefix

(* Mutants, here and below: what a plausible bug would make of the           *)
(* definition that follows.  No behaviour of PlannerSpec uses them.          *)

(* One of the requested ranges would be enough. *)
SvcDimAny(names, requested) ==
    LET overlap == \E r \in Ranges(names), q \in requested : RangesOverlap(r, q)
        contained == \E q \in requested : \E r \in Ranges(names) : RangeContains(r, q)
    IN  Dim(contained \/ overlap \/ UnknownSvc(names), contained)

(* _svc_dim                                                                  *)
SvcDim(names, requested) ==
    LET overlap == \E r \in Ranges(names), q \in requested : RangesOverlap(r, q)
        contained == requested # {} /\
            \A q \in requested : \E r \in Ranges(names) : RangeContains(r, q)
    IN  Dim(contained \/ overlap \/ UnknownSvc(names), contained)

(* evaluate, from the verdicts on the three dimensions                       *)
Joined(s, d, v, broad, unknown) ==
    [matched |-> s.m /\ d.m /\ v.m, full |-> s.m /\ d.m /\ v.m /\ s.f /\ d.f /\ v.f,
     src |-> s.f, dst |-> d.f, svc |-> v.f, broad |-> broad, unknown |-> unknown]

MatchOf(pol, flow) ==
    Joined(AddrDim(pol.src, pol.srcNegate, flow.src),
           AddrDim(pol.dst, pol.dstNegate, flow.dst), SvcDim(pol.svc, flow.svc),
           \/ Broad(pol.src, pol.srcNegate, flow.src)
           \/ Broad(pol.dst, pol.dstNegate, flow.dst),
           UnknownAddr(pol.src \cup pol.dst) \/ UnknownSvc(pol.svc))

Uncovered(pol, requested) ==
    {q \in requested : ~\E r \in Ranges(pol.svc) : RangeContains(r, q)}

RuleEnabled(pol) == pol.status = "enable"

-----------------------------------------------------------------------------
(* planner/insertion.py *)

(* _resolve_interface of an address: the longest connected prefix, or "".    *)
InterfaceOf(address) ==
    LET near == {i \in Interfaces : address \in i.net}
    IN  IF near = {} THEN ""
        ELSE (CHOOSE i \in near : \A j \in near : Prefix[j.net] <= Prefix[i.net]).name

(* The first address of a network.                                           *)
First(block) == CHOOSE a \in block : \A b \in block : a <= b

IntfScoped(pol, srcintf, dstintf) ==
    /\ srcintf = "" \/ pol.srcintf \in {"any", srcintf}
    /\ dstintf = "" \/ pol.dstintf \in {"any", dstintf}

(* _is_catchall_deny: a policy block, whose fields are empty, passes for one *)
CatchallDeny(pol) ==
    /\ pol.action = "deny"
    /\ pol.src \cup pol.dst \cup pol.svc \subseteq {"all", "any"}

(* _policy_within_candidate                                                  *)
WithinCandidate(pol, flow) ==
    /\ ~pol.srcNegate /\ ~pol.dstNegate
    /\ ~UnknownAddr(pol.src \cup pol.dst) /\ ~UnknownSvc(pol.svc)
    /\ Nets(pol.src) # {} /\ \A n \in Nets(pol.src) : n \subseteq flow.src
    /\ Nets(pol.dst) # {} /\ \A n \in Nets(pol.dst) : n \subseteq flow.dst
    /\ Ranges(pol.svc) # {}
    /\ \A r \in Ranges(pol.svc) : \E q \in flow.svc : RangeContains(q, r)

Least(S) == CHOOSE i \in S : \A j \in S : i <= j
Greatest(S) == CHOOSE i \in S : \A j \in S : j <= i

(* The frontier would be the first rule that covers the flow. *)
InsertionAtCover(rules, match, flow, srcintf, dstintf) ==
    LET scoped == {i \in DOMAIN rules : IntfScoped(rules[i], srcintf, dstintf)}
        covering == {i \in scoped : RuleEnabled(rules[i]) /\ match[i].full}
    IN  [before |-> IF covering # {} THEN Least(covering) ELSE 0, shadows |-> {}]

(* plan_insertion: before which rule (0: at the end), and which rules would  *)
(* then be shadowed.                                                         *)
Insertion(rules, match, flow, srcintf, dstintf) ==
    LET scoped == {i \in DOMAIN rules : IntfScoped(rules[i], srcintf, dstintf)}
        enabled == {i \in scoped : RuleEnabled(rules[i])}
        overlapping == {i \in enabled : match[i].matched}
        catchall == {i \in scoped : CatchallDeny(rules[i])}
    IN  IF overlapping # {}
        THEN [before |-> Least(overlapping),
              shadows |-> {i \in enabled : /\ i >= Least(overlapping)
                                           /\ WithinCandidate(rules[i], flow)}]
        ELSE [before |-> IF catchall # {} THEN Greatest(catchall) ELSE 0,
              shadows |-> {}]

-----------------------------------------------------------------------------
(* planner/engine.py *)

(* The two sides that a rule can lack, in the order of the loop.             *)
Lacks(pol, side) == IF side = "dst" THEN pol.dst ELSE pol.src
NegatesSide(pol, side) == IF side = "dst" THEN pol.dstNegate ELSE pol.srcNegate

(* The one the rule already has would be negated. *)
NearMissNegated(pol, match, side, srcintf, dstintf) ==
    /\ RuleEnabled(pol) /\ pol.always /\ pol.action = "accept"
    /\ ~match.unknown /\ ~match.full /\ match.svc
    /\ IntfScoped(pol, srcintf, dstintf)
    /\ IF side = "dst" THEN match.src /\ ~match.dst ELSE match.dst /\ ~match.src
    /\ \/ Lacks(pol, side) \cap DOMAIN AddrGroups # {}
       \/ Lacks(pol, side) \notin {{}, {"all"}}

(* _find_alternative: a rule that lacks one side only.                       *)
NearMiss(pol, match, side, srcintf, dstintf) ==
    /\ RuleEnabled(pol) /\ pol.always /\ pol.action = "accept"
    /\ ~match.unknown /\ ~match.full /\ match.svc
    /\ IntfScoped(pol, srcintf, dstintf)
    /\ IF side = "dst" THEN match.src /\ ~match.dst ELSE match.dst /\ ~match.src
    /\ ~NegatesSide(pol, side)
    /\ \/ Lacks(pol, side) \cap DOMAIN AddrGroups # {}
       \/ Lacks(pol, side) \notin {{}, {"all"}}

(* Its score: the most specific other side, then the shortest, then a rule   *)
(* without a group.  The weights order the triple.                           *)
Score(pol, side) ==
    LET other == Cardinality(Lacks(pol, IF side = "dst" THEN "src" ELSE "dst") \ {"all"})
    IN  (IF other > 0 THEN 1000 ELSE 0) - 10 * other
            + (IF Lacks(pol, side) \cap DOMAIN AddrGroups = {} THEN 1 ELSE 0)

Alternatives(rules, match, srcintf, dstintf) ==
    LET near == {c \in (DOMAIN rules) \X {"src", "dst"} :
                    NearMiss(rules[c[1]], match[c[1]], c[2], srcintf, dstintf)}
        best == {c \in near : \A e \in near :
                    Score(rules[e[1]], e[2]) <= Score(rules[c[1]], c[2])}
    IN  {c \in best : \A e \in best : c[1] <= e[1]}

AskFlow ==
    \E rules \in PlannedPackages :
    \E src \in FlowAddrs, dst \in FlowAddrs, svc \in FlowSvcs :
        /\ asked = [part |-> "flow", rules |-> rules, src |-> src, dst |-> dst, svc |-> svc]
        /\ known = [step |-> "parse"]

PlannerInit == AskFlow /\ answer = {}

RejectFlow ==
    /\ Asked("flow") /\ AtStep("parse")
    /\ {} \in {asked.src, asked.dst, asked.svc}
    /\ Answer([verdict |-> "ERROR"])

MatchRules ==
    /\ Asked("flow") /\ AtStep("parse")
    /\ {} \notin {asked.src, asked.dst, asked.svc}
    /\ known' = [step |-> "evaluate",
                 match |-> [i \in DOMAIN asked.rules |-> MatchOf(asked.rules[i], asked)]]
    /\ UNCHANGED <<asked, answer>>

(* The loop of plan_flow over the package, without the order of the rules.   *)
EvaluateRules ==
    /\ Asked("flow") /\ AtStep("evaluate")
    /\ LET rules == asked.rules
           match == known.match
           matched == {i \in DOMAIN rules : RuleEnabled(rules[i]) /\ match[i].matched}
           full == {i \in matched : match[i].full}
           matching == {i \in full : ~match[i].broad}
           partial == (full \ matching) \cup
                      {i \in matched \ full : rules[i].action = "accept"}
           permits == {i \in matching : rules[i].action = "accept"}
           denies == {i \in matching : rules[i].action = "deny"}
       IN  known' = [step |-> "place", match |-> match, partial |-> partial,
                     by |-> IF permits # {} THEN {Least(permits)}
                            ELSE IF denies # {} THEN {Least(denies)} ELSE {},
                     verdict |-> CASE permits # {} -> "PERMITTED"
                                   [] permits = {} /\ denies # {} -> "EXPLICITLY_DENIED"
                                   [] permits \cup denies = {} /\ partial # {} -> "MODIFIABLE"
                                   [] OTHER -> "NEW_RULE_NEEDED"]
    /\ UNCHANGED <<asked, answer>>

SrcInterface == InterfaceOf(First(asked.src))
DstInterface == InterfaceOf(First(asked.dst))

(* A position for a new rule, when there is none to change.                  *)
PlaceRule ==
    /\ Asked("flow") /\ AtStep("place")
    /\ known' = [step |-> "alternative", verdict |-> known.verdict, by |-> known.by,
                 partial |-> known.partial, match |-> known.match,
                 place |-> IF /\ known.verdict \in {"NEW_RULE_NEEDED", "EXPLICITLY_DENIED"}
                              /\ asked.rules # << >>
                           THEN {Insertion(asked.rules, known.match, asked, SrcInterface,
                                           DstInterface)}
                           ELSE {}]
    /\ UNCHANGED <<asked, answer>>

(* The rest of plan_flow: the alternative, and for MODIFIABLE the change     *)
(* that the command line makes of the first near miss: the services it       *)
(* lacks, else the alternative, else an address object.                      *)
FinishFlow ==
    /\ Asked("flow") /\ AtStep("alternative")
    /\ LET found == IF known.verdict \in {"NEW_RULE_NEEDED", "MODIFIABLE"}
                    THEN Alternatives(asked.rules, known.match, SrcInterface, DstInterface)
                    ELSE {}
           sides == {c \in found : c[2] = "dst" \/ <<c[1], "dst">> \notin found}
           first == Least(known.partial)
           gap == Uncovered(asked.rules[first], asked.svc)
           create == {s \in {"src", "dst"} :
                         SameNetwork(IF s = "src" THEN asked.src ELSE asked.dst) = {}}
       IN  Answer([verdict |-> known.verdict, by |-> known.by, place |-> known.place,
                   alternative |-> sides,
                   change |-> IF known.verdict # "MODIFIABLE" THEN << >>
                              ELSE IF gap # {} THEN <<first, "svc">>
                              ELSE IF sides # {} THEN CHOOSE c \in sides : TRUE
                              ELSE IF create = {} THEN << >>
                              ELSE <<first, IF "src" \in create THEN "src" ELSE "dst">>])

PlannerNext == RejectFlow \/ MatchRules \/ EvaluateRules \/ PlaceRule \/ FinishFlow

PlannerSpec == PlannerInit /\ [][PlannerNext]_questionVars

-----------------------------------------------------------------------------
(* Properties *)

Takes(pol, c, elsewhere) ==
    /\ RuleEnabled(pol)
    /\ IntfScoped(pol, c.srcintf, c.dstintf)
    /\ (c.src \in AddrMeaning(pol.src, elsewhere)) # pol.srcNegate
    /\ (c.dst \in AddrMeaning(pol.dst, elsewhere)) # pol.dstNegate
    /\ c.svc \in SvcMeaning(pol.svc, IF elsewhere = {} THEN {} ELSE Traffic({WildcardRange}))

(* The connections of the flow that enter and leave by the interfaces that   *)
(* its addresses are routed to.                                              *)
Requested ==
    [src : asked.src, dst : asked.dst, svc : Traffic(asked.svc),
     srcintf : {SrcInterface}, dstintf : {DstInterface}]

Elsewhere == {{}, Addresses}

(* The answer is in and no rule names a group that drops a member.           *)
Planned ==
    /\ Answered("flow") /\ answer.verdict # "ERROR"
    /\ \A i \in DOMAIN asked.rules :
          /\ ~Mixed(AddrRef, AddrLeaves, asked.rules[i].src \cup asked.rules[i].dst)
          /\ ~Mixed(SvcRef, SvcLeavesOf, asked.rules[i].svc)

(* NEW_RULE_NEEDED: no enabled rule accepts any connection of the flow.      *)
(* PERMITTED and EXPLICITLY_DENIED: the rule that the answer names takes     *)
(* every one of them that is between its interfaces (plan_flow,              *)
(* PolicyMatcher).                                                           *)
VerdictIsTruthful ==
    Planned => \A elsewhere \in Elsewhere : \A c \in Requested :
        /\ answer.verdict = "NEW_RULE_NEEDED" =>
              \A i \in DOMAIN asked.rules :
                 Takes(asked.rules[i], c, elsewhere) => asked.rules[i].action # "accept"
        /\ \A i \in answer.by :
              IntfScoped(asked.rules[i], c.srcintf, c.dstintf) =>
                 Takes(asked.rules[i], c, elsewhere)

(* A rule put where the answer says decides every connection of the flow: no *)
(* rule before it takes one.  And the rules that are said to be shadowed     *)
(* then take none between these interfaces (plan_insertion).                 *)
NewRuleTakesEffect ==
    (Planned /\ answer.place # {}) =>
        \A plan \in answer.place : \A elsewhere \in Elsewhere :
            /\ \A i \in DOMAIN asked.rules : \A c \in Requested :
                  (i < plan.before \/ plan.before = 0) =>
                      ~Takes(asked.rules[i], c, elsewhere)
            /\ \A i \in plan.shadows :
                  \A c \in [src : Addresses, dst : Addresses, svc : Traffic({WildcardRange}),
                            srcintf : {SrcInterface}, dstintf : {DstInterface}] :
                     Takes(asked.rules[i], c, elsewhere) => c \in Requested

(* Once the missing address is in the list, which then covers that side of   *)
(* the flow like "all", the alternative rule takes the whole flow            *)
(* (_find_alternative).                                                      *)
AlternativeIsEnough ==
    Planned => \A alt \in answer.alternative : \A c \in Requested :
        Takes(IF alt[2] = "dst" THEN [asked.rules[alt[1]] EXCEPT !.dst = {"all"}]
                                ELSE [asked.rules[alt[1]] EXCEPT !.src = {"all"}], c, {})

(* help.js: PERMITTED, "an existing rule already allows this flow".  The     *)
(* firewall takes the first rule that matches.                               *)
PermittedIsAllowed ==
    (Planned /\ answer.verdict = "PERMITTED") =>
        \A c \in Requested :
            LET hit == {i \in DOMAIN asked.rules : Takes(asked.rules[i], c, {})}
            IN  hit # {} /\ asked.rules[Least(hit)].action = "accept"
=============================================================================
