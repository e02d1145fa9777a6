------------------------------- MODULE Zones -------------------------------
(***************************************************************************)
(* The segmentation policy: run_query of zone_db.py, which the zone page   *)
(* and Rule Validation (query_zone_policy) ask, and the risk level that    *)
(* planner/standards.py derives from the zones it finds.                   *)
(***************************************************************************)
EXTENDS Catalogs

CONSTANTS
    ZoneTable,       \* ZoneTable[z]: its subnets (blocks), parents and domain
    ZonePolicies,    \* sequences of policies
    ZoneEndpoints,
    PublicAddresses,
    ServiceAliases,  \* the spellings _service_aliases adds to a token
    ZoneServices     \* the sets of tokens a request can have

ASSUME ZonesAssumption ==
    /\ IsFiniteSet(DOMAIN ZoneTable)
    /\ \A policies \in ZonePolicies :
          Len(policies) \in Nat /\ DOMAIN policies = 1..Len(policies)

-----------------------------------------------------------------------------
(* zone_db.py *)

(* zones_for_endpoint; the order of its list has no say in the verdict.      *)
ZonesFor(endpoint) ==
    LET found == {z \in DOMAIN ZoneTable :
                    \E net \in ZoneTable[z].subnets : net \cap endpoint # {}}
    IN  IF found # {} THEN found
        ELSE IF endpoint \subseteq PublicAddresses THEN {"Internet"} ELSE {}

(* Mutants, here and below: what a plausible bug would make of the           *)
(* definition that follows.  No behaviour of ZonesSpec uses them.            *)

(* The parents, but not their parents. *)
AncestorsOnce(z) ==
    {z} \cup (IF z \in DOMAIN ZoneTable THEN ZoneTable[z].parents ELSE {})

(* ancestor_zones: the zone, and every zone up the chain of parents; a       *)
(* parent that was removed has none.                                         *)
Ancestors(z) == Reach({z}, [y \in DOMAIN ZoneTable |-> ZoneTable[y].parents])

PolicyKey(p) == <<p.policy_set, p.from_zone, p.to_zone, p.access_type>>

(* find_matching_policies: of those with the same key only the first, though *)
(* their services differ.                                                    *)
MatchingPolicies(policies, srcZones, dstZones) ==
    {i \in DOMAIN policies :
        /\ policies[i].from_zone \in UNION {Ancestors(z) : z \in srcZones}
        /\ policies[i].to_zone \in UNION {Ancestors(z) : z \in dstZones}
        /\ \A j \in 1..(i - 1) : PolicyKey(policies[j]) # PolicyKey(policies[i])}

Spellings(tokens) == UNION {{t} \cup ServiceAliases[t] : t \in tokens}
Lists(p, tokens) == "any" \in p.services \/ Spellings(tokens) \cap p.services # {}

(* evaluate                                                                  *)
Verdict(ps, tokens) ==
    LET Some(type) == {p \in ps : p.access_type = type}
    IN  IF ps = {} THEN "UNKNOWN"
        ELSE IF Some("block all") # {} THEN "BLOCKED"
        ELSE IF tokens # {} /\ \E p \in Some("block only") : Lists(p, tokens) THEN "BLOCKED"
        ELSE IF tokens # {} /\ \E p \in Some("allow only") : Lists(p, tokens) THEN "ALLOWED"
        ELSE IF Some("allow all") # {} THEN "ALLOWED"
        ELSE IF tokens # {} /\ Some("allow only") # {} THEN "BLOCKED"
        ELSE "ALLOWED"

-----------------------------------------------------------------------------
(* planner/standards.py *)

Sensitive == {"CIP-H", "OT", "Nuclear", "Gas"}

(* risk_level                                                                *)
RiskLevel(src, dst) ==
    LET unknown == {} \in {src, dst} \/ ~(src \cup dst \subseteq DOMAIN ZoneTable)
        Domains(zones) == {ZoneTable[z].domain : z \in zones}
    IN  IF "Internet" \in src \cup dst \/ unknown THEN "critical"
        ELSE IF Domains(src \cup dst) \cap (Sensitive \cup {"Internet"}) # {} THEN "critical"
        ELSE IF Domains(src) # Domains(dst) THEN "high" ELSE "medium"

-----------------------------------------------------------------------------
(* run_query for one pair *)

AskZones ==
    \E policies \in ZonePolicies : \E src \in ZoneEndpoints, dst \in ZoneEndpoints :
    \E tokens \in ZoneServices :
        /\ asked = [part |-> "zones", policies |-> policies, src |-> src, dst |-> dst,
                    tokens |-> tokens]
        /\ known = [step |-> "zones"]

ZonesInit == AskZones /\ answer = {}

QueryZones ==
    /\ Asked("zones") /\ AtStep("zones")
    /\ LET src == ZonesFor(asked.src)
           dst == ZonesFor(asked.dst)
           matching == MatchingPolicies(asked.policies, src, dst)
       IN  Answer([src |-> src, dst |-> dst, risk |-> RiskLevel(src, dst),
                   verdict |-> Verdict({asked.policies[i] : i \in matching}, asked.tokens)])

ZonesNext == QueryZones

ZonesSpec == ZonesInit /\ [][ZonesNext]_questionVars

-----------------------------------------------------------------------------
(* Properties *)

(* What holds a zone: the zones of every set that has it and, with a zone,   *)
(* the parents of that zone.                                                 *)
ZoneNames == DOMAIN ZoneTable \cup UNION {ZoneTable[z].parents : z \in DOMAIN ZoneTable}
Closed ==
    {S \in SUBSET ZoneNames :
        \A z \in S \cap DOMAIN ZoneTable : ZoneTable[z].parents \subseteq S}

Holds(y, z) == y = z \/ (z \in ZoneNames /\ \A S \in Closed : z \in S => y \in S)

(* A policy that blocks the service, between zones that hold the two ends or *)
(* are above those that do, decides whatever else is allowed, and so does    *)
(* the absence of a policy: the flow is not ALLOWED.  Only when two policies *)
(* of one set have the same zones and access type can it be, for the second  *)
(* is dropped (find_matching_policies, evaluate).  It says nothing of a flow *)
(* between zones with nothing but blocks of other services, which evaluate   *)
(* takes for ALLOWED, and features.md for "implicit UNKNOWN".                *)
BlockWins ==
    (/\ Answered("zones")
     /\ \A i, j \in DOMAIN asked.policies :
           PolicyKey(asked.policies[i]) = PolicyKey(asked.policies[j]) => i = j)
    => LET between == {i \in DOMAIN asked.policies :
               /\ \E z \in answer.src : Holds(asked.policies[i].from_zone, z)
               /\ \E z \in answer.dst : Holds(asked.policies[i].to_zone, z)}
           blocks == {i \in between :
               \/ asked.policies[i].access_type = "block all"
               \/ /\ asked.policies[i].access_type = "block only"
                  /\ \E t \in asked.tokens :
                        \/ "any" \in asked.policies[i].services
                        \/ ({t} \cup ServiceAliases[t]) \cap asked.policies[i].services # {}}
       IN  /\ blocks # {} => answer.verdict = "BLOCKED"
           /\ between = {} => answer.verdict = "UNKNOWN"
=============================================================================
