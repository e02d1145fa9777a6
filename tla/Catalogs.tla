------------------------------ MODULE Catalogs ------------------------------
(***************************************************************************)
(* planner/matching.py: how the names that a rule refers to become         *)
(* networks and port ranges, and how ranges compare.                       *)
(*                                                                         *)
(* An address is a number, a network the set of its addresses: Blocks are  *)
(* the CIDR blocks, Prefix their prefix lengths (HostPrefix for a single   *)
(* address).  The entry of an object is what its own definition resolves   *)
(* to: [known, parts], the parts being networks or port ranges; an FQDN,   *)
(* a country or a malformed subnet is not known.                           *)
(***************************************************************************)
EXTENDS Questions, Integers, Sequences, FiniteSets, SequencesExt

CONSTANTS
    Addresses, Blocks, Prefix, HostPrefix, BroadPrefix,
    AddrObjects, AddrGroups,   \* a group is the sequence of its members
    SvcObjects, SvcGroups,
    Ports                      \* 0..65535

IsWildcardName(name) == name \in {"all", "any"}

Unresolved == [known |-> FALSE, parts |-> {}]
Resolved(parts) == [known |-> TRUE, parts |-> parts]

-----------------------------------------------------------------------------
(* PortRange *)

PortRange == [protocol : {"tcp", "udp", "sctp", "icmp", "ip"}, start : Int, end : Int]

WildcardRange == [protocol |-> "ip", start |-> 0, end |-> 0]

Compatible(r, s) ==
    r.protocol = "ip" \/ s.protocol = "ip" \/ r.protocol = s.protocol

RangeContains(r, s) ==
    /\ Compatible(r, s)
    /\ \/ r.protocol = "ip"
       \/ s.protocol # "ip" /\ r.start <= s.start /\ s.end <= r.end

RangesOverlap(r, s) ==
    /\ Compatible(r, s)
    /\ \/ r.protocol = "ip" \/ s.protocol = "ip"
       \/ r.start <= s.end /\ s.start <= r.end

-----------------------------------------------------------------------------
(* AddressCatalog and ServiceCatalog *)

(* Every name a rule or a group can carry; "gone" is none of the tables'.     *)
NamesIn(objects, groups) ==
    {"all", "any", "gone"} \cup DOMAIN objects \cup DOMAIN groups
        \cup UNION {ToSet(groups[g]) : g \in DOMAIN groups}

(* A name, the members of it, theirs, and so on.                             *)
Under(groups, name) == Reach({name}, [g \in DOMAIN groups |-> ToSet(groups[g])])

(* The names under one that are no groups.                                   *)
Leaves(objects, groups) ==
    [name \in NamesIn(objects, groups) |-> Under(groups, name) \ DOMAIN groups]

(* Whether the descent through the members of name comes to one twice: it    *)
(* opens each group under name once and looks at each place in it.           *)
MetTwice(groups, name) ==
    LET places == UNION {{g} \X DOMAIN groups[g] : g \in Under(groups, name) \cap DOMAIN groups}
        At(place) == groups[place[1]][place[2]]
    IN  \E p \in places : /\ ~IsWildcardName(At(p))
                          /\ At(p) = name \/ \E q \in places \ {p} : At(q) = At(p)

(* _resolve of a table of objects and groups: a wildcard is everything, an   *)
(* object what its entry says, a group the union of its members that are     *)
(* known, and unknown if none is.  seen is shared by the whole descent: a    *)
(* name met again, around a cycle or by two ways, is known and adds nothing. *)
(* This is what the descent comes to; MCCatalogs has the descent itself.     *)
Resolution(objects, groups, everything) ==
    LET Entry(name) == IF IsWildcardName(name) THEN Resolved({everything})
                       ELSE IF name \in DOMAIN objects THEN objects[name] ELSE Unresolved
        leaves == Leaves(objects, groups)
    IN  [name \in NamesIn(objects, groups) |->
            [known |-> (\E leaf \in leaves[name] : Entry(leaf).known) \/ MetTwice(groups, name),
             parts |-> UNION {Entry(leaf).parts : leaf \in leaves[name]}]]

AddrRef == Resolution(AddrObjects, AddrGroups, Addresses)
SvcRef == Resolution(SvcObjects, SvcGroups, WildcardRange)

AddrLeaves == Leaves(AddrObjects, AddrGroups)
SvcLeavesOf == Leaves(SvcObjects, SvcGroups)
AddrNames == NamesIn(AddrObjects, AddrGroups)
SvcNames == NamesIn(SvcObjects, SvcGroups)

(* What FortiManager sees to: an object and a group never share a name, no   *)
(* group has a wildcard's, the tables are finite, a range goes from low to   *)
(* high.  What is not known has no parts (_networks_for_object and           *)
(* _ranges_for_object return None).                                          *)
Table(objects, groups, things) ==
    /\ \A o \in DOMAIN objects :
          /\ objects[o] \in [known : BOOLEAN, parts : SUBSET things]
          /\ ~objects[o].known => objects[o].parts = {}
    /\ IsFiniteSet(DOMAIN groups)
    /\ \A g \in DOMAIN groups : ~IsWildcardName(g) /\ groups[g] \in Seq(STRING)
    /\ DOMAIN groups \cap DOMAIN objects = {}

PortRanges == {r \in PortRange : r.start \in Ports /\ r.end \in Ports /\ r.start <= r.end}

ASSUME CatalogAssumption ==
    /\ Ports \subseteq Int
    /\ Table(AddrObjects, AddrGroups, SUBSET Addresses)
    /\ Table(SvcObjects, SvcGroups, PortRanges)

(* ServiceCatalog.leaf_names: the service objects under a group, and none    *)
(* under an object.                                                          *)
SvcLeaves(name) ==
    IF name \in DOMAIN SvcGroups THEN SvcLeavesOf[name] \cap DOMAIN SvcObjects ELSE {}

(* exact_match_name: the objects that are exactly the one network, or        *)
(* exactly these ranges.                                                     *)
SameNetwork(block) == {o \in DOMAIN AddrObjects : AddrObjects[o] = Resolved({block})}
SameService(ranges) == {o \in DOMAIN SvcObjects : SvcObjects[o] = Resolved(ranges)}

-----------------------------------------------------------------------------
(* What the rules mean on the firewall: the connections that a set of names  *)
(* or ranges stands for, members of members too.  elsewhere is what the      *)
(* objects that are not known happen to be today.                            *)

Traffic(ranges) ==
    UNION {IF r.protocol = "ip" THEN {"tcp", "udp", "sctp", "icmp"} \X Ports
           ELSE {r.protocol} \X {p \in Ports : r.start <= p /\ p <= r.end} : r \in ranges}

AddrMeaning(names, elsewhere) ==
    UNION {IF AddrRef[n].known THEN UNION AddrRef[n].parts ELSE elsewhere :
              n \in UNION {AddrLeaves[m] : m \in names}}

SvcMeaning(names, elsewhere) ==
    UNION {IF SvcRef[n].known THEN Traffic(SvcRef[n].parts) ELSE elsewhere :
              n \in UNION {SvcLeavesOf[m] : m \in names}}

(* A group that is known although one of its members is not: the member is   *)
(* dropped, and no rule that names the group is seen to match it.            *)
Mixed(ref, leaves, names) ==
    \E n \in names : ref[n].known /\ \E leaf \in leaves[n] : ~ref[leaf].known
=============================================================================
