------------------------------ MODULE MCZones ------------------------------
(* A zone within a zone within a zone, one that shares a network with it, a  *)
(* parent that was removed; policies of two, of two sets.                    *)
EXTENDS Zones, MCCatalogs

MCZoneTable ==
    [cell |-> [subnets |-> {{0}}, parents |-> {"plant"}, domain |-> "OT"],
     plant |-> [subnets |-> {}, parents |-> {"works"}, domain |-> "OT"],
     works |-> [subnets |-> {{1}}, parents |-> {"gone"}, domain |-> "IT"],
     office |-> [subnets |-> {{1}, {2, 3}}, parents |-> {"office"}, domain |-> "IT"],
     shop |-> [subnets |-> {{3}}, parents |-> {}, domain |-> "Retail"]]

Policies ==
    {[policy_set |-> set, from_zone |-> f, to_zone |-> t, access_type |-> ty[1],
      services |-> ty[2]] :
        set \in {"one", "two"}, f \in {"works", "office"}, t \in {"shop", "gone"},
        ty \in {<<"block all", {}>>, <<"allow all", {}>>, <<"block only", {"ssh", "tcp/443"}>>,
                <<"block only", {"any"}>>, <<"allow only", {"443", "https"}>>}}
MCZonePolicies ==
    {<< >>} \cup {<<p, q>> : p \in {r \in Policies : r.policy_set = "one"},
                             q \in {r \in Policies : r.from_zone = "works" /\ r.to_zone = "shop"}}
MCZoneEndpoints == {{0}, {2, 3}, {5}, {7}}
MCPublicAddresses == {6, 7}
MCServiceAliases == [t \in {"ssh", "443", "tcp/443", "any"} |->
    CASE t = "ssh" -> {} [] t = "443" -> {"https"} [] t = "tcp/443" -> {"443", "https"}
      [] t = "any" -> {}]
MCZoneServices == {{}, {"ssh"}, {"443"}, {"tcp/443", "ssh"}, {"any"}}
=============================================================================
