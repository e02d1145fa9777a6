---------------------------- MODULE MCDecisions ----------------------------
(* The decision procedures, each on its own instance, in one state graph:   *)
(* they share no state beyond the question under way.                       *)
EXTENDS MCDeviceReview, MCHygiene, MCPlanner, MCRuleLookup, MCZones, MCRuleReview

Init ==
    \/ ReviewInit
    \/ HygieneInit
    \/ PlannerInit
    \/ LookupInit
    \/ ZonesInit
    \/ ReviewRequestInit

Next ==
    \/ ReviewNext
    \/ HygieneNext
    \/ PlannerNext
    \/ LookupNext
    \/ ZonesNext
    \/ ReviewRequestNext

Spec == Init /\ [][Next]_questionVars
=============================================================================
