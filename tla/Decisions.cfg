SPECIFICATION Spec
CONSTANTS
    DnsOf <- MCDnsOf
    ReviewParams <- MCReviewParams
    ReviewAnswers <- MCReviewAnswers
    Points <- MCPoints
    Objects <- MCObjects
    Groups <- MCGroups
    Packages <- MCPackages
    Rules <- MCRules
    GroupTables <- MCGroupTables
    Catalog <- MCCatalog
    BuiltIns <- MCBuiltIns
    ScopeLimit = 2
    Addresses <- MCAddresses
    Blocks <- MCBlocks
    Prefix <- MCPrefix
    HostPrefix = 3
    BroadPrefix = 2
    AddrObjects <- MCAddrObjects
    AddrGroups <- MCAddrGroups
    SvcObjects <- MCSvcObjects
    SvcGroups <- MCSvcGroups
    Ports <- MCPorts
    Interfaces <- MCInterfaces
    PlannedPackages <- MCPlannedPackages
    FlowAddrs <- MCFlowAddrs
    FlowSvcs <- MCFlowSvcs
    LookupRules <- MCLookupRules
    LookupQueries <- MCLookupQueries
    ZoneTable <- MCZoneTable
    ZonePolicies <- MCZonePolicies
    ZoneEndpoints <- MCZoneEndpoints
    PublicAddresses <- MCPublicAddresses
    ServiceAliases <- MCServiceAliases
    ZoneServices <- MCZoneServices
    ReviewFlows <- MCReviewFlows
    Selections <- MCSelections
    PackageScopes <- MCPackageScopes
    AddressTexts <- MCAddressTexts
    AddressTables <- MCAddressTables
    HostNames <- MCHostNames
    ServiceTexts <- MCServiceTexts
    ServiceTables <- MCServiceTables
    Faulty <- MCFaulty
    Routing <- MCRouting
    ComboLimit = 3
INVARIANTS
    PassIsEarned
    UnreadSettingsNeverPass
    CleanupIsSafe
    UnhitEverywhere
    UnusedIsReported
    VerdictIsTruthful
    NewRuleTakesEffect
    AlternativeIsEnough
    NothingHidden
    LabelsAreTrue
    BlockWins
    NothingDroppedSilently
\* A question that is answered stays answered: the end of a behaviour.
CHECK_DEADLOCK FALSE
