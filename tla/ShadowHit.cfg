SPECIFICATION PairsSpec
CONSTANTS
    Points <- MCPoints
    Objects <- MCObjects
    Groups <- MCGroups
    Packages <- MCPackages
    Rules <- MCRules
    GroupTables <- MCGroupTables
    Catalog <- MCCatalog
    BuiltIns <- MCBuiltIns
    ScopeLimit = 2
INVARIANT
    ShadowedNeverHit
\* A report that is given stays given: the end of a behaviour.
CHECK_DEADLOCK FALSE
