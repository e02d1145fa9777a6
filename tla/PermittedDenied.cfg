SPECIFICATION PlannerSpec
CONSTANTS
    Addresses <- MCAddresses
    Blocks <- MCBlocks
    Prefix <- MCPrefix
    HostPrefix = 3
    BroadPrefix = 2
    AddrObjects <- MCAddrObjects
    AddrGroups <- MCAddrGroups
    SvcObjects <- MCSvcObjects
    SvcGroups <- MCSvcGroups
    Ports <- MCPorts
    Interfaces <- MCInterfaces
    PlannedPackages <- MCPlannedPackages
    FlowAddrs <- MCFlowAddrs
    FlowSvcs <- MCFlowSvcs
INVARIANT
    PermittedIsAllowed
\* A flow that is answered stays answered: the end of a behaviour.
CHECK_DEADLOCK FALSE
