\* A discovered URL with two identifiers.
SPECIFICATION Spec
CONSTANTS
    IdValues <- MCIdValues
    DynamicValues <- MCDynamicValues
    LogicIdValues <- MCLogicIdValues
    LowerCase <- MCLowerCase
    MaxLiveHosts = 1
    TopCandidates = 2
    Campaigns <- MCOrgCampaigns
INVARIANTS
    DiscoveredIdsAreNotReplayed
CHECK_DEADLOCK FALSE
