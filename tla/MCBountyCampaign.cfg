\* Manifests, old directories, discovered URLs and budgets, one case each.
SPECIFICATION Spec
CONSTANTS
    IdValues <- MCIdValues
    DynamicValues <- MCDynamicValues
    LogicIdValues <- MCLogicIdValues
    LowerCase <- MCLowerCase
    MaxLiveHosts = 1
    TopCandidates = 2
    Campaigns <- MCCampaigns
INVARIANTS
    TypeOK
    ToolsKeepTheRate
    BoardShowsThisRun
    PlanIsAffordable
    PassedOverOnlyForWantOfRoom
    SingleIdentifierIsSwapped
    DiscoveredEdgeIsTested
    ContractParametersAreControlled
    VerifiedIsNeverCut
CHECK_DEADLOCK FALSE
