\* Every pair of small securities, small operation graphs, and mixed signals.
SPECIFICATION Spec
CONSTANTS
    SensitiveOperations <- MCSensitive
    Inputs <- MCInputs
    KindScore <- MCKindScore
    MaxPlans = 2
    MaxAsked = 3
INVARIANTS
    TypeOK
    LostAuthenticationIsReported
    WeakeningIsReported
    ReportsMeanAccess
    SequencesAreTheChains
    CompanyNeverLowers
    RefusedPlansCostNothing
CHECK_DEADLOCK FALSE
