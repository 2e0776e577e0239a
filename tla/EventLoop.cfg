CONSTANTS
    f1 = f1
    f2 = f2
    FD <- MCFD
    RuleTable <- ThreeRules
    PollMayFail = TRUE
SPECIFICATION FairSpec
INVARIANTS
    Aligned
    CancelledOnce
    SuccessExplained
    DispatchComplete
PROPERTIES
    CallbackReady
    ExhaustedLeaves
    NoStarvation
