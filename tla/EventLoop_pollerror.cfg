CONSTANTS
    f1 = f1
    f2 = f2
    FD <- MCFD
    RuleTable <- TwoRules
    PollMayFail = TRUE
SPECIFICATION Spec
INVARIANT PollErrorThrows
