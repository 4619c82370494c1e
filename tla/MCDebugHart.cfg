SPECIFICATION Spec
CONSTANTS
    RepeatFactor = 20
    Cores <- CoreVariants
CHECK_DEADLOCK FALSE
PROPERTIES ProgramUndisturbed ReportsInOrder FlagSendsOn
