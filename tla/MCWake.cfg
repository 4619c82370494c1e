SPECIFICATION MCSpec
CONSTANTS
    Scratches = {0, 1, 2}
    Modes <- AllModes
    LoopLimit = 32
    SwitchGroups <- AnyGroups
    MinGap = 6
    MinBoot = 2
    MaxLag = 2
    MaxResets = 1
    Pins = {}
INVARIANT SuppliesGood
PROPERTIES SleepTimeExact LogicLast RequestsHeld SleepEnds
