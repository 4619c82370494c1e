SPECIFICATION SystemSpec
CONSTANTS
    Scratches = {1, 2}
    Modes <- SymmetricModes
    LoopLimit = 32
    SwitchGroups <- Together
    MinGap = 6
    MinBoot = 2
    MaxLag = 2
    MaxResets = 0
    Pins = {}
PROPERTIES WritesKept PmuAssumptionsKept SleepIsWhole NoSpuriousSleep SleepWakes
