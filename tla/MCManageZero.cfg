SPECIFICATION SystemSpec
CONSTANTS
    Scratches = {0, 1}
    Modes <- SkewedModes
    LoopLimit = 32
    SwitchGroups <- AtOnce
    MinGap = 6
    MinBoot = 2
    MaxLag = 1
    MaxResets = 0
    Pins = {}
PROPERTIES NoSpuriousSleep
