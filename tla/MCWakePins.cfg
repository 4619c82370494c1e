SPECIFICATION MCSpec
CONSTANTS
    Scratches = {1}
    Modes <- RetainAll
    LoopLimit = 8
    SwitchGroups <- AtOnce
    MinGap = 6
    MinBoot = 2
    MaxLag = 1
    MaxResets = 0
    Pins = {"hold", "step"}
PROPERTIES PinsLeaveNoTrace
