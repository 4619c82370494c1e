SPECIFICATION Spec
CONSTANTS
    Scratches = {1, 2}
    Modes = {{}, {"m"}}
INVARIANTS OneStrobePerWrite InSync
PROPERTY StableUnderStrobe
