SPECIFICATION Spec
CONSTANTS
    EVNT_NUM = 3
    Destinations = {fc}
    Words = {{0, 1, 2}}
    Masks = {{}}
    ApbEvents = {2}
    MaxSize = 8
INVARIANTS NetworkIsRoundRobin BoundedBypass LostEventsShow
PROPERTY Served
