SPECIFICATION Spec
CONSTANTS
    HeapSize = 8
    Increments = {1, 2, 3}
    MaxAsked = 6
    MaxOutput = 2
    TICK_DELAY = 1
    PinWords = {0, 4, 6}
    MaxCommands = 5
    SocketRoom = 2
    HalfBits = 2
    MaxCount = 40
CHECK_DEADLOCK FALSE
INVARIANTS AnswersInOrder HeapBlocks SelfTestsPass
PROPERTIES SimulationEnds
