SPECIFICATION LivenessSpec
CONSTANTS
    AppUnits = {}
    ModuleUnits = {c1}
    LegacyUnits = {}
    Drains = {g1}
    Goroutines = {g1}
    Callers = {}
    AppWaiters = {}
    MaxExtraDone = 0
    Observers = {m1}
    Stoppers = {m1}
    Lifecycles = {m1}
    Gate <- MCGate
    NoService = NoService
    NotOpen = NotOpen
    PollJoins = TRUE
    Subscribers = {c1, c2}
    MaxConns = 3
PROPERTIES StoppedConsumersLeave CloseTerminates LiveConsumersServed StoppedForgotten
CHECK_DEADLOCK FALSE
