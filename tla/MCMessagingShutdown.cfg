SPECIFICATION MessagingSpec
CONSTANTS
    AppUnits = {}
    ModuleUnits = {c1}
    LegacyUnits = {}
    Drains = {g1, n1}
    Goroutines = {g1}
    Callers = {n1}
    AppWaiters = {}
    MaxExtraDone = 0
    Observers = {m1}
    Stoppers = {m1}
    Lifecycles = {m1}
    Gate <- MCGate
    NoService = NoService
    NotOpen = NotOpen
    PollJoins = TRUE
INVARIANTS HandlersUndisturbed
PROPERTIES ReleasedOnce
CHECK_DEADLOCK FALSE
