SPECIFICATION MessagingSpec
CONSTANTS
    AppUnits = {}
    ModuleUnits = {c1}
    LegacyUnits = {}
    Drains = {g1, n1}
    Goroutines = {g1}
    Callers = {n1}
    AppWaiters = {}
    MaxExtraDone = 0
    Observers = {m1, m2}
    Stoppers = {m1, m2}
    Lifecycles = {m1, m2}
    Gate <- MCGate
    NoService = NoService
    NotOpen = NotOpen
    PollJoins = FALSE
INVARIANTS BrokerOutlivesHandlers
CHECK_DEADLOCK FALSE
