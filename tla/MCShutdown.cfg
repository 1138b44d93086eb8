SPECIFICATION FairSpec
CONSTANTS
    db = db
    broker = broker
    a1 = a1
    m1 = m1
    l1 = l1
    AppUnits = {a1}
    ModuleUnits = {m1}
    LegacyUnits = {l1}
    Drains = {g1, c1}
    Goroutines = {g1}
    Callers = {c1}
    AppWaiters = {}
    MaxExtraDone = 0
    Observers = {db, broker}
    Stoppers = {broker}
    Gate <- MCGate
    NoService = none
INVARIANTS NoCloseBeforeAllStopped NothingLeftUsing
PROPERTIES EveryObserverClosed
CHECK_DEADLOCK FALSE
