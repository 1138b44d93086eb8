SPECIFICATION ServiceSpec
CONSTANTS
    AppUnits = {r1}
    ModuleUnits = {}
    LegacyUnits = {}
    Drains = {g1}
    Goroutines = {g1}
    Callers = {}
    AppWaiters = {}
    MaxExtraDone = 0
    Observers = {database, web}
    Stoppers = {}
    Gate <- MCWebGate
    NoService = NoService
    Requests = {r1, r2, r3}
    ApiRoutes = {r1, r3}
    Identified = {r1}
    Panicking = {r2}
    database = database
    web = web
INVARIANTS ServiceTypeOK CloseDrainsRequests CountedRequestsKeepDatabase
PROPERTIES PipelineEnds
CHECK_DEADLOCK FALSE
