SPECIFICATION PartsSpec
CONSTANTS
    Nothing = Nothing
    Clients = {c1, c2}
    Conns = 2
    MaxWrites = 1
    Calls = {k1, k2}
    Trip = 2
    Probes = 2
    NoMsg = NoMsg
    Messages = {m1, m2}
    Malformed = {m2}
    Consumers = {d1, t1}
    Tester = t1
    MaxReceives = 2
    alpha = alpha
    beta = beta
    gamma = gamma
    starter = starter
    typeT = typeT
    typeU = typeU
    Constructors = {alpha, beta, gamma}
    StartFunc = starter
    Types = {typeT, typeU}
    ParamLists <- MCParamLists
    Lists <- MCLists
    MaxDepth = 4
    Openings = 3
    NoSpan = NoSpan
INVARIANTS
    PartsTypeOK
    ExecuteSettles ReadsIsolated StaleOnlyThroughRace
    EndedHandsBack
    GlobalBuiltOnce CallsFit
    NoCallbackLeft NoLockCycle
    SpanNamesMain
PROPERTIES
    DeliversAtLeastOnce AnswersTold
CHECK_DEADLOCK FALSE
