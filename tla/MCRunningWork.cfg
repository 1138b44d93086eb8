SPECIFICATION FairWorkSpec
CONSTANTS
    AppUnits = {a1, a2}
    ModuleUnits = {m1}
    LegacyUnits = {l1}
    Drains = {d1, d2}
    AppWaiters = {w1}
    MaxExtraDone = 0
INVARIANTS WorkTypeOK NoDoubleClose
PROPERTIES DrainReturns DrainContract
