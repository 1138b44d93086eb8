SPECIFICATION FairWorkSpec
CONSTANTS
    AppUnits = {a1, a2}
    ModuleUnits = {m1}
    LegacyUnits = {}
    Drains = {d1}
    AppWaiters = {w1}
    MaxExtraDone = 2
INVARIANTS NoLostWakeup
PROPERTIES AppWaitReleased
