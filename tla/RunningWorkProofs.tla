------------------------- MODULE RunningWorkProofs -------------------------
(***************************************************************************)
(* Proofs about the running-work counters: the types, that no channel is   *)
(* closed twice and that no wakeup is lost, for any sets of units and of   *)
(* waiters and any number of unbalanced Done calls; and that they are an   *)
(* implementation of Drain while the calls are balanced.                   *)
(***************************************************************************)
EXTENDS RunningWorkRefinement, FiniteSetTheorems, TLAPS

\* The WaitGroup counter after a unit is added or removed.
LEMMA CardinalityChanges ==
    ASSUME NEW S, NEW T, NEW u \in T, IsFiniteSet(S)
    PROVE  /\ IsFiniteSet(S \cup {u}) /\ IsFiniteSet(S \ {u})
           /\ Cardinality(S \cap T) \in Nat
           /\ u \notin S => Cardinality((S \cup {u}) \cap T) = Cardinality(S \cap T) + 1
           /\ u \in S => Cardinality((S \ {u}) \cap T) = Cardinality(S \cap T) - 1
           /\ u \in S => Cardinality(S \cap T) > 0
<1>1. IsFiniteSet(S \cap T)
  BY FS_Subset
<1>2. Cardinality(S \cap T) \in Nat
  BY <1>1, FS_CardinalityType
<1>3. IsFiniteSet(S \cup {u}) /\ IsFiniteSet(S \ {u})
  BY FS_AddElement, FS_RemoveElement
<1>4. ASSUME u \notin S PROVE Cardinality((S \cup {u}) \cap T) = Cardinality(S \cap T) + 1
  <2>1. (S \cup {u}) \cap T = (S \cap T) \cup {u}
    OBVIOUS
  <2>2. u \notin S \cap T
    BY <1>4
  <2> QED
    BY <1>1, <2>1, <2>2, FS_AddElement
<1>5. ASSUME u \in S
      PROVE  /\ Cardinality((S \ {u}) \cap T) = Cardinality(S \cap T) - 1
             /\ Cardinality(S \cap T) > 0
  <2>1. (S \ {u}) \cap T = (S \cap T) \ {u}
    OBVIOUS
  <2>2. u \in S \cap T
    BY <1>5
  <2>3. Cardinality((S \ {u}) \cap T) = Cardinality(S \cap T) - 1
    BY <1>1, <2>1, <2>2, FS_RemoveElement
  <2>4. Cardinality((S \ {u}) \cap T) \in Nat
    BY <1>1, <2>1, FS_RemoveElement, FS_CardinalityType
  <2> QED
    BY <1>2, <2>3, <2>4
<1> QED
  BY <1>2, <1>3, <1>4, <1>5

\* The work of the other units leaves the deprecated counter alone.
LEMMA OtherUnits ==
    ASSUME NEW S, NEW T, NEW u, u \notin T
    PROVE  (S \cup {u}) \cap T = S \cap T /\ (S \ {u}) \cap T = S \cap T
  OBVIOUS

\* The invariant holds initially.
LEMMA WorkInvInit == WorkInit => WorkInv
<1> SUFFICES ASSUME WorkInit PROVE WorkInv
  OBVIOUS
<1>1. WorkTypeOK
  BY BoundAssumption DEF WorkInit, WorkTypeOK, Nil
<1>2. NoDoubleClose /\ NoLostWakeup /\ HoldsChannel
  BY DEF WorkInit, NoDoubleClose, NoLostWakeup, HoldsChannel
<1>3. LegacyCounts
  <2>1. active \cap LegacyUnits = {}
    BY DEF WorkInit
  <2> QED
    BY <2>1, FS_EmptySet DEF WorkInit, LegacyCounts
<1> QED
  BY <1>1, <1>2, <1>3 DEF WorkInv

\* Every step of the counters and of the waits preserves it.
LEMMA WorkInvStep == WorkInv /\ [WorkNext]_workVars => WorkInv'
<1> SUFFICES ASSUME WorkInv, [WorkNext]_workVars PROVE WorkInv'
  OBVIOUS
<1> USE UnitsAssumption, WaitersAssumption, BoundAssumption
<1> USE DEF WorkInv, WorkTypeOK
<1>1. ASSUME NEW u \in AppUnits, AddRunning(u) PROVE WorkInv'
  <2> USE <1>1 DEF AddRunning, Nil, Waiters, Units, workVars, counterVars, unitVars, waitVars
  <2>1. WorkTypeOK'
    OBVIOUS
  <2>2. NoDoubleClose'
    BY DEF NoDoubleClose
  <2>3. NoLostWakeup'
    BY DEF NoDoubleClose, NoLostWakeup, HoldsChannel
  <2>4. HoldsChannel'
    BY DEF HoldsChannel
  <2>5. LegacyCounts'
    <3>1. u \notin LegacyUnits /\ active' = active \cup {u} /\ UNCHANGED legacyWaitGroup
      OBVIOUS
    <3>2. IsFiniteSet(active') /\ active' \cap LegacyUnits = active \cap LegacyUnits
      BY <3>1, OtherUnits, FS_AddElement DEF LegacyCounts
    <3> QED
      BY <3>1, <3>2 DEF LegacyCounts
  <2> QED
    BY <2>1, <2>2, <2>3, <2>4, <2>5
<1>2. ASSUME NEW u \in AppUnits, DoneRunning(u) PROVE WorkInv'
  <2> USE <1>2 DEF DoneRunning, SignalIdle, Nil, Waiters, Units, workVars, counterVars, unitVars, waitVars
  <2>1. WorkTypeOK'
    OBVIOUS
  <2>2. NoDoubleClose'
    BY DEF NoDoubleClose
  <2>3. NoLostWakeup'
    BY DEF NoDoubleClose, NoLostWakeup, HoldsChannel
  <2>4. HoldsChannel'
    BY DEF HoldsChannel
  <2>5. LegacyCounts'
    <3>1. u \notin LegacyUnits /\ active' = active \ {u} /\ UNCHANGED legacyWaitGroup
      OBVIOUS
    <3>2. IsFiniteSet(active') /\ active' \cap LegacyUnits = active \cap LegacyUnits
      BY <3>1, OtherUnits, FS_RemoveElement DEF LegacyCounts
    <3> QED
      BY <3>1, <3>2 DEF LegacyCounts
  <2> QED
    BY <2>1, <2>2, <2>3, <2>4, <2>5
<1>3. ASSUME NEW u \in ModuleUnits, AddModuleTask(u) PROVE WorkInv'
  <2> USE <1>3 DEF AddModuleTask, Nil, Waiters, Units, workVars, counterVars, unitVars, waitVars
  <2>1. WorkTypeOK'
    OBVIOUS
  <2>2. NoDoubleClose'
    BY DEF NoDoubleClose
  <2>3. NoLostWakeup'
    BY DEF NoDoubleClose, NoLostWakeup, HoldsChannel
  <2>4. HoldsChannel'
    BY DEF HoldsChannel
  <2>5. LegacyCounts'
    <3>1. u \notin LegacyUnits /\ active' = active \cup {u} /\ UNCHANGED legacyWaitGroup
      OBVIOUS
    <3>2. IsFiniteSet(active') /\ active' \cap LegacyUnits = active \cap LegacyUnits
      BY <3>1, OtherUnits, FS_AddElement DEF LegacyCounts
    <3> QED
      BY <3>1, <3>2 DEF LegacyCounts
  <2> QED
    BY <2>1, <2>2, <2>3, <2>4, <2>5
<1>4. ASSUME NEW u \in ModuleUnits, DoneModuleTask(u) PROVE WorkInv'
  <2> USE <1>4 DEF DoneModuleTask, SignalIdle, Nil, Waiters, Units, workVars, counterVars, unitVars, waitVars
  <2>1. WorkTypeOK'
    OBVIOUS
  <2>2. NoDoubleClose'
    BY DEF NoDoubleClose
  <2>3. NoLostWakeup'
    BY DEF NoDoubleClose, NoLostWakeup, HoldsChannel
  <2>4. HoldsChannel'
    BY DEF HoldsChannel
  <2>5. LegacyCounts'
    <3>1. u \notin LegacyUnits /\ active' = active \ {u} /\ UNCHANGED legacyWaitGroup
      OBVIOUS
    <3>2. IsFiniteSet(active') /\ active' \cap LegacyUnits = active \cap LegacyUnits
      BY <3>1, OtherUnits, FS_RemoveElement DEF LegacyCounts
    <3> QED
      BY <3>1, <3>2 DEF LegacyCounts
  <2> QED
    BY <2>1, <2>2, <2>3, <2>4, <2>5
<1>5. ASSUME NEW u \in LegacyUnits, LegacyAdd(u) PROVE WorkInv'
  <2> USE <1>5 DEF LegacyAdd, Nil, Waiters, Units, workVars, counterVars, unitVars, waitVars
  <2>1. WorkTypeOK'
    BY CardinalityChanges DEF LegacyCounts
  <2>2. NoDoubleClose'
    BY DEF NoDoubleClose
  <2>3. NoLostWakeup'
    BY DEF NoDoubleClose, NoLostWakeup, HoldsChannel
  <2>4. HoldsChannel'
    BY DEF HoldsChannel
  <2>5. LegacyCounts'
    BY CardinalityChanges DEF LegacyCounts
  <2> QED
    BY <2>1, <2>2, <2>3, <2>4, <2>5
<1>6. ASSUME NEW u \in LegacyUnits, LegacyDone(u) PROVE WorkInv'
  <2> USE <1>6 DEF LegacyDone, Nil, Waiters, Units, workVars, counterVars, unitVars, waitVars
  <2>1. WorkTypeOK'
    <3>1. legacyWaitGroup' \in Nat
      <4>1. legacyWaitGroup > 0
        BY CardinalityChanges DEF LegacyCounts
      <4> QED
        BY <4>1
    <3>2. parked' \in [Drains -> {"none", "started", "parked", "returned"}]
      OBVIOUS
    <3>3. active' \subseteq Units
      OBVIOUS
    <3> QED
      BY <3>1, <3>2, <3>3
  <2>2. NoDoubleClose'
    BY DEF NoDoubleClose
  <2>3. NoLostWakeup'
    BY DEF NoDoubleClose, NoLostWakeup, HoldsChannel
  <2>4. HoldsChannel'
    BY DEF HoldsChannel
  <2>5. LegacyCounts'
    BY CardinalityChanges DEF LegacyCounts
  <2> QED
    BY <2>1, <2>2, <2>3, <2>4, <2>5
<1>7. ASSUME ExtraDoneRunning PROVE WorkInv'
  <2> USE <1>7 DEF ExtraDoneRunning, SignalIdle, Nil, Waiters, Units, workVars, counterVars, unitVars, waitVars
  <2>1. WorkTypeOK'
    OBVIOUS
  <2>2. NoDoubleClose'
    BY DEF NoDoubleClose
  <2>3. NoLostWakeup'
    BY DEF NoDoubleClose, NoLostWakeup, HoldsChannel
  <2>4. HoldsChannel'
    BY DEF HoldsChannel
  <2>5. LegacyCounts'
    BY DEF LegacyCounts
  <2> QED
    BY <2>1, <2>2, <2>3, <2>4, <2>5
<1>8. ASSUME ExtraDoneModuleTask PROVE WorkInv'
  <2> USE <1>8 DEF ExtraDoneModuleTask, SignalIdle, Nil, Waiters, Units, workVars, counterVars, unitVars, waitVars
  <2>1. WorkTypeOK'
    OBVIOUS
  <2>2. NoDoubleClose'
    BY DEF NoDoubleClose
  <2>3. NoLostWakeup'
    BY DEF NoDoubleClose, NoLostWakeup, HoldsChannel
  <2>4. HoldsChannel'
    BY DEF HoldsChannel
  <2>5. LegacyCounts'
    BY DEF LegacyCounts
  <2> QED
    BY <2>1, <2>2, <2>3, <2>4, <2>5
<1>9. ASSUME NEW w \in AppWaiters, StartAppWait(w) PROVE WorkInv'
  <2> USE <1>9 DEF StartAppWait, AppIdleSignal, Nil, Waiters, Units, workVars, counterVars, unitVars, waitVars
  <2>1. WorkTypeOK'
    <3>1. wait' \in [Waiters -> {"idle", "select", "legacy", "drained", "timedOut"}]
      OBVIOUS
    <3>2. CASE appRunning <= 0
      <4>1. made' = made + 1 /\ closed' = closed \cup {made + 1} /\ UNCHANGED <<idleApp, idleAll>>
        BY <3>2
      <4>2. signal' \in [Waiters -> 0..made']
        BY <3>2
      <4> QED
        BY <3>1, <4>1, <4>2
    <3>3. CASE ~(appRunning <= 0)
      <4>1. made' \in Nat /\ made <= made' /\ idleApp' \in 0..made' /\ UNCHANGED <<closed, idleAll>>
        BY <3>3
      <4>2. signal' = [signal EXCEPT ![w] = idleApp']
        BY <3>3
      <4>3. signal' \in [Waiters -> 0..made']
        BY <4>1, <4>2
      <4> QED
        BY <3>1, <4>1, <4>3
    <3> QED
      BY <3>2, <3>3
  <2>2. NoDoubleClose'
    BY DEF NoDoubleClose
  <2>3. NoLostWakeup'
    BY DEF NoDoubleClose, NoLostWakeup, HoldsChannel
  <2>4. HoldsChannel'
    BY DEF HoldsChannel
  <2>5. LegacyCounts'
    BY DEF LegacyCounts
  <2> QED
    BY <2>1, <2>2, <2>3, <2>4, <2>5
<1>10. ASSUME NEW w \in AppWaiters, AppReleased(w) PROVE WorkInv'
  <2> USE <1>10 DEF AppReleased, Nil, Waiters, Units, workVars, counterVars, unitVars, waitVars
  <2>1. WorkTypeOK'
    OBVIOUS
  <2>2. NoDoubleClose'
    BY DEF NoDoubleClose
  <2>3. NoLostWakeup'
    BY DEF NoDoubleClose, NoLostWakeup, HoldsChannel
  <2>4. HoldsChannel'
    BY DEF HoldsChannel
  <2>5. LegacyCounts'
    BY DEF LegacyCounts
  <2> QED
    BY <2>1, <2>2, <2>3, <2>4, <2>5
<1>11. ASSUME NEW d \in Drains, StartDrain(d) PROVE WorkInv'
  <2> USE <1>11 DEF StartDrain, AllIdleSignal, Nil, Waiters, Units, workVars, counterVars, unitVars, waitVars
  <2>1. WorkTypeOK'
    <3>1. wait' \in [Waiters -> {"idle", "select", "legacy", "drained", "timedOut"}]
      OBVIOUS
    <3>2. CASE appRunning <= 0 /\ moduleRunning <= 0
      <4>1. made' = made + 1 /\ closed' = closed \cup {made + 1} /\ UNCHANGED <<idleApp, idleAll>>
        BY <3>2
      <4>2. signal' \in [Waiters -> 0..made']
        BY <3>2
      <4> QED
        BY <3>1, <4>1, <4>2
    <3>3. CASE ~(appRunning <= 0 /\ moduleRunning <= 0)
      <4>1. made' \in Nat /\ made <= made' /\ idleAll' \in 0..made' /\ UNCHANGED <<closed, idleApp>>
        BY <3>3
      <4>2. signal' = [signal EXCEPT ![d] = idleAll']
        BY <3>3
      <4>3. signal' \in [Waiters -> 0..made']
        BY <4>1, <4>2
      <4> QED
        BY <3>1, <4>1, <4>3
    <3> QED
      BY <3>2, <3>3
  <2>2. NoDoubleClose'
    BY DEF NoDoubleClose
  <2>3. NoLostWakeup'
    BY DEF NoDoubleClose, NoLostWakeup, HoldsChannel
  <2>4. HoldsChannel'
    BY DEF HoldsChannel
  <2>5. LegacyCounts'
    BY DEF LegacyCounts
  <2> QED
    BY <2>1, <2>2, <2>3, <2>4, <2>5
<1>12. ASSUME NEW d \in Drains, DeadlineFires(d) PROVE WorkInv'
  <2> USE <1>12 DEF DeadlineFires, Nil, Waiters, Units, workVars, counterVars, unitVars, waitVars
  <2>1. WorkTypeOK'
    OBVIOUS
  <2>2. NoDoubleClose'
    BY DEF NoDoubleClose
  <2>3. NoLostWakeup'
    BY DEF NoDoubleClose, NoLostWakeup, HoldsChannel
  <2>4. HoldsChannel'
    BY DEF HoldsChannel
  <2>5. LegacyCounts'
    BY DEF LegacyCounts
  <2> QED
    BY <2>1, <2>2, <2>3, <2>4, <2>5
<1>13. ASSUME NEW d \in Drains, CountersIdle(d) PROVE WorkInv'
  <2> USE <1>13 DEF CountersIdle, Nil, Waiters, Units, workVars, counterVars, unitVars, waitVars
  <2>1. WorkTypeOK'
    OBVIOUS
  <2>2. NoDoubleClose'
    BY DEF NoDoubleClose
  <2>3. NoLostWakeup'
    BY DEF NoDoubleClose, NoLostWakeup, HoldsChannel
  <2>4. HoldsChannel'
    BY DEF HoldsChannel
  <2>5. LegacyCounts'
    BY DEF LegacyCounts
  <2> QED
    BY <2>1, <2>2, <2>3, <2>4, <2>5
<1>14. ASSUME NEW d \in Drains, LegacyWait(d) PROVE WorkInv'
  <2> USE <1>14 DEF LegacyWait, Nil, Waiters, Units, workVars, counterVars, unitVars, waitVars
  <2>1. WorkTypeOK'
    OBVIOUS
  <2>2. NoDoubleClose'
    BY DEF NoDoubleClose
  <2>3. NoLostWakeup'
    BY DEF NoDoubleClose, NoLostWakeup, HoldsChannel
  <2>4. HoldsChannel'
    BY DEF HoldsChannel
  <2>5. LegacyCounts'
    BY DEF LegacyCounts
  <2> QED
    BY <2>1, <2>2, <2>3, <2>4, <2>5
<1>15. ASSUME NEW d \in Drains, LegacyIdle(d) PROVE WorkInv'
  <2> USE <1>15 DEF LegacyIdle, Nil, Waiters, Units, workVars, counterVars, unitVars, waitVars
  <2>1. WorkTypeOK'
    OBVIOUS
  <2>2. NoDoubleClose'
    BY DEF NoDoubleClose
  <2>3. NoLostWakeup'
    BY DEF NoDoubleClose, NoLostWakeup, HoldsChannel
  <2>4. HoldsChannel'
    BY DEF HoldsChannel
  <2>5. LegacyCounts'
    BY DEF LegacyCounts
  <2> QED
    BY <2>1, <2>2, <2>3, <2>4, <2>5
<1>16. ASSUME NEW d \in Drains, GiveUp(d) PROVE WorkInv'
  <2> USE <1>16 DEF GiveUp, Nil, Waiters, Units, workVars, counterVars, unitVars, waitVars
  <2>1. WorkTypeOK'
    OBVIOUS
  <2>2. NoDoubleClose'
    BY DEF NoDoubleClose
  <2>3. NoLostWakeup'
    BY DEF NoDoubleClose, NoLostWakeup, HoldsChannel
  <2>4. HoldsChannel'
    BY DEF HoldsChannel
  <2>5. LegacyCounts'
    BY DEF LegacyCounts
  <2> QED
    BY <2>1, <2>2, <2>3, <2>4, <2>5
<1>17. CASE UNCHANGED workVars
  BY <1>17 DEF workVars, counterVars, unitVars, waitVars, NoDoubleClose, NoLostWakeup,
     HoldsChannel, LegacyCounts
<1> QED
  BY <1>1, <1>2, <1>3, <1>4, <1>5, <1>6, <1>7, <1>8, <1>9, <1>10, <1>11, <1>12, <1>13, <1>14, <1>15, <1>16, <1>17 DEF WorkNext, DrainStep

\* The counters and the waits keep their types in every behaviour.
THEOREM WorkTypes == WorkSpec => []WorkTypeOK
<1>1. WorkInv => WorkTypeOK
  BY DEF WorkInv
<1> QED
  BY <1>1, WorkInvInit, WorkInvStep, PTL DEF WorkSpec

\* No channel is ever closed twice: a Done never panics in signalIdle.
THEOREM NoChannelClosedTwice == WorkSpec => []NoDoubleClose
<1>1. WorkInv => NoDoubleClose
  BY DEF WorkInv
<1> QED
  BY <1>1, WorkInvInit, WorkInvStep, PTL DEF WorkSpec

\* No wakeup is lost, for any number of waiters and of unbalanced Done calls.
THEOREM NoWakeupLost == WorkSpec => []NoLostWakeup
<1>1. WorkInv => NoLostWakeup
  BY DEF WorkInv
<1> QED
  BY <1>1, WorkInvInit, WorkInvStep, PTL DEF WorkSpec

-----------------------------------------------------------------------------
(* The counters, channels and goroutines implement the promise of Drain while every   *)
(* Done pairs with an Add.                                                            *)

\* The invariant the refinement rests on.
RefInv == WorkInv /\ Counts

\* A bucket is empty exactly when no unit it counts is running.
LEMMA EmptyBucket ==
    ASSUME NEW S, NEW T, IsFiniteSet(S)
    PROVE  /\ Cardinality(S \cap T) \in Nat
           /\ Cardinality(S \cap T) = 0 <=> S \cap T = {}
<1>1. IsFiniteSet(S \cap T)
  BY FS_Subset
<1> QED
  BY <1>1, FS_CardinalityType, FS_EmptySet

\* Initially nothing runs and the counters are zero.
LEMMA RefInvInit == WorkInit => RefInv
<1> SUFFICES ASSUME WorkInit PROVE RefInv
  OBVIOUS
<1>1. Counts
  <2>1. active \cap AppUnits = {} /\ active \cap ModuleUnits = {}
    BY DEF WorkInit
  <2> QED
    BY <2>1, FS_EmptySet DEF WorkInit, Counts
<1> QED
  BY <1>1, WorkInvInit DEF RefInv

\* Every step but an unbalanced Done keeps the counters equal to what runs.
LEMMA RefInvStep ==
    ASSUME RefInv, [WorkNext]_workVars, extraDone' = 0
    PROVE  RefInv'
<1>1. WorkInv'
  BY WorkInvStep DEF RefInv
<1>2. Counts'
  <2> USE UnitsAssumption DEF RefInv, Counts
  <2>1. ASSUME NEW u \in AppUnits, AddRunning(u) PROVE Counts'
    <3>1. u \notin ModuleUnits /\ u \notin active /\ active' = active \cup {u}
      BY <2>1 DEF AddRunning
    <3>2. IsFiniteSet(active') /\ Cardinality(active' \cap AppUnits) = Cardinality(active \cap AppUnits) + 1
      BY <3>1, CardinalityChanges
    <3>3. active' \cap ModuleUnits = active \cap ModuleUnits
      BY <3>1, OtherUnits
    <3> QED
      BY <2>1, <3>2, <3>3 DEF AddRunning
  <2>2. ASSUME NEW u \in AppUnits, DoneRunning(u) PROVE Counts'
    <3>1. u \notin ModuleUnits /\ u \in active /\ active' = active \ {u}
      BY <2>2 DEF DoneRunning
    <3>2. IsFiniteSet(active') /\ Cardinality(active' \cap AppUnits) = Cardinality(active \cap AppUnits) - 1
      BY <3>1, CardinalityChanges
    <3>3. active' \cap ModuleUnits = active \cap ModuleUnits
      BY <3>1, OtherUnits
    <3> QED
      BY <2>2, <3>2, <3>3 DEF DoneRunning
  <2>3. ASSUME NEW u \in ModuleUnits, AddModuleTask(u) PROVE Counts'
    <3>1. u \notin AppUnits /\ u \notin active /\ active' = active \cup {u}
      BY <2>3 DEF AddModuleTask
    <3>2. IsFiniteSet(active') /\ Cardinality(active' \cap ModuleUnits) = Cardinality(active \cap ModuleUnits) + 1
      BY <3>1, CardinalityChanges
    <3>3. active' \cap AppUnits = active \cap AppUnits
      BY <3>1, OtherUnits
    <3> QED
      BY <2>3, <3>2, <3>3 DEF AddModuleTask
  <2>4. ASSUME NEW u \in ModuleUnits, DoneModuleTask(u) PROVE Counts'
    <3>1. u \notin AppUnits /\ u \in active /\ active' = active \ {u}
      BY <2>4 DEF DoneModuleTask
    <3>2. IsFiniteSet(active') /\ Cardinality(active' \cap ModuleUnits) = Cardinality(active \cap ModuleUnits) - 1
      BY <3>1, CardinalityChanges
    <3>3. active' \cap AppUnits = active \cap AppUnits
      BY <3>1, OtherUnits
    <3> QED
      BY <2>4, <3>2, <3>3 DEF DoneModuleTask
  <2>5. ASSUME NEW u \in LegacyUnits, LegacyAdd(u) PROVE Counts'
    <3>1. u \notin AppUnits /\ u \notin ModuleUnits /\ active' = active \cup {u}
      BY <2>5 DEF LegacyAdd
    <3>2. IsFiniteSet(active')
      BY <3>1, FS_AddElement
    <3>3. active' \cap AppUnits = active \cap AppUnits /\ active' \cap ModuleUnits = active \cap ModuleUnits
      BY <3>1, OtherUnits
    <3> QED
      BY <2>5, <3>2, <3>3 DEF LegacyAdd, counterVars
  <2>6. ASSUME NEW u \in LegacyUnits, LegacyDone(u) PROVE Counts'
    <3>1. u \notin AppUnits /\ u \notin ModuleUnits /\ active' = active \ {u}
      BY <2>6 DEF LegacyDone
    <3>2. IsFiniteSet(active')
      BY <3>1, FS_RemoveElement
    <3>3. active' \cap AppUnits = active \cap AppUnits /\ active' \cap ModuleUnits = active \cap ModuleUnits
      BY <3>1, OtherUnits
    <3> QED
      BY <2>6, <3>2, <3>3 DEF LegacyDone, counterVars
  <2>7. ~ExtraDoneRunning /\ ~ExtraDoneModuleTask
    BY DEF ExtraDoneRunning, ExtraDoneModuleTask
  <2>8. ASSUME \/ \E w \in AppWaiters : StartAppWait(w) \/ AppReleased(w)
               \/ \E d \in Drains : StartDrain(d) \/ DrainStep(d)
               \/ UNCHANGED workVars
        PROVE  Counts'
    BY <2>8 DEF StartAppWait, AppReleased, StartDrain, DrainStep, DeadlineFires, CountersIdle,
       LegacyWait, LegacyIdle, GiveUp, workVars, counterVars, unitVars
  <2> QED
    BY <2>1, <2>2, <2>3, <2>4, <2>5, <2>6, <2>7, <2>8 DEF WorkNext
<1> QED
  BY <1>1, <1>2 DEF RefInv

\* The initial state of the counters is the initial state of Drain.
LEMMA RefinesInit == WorkInit => D!Init
  BY DEF WorkInit, Waiters, D!Init, SeenBy

\* Every step is a step of Drain or leaves what Drain sees alone.
LEMMA RefinesStep ==
    ASSUME RefInv, RefInv', [WorkNext]_workVars
    PROVE  [D!Next]_(D!vars)
<1> DEFINE phase == [d \in Drains |-> SeenBy(d)]
           Counted == AppUnits \cup ModuleUnits
<1> USE UnitsAssumption, WaitersAssumption
<1> USE DEF RefInv, WorkInv, WorkTypeOK, Waiters
<1>1. appRunning <= 0 /\ moduleRunning <= 0 <=> active \cap Counted = {}
  <2>1. /\ appRunning \in Nat /\ moduleRunning \in Nat
        /\ appRunning = 0 <=> active \cap AppUnits = {}
        /\ moduleRunning = 0 <=> active \cap ModuleUnits = {}
    BY EmptyBucket DEF Counts
  <2> QED
    BY <2>1
<1>2. appRunning' <= 0 /\ moduleRunning' <= 0 <=> active' \cap Counted = {}
  <2>1. /\ appRunning' \in Nat /\ moduleRunning' \in Nat
        /\ appRunning' = 0 <=> active' \cap AppUnits = {}
        /\ moduleRunning' = 0 <=> active' \cap ModuleUnits = {}
    BY EmptyBucket DEF Counts
  <2> QED
    BY <2>1
\* A Done moves exactly the drains that wait, and only when it empties both buckets.
<1>3. ASSUME wait' = wait, parked' = parked, signal' = signal,
             SignalIdle(appRunning', moduleRunning')
      PROVE  phase' = [d \in Drains |->
                         IF phase[d] = "waiting" /\ active' \cap Counted = {}
                         THEN "counted" ELSE phase[d]]
  <2>1. ASSUME NEW d \in Drains, SeenBy(d) = "waiting", active' \cap Counted = {}
        PROVE  SeenBy(d)' = "counted"
    <3>1. wait[d] = "select" /\ signal[d] \notin closed
      BY <2>1 DEF SeenBy
    <3>2. signal[d] = idleAll /\ idleAll # Nil
      BY <3>1 DEF NoLostWakeup, HoldsChannel
    <3>3. signal'[d] \in closed'
      BY <1>2, <1>3, <2>1, <3>2 DEF SignalIdle
    <3> QED
      BY <1>3, <3>1, <3>3 DEF SeenBy
  <2>2. ASSUME NEW d \in Drains, SeenBy(d) = "waiting", active' \cap Counted # {}
        PROVE  SeenBy(d)' = "waiting"
    <3>1. wait[d] = "select" /\ signal[d] \notin closed
      BY <2>2 DEF SeenBy
    <3>2. signal[d] = idleAll /\ idleAll # Nil
      BY <3>1 DEF NoLostWakeup, HoldsChannel
    <3>3. signal'[d] \notin closed'
      BY <1>2, <1>3, <2>2, <3>1, <3>2 DEF SignalIdle, NoDoubleClose
    <3> QED
      BY <1>3, <3>1, <3>3 DEF SeenBy
  <2>3. ASSUME NEW d \in Drains, SeenBy(d) # "waiting"
        PROVE  SeenBy(d)' = SeenBy(d)
    BY <1>3, <2>3 DEF SeenBy, SignalIdle
  <2> QED
    BY <2>1, <2>2, <2>3
\* A step that leaves the drains and the closed channels alone is not seen.
<1>4. ASSUME wait' = wait, parked' = parked, signal' = signal, closed' = closed
      PROVE  phase' = phase
  BY <1>4 DEF SeenBy
<1>5. ASSUME NEW u \in AppUnits, AddRunning(u) PROVE D!Register(u)
  BY <1>4, <1>5 DEF AddRunning, waitVars, D!Register
<1>6. ASSUME NEW u \in AppUnits, DoneRunning(u) PROVE D!FinishCounted(u)
  <2>1. phase' = [d \in Drains |-> IF phase[d] = "waiting" /\ active' \cap Counted = {}
                                   THEN "counted" ELSE phase[d]]
    BY <1>3, <1>6 DEF DoneRunning, waitVars
  <2> QED
    BY <1>6, <2>1 DEF DoneRunning, D!FinishCounted
<1>7. ASSUME NEW u \in ModuleUnits, AddModuleTask(u) PROVE D!Register(u)
  BY <1>4, <1>7 DEF AddModuleTask, waitVars, D!Register
<1>8. ASSUME NEW u \in ModuleUnits, DoneModuleTask(u) PROVE D!FinishCounted(u)
  <2>1. phase' = [d \in Drains |-> IF phase[d] = "waiting" /\ active' \cap Counted = {}
                                   THEN "counted" ELSE phase[d]]
    BY <1>3, <1>8 DEF DoneModuleTask, waitVars
  <2> QED
    BY <1>8, <2>1 DEF DoneModuleTask, D!FinishCounted
<1>9. ASSUME NEW u \in LegacyUnits, LegacyAdd(u) PROVE D!Register(u)
  BY <1>4, <1>9 DEF LegacyAdd, waitVars, counterVars, D!Register
<1>10. ASSUME NEW u \in LegacyUnits, LegacyDone(u) PROVE D!FinishLegacy(u)
  <2> DEFINE freed == {d \in Drains : /\ legacyWaitGroup = 1
                                      /\ wait[d] = "legacy" /\ parked[d] = "parked"}
  <2>1. freed \in SUBSET {d \in Drains : phase[d] = "counted"}
    BY DEF SeenBy
  <2>2. active' \cap LegacyUnits = {} \/ freed = {}
    <3>1. legacyWaitGroup' = legacyWaitGroup - 1
      BY <1>10 DEF LegacyDone
    <3>2. legacyWaitGroup' = 0 => active' \cap LegacyUnits = {}
      BY EmptyBucket DEF LegacyCounts
    <3> QED
      BY <3>1, <3>2
  <2>3. phase' = [d \in Drains |-> IF d \in freed THEN "settled" ELSE phase[d]]
    <3>1. ASSUME NEW d \in Drains
          PROVE  SeenBy(d)' = IF d \in freed THEN "settled" ELSE SeenBy(d)
      BY <1>10 DEF LegacyDone, counterVars, SeenBy
    <3> QED
      BY <3>1
  <2> QED
    BY <1>10, <2>1, <2>2, <2>3 DEF LegacyDone, D!FinishLegacy
<1>11. ~ExtraDoneRunning /\ ~ExtraDoneModuleTask
  BY DEF ExtraDoneRunning, ExtraDoneModuleTask, Counts
<1>12. ASSUME NEW w \in AppWaiters, StartAppWait(w) \/ AppReleased(w)
       PROVE  UNCHANGED D!vars
  <2>1. ASSUME NEW d \in Drains PROVE SeenBy(d)' = SeenBy(d)
    <3>1. d # w /\ wait'[d] = wait[d] /\ signal'[d] = signal[d] /\ parked'[d] = parked[d]
      BY <1>12 DEF StartAppWait, AppReleased, AppIdleSignal
    <3>2. signal[d] \in closed' <=> signal[d] \in closed
      BY <1>12 DEF StartAppWait, AppReleased, AppIdleSignal, counterVars
    <3> QED
      BY <3>1, <3>2 DEF SeenBy
  <2> QED
    BY <1>12, <2>1 DEF StartAppWait, AppReleased, unitVars, D!vars
<1>13. ASSUME NEW d \in Drains, StartDrain(d) PROVE D!Begin(d)
  <2>1. ASSUME NEW e \in Drains \ {d} PROVE SeenBy(e)' = SeenBy(e)
    <3>1. wait'[e] = wait[e] /\ signal'[e] = signal[e] /\ parked'[e] = parked[e]
      BY <1>13 DEF StartDrain, AllIdleSignal
    <3>2. signal[e] \in closed' <=> signal[e] \in closed
      BY <1>13 DEF StartDrain, AllIdleSignal
    <3> QED
      BY <3>1, <3>2 DEF SeenBy
  <2>2. wait[d] = "idle" /\ wait'[d] = "select"
    BY <1>13 DEF StartDrain
  <2>3. CASE appRunning <= 0 /\ moduleRunning <= 0
    <3>1. signal'[d] \in closed'
      BY <1>13, <2>3 DEF StartDrain, AllIdleSignal
    <3> QED
      BY <1>1, <1>13, <2>1, <2>2, <2>3, <3>1 DEF StartDrain, unitVars, SeenBy, D!Begin, D!Move
  <2>4. CASE ~(appRunning <= 0 /\ moduleRunning <= 0)
    <3>1. signal'[d] = idleAll' /\ idleAll' # Nil
      BY <1>13, <2>4 DEF StartDrain, AllIdleSignal, Nil
    <3>2. signal'[d] \notin closed'
      BY <3>1 DEF NoDoubleClose
    <3> QED
      BY <1>1, <1>13, <2>1, <2>2, <2>4, <3>2 DEF StartDrain, unitVars, SeenBy, D!Begin, D!Move
  <2> QED
    BY <2>3, <2>4
<1>14. ASSUME NEW d \in Drains, DeadlineFires(d) PROVE UNCHANGED D!vars
  BY <1>4, <1>14 DEF DeadlineFires, counterVars, unitVars, D!vars
<1>15. ASSUME NEW d \in Drains, CountersIdle(d) PROVE UNCHANGED D!vars
  <2>1. ASSUME NEW e \in Drains PROVE SeenBy(e)' = SeenBy(e)
    BY <1>15 DEF CountersIdle, counterVars, SeenBy
  <2> QED
    BY <1>15, <2>1 DEF CountersIdle, unitVars, D!vars
<1>16. ASSUME NEW d \in Drains, LegacyWait(d) PROVE D!SeeLegacyEmpty(d) \/ UNCHANGED D!vars
  <2>1. ASSUME NEW e \in Drains \ {d} PROVE SeenBy(e)' = SeenBy(e)
    BY <1>16 DEF LegacyWait, counterVars, SeenBy
  <2>2. UNCHANGED active
    BY <1>16 DEF LegacyWait, unitVars
  <2>3. CASE legacyWaitGroup = 0 /\ wait[d] = "legacy"
    <3>1. active \cap LegacyUnits = {}
      BY <2>3, EmptyBucket DEF LegacyCounts
    <3>2. SeenBy(d) = "counted" /\ SeenBy(d)' = "settled"
      BY <1>16, <2>3 DEF LegacyWait, SeenBy
    <3> QED
      BY <2>1, <2>2, <3>1, <3>2 DEF D!SeeLegacyEmpty, D!Move
  <2>4. CASE ~(legacyWaitGroup = 0 /\ wait[d] = "legacy")
    <3>1. SeenBy(d)' = SeenBy(d)
      BY <1>16, <2>4 DEF LegacyWait, counterVars, SeenBy
    <3> QED
      BY <2>1, <2>2, <3>1 DEF D!vars
  <2> QED
    BY <2>3, <2>4
<1>17. ASSUME NEW d \in Drains, LegacyIdle(d) PROVE D!Report(d)
  <2>1. ASSUME NEW e \in Drains \ {d} PROVE SeenBy(e)' = SeenBy(e)
    BY <1>17 DEF LegacyIdle, counterVars, SeenBy
  <2>2. SeenBy(d) = "settled" /\ SeenBy(d)' = "drained"
    BY <1>17 DEF LegacyIdle, SeenBy
  <2>3. UNCHANGED active
    BY <1>17 DEF LegacyIdle, unitVars
  <2>4. phase' = [phase EXCEPT ![d] = "drained"]
    BY <2>1, <2>2
  <2>5. phase[d] = "settled"
    BY <2>2
  <2> QED
    BY <2>3, <2>4, <2>5 DEF D!Report, D!Move
<1>18. ASSUME NEW d \in Drains, GiveUp(d) PROVE D!GiveUp(d)
  <2>1. ASSUME NEW e \in Drains \ {d} PROVE SeenBy(e)' = SeenBy(e)
    BY <1>18 DEF GiveUp, counterVars, SeenBy
  <2>2. SeenBy(d) \in {"waiting", "counted", "settled"} /\ SeenBy(d)' = "timedOut"
    BY <1>18 DEF GiveUp, SeenBy
  <2>3. UNCHANGED active
    BY <1>18 DEF GiveUp, unitVars
  <2>4. phase' = [phase EXCEPT ![d] = "timedOut"]
    BY <2>1, <2>2
  <2>5. phase[d] \in {"waiting", "counted", "settled"}
    BY <2>2
  <2> QED
    BY <2>3, <2>4, <2>5 DEF D!GiveUp, D!Move
<1>19. CASE UNCHANGED workVars
  BY <1>4, <1>19 DEF workVars, counterVars, unitVars, waitVars, D!vars
<1> QED
  BY <1>5, <1>6, <1>7, <1>8, <1>9, <1>10, <1>11, <1>12, <1>13, <1>14, <1>15, <1>16, <1>17,
     <1>18, <1>19 DEF WorkNext, DrainStep, D!Next

\* A drain that reports success saw the counted work empty, and after that the
\* deprecated WaitGroup; and no moment of emptiness is missed by a drain that waits.
THEOREM DrainRefinement == MaxExtraDone = 0 => (WorkSpec => DrainContract)
<1> SUFFICES ASSUME MaxExtraDone = 0 PROVE WorkSpec => DrainContract
  OBVIOUS
<1>1. WorkInit => RefInv
  BY RefInvInit
<1>2. RefInv /\ [WorkNext]_workVars => RefInv'
  <2> SUFFICES ASSUME RefInv, [WorkNext]_workVars PROVE RefInv'
    OBVIOUS
  <2>1. extraDone' = 0
    BY WorkInvStep DEF RefInv, WorkInv, WorkTypeOK
  <2> QED
    BY <2>1, RefInvStep
<1>3. WorkInit => D!Init
  BY RefinesInit
<1>4. RefInv /\ RefInv' /\ [WorkNext]_workVars => [D!Next]_(D!vars)
  BY RefinesStep
<1> QED
  BY <1>1, <1>2, <1>3, <1>4, PTL DEF WorkSpec, DrainContract, D!Spec

=============================================================================
