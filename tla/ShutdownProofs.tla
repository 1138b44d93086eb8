--------------------------- MODULE ShutdownProofs ---------------------------
(***************************************************************************)
(* Proofs about the shutdown pipeline, for any services, any calls of      *)
(* Notify, any observers and any gated work: nothing is closed before its  *)
(* pipeline has stopped every Stopper and drained, and after a drain that  *)
(* succeeded no gated work of that pipeline runs again.  What a drain has  *)
(* seen is taken from the refinement of Drain.                             *)
(***************************************************************************)
EXTENDS Shutdown, RunningWorkProofs

Ended == {"drained", "timedOut"}

\* Where a service comes from.
Targets ==
    /\ \A g \in signalled : target[g] = g
    /\ \A n \in Notifiers : stage[n] = "notify" => target[n] # NoService

\* A pipeline begins its drain once, when it has stopped every Stopper it took.
Barrier ==
    \A n \in Notifiers :
        /\ stage[n] \in {"idle", "notify"} => at[n] = 1
        /\ stage[n] \in {"idle", "notify", "stopping"} => wait[n] = "idle"
        /\ stage[n] = "closing" => wait[n] \in Ended
        /\ stage[n] = "done" => wait[n] \in Ended \cup {"idle"}
        /\ stage[n] = "stopping" =>
              \A i \in 1..Len(snapshot[n]) :
                  i < at[n] /\ snapshot[n][i] \in Stoppers => snapshot[n][i] \in stopped
        /\ wait[n] # "idle" => Noticed(n) \cap Stoppers \subseteq stopped

\* Whatever is closed, a pipeline whose drain has ended took it.
Closers ==
    \A o \in Observers : closes[o] > 0 =>
        \E n \in Notifiers : o \in Noticed(n) /\ wait[n] \in Ended

\* What a drain has seen empty stays empty of the work its pipeline gates.
Gated(n) == {u \in Units : Gate[u] \in Noticed(n) \cap Stoppers}

SeenEmpty ==
    \A n \in Notifiers :
        /\ SeenBy(n) \in {"counted", "settled", "drained"} =>
              active \cap (AppUnits \cup ModuleUnits) \cap Gated(n) = {}
        /\ SeenBy(n) \in {"settled", "drained"} => active \cap LegacyUnits \cap Gated(n) = {}

\* What does not depend on the gates, and all of it.
PipelineInv == RefInv /\ ShutdownTypeOK /\ Targets /\ Barrier /\ Closers

ShutdownInv == PipelineInv /\ SeenEmpty

\* The pipelines over work that registers whenever it likes, gate or no gate.
WorkMoves ==
    /\ \E u \in Units : \/ AddRunning(u) \/ DoneRunning(u)
                        \/ AddModuleTask(u) \/ DoneModuleTask(u)
                        \/ LegacyAdd(u) \/ LegacyDone(u)
    /\ UNCHANGED shutdownVars

UngatedNext == Next \/ WorkMoves

-----------------------------------------------------------------------------
(* The pipelines against the counters. *)

LEMMA GatedIsUngated ==
    /\ UnitStep => WorkMoves
    /\ [Next]_allVars => [UngatedNext]_allVars
  BY DEF UnitStep, WorkMoves, Units, UngatedNext

\* A step of the pipelines is a step of the counters or leaves them alone, and the
\* pipelines make no Done that no Add pairs with.
LEMMA StepsOfWork ==
    ASSUME [UngatedNext]_allVars PROVE [WorkNext]_workVars /\ extraDone' = extraDone
<1>1. CASE \E n \in Notifiers : PipelineStep(n)
  BY <1>1 DEF PipelineStep, ReceiveSignal, TakeSnapshot, StopObserver, BeginDrain, EndDrain,
     CloseObserver, EndNotify, WorkNext, StartDrain, workVars, unitVars, Notifiers
<1>2. CASE \E n \in Notifiers : DrainProgress(n)
  BY <1>2 DEF DrainProgress, DrainStep, WorkNext, Notifiers, DeadlineFires, CountersIdle,
     LegacyWait, LegacyIdle, GiveUp, unitVars
<1>3. CASE WorkMoves
  BY <1>3 DEF WorkMoves, WorkNext, AddRunning, DoneRunning, AddModuleTask, DoneModuleTask,
     LegacyAdd, LegacyDone
<1>4. CASE UNCHANGED workVars
  BY <1>4 DEF workVars, unitVars
<1> QED
  BY <1>1, <1>2, <1>3, <1>4, GatedIsUngated DEF UngatedNext, Next, Initialize, Signal, Attach, Notify, allVars

\* A drain ends once, and only the pipeline it belongs to begins it.
LEMMA Waits ==
    ASSUME WorkTypeOK, [UngatedNext]_allVars, NEW n \in Notifiers
    PROVE  /\ wait[n] \in Ended => wait'[n] = wait[n]
           /\ wait[n] # "idle" => wait'[n] # "idle"
           /\ wait[n] = "idle" /\ wait'[n] # "idle" => BeginDrain(n)
<1> USE DEF WorkTypeOK, Waiters, Notifiers, Ended
<1>1. CASE \E m \in Notifiers : PipelineStep(m) /\ ~BeginDrain(m)
  BY <1>1 DEF PipelineStep, ReceiveSignal, TakeSnapshot, StopObserver, EndDrain,
     CloseObserver, EndNotify, workVars, waitVars
<1>2. CASE \E m \in Notifiers : BeginDrain(m)
  BY <1>2 DEF BeginDrain, StartDrain
<1>3. CASE \E m \in Notifiers : DrainProgress(m)
  BY <1>3 DEF DrainProgress, DrainStep, DeadlineFires, CountersIdle, LegacyWait, LegacyIdle, GiveUp
<1>4. CASE WorkMoves
  BY <1>4 DEF WorkMoves, AddRunning, DoneRunning, AddModuleTask, DoneModuleTask,
     LegacyAdd, LegacyDone, waitVars
<1>5. CASE UNCHANGED workVars
  BY <1>5 DEF workVars, waitVars
<1> QED
  BY <1>1, <1>2, <1>3, <1>4, <1>5, GatedIsUngated DEF UngatedNext, Next, Initialize, Signal, Attach, Notify, allVars, PipelineStep

LEMMA StoppedKept == [UngatedNext]_allVars => stopped \subseteq stopped'
  BY DEF UngatedNext, WorkMoves, Next, Initialize, Signal, Attach, Notify, allVars, shutdownVars,
     PipelineStep, ReceiveSignal, TakeSnapshot, StopObserver, BeginDrain, EndDrain, CloseObserver,
     EndNotify, DrainProgress, UnitStep, WorkMoves, effectVars

\* A unit that registers found its gate open.
LEMMA Gates ==
    ASSUME [Next]_allVars PROVE \A u \in active' \ active : Gate[u] \notin stopped
<1>1. CASE UnitStep
  BY <1>1 DEF UnitStep, GateOpen, AddRunning, DoneRunning, AddModuleTask, DoneModuleTask,
     LegacyAdd, LegacyDone
<1>2. CASE \E m \in Notifiers : PipelineStep(m)
  BY <1>2 DEF PipelineStep, ReceiveSignal, TakeSnapshot, StopObserver, BeginDrain, StartDrain,
     EndDrain, CloseObserver, EndNotify, workVars, unitVars
<1>3. CASE \E m \in Notifiers : DrainProgress(m)
  BY <1>3 DEF DrainProgress, DrainStep, DeadlineFires, CountersIdle, LegacyWait, LegacyIdle,
     GiveUp, unitVars
<1>4. CASE UNCHANGED workVars
  BY <1>4 DEF workVars, unitVars
<1> QED
  BY <1>1, <1>2, <1>3, <1>4 DEF Next, Initialize, Signal, Attach, Notify, allVars

\* A pipeline that began its drain keeps the observers it took.
LEMMA Snapshots ==
    ASSUME [UngatedNext]_allVars, ShutdownTypeOK, Barrier, NEW n \in Notifiers, wait[n] # "idle"
    PROVE  snapshot'[n] = snapshot[n]
<1>1. CASE \E m \in Notifiers : TakeSnapshot(m)
  BY <1>1 DEF TakeSnapshot, Barrier, ShutdownTypeOK
<1>2. CASE \A m \in Notifiers : ~TakeSnapshot(m)
  <2>1. snapshot' = snapshot
    BY <1>2 DEF UngatedNext, Next, Initialize, Signal, Attach, Notify, allVars, shutdownVars, PipelineStep,
       ReceiveSignal, StopObserver, BeginDrain, EndDrain, CloseObserver, EndNotify,
       DrainProgress, UnitStep, WorkMoves, pipelineVars
  <2> QED
    BY <2>1
<1> QED
  BY <1>1, <1>2

-----------------------------------------------------------------------------
(* Each part of the invariant. *)

LEMMA ShutdownInvInit == Init => ShutdownInv
<1> SUFFICES ASSUME Init PROVE ShutdownInv
  OBVIOUS
<1> USE NotifiersAssumption DEF Init, ShutdownInit
<1>1. RefInv
  BY RefInvInit
<1>2. ShutdownTypeOK /\ Targets
  BY DEF ShutdownTypeOK, Targets, Notifiers
<1>3. Barrier /\ SeenEmpty
  BY DEF WorkInit, Waiters, Barrier, SeenEmpty, SeenBy, Notifiers, Noticed
<1>4. Closers
  BY DEF Closers
<1> QED
  BY <1>1, <1>2, <1>3, <1>4 DEF ShutdownInv, PipelineInv

\* A counter of each observer, after one more.
LEMMA OneMore ==
    ASSUME NEW S, NEW f \in [S -> Nat], NEW o
    PROVE  [f EXCEPT ![o] = f[o] + 1] \in [S -> Nat]
<1> DEFINE g == [f EXCEPT ![o] = f[o] + 1]
<1>1. g = [x \in S |-> IF x = o THEN f[o] + 1 ELSE f[x]]
  OBVIOUS
<1>2. ASSUME NEW x \in S PROVE g[x] \in Nat
  BY <1>1
<1> QED
  BY <1>1, <1>2

LEMMA ShutdownTypesStep ==
    ASSUME ShutdownTypeOK, Targets, [UngatedNext]_allVars
    PROVE  ShutdownTypeOK' /\ Targets'
<1> USE NotifiersAssumption, ObserversAssumption DEF ShutdownTypeOK, Targets, Notifiers
<1>1. CASE \E g \in Goroutines : Initialize(g)
  BY <1>1 DEF Initialize, effectVars
<1>2. CASE Signal
  BY <1>2 DEF Signal, pipelineVars, effectVars
<1>3. CASE \E o \in Observers : Attach(o)
  BY <1>3 DEF Attach, pipelineVars, effectVars
<1>4. CASE \E c \in Callers : Notify(c)
  BY <1>4 DEF Notify, subjectVars, effectVars
<1>5. ASSUME NEW n \in Notifiers, PipelineStep(n) PROVE ShutdownTypeOK' /\ Targets'
  <2> USE <1>5 DEF subjectVars, effectVars, Visiting, Advance, Current
  <2>1. CASE ReceiveSignal(n)
    BY <2>1 DEF ReceiveSignal
  <2>2. CASE TakeSnapshot(n)
    BY <2>2 DEF TakeSnapshot
  <2>3. CASE StopObserver(n)
    BY <2>3 DEF StopObserver
  <2>4. CASE BeginDrain(n)
    BY <2>4 DEF BeginDrain
  <2>5. CASE EndDrain(n)
    BY <2>5 DEF EndDrain
  <2>6. CASE CloseObserver(n)
    <3>1. closes' = [closes EXCEPT ![Current(n)] = closes[Current(n)] + 1]
      BY <2>6 DEF CloseObserver
    <3>2. closes' \in [Observers -> Nat]
      BY <3>1, OneMore
    <3>3. at' \in [Notifiers -> Nat \ {0}]
      BY <2>6 DEF CloseObserver
    <3> QED
      BY <2>6, <3>2, <3>3 DEF CloseObserver
  <2>7. CASE EndNotify(n)
    BY <2>7 DEF EndNotify
  <2> QED
    BY <2>1, <2>2, <2>3, <2>4, <2>5, <2>6, <2>7 DEF PipelineStep
<1>6. CASE UNCHANGED shutdownVars
  BY <1>6 DEF shutdownVars, pipelineVars, subjectVars, effectVars
<1> QED
  BY <1>1, <1>2, <1>3, <1>4, <1>5, <1>6 DEF UngatedNext, Next, DrainProgress, UnitStep, WorkMoves, allVars

LEMMA BarrierStep ==
    ASSUME WorkTypeOK, ShutdownTypeOK, Barrier, [UngatedNext]_allVars
    PROVE  Barrier'
<1> SUFFICES ASSUME NEW n \in Notifiers
    PROVE  /\ stage'[n] \in {"idle", "notify"} => at'[n] = 1
           /\ stage'[n] \in {"idle", "notify", "stopping"} => wait'[n] = "idle"
           /\ stage'[n] = "closing" => wait'[n] \in Ended
           /\ stage'[n] = "done" => wait'[n] \in Ended \cup {"idle"}
           /\ stage'[n] = "stopping" =>
                 \A i \in 1..Len(snapshot'[n]) :
                     i < at'[n] /\ snapshot'[n][i] \in Stoppers => snapshot'[n][i] \in stopped'
           /\ wait'[n] # "idle" => Noticed(n)' \cap Stoppers \subseteq stopped'
  BY DEF Barrier
<1>1. wait[n] # "idle" => snapshot'[n] = snapshot[n]
  BY Snapshots
<1>2. stopped \subseteq stopped'
  BY StoppedKept
<1>3. /\ wait[n] \in Ended => wait'[n] = wait[n]
      /\ wait[n] # "idle" => wait'[n] # "idle"
      /\ wait[n] = "idle" /\ wait'[n] # "idle" => BeginDrain(n)
  BY Waits
<1>4. wait'[n] # "idle" => Noticed(n)' \cap Stoppers \subseteq stopped'
  <2>1. CASE wait[n] # "idle"
    BY <1>1, <1>2, <2>1 DEF Barrier, Noticed
  <2>2. CASE BeginDrain(n)
    <3>1. \A i \in 1..Len(snapshot[n]) : snapshot[n][i] \in Stoppers => snapshot[n][i] \in stopped
      BY <2>2 DEF BeginDrain, Barrier, ShutdownTypeOK
    <3>2. Noticed(n) \cap Stoppers \subseteq stopped
      <4>1. DOMAIN snapshot[n] = 1..Len(snapshot[n])
        BY DEF ShutdownTypeOK
      <4> QED
        BY <3>1, <4>1 DEF Noticed, ToSet
    <3> QED
      BY <2>2, <3>2 DEF BeginDrain, Noticed, effectVars
  <2> QED
    BY <1>3, <2>1, <2>2
<1>5. CASE stage'[n] = stage[n] /\ at'[n] = at[n] /\ snapshot'[n] = snapshot[n]
  <2>1. wait[n] = "idle" /\ wait'[n] # "idle" => FALSE
    BY <1>3, <1>5 DEF BeginDrain, ShutdownTypeOK
  <2> QED
    BY <1>2, <1>3, <1>4, <1>5, <2>1 DEF Barrier
<1>6. CASE PipelineStep(n)
  <2> USE <1>2, <1>3, <1>4 DEF Barrier, ShutdownTypeOK
  <2>1. CASE ReceiveSignal(n)
    BY <2>1 DEF ReceiveSignal, workVars, waitVars
  <2>2. CASE TakeSnapshot(n)
    BY <2>2 DEF TakeSnapshot, workVars, waitVars
  <2>3. CASE StopObserver(n)
    <3>1. /\ stage'[n] = "stopping" /\ wait'[n] = "idle" /\ snapshot'[n] = snapshot[n]
          /\ at'[n] = at[n] + 1 /\ stopped' = stopped \cup ({snapshot[n][at[n]]} \cap Stoppers)
      BY <2>3 DEF StopObserver, Visiting, Advance, Current, workVars, waitVars
    <3>2. ASSUME NEW i \in 1..Len(snapshot'[n]), i < at'[n], snapshot'[n][i] \in Stoppers
          PROVE  snapshot'[n][i] \in stopped'
      <4>1. CASE i = at[n]
        BY <3>1, <3>2, <4>1
      <4>2. CASE i < at[n]
        BY <2>3, <3>1, <3>2, <4>2 DEF StopObserver, Visiting
      <4> QED
        BY <3>1, <3>2, <4>1, <4>2
    <3> QED
      BY <3>1, <3>2
  <2>4. CASE BeginDrain(n)
    BY <2>4 DEF BeginDrain
  <2>5. CASE EndDrain(n)
    BY <2>5 DEF EndDrain, Ended, workVars, waitVars
  <2>6. CASE CloseObserver(n)
    BY <2>6 DEF CloseObserver, Visiting, workVars, waitVars
  <2>7. CASE EndNotify(n)
    BY <2>7 DEF EndNotify
  <2> QED
    BY <1>6, <2>1, <2>2, <2>3, <2>4, <2>5, <2>6, <2>7 DEF PipelineStep
<1>7. CASE n \in Callers /\ Notify(n)
  BY <1>2, <1>3, <1>4, <1>7 DEF Notify, Barrier, ShutdownTypeOK, workVars, waitVars
<1>8. (stage'[n] = stage[n] /\ at'[n] = at[n] /\ snapshot'[n] = snapshot[n])
      \/ PipelineStep(n) \/ (n \in Callers /\ Notify(n))
  <2> USE DEF ShutdownTypeOK
  <2>1. CASE \E m \in Notifiers \ {n} : PipelineStep(m)
    BY <2>1 DEF PipelineStep, ReceiveSignal, TakeSnapshot, StopObserver, BeginDrain, EndDrain,
       CloseObserver, EndNotify, Advance
  <2>2. CASE \E c \in Callers \ {n} : Notify(c)
    BY <2>2 DEF Notify, Notifiers
  <2>3. CASE \E g \in Goroutines : Initialize(g)
    BY <2>3 DEF Initialize
  <2>4. CASE UNCHANGED pipelineVars
    BY <2>4 DEF pipelineVars
  <2> QED
    BY <2>1, <2>2, <2>3, <2>4 DEF UngatedNext, Next, Signal, Attach, DrainProgress, UnitStep, WorkMoves, allVars, shutdownVars
<1> QED
  BY <1>5, <1>6, <1>7, <1>8

LEMMA ClosersStep ==
    ASSUME WorkTypeOK, ShutdownTypeOK, Barrier, Closers, [UngatedNext]_allVars
    PROVE  Closers'
<1> SUFFICES ASSUME NEW o \in Observers, closes'[o] > 0
    PROVE  \E n \in Notifiers : o \in Noticed(n)' /\ wait'[n] \in Ended
  BY DEF Closers
<1>1. ASSUME NEW n \in Notifiers, wait[n] \in Ended
      PROVE  wait'[n] \in Ended /\ Noticed(n)' = Noticed(n)
  BY <1>1, Waits, Snapshots DEF Ended, Noticed
<1>2. CASE closes[o] > 0
  BY <1>1, <1>2 DEF Closers
<1>3. CASE ~(closes[o] > 0)
  <2>1. PICK n \in Notifiers : CloseObserver(n)
    BY <1>3 DEF UngatedNext, Next, Initialize, Signal, Attach, Notify, allVars, shutdownVars, PipelineStep,
       ReceiveSignal, TakeSnapshot, StopObserver, BeginDrain, EndDrain, EndNotify,
       DrainProgress, UnitStep, WorkMoves, effectVars
  <2>2. o = snapshot[n][at[n]] /\ at[n] \in DOMAIN snapshot[n]
    BY <1>3, <2>1 DEF CloseObserver, Current, Visiting, ShutdownTypeOK
  <2>3. o \in Noticed(n) /\ wait[n] \in Ended
    BY <2>1, <2>2 DEF CloseObserver, Visiting, Noticed, ToSet, Barrier
  <2> QED
    BY <1>1, <2>3
<1> QED
  BY <1>2, <1>3

LEMMA PipelineInvStep == PipelineInv /\ [UngatedNext]_allVars => PipelineInv'
<1> SUFFICES ASSUME PipelineInv, [UngatedNext]_allVars PROVE PipelineInv'
  OBVIOUS
<1> USE DEF PipelineInv
<1>1. RefInv'
  BY StepsOfWork, RefInvStep DEF RefInv, Counts
<1>2. ShutdownTypeOK' /\ Targets'
  BY ShutdownTypesStep
<1>3. Barrier'
  BY BarrierStep DEF RefInv, WorkInv
<1>4. Closers'
  BY ClosersStep DEF RefInv, WorkInv
<1> QED
  BY <1>1, <1>2, <1>3, <1>4

\* Initially nothing runs, nothing is attached and no pipeline has begun.
LEMMA PipelineInvInit == Init => PipelineInv
  BY ShutdownInvInit DEF ShutdownInv

\* Pipelines that run over work as it likes leave the drains their promise.
LEMMA PipelinesKeepDrain ==
    Init /\ [][UngatedNext]_allVars => [](PipelineInv) /\ DrainContract
<1>1. PipelineInv /\ PipelineInv' /\ [UngatedNext]_allVars => [D!Next]_(D!vars)
  BY StepsOfWork, RefinesStep DEF PipelineInv, RefInv, Counts
<1>2. Init => D!Init
  BY RefinesInit DEF Init
<1> QED
  BY <1>1, <1>2, PipelineInvInit, PipelineInvStep, PTL DEF DrainContract, D!Spec

\* What a step of Drain newly sees empty is empty.
LEMMA NewlySeen ==
    ASSUME RefInv, RefInv', [UngatedNext]_allVars, NEW n \in Notifiers
    PROVE  \/ SeenBy(n)' = SeenBy(n)
           \/ SeenBy(n)' = "counted" /\ active' \cap (AppUnits \cup ModuleUnits) = {}
           \/ SeenBy(n)' = "settled" /\ SeenBy(n) = "counted" /\ active' \cap LegacyUnits = {}
           \/ SeenBy(n)' = "drained" /\ SeenBy(n) = "settled"
           \/ SeenBy(n)' \in {"waiting", "timedOut"}
<1> DEFINE phase == [d \in Drains |-> SeenBy(d)]
<1>1. [D!Next]_(D!vars)
  BY StepsOfWork, RefinesStep DEF RefInv, Counts
<1>2. phase[n] = SeenBy(n) /\ phase'[n] = SeenBy(n)'
  BY DEF Notifiers
<1>3. \/ phase'[n] = phase[n]
      \/ phase'[n] = "counted" /\ active' \cap (AppUnits \cup ModuleUnits) = {}
      \/ phase'[n] = "settled" /\ phase[n] = "counted" /\ active' \cap LegacyUnits = {}
      \/ phase'[n] = "drained" /\ phase[n] = "settled"
      \/ phase'[n] \in {"waiting", "timedOut"}
  BY <1>1 DEF D!Next, D!vars, D!Register, D!FinishCounted, D!FinishLegacy, D!Begin,
     D!SeeLegacyEmpty, D!Report, D!GiveUp, D!Move, Notifiers
<1> QED
  BY <1>2, <1>3

\* No step registers gated work once the pipeline has stopped its gates.
LEMMA SeenEmptyStep ==
    ASSUME PipelineInv, PipelineInv', SeenEmpty, [Next]_allVars
    PROVE  SeenEmpty'
<1> SUFFICES ASSUME NEW n \in Notifiers
    PROVE  /\ SeenBy(n)' \in {"counted", "settled", "drained"} =>
                 active' \cap (AppUnits \cup ModuleUnits) \cap Gated(n)' = {}
           /\ SeenBy(n)' \in {"settled", "drained"} => active' \cap LegacyUnits \cap Gated(n)' = {}
  BY DEF SeenEmpty
<1> USE GatedIsUngated DEF PipelineInv
<1>1. ASSUME SeenBy(n) \in {"counted", "settled", "drained"}
      PROVE  active' \cap Gated(n)' \subseteq active \cap Gated(n)
  <2>1. wait[n] # "idle"
    BY <1>1 DEF SeenBy
  <2>2. Gated(n)' = Gated(n)
    BY <2>1, Snapshots DEF Gated, Noticed
  <2>3. Noticed(n) \cap Stoppers \subseteq stopped
    BY <2>1 DEF Barrier
  <2> QED
    BY <2>2, <2>3, Gates DEF Gated
<1> QED
  BY <1>1, NewlySeen DEF SeenEmpty

LEMMA ShutdownInvStep == ShutdownInv /\ [Next]_allVars => ShutdownInv'
  BY PipelineInvStep, SeenEmptyStep, GatedIsUngated DEF ShutdownInv

-----------------------------------------------------------------------------

\* The services, pipelines and observers keep their types in every behaviour, with any
\* number of Initialize, Attach and Notify calls (subject.go:36-140).
THEOREM ShutdownTypes == Spec => []ShutdownTypeOK
<1>1. ShutdownInv => ShutdownTypeOK
  BY DEF ShutdownInv, PipelineInv
<1> QED
  BY <1>1, ShutdownInvInit, ShutdownInvStep, PTL DEF Spec

\* Nothing is closed before a pipeline that took it has stopped every Stopper it took and
\* has ended its drain, however many pipelines interleave (subject.go, notify).
THEOREM CloseAfterAllStopped == Spec => []NoCloseBeforeAllStopped
<1>1. ShutdownInv => NoCloseBeforeAllStopped
  BY DEF ShutdownInv, PipelineInv, Closers, Barrier, Ended, NoCloseBeforeAllStopped
<1> QED
  BY <1>1, ShutdownInvInit, ShutdownInvStep, PTL DEF Spec

\* After a drain that succeeded no unit gated by an observer of that pipeline runs, and
\* none comes back, for any work and any pipelines (subject.go, notify; observer.go, Stopper).
THEOREM NothingLeftUsingAlways == Spec => []NothingLeftUsing
<1>1. ShutdownInv => NothingLeftUsing
  <2> SUFFICES ASSUME ShutdownInv, NEW n \in Notifiers, wait[n] = "drained", NEW u \in active
      PROVE  Gate[u] \notin Noticed(n) \cap Stoppers
    BY DEF NothingLeftUsing
  <2>1. SeenBy(n) = "drained"
    BY DEF SeenBy
  <2>2. u \in Units
    BY DEF ShutdownInv, PipelineInv, RefInv, WorkInv, WorkTypeOK
  <2> QED
    BY <2>1, <2>2 DEF ShutdownInv, PipelineInv, SeenEmpty, Gated, Units
<1> QED
  BY <1>1, ShutdownInvInit, ShutdownInvStep, PTL DEF Spec

\* The shutdown pipelines use the running work as it is meant to be used: every Done has
\* its Add and each pipeline waits once, so their drains keep the contract of Drain with no
\* bound on what the application does (subject.go over single_wait_group.go).
THEOREM ShutdownKeepsDrain == Spec => DrainContract
<1>1. [Next]_allVars => [UngatedNext]_allVars
  BY GatedIsUngated
<1> QED
  BY <1>1, PipelinesKeepDrain, PTL DEF Spec

=============================================================================
