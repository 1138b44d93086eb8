------------------------------ MODULE Shutdown ------------------------------
(***************************************************************************)
(* The graceful shutdown pipeline (pkg/base/observer/subject.go) over the  *)
(* running-work counters: every observer of a snapshot is stopped, then    *)
(* the work is drained once, then every observer is closed.                *)
(*                                                                         *)
(* Initialize starts one goroutine that waits for a termination signal, so *)
(* a service is named by its goroutine.  Notify runs the same pipeline on  *)
(* the goroutine of its caller; nothing keeps two pipelines apart.  A unit *)
(* of work may be gated by an observer that is a Stopper: it does not      *)
(* register once that observer has been stopped (observer.go, Stopper).    *)
(***************************************************************************)
EXTENDS RunningWork, Sequences, SequencesExt

CONSTANTS
    Goroutines,  \* one per call of Initialize: waits for a signal, then notifies
    Callers,     \* calls of Notify
    Observers,   \* everything that may be attached
    Stoppers,    \* the observers that also implement Stopper
    Gate,        \* the observer that lets a unit of work in, if any does
    NoService    \* services before the first Initialize

ASSUME NotifiersAssumption ==
    /\ Goroutines \cap Callers = {}
    /\ Drains = Goroutines \cup Callers
    /\ NoService \notin Goroutines

ASSUME ObserversAssumption ==
    /\ Stoppers \subseteq Observers
    /\ DOMAIN Gate = Units

Notifiers == Drains

VARIABLES
    services,   \* the service Attach and Notify use
    observers,  \* the observers attached to each service, in order
    signalled,  \* goroutines with a termination signal in their channel
    stage,      \* where each pipeline is
    target,     \* the service it notifies
    snapshot,   \* the observers it took
    at,         \* its position in them
    stopped,    \* observers stopped so far
    closes      \* how many times each observer has been closed

pipelineVars == <<stage, target, snapshot, at>>
subjectVars  == <<services, observers, signalled>>
effectVars   == <<stopped, closes>>
shutdownVars == <<pipelineVars, subjectVars, effectVars>>
allVars      == <<workVars, shutdownVars>>

ShutdownInit ==
    /\ services = NoService
    /\ observers = [g \in Goroutines |-> <<>>]
    /\ signalled = {}
    /\ stage = [n \in Notifiers |-> "idle"]
    /\ target = [n \in Notifiers |-> NoService]
    /\ snapshot = [n \in Notifiers |-> <<>>]
    /\ at = [n \in Notifiers |-> 1]
    /\ stopped = {}
    /\ closes = [o \in Observers |-> 0]

----------------------------------------------------------------------------
\* Initialize: a new service replaces the current one, whose goroutine stays.
Initialize(g) ==
    /\ g \in Goroutines /\ target[g] = NoService
    /\ services' = g
    /\ target' = [target EXCEPT ![g] = g]
    /\ UNCHANGED <<workVars, observers, signalled, stage, snapshot, at, effectVars>>

\* A termination signal reaches the channel of every goroutine waiting for one.
Signal ==
    /\ services # NoService
    /\ signalled' = {g \in Goroutines : target[g] = g}
    /\ signalled' # signalled
    /\ UNCHANGED <<workVars, services, observers, pipelineVars, effectVars>>

\* Attach of a fresh observer; before Initialize it aborts the process.
Attach(o) ==
    /\ services # NoService
    /\ \A g \in Goroutines : o \notin ToSet(observers[g])
    /\ observers' = [observers EXCEPT ![services] = Append(@, o)]
    /\ UNCHANGED <<workVars, services, signalled, pipelineVars, effectVars>>

\* The goroutine of Initialize receives the signal.
ReceiveSignal(g) ==
    /\ g \in signalled
    /\ stage[g] = "idle"
    /\ stage' = [stage EXCEPT ![g] = "notify"]
    /\ UNCHANGED <<workVars, subjectVars, target, snapshot, at, effectVars>>

\* Notify reads services and returns at once when there is none.
Notify(c) ==
    /\ c \in Callers /\ stage[c] = "idle"
    /\ target' = [target EXCEPT ![c] = services]
    /\ stage' = [stage EXCEPT ![c] = IF services = NoService THEN "done" ELSE "notify"]
    /\ UNCHANGED <<workVars, subjectVars, snapshot, at, effectVars>>

\* notify works on a copy of the observers.
TakeSnapshot(n) ==
    /\ stage[n] = "notify"
    /\ snapshot' = [snapshot EXCEPT ![n] = observers[target[n]]]
    /\ stage' = [stage EXCEPT ![n] = "stopping"]
    /\ UNCHANGED <<workVars, subjectVars, target, at, effectVars>>

Current(n) == snapshot[n][at[n]]

\* The observer pipeline n calls Stop, or Close, on now.
Visiting(n, s) == stage[n] = s /\ at[n] <= Len(snapshot[n])

Advance(n) == at' = [at EXCEPT ![n] = @ + 1]

\* Stop is taken for granted on every observer.
StopObserverAny(n) ==
    /\ Visiting(n, "stopping")
    /\ stopped' = stopped \cup {Current(n)}
    /\ Advance(n)
    /\ UNCHANGED <<workVars, subjectVars, stage, target, snapshot, closes>>

\* Phase 1: stop the observers that implement Stopper.
StopObserver(n) ==
    /\ Visiting(n, "stopping")
    /\ stopped' = stopped \cup ({Current(n)} \cap Stoppers)
    /\ Advance(n)
    /\ UNCHANGED <<workVars, subjectVars, stage, target, snapshot, closes>>

\* The drain begins while observers remain to be stopped.
BeginDrainEarly(n) ==
    /\ stage[n] = "stopping"
    /\ at[n] >= Len(snapshot[n])
    /\ stage' = [stage EXCEPT ![n] = "draining"]
    /\ StartDrain(n)
    /\ UNCHANGED <<subjectVars, target, snapshot, at, effectVars>>

\* Phase 2: every observer has been stopped; drain the running work once.
BeginDrain(n) ==
    /\ stage[n] = "stopping"
    /\ at[n] > Len(snapshot[n])
    /\ stage' = [stage EXCEPT ![n] = "draining"]
    /\ StartDrain(n)
    /\ UNCHANGED <<subjectVars, target, snapshot, at, effectVars>>

EndDrain(n) ==
    /\ stage[n] = "draining"
    /\ wait[n] \in {"drained", "timedOut"}
    /\ stage' = [stage EXCEPT ![n] = "closing"]
    /\ at' = [at EXCEPT ![n] = 1]
    /\ UNCHANGED <<workVars, subjectVars, target, snapshot, effectVars>>

\* The close of the last observer is skipped.
CloseObserverSkipsLast(n) ==
    /\ Visiting(n, "closing")
    /\ closes' = IF at[n] = Len(snapshot[n]) /\ at[n] > 1 THEN closes
                 ELSE [closes EXCEPT ![Current(n)] = @ + 1]
    /\ Advance(n)
    /\ UNCHANGED <<workVars, subjectVars, stage, target, snapshot, stopped>>

\* Phase 3: close every observer, in the order they were attached.
CloseObserver(n) ==
    /\ Visiting(n, "closing")
    /\ closes' = [closes EXCEPT ![Current(n)] = @ + 1]
    /\ Advance(n)
    /\ UNCHANGED <<workVars, subjectVars, stage, target, snapshot, stopped>>

EndNotify(n) ==
    /\ stage[n] = "closing"
    /\ at[n] > Len(snapshot[n])
    /\ stage' = [stage EXCEPT ![n] = "done"]
    /\ UNCHANGED <<workVars, subjectVars, target, snapshot, at, effectVars>>

----------------------------------------------------------------------------
\* The work of the application and of the modules.  A gated unit registers only
\* while its gate is open.
GateOpen(u) == Gate[u] \notin stopped

UnitStep ==
    /\ \/ \E u \in AppUnits : (GateOpen(u) /\ AddRunning(u)) \/ DoneRunning(u)
       \/ \E u \in ModuleUnits : (GateOpen(u) /\ AddModuleTask(u)) \/ DoneModuleTask(u)
       \/ \E u \in LegacyUnits : (GateOpen(u) /\ LegacyAdd(u)) \/ LegacyDone(u)
    /\ UNCHANGED shutdownVars

DrainProgress(n) == DrainStep(n) /\ UNCHANGED shutdownVars

\* What the goroutine of pipeline n does.
PipelineStep(n) ==
    \/ ReceiveSignal(n)
    \/ TakeSnapshot(n)
    \/ StopObserver(n)
    \/ BeginDrain(n)
    \/ EndDrain(n)
    \/ CloseObserver(n)
    \/ EndNotify(n)

Next ==
    \/ \E g \in Goroutines : Initialize(g)
    \/ Signal
    \/ \E o \in Observers : Attach(o)
    \/ \E c \in Callers : Notify(c)
    \/ \E n \in Notifiers : PipelineStep(n) \/ DrainProgress(n)
    \/ UnitStep

Init == WorkInit /\ ShutdownInit

\* The goroutines are scheduled and the deadline of a drain elapses.  Neither the
\* application nor the signals are obliged to anything.
Fairness ==
    \A n \in Notifiers :
        /\ WF_allVars(PipelineStep(n))
        /\ WF_allVars(DeadlineFires(n) /\ UNCHANGED shutdownVars)
        /\ WF_allVars((CountersIdle(n) \/ LegacyIdle(n) \/ GiveUp(n)) /\ UNCHANGED shutdownVars)

Spec == Init /\ [][Next]_allVars

FairSpec == Spec /\ Fairness

----------------------------------------------------------------------------
(* Properties. *)

\* The pipeline variables have their types.
ShutdownTypeOK ==
    /\ services \in Goroutines \cup {NoService}
    /\ observers \in [Goroutines -> Seq(Observers)]
    /\ signalled \subseteq Goroutines
    /\ stage \in [Notifiers -> {"idle", "notify", "stopping", "draining", "closing", "done"}]
    /\ target \in [Notifiers -> Goroutines \cup {NoService}]
    /\ snapshot \in [Notifiers -> Seq(Observers)]
    /\ at \in [Notifiers -> Nat \ {0}]
    /\ stopped \subseteq Stoppers
    /\ closes \in [Observers -> Nat]

Noticed(n) == ToSet(snapshot[n])

\* The barrier of notify: nothing is closed before some pipeline that took it has
\* stopped every Stopper it took and has ended its drain.
NoCloseBeforeAllStopped ==
    \A o \in Observers : closes[o] > 0 =>
        \E n \in Notifiers : /\ o \in Noticed(n)
                             /\ Noticed(n) \cap Stoppers \subseteq stopped
                             /\ wait[n] \in {"drained", "timedOut"}

\* "Release the resources, now that nothing is left using them": after a drain that
\* did not time out, no unit gated by an observer of that pipeline is running, and
\* none comes back while the observers are closed one by one, whatever other
\* pipelines, restarted work and late Attach calls interleave.
NothingLeftUsing ==
    \A n \in Notifiers : wait[n] = "drained" =>
        \A u \in active : Gate[u] \notin Noticed(n) \cap Stoppers

\* Every observer attached when a shutdown begins ends up closed, whether or not the
\* drain timed out.
EveryObserverClosed ==
    \A n \in Notifiers, o \in Observers :
        stage[n] = "notify" /\ o \in ToSet(observers[target[n]]) ~> closes[o] > 0

=============================================================================
