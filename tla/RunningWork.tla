---------------------------- MODULE RunningWork ----------------------------
(***************************************************************************)
(* The running-work counters of the graceful shutdown                      *)
(* (pkg/base/observer/single_wait_group.go).                               *)
(*                                                                         *)
(* Work is counted in two buckets, application work and module tasks,      *)
(* guarded by runningMu; whoever waits for a bucket gets a channel that is *)
(* closed when the bucket empties.  Every function that holds runningMu    *)
(* for its whole body is one action.  A channel is a number: 0 is the nil  *)
(* channel, made is how many have been made, closed holds the closed ones. *)
(***************************************************************************)
EXTENDS Integers, FiniteSets

CONSTANTS
    AppUnits,     \* units of application work (AddRunning / DoneRunning)
    ModuleUnits,  \* long lived module tasks (AddModuleTask / DoneModuleTask)
    LegacyUnits,  \* work registered on the deprecated GetWaitGroup()
    Drains,       \* calls of WaitRunningTimeout
    AppWaiters,   \* calls that wait on appIdleSignal
    MaxExtraDone  \* bound: how many Done calls no Add pairs with

ASSUME UnitsAssumption ==
    /\ AppUnits \cap ModuleUnits = {}
    /\ AppUnits \cap LegacyUnits = {}
    /\ ModuleUnits \cap LegacyUnits = {}

ASSUME WaitersAssumption == Drains \cap AppWaiters = {}

ASSUME BoundAssumption == MaxExtraDone \in Nat

Units == AppUnits \cup ModuleUnits \cup LegacyUnits
Waiters == Drains \cup AppWaiters
Nil == 0

VARIABLES
    appRunning, moduleRunning,  \* the two counters
    idleApp, idleAll,           \* the channel the waiters of a bucket share, or Nil
    made, closed,               \* channels made so far, and the closed ones
    legacyWaitGroup,            \* counter of the deprecated WaitGroup
    active,                     \* units between their Add and their Done
    extraDone,                  \* unbalanced Done calls made so far
    wait,                       \* where each waiter is
    signal,                     \* the channel each waiter selects on
    deadline,                   \* the time.After channel of each drain
    parked                      \* the goroutine a drain parks in wg.Wait

counterVars == <<appRunning, moduleRunning, idleApp, idleAll, made, closed>>
unitVars    == <<active, legacyWaitGroup, extraDone>>
waitVars    == <<wait, signal, deadline, parked>>
workVars    == <<counterVars, unitVars, waitVars>>

WorkInit ==
    /\ appRunning = 0 /\ moduleRunning = 0
    /\ idleApp = Nil /\ idleAll = Nil
    /\ made = 0 /\ closed = {}
    /\ legacyWaitGroup = 0
    /\ active = {}
    /\ extraDone = 0
    /\ wait = [w \in Waiters |-> "idle"]
    /\ signal = [w \in Waiters |-> Nil]
    /\ deadline = [d \in Drains |-> "unset"]
    /\ parked = [d \in Drains |-> "none"]

----------------------------------------------------------------------------
(* The counters. *)

\* An equality in signalIdle, the bug its comment warns about.
SignalIdleOnEqual(app, mod) ==
    /\ closed' = closed \cup (IF app = 0 THEN {idleApp} \ {Nil} ELSE {})
                        \cup (IF app = 0 /\ mod = 0 THEN {idleAll} \ {Nil} ELSE {})
    /\ idleApp' = IF app = 0 THEN Nil ELSE idleApp
    /\ idleAll' = IF app = 0 /\ mod = 0 THEN Nil ELSE idleAll

\* The channel variable is not reset after the close.
SignalIdleKeepsChannel(app, mod) ==
    /\ closed' = closed \cup (IF app <= 0 THEN {idleApp} \ {Nil} ELSE {})
                        \cup (IF app <= 0 /\ mod <= 0 THEN {idleAll} \ {Nil} ELSE {})
    /\ UNCHANGED <<idleApp, idleAll>>

\* idleAll is signalled as soon as one of the buckets is empty.
SignalIdleEither(app, mod) ==
    /\ closed' = closed \cup (IF app <= 0 THEN {idleApp} \ {Nil} ELSE {})
                        \cup (IF app <= 0 \/ mod <= 0 THEN {idleAll} \ {Nil} ELSE {})
    /\ idleApp' = IF app <= 0 THEN Nil ELSE idleApp
    /\ idleAll' = IF app <= 0 \/ mod <= 0 THEN Nil ELSE idleAll

\* signalIdle, with the counters a Done leaves behind.
SignalIdle(app, mod) ==
    /\ closed' = closed \cup (IF app <= 0 THEN {idleApp} \ {Nil} ELSE {})
                        \cup (IF app <= 0 /\ mod <= 0 THEN {idleAll} \ {Nil} ELSE {})
    /\ idleApp' = IF app <= 0 THEN Nil ELSE idleApp
    /\ idleAll' = IF app <= 0 /\ mod <= 0 THEN Nil ELSE idleAll

AddRunning(u) ==
    /\ u \in AppUnits \ active
    /\ active' = active \cup {u}
    /\ appRunning' = appRunning + 1
    /\ UNCHANGED <<moduleRunning, idleApp, idleAll, made, closed,
                   legacyWaitGroup, extraDone, waitVars>>

DoneRunning(u) ==
    /\ u \in AppUnits \cap active
    /\ active' = active \ {u}
    /\ appRunning' = appRunning - 1
    /\ SignalIdle(appRunning - 1, moduleRunning)
    /\ UNCHANGED <<moduleRunning, made, legacyWaitGroup, extraDone, waitVars>>

AddModuleTask(u) ==
    /\ u \in ModuleUnits \ active
    /\ active' = active \cup {u}
    /\ moduleRunning' = moduleRunning + 1
    /\ UNCHANGED <<appRunning, idleApp, idleAll, made, closed,
                   legacyWaitGroup, extraDone, waitVars>>

DoneModuleTask(u) ==
    /\ u \in ModuleUnits \cap active
    /\ active' = active \ {u}
    /\ moduleRunning' = moduleRunning - 1
    /\ SignalIdle(appRunning, moduleRunning - 1)
    /\ UNCHANGED <<appRunning, made, legacyWaitGroup, extraDone, waitVars>>

\* A Done no Add pairs with, on either bucket.
ExtraDoneRunning ==
    /\ extraDone < MaxExtraDone
    /\ extraDone' = extraDone + 1
    /\ appRunning' = appRunning - 1
    /\ SignalIdle(appRunning - 1, moduleRunning)
    /\ UNCHANGED <<moduleRunning, made, legacyWaitGroup, active, waitVars>>

ExtraDoneModuleTask ==
    /\ extraDone < MaxExtraDone
    /\ extraDone' = extraDone + 1
    /\ moduleRunning' = moduleRunning - 1
    /\ SignalIdle(appRunning, moduleRunning - 1)
    /\ UNCHANGED <<appRunning, made, legacyWaitGroup, active, waitVars>>

\* Drains whose goroutine is between its start and its return from wg.Wait.
LegacyWaiting == {d \in Drains : parked[d] \in {"started", "parked"}}

\* GetWaitGroup hands out a group of its own to every caller.
LegacyAddElsewhere(u) ==
    /\ u \in LegacyUnits \ active
    /\ legacyWaitGroup > 0 \/ LegacyWaiting = {}
    /\ active' = active \cup {u}
    /\ UNCHANGED <<counterVars, legacyWaitGroup, extraDone, waitVars>>

\* Add on the WaitGroup GetWaitGroup returns.  An Add from zero while a Wait is
\* under way is a misuse of sync.WaitGroup the deprecation note forbids.
LegacyAdd(u) ==
    /\ u \in LegacyUnits \ active
    /\ legacyWaitGroup > 0 \/ LegacyWaiting = {}
    /\ active' = active \cup {u}
    /\ legacyWaitGroup' = legacyWaitGroup + 1
    /\ UNCHANGED <<counterVars, extraDone, waitVars>>

\* Done on that WaitGroup: the one that reaches zero releases every parked Wait.
LegacyDone(u) ==
    /\ u \in LegacyUnits \cap active
    /\ active' = active \ {u}
    /\ legacyWaitGroup' = legacyWaitGroup - 1
    /\ parked' = [d \in Drains |->
                    IF legacyWaitGroup = 1 /\ parked[d] = "parked"
                    THEN "returned" ELSE parked[d]]
    /\ UNCHANGED <<counterVars, extraDone, wait, signal, deadline>>

----------------------------------------------------------------------------
(* The waits. *)

\* The wait for the application work looks at the module tasks too.
AppIdleSignalAnyWork(w) ==
    IF appRunning <= 0 /\ moduleRunning <= 0
    THEN /\ made' = made + 1
         /\ closed' = closed \cup {made + 1}
         /\ signal' = [signal EXCEPT ![w] = made + 1]
         /\ UNCHANGED <<idleApp, idleAll>>
    ELSE /\ made' = IF idleApp = Nil THEN made + 1 ELSE made
         /\ idleApp' = IF idleApp = Nil THEN made + 1 ELSE idleApp
         /\ signal' = [signal EXCEPT ![w] = idleApp']
         /\ UNCHANGED <<closed, idleAll>>

\* appIdleSignal and allIdleSignal: an empty bucket answers with a channel that
\* is already closed, a busy one with the channel its waiters share.
AppIdleSignal(w) ==
    IF appRunning <= 0
    THEN /\ made' = made + 1
         /\ closed' = closed \cup {made + 1}
         /\ signal' = [signal EXCEPT ![w] = made + 1]
         /\ UNCHANGED <<idleApp, idleAll>>
    ELSE /\ made' = IF idleApp = Nil THEN made + 1 ELSE made
         /\ idleApp' = IF idleApp = Nil THEN made + 1 ELSE idleApp
         /\ signal' = [signal EXCEPT ![w] = idleApp']
         /\ UNCHANGED <<closed, idleAll>>

\* A second waiter replaces the channel of the first instead of sharing it.
AllIdleSignalReplacing(w) ==
    IF appRunning <= 0 /\ moduleRunning <= 0
    THEN /\ made' = made + 1
         /\ closed' = closed \cup {made + 1}
         /\ signal' = [signal EXCEPT ![w] = made + 1]
         /\ UNCHANGED <<idleApp, idleAll>>
    ELSE /\ made' = made + 1
         /\ idleAll' = made + 1
         /\ signal' = [signal EXCEPT ![w] = made + 1]
         /\ UNCHANGED <<closed, idleApp>>

AllIdleSignal(w) ==
    IF appRunning <= 0 /\ moduleRunning <= 0
    THEN /\ made' = made + 1
         /\ closed' = closed \cup {made + 1}
         /\ signal' = [signal EXCEPT ![w] = made + 1]
         /\ UNCHANGED <<idleApp, idleAll>>
    ELSE /\ made' = IF idleAll = Nil THEN made + 1 ELSE made
         /\ idleAll' = IF idleAll = Nil THEN made + 1 ELSE idleAll
         /\ signal' = [signal EXCEPT ![w] = idleAll']
         /\ UNCHANGED <<closed, idleApp>>

StartAppWait(w) ==
    /\ w \in AppWaiters /\ wait[w] = "idle"
    /\ AppIdleSignal(w)
    /\ wait' = [wait EXCEPT ![w] = "select"]
    /\ UNCHANGED <<appRunning, moduleRunning, unitVars, deadline, parked>>

AppReleased(w) ==
    /\ w \in AppWaiters /\ wait[w] = "select"
    /\ signal[w] \in closed
    /\ wait' = [wait EXCEPT ![w] = "drained"]
    /\ UNCHANGED <<counterVars, unitVars, signal, deadline, parked>>

\* WaitRunningTimeout: one deadline, then a channel to select on.
StartDrain(d) ==
    /\ d \in Drains /\ wait[d] = "idle"
    /\ deadline' = [deadline EXCEPT ![d] = "running"]
    /\ AllIdleSignal(d)
    /\ wait' = [wait EXCEPT ![d] = "select"]
    /\ UNCHANGED <<appRunning, moduleRunning, unitVars, parked>>

\* The drain timeout elapses, whatever the drain is doing.
DeadlineFires(d) ==
    /\ d \in Drains /\ deadline[d] = "running"
    /\ wait[d] \in {"select", "legacy"}
    /\ deadline' = [deadline EXCEPT ![d] = "fired"]
    /\ UNCHANGED <<counterVars, unitVars, wait, signal, parked>>

\* The counters emptied: go on to the deprecated WaitGroup, whose Wait runs on a
\* goroutine of its own.
CountersIdle(d) ==
    /\ d \in Drains /\ wait[d] = "select"
    /\ signal[d] \in closed
    /\ wait' = [wait EXCEPT ![d] = "legacy"]
    /\ parked' = [parked EXCEPT ![d] = "started"]
    /\ UNCHANGED <<counterVars, unitVars, signal, deadline>>

\* wg.Wait on the goroutine: it returns at once on zero and parks otherwise.
LegacyWait(d) ==
    /\ d \in Drains /\ parked[d] = "started"
    /\ parked' = [parked EXCEPT ![d] =
                    IF legacyWaitGroup = 0 THEN "returned" ELSE "parked"]
    /\ UNCHANGED <<counterVars, unitVars, wait, signal, deadline>>

LegacyIdle(d) ==
    /\ d \in Drains /\ wait[d] = "legacy" /\ parked[d] = "returned"
    /\ wait' = [wait EXCEPT ![d] = "drained"]
    /\ UNCHANGED <<counterVars, unitVars, signal, deadline, parked>>

\* The first select gives up, the second one waits without a deadline.
GiveUpFirstSelectOnly(d) ==
    /\ d \in Drains /\ wait[d] = "select"
    /\ deadline[d] = "fired"
    /\ wait' = [wait EXCEPT ![d] = "timedOut"]
    /\ UNCHANGED <<counterVars, unitVars, signal, deadline, parked>>

\* Either select sees the deadline.  A goroutine already parked stays behind.
GiveUp(d) ==
    /\ d \in Drains /\ wait[d] \in {"select", "legacy"}
    /\ deadline[d] = "fired"
    /\ wait' = [wait EXCEPT ![d] = "timedOut"]
    /\ UNCHANGED <<counterVars, unitVars, signal, deadline, parked>>

----------------------------------------------------------------------------
\* The steps of one drain once it has begun; the goroutine and the clock included.
DrainStep(d) ==
    \/ DeadlineFires(d)
    \/ CountersIdle(d)
    \/ LegacyWait(d)
    \/ LegacyIdle(d)
    \/ GiveUp(d)

WorkNext ==
    \/ \E u \in AppUnits : AddRunning(u) \/ DoneRunning(u)
    \/ \E u \in ModuleUnits : AddModuleTask(u) \/ DoneModuleTask(u)
    \/ \E u \in LegacyUnits : LegacyAdd(u) \/ LegacyDone(u)
    \/ ExtraDoneRunning
    \/ ExtraDoneModuleTask
    \/ \E w \in AppWaiters : StartAppWait(w) \/ AppReleased(w)
    \/ \E d \in Drains : StartDrain(d) \/ DrainStep(d)

WorkSpec == WorkInit /\ [][WorkNext]_workVars

\* The goroutines of the SDK are scheduled and time passes; the work itself may
\* never finish.
FairWorkSpec ==
    /\ WorkSpec
    /\ \A d \in Drains : /\ WF_workVars(DeadlineFires(d))
                         /\ WF_workVars(CountersIdle(d) \/ LegacyIdle(d) \/ GiveUp(d))
                         /\ WF_workVars(LegacyWait(d))
    /\ \A w \in AppWaiters : WF_workVars(AppReleased(w))

----------------------------------------------------------------------------
(* Properties. *)

\* Every variable of the counters and of the waits has its type.
WorkTypeOK ==
    /\ appRunning \in Int /\ moduleRunning \in Int
    /\ made \in Nat
    /\ idleApp \in 0..made /\ idleAll \in 0..made
    /\ closed \subseteq 1..made
    /\ legacyWaitGroup \in Nat
    /\ active \subseteq Units
    /\ extraDone \in 0..MaxExtraDone
    /\ wait \in [Waiters -> {"idle", "select", "legacy", "drained", "timedOut"}]
    /\ signal \in [Waiters -> 0..made]
    /\ deadline \in [Drains -> {"unset", "running", "fired"}]
    /\ parked \in [Drains -> {"none", "started", "parked", "returned"}]

\* signalIdle never closes a channel twice, which would panic: the shared
\* channels are never closed ones, and the two buckets never share one.
NoDoubleClose ==
    /\ idleApp \notin closed
    /\ idleAll \notin closed
    /\ idleApp # Nil => idleApp # idleAll

\* No lost wakeup: a waiter parked on an open channel holds the very channel the
\* next signalIdle closes, and the bucket it waits for is still busy.  The counters
\* are compared with <= so this survives unbalanced Done calls.
NoLostWakeup ==
    \A w \in Waiters :
        wait[w] = "select" /\ signal[w] \notin closed =>
            \/ /\ w \in AppWaiters
               /\ signal[w] = idleApp
               /\ appRunning > 0
            \/ /\ w \in Drains
               /\ signal[w] = idleAll
               /\ appRunning > 0 \/ moduleRunning > 0

\* A waiter in its select holds a channel.
HoldsChannel == \A w \in Waiters : wait[w] = "select" => signal[w] # Nil

\* The deprecated counter counts the units registered on it.
LegacyCounts ==
    /\ IsFiniteSet(active)
    /\ legacyWaitGroup = Cardinality(active \cap LegacyUnits)

\* The inductive invariant of the counters and channels.
WorkInv == WorkTypeOK /\ NoDoubleClose /\ NoLostWakeup /\ HoldsChannel /\ LegacyCounts

\* The drain is over within its one deadline, whichever of the two waits it is in.
DrainReturns ==
    \A d \in Drains : wait[d] = "select" ~> wait[d] \in {"drained", "timedOut"}

\* A wait for the application work ends even though module tasks keep running
\* (TestAppIdleIgnoresModuleTasks) and even if the work starts again meanwhile.
AppWaitReleased ==
    \A w \in AppWaiters :
        wait[w] = "select" /\ appRunning <= 0 ~> wait[w] = "drained"

=============================================================================
