------------------------------ MODULE Telemetry ------------------------------
(***************************************************************************)
(* The metrics of the messaging module against the life of the monitoring  *)
(* and of the module itself: monitoring.Initialize and its Close, the      *)
(* instruments initMetrics creates and releaseMetrics gives up, the        *)
(* callback of the in-flight gauge, and the collections that run it.  The  *)
(* OpenTelemetry SDK is external: a collection, a registration and an      *)
(* unregistration exclude one another through the lock of its pipeline.    *)
(***************************************************************************)
EXTENDS Naturals

CONSTANTS
    Openings    \* bound: the Initialize calls of the messaging module

ASSUME TelemetryAssumption == Openings \in Nat \ {0}

VARIABLES
    meter,      \* "nil" before Initialize, "noop" without metrics, "on", "shut" after Close
    collectors, \* the collectors registered on the Prometheus registry
    observers,  \* the monitoring observers attached
    opened,     \* per opening, where its openModule and its Close are
    instruments, \* moduleMetrics: the opening that created them, 0 when nil
    callbacks,  \* the openings whose in-flight callback is registered
    swapped,    \* per opening and step, the instruments the Swap returned
    pipeline,   \* who holds the lock of the OpenTelemetry pipeline
    moduleMu,   \* who holds moduleMu
    running,    \* the callback the collection is running
    processing, \* the messages being processed by a consumer
    inFlight    \* its inFlight counter

telemetryVars == <<meter, collectors, observers, opened, instruments, callbacks, swapped,
                   pipeline, moduleMu, running, processing, inFlight>>
monitoringVars == <<meter, collectors, observers>>
lockVars == <<pipeline, moduleMu, running>>
messageVars == <<processing, inFlight>>

Ids == 1..Openings
Free == 0
Collection == Openings + 1
Consumer == Openings + 2
Holds(o) == moduleMu' = o /\ moduleMu = Free
GivesBack(o) == moduleMu' = Free /\ moduleMu = o

TelemetryInit ==
    /\ meter = "nil" /\ collectors = 0 /\ observers = 0
    /\ opened = [o \in Ids |-> "no"] /\ instruments = 0 /\ callbacks = {}
    /\ swapped = [o \in Ids |-> 0] /\ pipeline = Free /\ moduleMu = Free /\ running = 0
    /\ processing = 0 /\ inFlight = 0

-----------------------------------------------------------------------------
(* Monitoring. *)

AlreadyInitialized == meter # "nil"

\* UseTracing, UseOTLPMetrics and UsePrometheusMetrics, which ask the configuration.
Signals == [tracing : BOOLEAN, otlp : BOOLEAN, prometheus : BOOLEAN]
AnyEnabled(signals) == signals.tracing \/ signals.otlp \/ signals.prometheus

\* The registry may refuse the collector, and then metrics are on only through the
\* reader of the OTLP exporter.
Collects(signals, refused) == signals.prometheus /\ ~refused
MeterOn(signals, refused) == signals.otlp \/ Collects(signals, refused)

\* StartOpenTelemetryMonitoring installs a provider that does nothing rather than none.
MeterProvider(signals, refused) == IF MeterOn(signals, refused) THEN "on" ELSE "noop"

\* Calls of Initialize do not overlap: nothing locks the check and the set of instance.
InitializeMonitoring ==
    \E signals \in Signals, refused \in BOOLEAN :
        /\ UNCHANGED <<opened, instruments, callbacks, swapped, lockVars, messageVars>>
        /\ IF AlreadyInitialized THEN UNCHANGED monitoringVars
           ELSE /\ meter' = MeterProvider(signals, refused)
                /\ collectors' = collectors + (IF Collects(signals, refused) THEN 1 ELSE 0)
                /\ observers' = observers + (IF AnyEnabled(signals) THEN 1 ELSE 0)

\* Close of the observer shuts the providers down; a second shutdown only warns.
CloseMonitoring ==
    /\ observers > 0 /\ pipeline = Free
    /\ meter' = IF meter = "on" THEN "shut" ELSE meter
    /\ UNCHANGED <<collectors, observers, opened, instruments, callbacks, swapped, lockVars, messageVars>>

-----------------------------------------------------------------------------
(* The module opens and closes; a Close may meet the openModule that follows it. *)

At(o, from, to) == opened[o] = from /\ opened' = [opened EXCEPT ![o] = to]

\* openModule, once the previous opening is done and was told to stop: its Close may still
\* be to come.  resetModuleState holds moduleMu until it returns.
OpenModule(o) ==
    /\ At(o, "no", "resetting") /\ Holds(o)
    /\ \A p \in Ids : p < o => opened[p] \in {"open", "releasing", "unregistering", "closed"}
    /\ UNCHANGED <<monitoringVars, instruments, callbacks, swapped, pipeline, running, messageVars>>

\* Defect: openModule holds moduleMu until the instance is published, so that nobody meets
\* the provider before its state.
EndResetHolds(o) ==
    /\ At(o, "resetting", "creating") /\ moduleMu = o
    /\ UNCHANGED <<monitoringVars, instruments, callbacks, swapped, lockVars, messageVars>>

EndReset(o) ==
    /\ At(o, "resetting", "creating") /\ GivesBack(o)
    /\ UNCHANGED <<monitoringVars, instruments, callbacks, swapped, pipeline, running, messageVars>>

\* ObservableGauge: nothing is registered before Initialize, or without metrics, or when
\* the SDK refuses it.  The meter outlives the shutdown of its provider, and may register.
CreateInstruments(o) ==
    /\ At(o, "creating", "swapping") /\ pipeline = Free
    /\ \/ meter \in {"on", "shut"} /\ callbacks' = callbacks \cup {o}
       \/ UNCHANGED callbacks
    /\ UNCHANGED <<monitoringVars, instruments, swapped, lockVars, messageVars>>

\* Defect: the previous instruments are read before the new ones are stored.
SwapLate(o, new) ==
    /\ instruments' = new
    /\ swapped' = [swapped EXCEPT ![o] = IF new = 0 THEN o ELSE instruments]

\* The Swap of initMetrics and of releaseMetrics.
Swap(o, new) == instruments' = new /\ swapped' = [swapped EXCEPT ![o] = instruments]

InstallInstruments(o) ==
    /\ At(o, "swapping", "dropping") /\ Swap(o, o)
    /\ UNCHANGED <<monitoringVars, callbacks, lockVars, messageVars>>

\* unregisterInFlight of what the Swap returned, if anything.
Unregister(o) ==
    /\ pipeline = Free /\ callbacks' = callbacks \ {swapped[o]}
    /\ swapped' = [swapped EXCEPT ![o] = 0]

DropPrevious(o) ==
    /\ At(o, "dropping", "publishing") /\ Unregister(o)
    /\ UNCHANGED <<monitoringVars, instruments, lockVars, messageVars>>

\* setInstance.
BeginPublish(o) ==
    /\ At(o, "publishing", "setting") /\ Holds(o)
    /\ UNCHANGED <<monitoringVars, instruments, callbacks, swapped, pipeline, running, messageVars>>

EndPublish(o) ==
    /\ At(o, "setting", "open") /\ GivesBack(o)
    /\ UNCHANGED <<monitoringVars, instruments, callbacks, swapped, pipeline, running, messageVars>>

\* messagingObserver.Close: beginClose gives moduleMu back before anything else is done.
BeginModuleClose(o) ==
    /\ At(o, "open", "beginning") /\ Holds(o)
    /\ UNCHANGED <<monitoringVars, instruments, callbacks, swapped, pipeline, running, messageVars>>

EndBeginClose(o) ==
    /\ At(o, "beginning", "releasing") /\ GivesBack(o)
    /\ UNCHANGED <<monitoringVars, instruments, callbacks, swapped, pipeline, running, messageVars>>

ReleaseInstruments(o) ==
    /\ At(o, "releasing", "unregistering") /\ Swap(o, 0)
    /\ UNCHANGED <<monitoringVars, callbacks, lockVars, messageVars>>

EndModuleClose(o) ==
    /\ At(o, "unregistering", "closed") /\ Unregister(o)
    /\ UNCHANGED <<monitoringVars, instruments, lockVars, messageVars>>

\* A consumer registers, becomes active or leaves: a section that waits for nothing else.
ConsumerLocks ==
    /\ Holds(Consumer)
    /\ UNCHANGED <<monitoringVars, opened, instruments, callbacks, swapped, pipeline, running, messageVars>>

ConsumerUnlocks ==
    /\ GivesBack(Consumer)
    /\ UNCHANGED <<monitoringVars, opened, instruments, callbacks, swapped, pipeline, running, messageVars>>

-----------------------------------------------------------------------------
(* A collection, by a scrape or by the periodic reader. *)

\* One of the callbacks stands for the sequence of them.
StartCollection ==
    /\ meter = "on" /\ pipeline = Free /\ pipeline' = Collection
    /\ running' \in callbacks \cup (IF callbacks = {} THEN {0} ELSE {})
    /\ UNCHANGED <<monitoringVars, opened, instruments, callbacks, swapped, moduleMu, messageVars>>

\* observeInFlight takes moduleMu for reading, and gives it back with its observations.
ObserveInFlight ==
    /\ pipeline = Collection /\ running # 0 /\ moduleMu = Free /\ running' = 0
    /\ UNCHANGED <<monitoringVars, opened, instruments, callbacks, swapped, pipeline, moduleMu, messageVars>>

EndCollection ==
    /\ pipeline = Collection /\ running = 0 /\ pipeline' = Free
    /\ UNCHANGED <<monitoringVars, opened, instruments, callbacks, swapped, moduleMu, running, messageVars>>

\* processMessage counts the message it is about to handle.
StartMessage ==
    /\ processing = 0 /\ processing' = 1 /\ inFlight' = inFlight + 1
    /\ UNCHANGED <<monitoringVars, opened, instruments, callbacks, swapped, lockVars>>

\* The deferred decrement runs whether the handler returned or panicked.
Uncount(panicked) == inFlight' = inFlight - 1

EndMessage ==
    /\ processing = 1 /\ processing' = 0 /\ \E panicked \in BOOLEAN : Uncount(panicked)
    /\ UNCHANGED <<monitoringVars, opened, instruments, callbacks, swapped, lockVars>>

TelemetryNext ==
    \/ InitializeMonitoring \/ CloseMonitoring
    \/ \E o \in Ids :
          \/ OpenModule(o) \/ EndReset(o) \/ CreateInstruments(o) \/ InstallInstruments(o)
          \/ DropPrevious(o) \/ BeginPublish(o) \/ EndPublish(o)
          \/ BeginModuleClose(o) \/ EndBeginClose(o) \/ ReleaseInstruments(o) \/ EndModuleClose(o)
    \/ ConsumerLocks \/ ConsumerUnlocks
    \/ StartCollection \/ ObserveInFlight \/ EndCollection
    \/ StartMessage \/ EndMessage

TelemetrySpec == TelemetryInit /\ [][TelemetryNext]_telemetryVars

-----------------------------------------------------------------------------
(* Properties. *)

\* The registry never holds two collectors, which would break every later scrape: not by
\* initializing twice, nor after a shutdown (initialize.go:17-25).
OneCollector == collectors \in 0..1

OpeningPlaces == {"no", "resetting", "creating", "swapping", "dropping", "publishing", "setting", "open",
           "beginning", "releasing", "unregistering", "closed"}

TelemetryTypeOK ==
    /\ meter \in {"nil", "noop", "on", "shut"} /\ observers \in Nat
    /\ OneCollector
    /\ opened \in [Ids -> OpeningPlaces]
    /\ instruments \in 0..Openings /\ callbacks \subseteq Ids /\ swapped \in [Ids -> 0..Openings]
    /\ pipeline \in {Free, Collection} /\ moduleMu \in Ids \cup {Free, Consumer} /\ running \in 0..Openings
    /\ processing \in 0..1 /\ inFlight \in 0..1

\* Once nothing is opening or closing, no callback is registered but the one of the
\* current instruments, so in-flight is not observed twice: also when the Close of an
\* opening meets the openModule of the next (metrics.go:57-91).
NoCallbackLeft ==
    (\A o \in Ids : opened[o] \in {"no", "open", "closed"}) => callbacks \subseteq {instruments}

\* The goroutines that register a callback with the pipeline or unregister one.
WantsPipeline(o) == opened[o] \in {"creating", "dropping", "unregistering"}

\* A collection that runs a callback waits for moduleMu with the pipeline held, so who holds
\* moduleMu may not be waiting for the pipeline: not openModule, whose initMetrics registers
\* and unregisters between two sections, nor Close (metrics.go:57-106, messaging.go:75-97,
\* 143-182).
NoLockCycle == running # 0 => ~ \E o \in Ids : moduleMu = o /\ WantsPipeline(o)

=============================================================================
