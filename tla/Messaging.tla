----------------------------- MODULE Messaging -----------------------------
(***************************************************************************)
(* The messaging module (pkg/messaging/messaging.go and consumer.go) over  *)
(* the shutdown pipeline: the lifecycle of the module, the registry of     *)
(* consumers, the creation of a consumer, its listener, its handle, and    *)
(* the Stop and Close of the module's observer.                            *)
(*                                                                         *)
(* Initialize attaches a fresh observer and dials a fresh provider every   *)
(* time it opens the module, so a lifecycle of the module is named by its  *)
(* observer, and so are its provider and its context.  A consumer is the   *)
(* module task its listener holds: Consumers are the ModuleUnits of        *)
(* RunningWork.  Every critical section of moduleMu is one action.         *)
(***************************************************************************)
EXTENDS Shutdown

CONSTANTS
    Lifecycles,     \* the observers Initialize may attach, one per opening
    NotOpen,        \* instance and moduleCtx before the first Initialize
    PollJoins       \* the provider joins its polling to the consumer's WaitGroup (SQS)

ASSUME LifecyclesAssumption ==
    /\ Lifecycles \subseteq Stoppers
    /\ NotOpen \notin Lifecycles
    /\ PollJoins \in BOOLEAN

Consumers == ModuleUnits

VARIABLES
    instance, moduleCtx,           \* the provider in use and the context handed out
    moduleClosing, moduleClosed,
    consumers,                     \* the registry
    opening,                       \* the Initialize under way: its step and lifecycle
    cancelled, released,           \* contexts cancelled, providers closed
    pc,                            \* where each consumer is
    provider, ctx,                 \* the provider and context a consumer was created with
    done,                          \* consumers whose done channel is closed
    feeding,                       \* consumers a provider goroutine delivers to
    buffered,                      \* consumers with a message in their channel (capacity 1)
    closing,                       \* where the Close of each handle is
    signalling,                    \* pipelines inside Stop, and the consumers left to signal
    releasing                      \* where each pipeline is inside Close

moduleVars    == <<instance, moduleCtx, moduleClosing, moduleClosed, consumers>>
lifecycleVars == <<opening, cancelled, released>>
consumerVars  == <<pc, provider, ctx, done, feeding, buffered, closing>>
observerVars  == <<signalling, releasing>>
messagingVars == <<moduleVars, lifecycleVars, consumerVars, observerVars>>
systemVars    == <<allVars, messagingVars>>

NotSignalling == [on |-> FALSE, todo |-> {}]
NoOpening     == [step |-> "none", of |-> NotOpen]

MessagingInit ==
    /\ instance = NotOpen /\ moduleCtx = NotOpen
    /\ moduleClosing = FALSE /\ moduleClosed = FALSE
    /\ consumers = {}
    /\ opening = NoOpening
    /\ cancelled = {} /\ released = {}
    /\ pc = [c \in Consumers |-> "none"]
    /\ provider = [c \in Consumers |-> NotOpen]
    /\ ctx = [c \in Consumers |-> NotOpen]
    /\ done = {} /\ feeding = {} /\ buffered = {}
    /\ closing = [c \in Consumers |-> "no"]
    /\ signalling = [n \in Notifiers |-> NotSignalling]
    /\ releasing = [n \in Notifiers |-> "no"]

----------------------------------------------------------------------------
(* Initialize: alreadyConnected and newProvider, then the steps of openModule. *)

Fresh(l) == \A g \in Goroutines : l \notin ToSet(observers[g])

AlreadyConnected == instance # NotOpen /\ ~moduleClosing /\ ~moduleClosed

ShutdownUnderWay == \E n \in Notifiers : stage[n] \in {"notify", "stopping", "draining", "closing"}

\* Initialize is a start-up call: the application makes it one at a time and not
\* while a shutdown is under way, though a shutdown may begin before it returns.
InitializeModule(l) ==
    /\ l \in Lifecycles
    /\ opening.step = "none" /\ Fresh(l)
    /\ ~AlreadyConnected
    /\ ~ShutdownUnderWay
    /\ services # NoService
    /\ opening' = [step |-> "dialed", of |-> l]
    /\ UNCHANGED <<allVars, moduleVars, cancelled, released, consumerVars, observerVars>>

\* moduleCancel is called without the nil check.
ResetModuleStateUnchecked ==
    /\ opening.step = "dialed"
    /\ opening' = [opening EXCEPT !.step = "reset"]
    /\ cancelled' = cancelled \cup {moduleCtx}
    /\ moduleClosing' = FALSE /\ moduleClosed' = FALSE
    /\ consumers' = {}
    /\ moduleCtx' = opening.of
    /\ UNCHANGED <<allVars, instance, released, consumerVars, observerVars>>

\* A context still in use is cancelled and the module starts over.
ResetModuleState ==
    /\ opening.step = "dialed"
    /\ opening' = [opening EXCEPT !.step = "reset"]
    /\ cancelled' = cancelled \cup ({moduleCtx} \ {NotOpen})
    /\ moduleClosing' = FALSE /\ moduleClosed' = FALSE
    /\ consumers' = {}
    /\ moduleCtx' = opening.of
    /\ UNCHANGED <<allVars, instance, released, consumerVars, observerVars>>

SetInstance ==
    /\ opening.step = "reset"
    /\ opening' = [opening EXCEPT !.step = "published"]
    /\ instance' = opening.of
    /\ UNCHANGED <<allVars, moduleCtx, moduleClosing, moduleClosed, consumers,
                   cancelled, released, consumerVars, observerVars>>

AttachModule ==
    /\ opening.step = "published"
    /\ opening' = NoOpening
    /\ Attach(opening.of)
    /\ UNCHANGED <<moduleVars, cancelled, released, consumerVars, observerVars>>

----------------------------------------------------------------------------
(* newConsumer. *)

Goto(c, where) == pc' = [pc EXCEPT ![c] = where]

NewConsumer(c) ==
    /\ pc[c] = "none"
    /\ provider' = [provider EXCEPT ![c] = instance]
    /\ Goto(c, IF instance = NotOpen THEN "failed" ELSE "created")
    /\ UNCHANGED <<allVars, moduleVars, lifecycleVars, ctx, done, feeding, buffered,
                   closing, observerVars>>

\* registerConsumer without the check of moduleClosing.
RegisterAlways(c) ==
    /\ pc[c] = "created"
    /\ consumers' = consumers \cup {c}
    /\ Goto(c, "registered")
    /\ UNCHANGED <<allVars, instance, moduleCtx, moduleClosing, moduleClosed, lifecycleVars,
                   provider, ctx, done, feeding, buffered, closing, observerVars>>

RegisterConsumer(c) ==
    /\ pc[c] = "created"
    /\ consumers' = IF moduleClosing THEN consumers ELSE consumers \cup {c}
    /\ Goto(c, IF moduleClosing THEN "failed" ELSE "registered")
    /\ UNCHANGED <<allVars, instance, moduleCtx, moduleClosing, moduleClosed, lifecycleVars,
                   provider, ctx, done, feeding, buffered, closing, observerVars>>

\* The call of provider.consumer carries the module context of the moment.
CallProvider(c) ==
    /\ pc[c] = "registered"
    /\ ctx' = [ctx EXCEPT ![c] = moduleCtx]
    /\ Goto(c, "calling")
    /\ UNCHANGED <<allVars, moduleVars, lifecycleVars, provider, done, feeding, buffered,
                   closing, observerVars>>

\* provider.consumer hands back a channel and starts delivering to it, or fails.
ProviderConsumer(c) ==
    /\ pc[c] = "calling"
    /\ \/ /\ feeding' = feeding \cup {c}
          /\ Goto(c, "wired")
       \/ /\ UNCHANGED feeding
          /\ Goto(c, "abandon")
    /\ UNCHANGED <<allVars, moduleVars, lifecycleVars, provider, ctx, done, buffered,
                   closing, observerVars>>

\* activateConsumer without the second check of moduleClosing.
ActivateAlways(c) ==
    /\ pc[c] = "wired"
    /\ AddModuleTask(c)
    /\ Goto(c, "listening")
    /\ UNCHANGED <<shutdownVars, moduleVars, lifecycleVars, provider, ctx, done, feeding,
                   buffered, closing, observerVars>>

\* activateConsumer, and the start of the listener when it succeeds.
ActivateConsumer(c) ==
    /\ pc[c] = "wired"
    /\ IF moduleClosing
       THEN Goto(c, "abandon") /\ UNCHANGED workVars
       ELSE Goto(c, "listening") /\ AddModuleTask(c)
    /\ UNCHANGED <<shutdownVars, moduleVars, lifecycleVars, provider, ctx, done, feeding,
                   buffered, closing, observerVars>>

\* abandon that leaves the registry without closing done.
AbandonUnsignalled(c) ==
    /\ pc[c] = "abandon"
    /\ Goto(c, "abandoned")
    /\ UNCHANGED <<allVars, moduleVars, lifecycleVars, provider, ctx, done, feeding, buffered,
                   closing, observerVars>>

\* abandon: signalStop, then unregisterConsumer.
AbandonSignal(c) ==
    /\ pc[c] = "abandon"
    /\ done' = done \cup {c}
    /\ Goto(c, "abandoned")
    /\ UNCHANGED <<allVars, moduleVars, lifecycleVars, provider, ctx, feeding, buffered,
                   closing, observerVars>>

AbandonUnregister(c) ==
    /\ pc[c] = "abandoned"
    /\ consumers' = consumers \ {c}
    /\ Goto(c, "failed")
    /\ UNCHANGED <<allVars, instance, moduleCtx, moduleClosing, moduleClosed, lifecycleVars,
                   provider, ctx, done, feeding, buffered, closing, observerVars>>

----------------------------------------------------------------------------
(* The goroutine of the provider: it delivers one message at a time and stops *)
(* on the consumer's done channel, on the module context or with its client.  *)

Deliver(c) ==
    /\ c \in feeding \ buffered
    /\ provider[c] \notin released
    /\ buffered' = buffered \cup {c}
    /\ UNCHANGED <<allVars, moduleVars, lifecycleVars, pc, provider, ctx, done, feeding,
                   closing, observerVars>>

\* The poll ends with the module context only.
ProviderIgnoresDone(c) ==
    /\ c \in feeding
    /\ ctx[c] \in cancelled \/ provider[c] \in released
    /\ feeding' = feeding \ {c}
    /\ UNCHANGED <<allVars, moduleVars, lifecycleVars, pc, provider, ctx, done, buffered,
                   closing, observerVars>>

ProviderStops(c) ==
    /\ c \in feeding
    /\ c \in done \/ ctx[c] \in cancelled \/ provider[c] \in released
    /\ feeding' = feeding \ {c}
    /\ UNCHANGED <<allVars, moduleVars, lifecycleVars, pc, provider, ctx, done, buffered,
                   closing, observerVars>>

----------------------------------------------------------------------------
(* listen. *)

\* The select takes a message; both cases may be ready and Go picks either.
Receive(c) ==
    /\ pc[c] = "listening"
    /\ c \in buffered
    /\ buffered' = buffered \ {c}
    /\ Goto(c, "handling")
    /\ UNCHANGED <<allVars, moduleVars, lifecycleVars, provider, ctx, done, feeding,
                   closing, observerVars>>

\* The handler returns, fails or panics; the message is then acked or nacked.
HandlerReturns(c) ==
    /\ pc[c] = "handling"
    /\ Goto(c, "settling")
    /\ UNCHANGED <<allVars, moduleVars, lifecycleVars, provider, ctx, done, feeding,
                   buffered, closing, observerVars>>

\* An acknowledgement without a timeout, on a broker that no longer answers.
SettleUnbounded(c) ==
    /\ pc[c] = "settling"
    /\ provider[c] \notin released
    /\ Goto(c, "listening")
    /\ UNCHANGED <<allVars, moduleVars, lifecycleVars, provider, ctx, done, feeding,
                   buffered, closing, observerVars>>

\* Ack or Nack ends within ackTimeout, and its error is only logged.
Settle(c) ==
    /\ pc[c] = "settling"
    /\ Goto(c, "listening")
    /\ UNCHANGED <<allVars, moduleVars, lifecycleVars, provider, ctx, done, feeding,
                   buffered, closing, observerVars>>

ListenerStops(c) ==
    /\ pc[c] = "listening"
    /\ c \in done
    /\ Goto(c, "leaving")
    /\ UNCHANGED <<allVars, moduleVars, lifecycleVars, provider, ctx, done, feeding,
                   buffered, closing, observerVars>>

\* The deferred calls, last registered first.
UnregisterConsumer(c) ==
    /\ pc[c] = "leaving"
    /\ consumers' = consumers \ {c}
    /\ Goto(c, "unregistered")
    /\ UNCHANGED <<allVars, instance, moduleCtx, moduleClosing, moduleClosed, lifecycleVars,
                   provider, ctx, done, feeding, buffered, closing, observerVars>>

ReleaseModuleTask(c) ==
    /\ pc[c] = "unregistered"
    /\ DoneModuleTask(c)
    /\ Goto(c, "released")
    /\ UNCHANGED <<shutdownVars, moduleVars, lifecycleVars, provider, ctx, done, feeding,
                   buffered, closing, observerVars>>

ListenerDone(c) ==
    /\ pc[c] = "released"
    /\ Goto(c, "gone")
    /\ UNCHANGED <<allVars, moduleVars, lifecycleVars, provider, ctx, done, feeding,
                   buffered, closing, observerVars>>

----------------------------------------------------------------------------
(* Consumer.Close on the handle newConsumer returned: signalStop, then Wait. *)

Listens(c) == pc[c] \in {"listening", "handling", "settling"}
Created(c) == Listens(c) \/ pc[c] \in {"leaving", "unregistered", "released", "gone"}

CloseConsumer(c) ==
    /\ Created(c) /\ closing[c] = "no"
    /\ done' = done \cup {c}
    /\ closing' = [closing EXCEPT ![c] = "waiting"]
    /\ UNCHANGED <<allVars, moduleVars, lifecycleVars, pc, provider, ctx, feeding, buffered,
                   observerVars>>

\* The wait covers the listener's module task only.
CloseReturnsEarly(c) ==
    /\ closing[c] = "waiting"
    /\ pc[c] \in {"unregistered", "released", "gone"}
    /\ PollJoins => c \notin feeding
    /\ closing' = [closing EXCEPT ![c] = "returned"]
    /\ UNCHANGED <<allVars, moduleVars, lifecycleVars, pc, provider, ctx, done, feeding,
                   buffered, observerVars>>

CloseReturns(c) ==
    /\ closing[c] = "waiting"
    /\ pc[c] = "gone"
    /\ PollJoins => c \notin feeding
    /\ closing' = [closing EXCEPT ![c] = "returned"]
    /\ UNCHANGED <<allVars, moduleVars, lifecycleVars, pc, provider, ctx, done, feeding,
                   buffered, observerVars>>

----------------------------------------------------------------------------
(* The module's observer. *)

Stopping(n) == Visiting(n, "stopping") /\ Current(n) \in Lifecycles

\* Stop: beginShutdown closes the module and copies the registry.
BeginShutdown(n) ==
    /\ Stopping(n) /\ ~signalling[n].on
    /\ moduleClosing' = TRUE
    /\ signalling' = [signalling EXCEPT ![n] = [on |-> TRUE, todo |-> consumers]]
    /\ UNCHANGED <<allVars, instance, moduleCtx, moduleClosed, consumers, lifecycleVars,
                   consumerVars, releasing>>

\* Stop: signalStop of one consumer of the copy.
SignalStop(n) ==
    \E c \in signalling[n].todo :
        /\ done' = done \cup {c}
        /\ signalling' = [signalling EXCEPT ![n].todo = @ \ {c}]
        /\ UNCHANGED <<allVars, moduleVars, lifecycleVars, pc, provider, ctx, feeding,
                       buffered, closing, releasing>>

EndStop(n) ==
    /\ signalling[n].on /\ signalling[n].todo = {}
    /\ signalling' = [signalling EXCEPT ![n] = NotSignalling]
    /\ StopObserver(n)
    /\ UNCHANGED <<moduleVars, lifecycleVars, consumerVars, releasing>>

Closing(n) == Visiting(n, "closing") /\ Current(n) \in Lifecycles

\* Close without the guard of beginClose.
BeginCloseAlways(n) ==
    /\ Closing(n) /\ releasing[n] = "no"
    /\ moduleClosed' = TRUE
    /\ releasing' = [releasing EXCEPT ![n] = "cancel"]
    /\ UNCHANGED <<allVars, instance, moduleCtx, moduleClosing, consumers, lifecycleVars,
                   consumerVars, signalling>>

\* Close: beginClose decides whether this call releases the broker.
BeginClose(n) ==
    /\ Closing(n) /\ releasing[n] = "no"
    /\ moduleClosed' = TRUE
    /\ releasing' = [releasing EXCEPT ![n] = IF moduleClosed THEN "skip" ELSE "cancel"]
    /\ UNCHANGED <<allVars, instance, moduleCtx, moduleClosing, consumers, lifecycleVars,
                   consumerVars, signalling>>

\* Close: end the long polls of the current module context.
CancelModuleContext(n) ==
    /\ releasing[n] = "cancel"
    /\ cancelled' = cancelled \cup ({moduleCtx} \ {NotOpen})
    /\ releasing' = [releasing EXCEPT ![n] = "release"]
    /\ UNCHANGED <<allVars, moduleVars, opening, released, consumerVars, signalling>>

\* Close: close the provider the module has now.
ReleaseBroker(n) ==
    /\ releasing[n] = "release"
    /\ released' = released \cup ({instance} \ {NotOpen})
    /\ releasing' = [releasing EXCEPT ![n] = "skip"]
    /\ UNCHANGED <<allVars, moduleVars, opening, cancelled, consumerVars, signalling>>

EndClose(n) ==
    /\ releasing[n] = "skip"
    /\ releasing' = [releasing EXCEPT ![n] = "no"]
    /\ CloseObserver(n)
    /\ UNCHANGED <<moduleVars, lifecycleVars, consumerVars, signalling>>

----------------------------------------------------------------------------
ModuleStep ==
    \/ \E l \in Lifecycles : InitializeModule(l)
    \/ ResetModuleState
    \/ SetInstance
    \/ AttachModule

CreationStep(c) ==
    \/ NewConsumer(c)
    \/ RegisterConsumer(c)
    \/ CallProvider(c)
    \/ ProviderConsumer(c)
    \/ ActivateConsumer(c)
    \/ AbandonSignal(c)
    \/ AbandonUnregister(c)

ListenerExit(c) ==
    \/ UnregisterConsumer(c)
    \/ ReleaseModuleTask(c)
    \/ ListenerDone(c)

ListenerStep(c) ==
    \/ Receive(c)
    \/ HandlerReturns(c)
    \/ Settle(c)
    \/ ListenerStops(c)
    \/ ListenerExit(c)

ModuleObserverStep(n) ==
    \/ BeginShutdown(n)
    \/ SignalStop(n)
    \/ EndStop(n)
    \/ BeginClose(n)
    \/ CancelModuleContext(n)
    \/ ReleaseBroker(n)
    \/ EndClose(n)

\* The pipeline steps that are not calls into the module's observer.
OtherPipelineStep(n) ==
    /\ \/ ReceiveSignal(n)
       \/ TakeSnapshot(n)
       \/ BeginDrain(n)
       \/ EndDrain(n)
       \/ EndNotify(n)
       \/ ~Stopping(n) /\ StopObserver(n)
       \/ ~Closing(n) /\ CloseObserver(n)
       \/ DrainProgress(n)
    /\ UNCHANGED messagingVars

ApplicationStep ==
    /\ \/ \E g \in Goroutines : Initialize(g)
       \/ Signal
       \/ \E o \in Observers \ Lifecycles : Attach(o)
       \/ \E c \in Callers : Notify(c)
    /\ UNCHANGED messagingVars

MessagingNext ==
    \/ ApplicationStep
    \/ ModuleStep
    \/ \E c \in Consumers :
          \/ CreationStep(c)
          \/ Deliver(c) \/ ProviderStops(c)
          \/ ListenerStep(c)
          \/ CloseConsumer(c) \/ CloseReturns(c)
    \/ \E n \in Notifiers : OtherPipelineStep(n) \/ ModuleObserverStep(n)

SystemInit == Init /\ MessagingInit

MessagingSpec == SystemInit /\ [][MessagingNext]_systemVars

\* The goroutines of the SDK are scheduled, a handler returns and the bounded Ack
\* or Nack does too.  The select of the listener is fair to a ready done channel.
MessagingFairness ==
    /\ \A c \in Consumers :
          /\ WF_systemVars(HandlerReturns(c))
          /\ WF_systemVars(Settle(c))
          /\ SF_systemVars(ListenerStops(c))
          /\ WF_systemVars(ListenerExit(c))
          /\ WF_systemVars(ProviderStops(c))
          /\ WF_systemVars(CloseReturns(c))
    /\ \A n \in Notifiers : WF_systemVars(ModuleObserverStep(n) \/ OtherPipelineStep(n))

FairMessagingSpec == MessagingSpec /\ MessagingFairness

----------------------------------------------------------------------------
(* Properties. *)

MessagingTypeOK ==
    /\ instance \in Lifecycles \cup {NotOpen} /\ moduleCtx \in Lifecycles \cup {NotOpen}
    /\ moduleClosing \in BOOLEAN /\ moduleClosed \in BOOLEAN
    /\ consumers \subseteq Consumers
    /\ opening \in [step : {"none", "dialed", "reset", "published"},
                    of : Lifecycles \cup {NotOpen}]
    /\ cancelled \subseteq Lifecycles /\ released \subseteq Lifecycles
    /\ pc \in [Consumers -> {"none", "created", "registered", "calling", "wired", "abandon",
                             "abandoned", "failed", "listening", "handling", "settling", "leaving",
                             "unregistered", "released", "gone"}]
    /\ provider \in [Consumers -> Lifecycles \cup {NotOpen}]
    /\ ctx \in [Consumers -> Lifecycles \cup {NotOpen}]
    /\ done \subseteq Consumers /\ feeding \subseteq Consumers /\ buffered \subseteq Consumers
    /\ closing \in [Consumers -> {"no", "waiting", "returned"}]
    /\ signalling \in [Notifiers -> [on : BOOLEAN, todo : SUBSET Consumers]]
    /\ releasing \in [Notifiers -> {"no", "cancel", "release", "skip"}]

\* Once the module is closing, every consumer that listens has been told to stop or
\* is about to be by a Stop under way: no registration, however slow the broker was
\* to create the consumer, slips past the shutdown with nobody left to stop it.  It
\* takes a close that overlaps an opening, and one more opening, to break it.
NobodyLeftRunning ==
    moduleClosing =>
        \A c \in Consumers : Listens(c) =>
            c \in done \/ \E n \in Notifiers : c \in signalling[n].todo

\* The broker stays open while a handler runs or its message is being settled, so
\* the handler can publish and the message can be acked, unless a drain gave up.
BrokerOutlivesHandlers ==
    \A c \in Consumers : pc[c] \in {"handling", "settling"} =>
        provider[c] \notin released \/ \E n \in Notifiers : wait[n] = "timedOut"

\* Nothing closes under a handler: the broker stays open, and so does whatever was
\* attached beside the module, such as the database, in a pipeline that took the
\* module's observer and drained.
HandlersUndisturbed ==
    /\ BrokerOutlivesHandlers
    /\ \A n \in Notifiers, c \in Consumers :
          pc[c] \in {"handling", "settling"} /\ wait[n] = "drained" => provider[c] \notin Noticed(n)

\* A creation that failed leaves nothing half registered: not in the registry, not
\* counted by the drain, and no provider goroutine without the signal to stop.
FailureLeavesNothing ==
    \A c \in Consumers : pc[c] = "failed" =>
        c \notin consumers /\ c \notin active /\ (c \in feeding => c \in done)

\* However many pipelines run, and although each of them closes the module's
\* observer, the provider of an opening is released once.  An opening that overlaps
\* the close of the one before is outside of what the code keeps to.
ReleasedOnce ==
    [][\A n \in Notifiers :
         releasing[n] = "release" /\ releasing'[n] # "release" => instance \notin released]_systemVars

\* When Close returns, the consumer has left the registry, its module task is
\* released, no handler of it runs and, where the polling is joined, no poll is left.
CloseIsComplete ==
    \A c \in Consumers : closing[c] = "returned" =>
        /\ c \notin consumers /\ c \notin active /\ ~Listens(c)
        /\ PollJoins => c \notin feeding

\* A consumer told to stop leaves as long as its handler returns, even when the
\* broker was closed under it by a drain that gave up: nothing it does on the way
\* out waits without a bound.
StoppedConsumersLeave ==
    \A c \in Consumers : Listens(c) /\ c \in done ~> pc[c] = "gone"

\* Close on a handle returns, as long as its handler returns: the listener leaves and
\* the poll joined to it ends even though the module itself is not shutting down.
CloseTerminates ==
    \A c \in Consumers : closing[c] = "waiting" ~> closing[c] = "returned"

=============================================================================
