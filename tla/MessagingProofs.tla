-------------------------- MODULE MessagingProofs --------------------------
(***************************************************************************)
(* Proofs about the consumers of the messaging module, for any consumers,  *)
(* any openings of the module and any shutdown pipelines: a creation that  *)
(* failed leaves nothing half registered, a Close that returned left       *)
(* nothing of its consumer, nobody is left to listen without being told to *)
(* stop, no provider is released twice, and none is closed under a handler *)
(* while a drain succeeds.  The last three need that no shutdown overlaps  *)
(* a further opening of the module (OpeningAlone), and the last that no    *)
(* creation does (CreationsOver); a module opened once needs neither.      *)
(***************************************************************************)
EXTENDS Messaging, ShutdownProofs

\* What holds a consumer, by where it is: the registry, the drain, a goroutine of the
\* provider, the signal to stop and the handle.
HeldAt(c) ==
    /\ c \in consumers => pc[c] \in {"registered", "calling", "wired", "abandon", "abandoned",
                                     "listening", "handling", "settling", "leaving"}
    /\ c \in active <=> Listens(c) \/ pc[c] \in {"leaving", "unregistered"}
    /\ c \in feeding => pc[c] \notin {"none", "created", "registered", "calling"}
    /\ pc[c] = "abandoned" => c \in done
    /\ pc[c] = "failed" /\ c \in feeding => c \in done
    /\ closing[c] # "no" => Created(c)
    /\ closing[c] = "returned" => pc[c] = "gone" /\ (PollJoins => c \notin feeding)

Held == \A c \in Consumers : HeldAt(c)

MessagingInv == MessagingTypeOK /\ Held

-----------------------------------------------------------------------------

LEMMA MessagingInvInit == SystemInit => MessagingInv
<1> SUFFICES ASSUME SystemInit PROVE MessagingInv
  OBVIOUS
<1> USE DEF SystemInit, MessagingInit
<1>1. MessagingTypeOK
  BY DEF MessagingTypeOK, NoOpening, NotSignalling
<1>2. Held
  BY DEF Init, WorkInit, Held, HeldAt, Listens
<1> QED
  BY <1>1, <1>2 DEF MessagingInv

\* A step that leaves the consumers alone may only empty the registry.
LEMMA HeldKept ==
    ASSUME Held, UNCHANGED <<pc, active, done, feeding, closing>>, consumers' \subseteq consumers
    PROVE  Held'
  BY DEF Held, HeldAt, Listens, Created

\* A step of one consumer holds the others as they were.
LEMMA HeldElsewhere ==
    ASSUME MessagingTypeOK, Held, NEW c \in Consumers, HeldAt(c)',
           \A d \in Consumers \ {c} :
              /\ pc'[d] = pc[d] /\ closing'[d] = closing[d]
              /\ (d \in consumers' <=> d \in consumers) /\ (d \in active' <=> d \in active)
              /\ (d \in feeding' <=> d \in feeding) /\ (d \in done' <=> d \in done)
    PROVE  Held'
  BY DEF Held, HeldAt, Listens, Created

LEMMA CreationSteps ==
    ASSUME MessagingInv, NEW c \in Consumers, CreationStep(c)
    PROVE  MessagingInv'
<1> USE DEF MessagingInv, Goto, allVars, workVars, unitVars, moduleVars, lifecycleVars, observerVars
<1>1. MessagingTypeOK'
  <2> USE DEF MessagingTypeOK
  <2>1. CASE NewConsumer(c)
    BY <2>1 DEF NewConsumer
  <2>2. CASE RegisterConsumer(c)
    BY <2>2 DEF RegisterConsumer
  <2>3. CASE CallProvider(c)
    BY <2>3 DEF CallProvider
  <2>4. CASE ProviderConsumer(c)
    BY <2>4 DEF ProviderConsumer
  <2>5. CASE ActivateConsumer(c)
    BY <2>5 DEF ActivateConsumer
  <2>6. CASE AbandonSignal(c) \/ AbandonUnregister(c)
    BY <2>6 DEF AbandonSignal, AbandonUnregister
  <2> QED
    BY <2>1, <2>2, <2>3, <2>4, <2>5, <2>6 DEF CreationStep
<1>2. Held'
  <2>1. \A d \in Consumers \ {c} :
              /\ pc'[d] = pc[d] /\ closing'[d] = closing[d]
              /\ (d \in consumers' <=> d \in consumers) /\ (d \in active' <=> d \in active)
              /\ (d \in feeding' <=> d \in feeding) /\ (d \in done' <=> d \in done)
    BY DEF CreationStep, NewConsumer, RegisterConsumer, CallProvider, ProviderConsumer,
       ActivateConsumer, AddModuleTask, AbandonSignal, AbandonUnregister, MessagingTypeOK
  <2>2. HeldAt(c)
    BY DEF Held
  <2>3. HeldAt(c)'
    <3> USE <2>2 DEF HeldAt, Listens, Created, MessagingTypeOK
    <3>1. CASE NewConsumer(c)
      BY <3>1 DEF NewConsumer
    <3>2. CASE RegisterConsumer(c)
      BY <3>2 DEF RegisterConsumer
    <3>3. CASE CallProvider(c)
      BY <3>3 DEF CallProvider
    <3>4. CASE ProviderConsumer(c)
      BY <3>4 DEF ProviderConsumer
    <3>5. CASE ActivateConsumer(c)
      BY <3>5 DEF ActivateConsumer, AddModuleTask
    <3>6. CASE AbandonSignal(c)
      BY <3>6 DEF AbandonSignal
    <3>7. CASE AbandonUnregister(c)
      BY <3>7 DEF AbandonUnregister
    <3> QED
      BY <3>1, <3>2, <3>3, <3>4, <3>5, <3>6, <3>7 DEF CreationStep
  <2> QED
    BY <2>1, <2>3, HeldElsewhere
<1> QED
  BY <1>1, <1>2

\* What a consumer does once it is created, and what is done to it.
LiveStep(c) ==
    \/ Deliver(c) \/ ProviderStops(c) \/ ListenerStep(c) \/ CloseConsumer(c) \/ CloseReturns(c)

LEMMA LiveSteps ==
    ASSUME MessagingInv, NEW c \in Consumers, LiveStep(c)
    PROVE  MessagingInv'
<1> USE DEF MessagingInv, LiveStep, Goto, allVars, workVars, unitVars, moduleVars, lifecycleVars,
            observerVars, ListenerStep, ListenerExit
<1>1. MessagingTypeOK'
  <2> USE DEF MessagingTypeOK
  <2>1. CASE Deliver(c) \/ ProviderStops(c)
    BY <2>1 DEF Deliver, ProviderStops
  <2>2. CASE Receive(c) \/ HandlerReturns(c) \/ Settle(c) \/ ListenerStops(c)
    BY <2>2 DEF Receive, HandlerReturns, Settle, ListenerStops
  <2>3. CASE UnregisterConsumer(c) \/ ReleaseModuleTask(c) \/ ListenerDone(c)
    BY <2>3 DEF UnregisterConsumer, ReleaseModuleTask, ListenerDone
  <2>4. CASE CloseConsumer(c) \/ CloseReturns(c)
    BY <2>4 DEF CloseConsumer, CloseReturns
  <2> QED
    BY <2>1, <2>2, <2>3, <2>4
<1>2. Held'
  <2>1. \A d \in Consumers \ {c} :
              /\ pc'[d] = pc[d] /\ closing'[d] = closing[d]
              /\ (d \in consumers' <=> d \in consumers) /\ (d \in active' <=> d \in active)
              /\ (d \in feeding' <=> d \in feeding) /\ (d \in done' <=> d \in done)
    BY DEF Deliver, ProviderStops, Receive, HandlerReturns, Settle, ListenerStops,
       UnregisterConsumer, ReleaseModuleTask, DoneModuleTask, ListenerDone, CloseConsumer,
       CloseReturns, MessagingTypeOK
  <2>2. HeldAt(c)
    BY DEF Held
  <2>3. HeldAt(c)'
    <3> USE <2>2 DEF HeldAt, Listens, Created, MessagingTypeOK
    <3>1. CASE Deliver(c) \/ ProviderStops(c)
      BY <3>1 DEF Deliver, ProviderStops
    <3>2. CASE Receive(c) \/ HandlerReturns(c) \/ Settle(c) \/ ListenerStops(c)
      BY <3>2 DEF Receive, HandlerReturns, Settle, ListenerStops
    <3>3. CASE UnregisterConsumer(c)
      BY <3>3 DEF UnregisterConsumer
    <3>4. CASE ReleaseModuleTask(c)
      BY <3>4 DEF ReleaseModuleTask, DoneModuleTask
    <3>5. CASE ListenerDone(c)
      BY <3>5 DEF ListenerDone
    <3>6. CASE CloseConsumer(c)
      BY <3>6 DEF CloseConsumer
    <3>7. CASE CloseReturns(c)
      BY <3>7 DEF CloseReturns
    <3> QED
      BY <3>1, <3>2, <3>3, <3>4, <3>5, <3>6, <3>7
  <2> QED
    BY <2>1, <2>3, HeldElsewhere
<1> QED
  BY <1>1, <1>2

\* The lifecycle of the module, and the steps that are not the module's.
LEMMA ModuleSteps ==
    ASSUME MessagingInv,
           ModuleStep \/ ApplicationStep \/ (\E n \in Notifiers : OtherPipelineStep(n))
             \/ UNCHANGED systemVars
    PROVE  MessagingInv'
<1> USE DEF MessagingInv, moduleVars, lifecycleVars, consumerVars, observerVars, allVars, workVars, unitVars
<1>1. CASE ModuleStep
  <2>1. MessagingTypeOK'
    <3> USE DEF MessagingTypeOK
    <3>1. CASE \E l \in Lifecycles : InitializeModule(l)
      BY <3>1 DEF InitializeModule
    <3>2. CASE ResetModuleState
      BY <3>2 DEF ResetModuleState
    <3>3. CASE SetInstance
      BY <3>3 DEF SetInstance
    <3>4. CASE AttachModule
      BY <3>4 DEF AttachModule, NoOpening
    <3> QED
      BY <1>1, <3>1, <3>2, <3>3, <3>4 DEF ModuleStep
  <2>2. Held'
    <3>1. UNCHANGED <<pc, active, done, feeding, closing>> /\ consumers' \subseteq consumers
      BY <1>1 DEF ModuleStep, InitializeModule, ResetModuleState, SetInstance, AttachModule, Attach
    <3> QED
      BY <3>1, HeldKept
  <2> QED
    BY <2>1, <2>2
<1>2. CASE UNCHANGED <<messagingVars, active>>
  <2>1. MessagingTypeOK'
    BY <1>2 DEF messagingVars, MessagingTypeOK
  <2> QED
    BY <1>2, <2>1, HeldKept DEF messagingVars
<1>3. CASE ApplicationStep
  <2>1. UNCHANGED <<messagingVars, active>>
    BY <1>3 DEF ApplicationStep, Initialize, Signal, Attach, Notify
  <2> QED
    BY <1>2, <2>1
<1>4. CASE \E n \in Notifiers : OtherPipelineStep(n)
  <2>1. UNCHANGED <<messagingVars, active>>
    BY <1>4 DEF OtherPipelineStep, ReceiveSignal, TakeSnapshot, BeginDrain, StartDrain, EndDrain,
       EndNotify, StopObserver, CloseObserver, DrainProgress, DrainStep, DeadlineFires,
       CountersIdle, LegacyWait, LegacyIdle, GiveUp
  <2> QED
    BY <1>2, <2>1
<1> QED
  BY <1>1, <1>2, <1>3, <1>4 DEF systemVars

LEMMA ObserverSteps ==
    ASSUME MessagingInv, NEW n \in Notifiers, ModuleObserverStep(n)
    PROVE  MessagingInv'
<1> USE DEF MessagingInv, moduleVars, lifecycleVars, consumerVars, allVars, workVars, unitVars
<1>1. MessagingTypeOK'
  <2> USE DEF MessagingTypeOK
  <2>1. CASE BeginShutdown(n)
    BY <2>1 DEF BeginShutdown
  <2>2. CASE SignalStop(n)
    BY <2>2 DEF SignalStop
  <2>3. CASE EndStop(n)
    BY <2>3 DEF EndStop, NotSignalling
  <2>4. CASE BeginClose(n) \/ CancelModuleContext(n) \/ ReleaseBroker(n) \/ EndClose(n)
    BY <2>4 DEF BeginClose, CancelModuleContext, ReleaseBroker, EndClose
  <2> QED
    BY <2>1, <2>2, <2>3, <2>4 DEF ModuleObserverStep
<1>2. Held'
  <2>1. CASE SignalStop(n)
    BY <2>1 DEF SignalStop, Held, HeldAt, Listens, Created
  <2>2. CASE ~SignalStop(n)
    <3>1. UNCHANGED <<pc, active, done, feeding, closing, consumers>>
      BY <2>2 DEF ModuleObserverStep, BeginShutdown, EndStop, StopObserver, BeginClose,
         CancelModuleContext, ReleaseBroker, EndClose, CloseObserver
    <3> QED
      BY <3>1, HeldKept
  <2> QED
    BY <2>1, <2>2
<1> QED
  BY <1>1, <1>2

LEMMA MessagingInvStep == MessagingInv /\ [MessagingNext]_systemVars => MessagingInv'
<1> SUFFICES ASSUME MessagingInv, [MessagingNext]_systemVars PROVE MessagingInv'
  OBVIOUS
<1> QED
  BY CreationSteps, LiveSteps, ModuleSteps, ObserverSteps DEF MessagingNext, LiveStep

-----------------------------------------------------------------------------
(* The openings of the module and the pipelines. *)

\* A lifecycle is used from the moment its provider is published.
Used(l) == ~Fresh(l) \/ (opening.step = "published" /\ opening.of = l)

Openings ==
    /\ opening.step # "none" => opening.of \in Lifecycles /\ Fresh(opening.of)
    /\ opening.step = "published" => instance = opening.of
    /\ instance # NotOpen => Used(instance)
    /\ instance = NotOpen => \A l \in Lifecycles : Fresh(l)
    /\ instance = NotOpen => \A c \in Consumers : pc[c] \in {"none", "failed"}
    /\ \A c \in Consumers : pc[c] \notin {"none", "failed"} => provider[c] \in Lifecycles
    /\ \A l \in released : Used(l)
    /\ \A n \in Notifiers : \A l \in Noticed(n) \cap Lifecycles : ~Fresh(l)

ModuleInv == PipelineInv /\ MessagingInv /\ Openings

\* The consumer a step of the module is about registers whenever the module lets it.
LEMMA MessagingIsUngated ==
    ASSUME ModuleInv, [MessagingNext]_systemVars PROVE [UngatedNext]_allVars
<1>1. CASE ApplicationStep
  BY <1>1 DEF ApplicationStep, UngatedNext, Next
<1>2. CASE ModuleStep
  <2>1. CASE AttachModule
    BY <2>1, LifecyclesAssumption, ObserversAssumption
       DEF AttachModule, ModuleInv, Openings, UngatedNext, Next
  <2> QED
    BY <1>2, <2>1 DEF ModuleStep, InitializeModule, ResetModuleState, SetInstance
<1>3. ASSUME NEW c \in Consumers, CreationStep(c) \/ LiveStep(c)
      PROVE  [UngatedNext]_allVars
  <2>1. CASE ActivateConsumer(c) \/ ReleaseModuleTask(c)
    <3>1. c \in Units
      BY DEF Consumers, Units
    <3> QED
      BY <2>1, <3>1 DEF ActivateConsumer, ReleaseModuleTask, UngatedNext, WorkMoves, allVars
  <2>2. CASE ~(ActivateConsumer(c) \/ ReleaseModuleTask(c))
    BY <1>3, <2>2 DEF CreationStep, NewConsumer, RegisterConsumer, CallProvider, ProviderConsumer,
       AbandonSignal, AbandonUnregister, LiveStep, Deliver, ProviderStops, ListenerStep, Receive,
       HandlerReturns, Settle, ListenerStops, ListenerExit, UnregisterConsumer, ListenerDone,
       CloseConsumer, CloseReturns
  <2> QED
    BY <2>1, <2>2
<1>4. CASE \E n \in Notifiers : OtherPipelineStep(n)
  BY <1>4 DEF OtherPipelineStep, UngatedNext, Next, PipelineStep
<1>5. CASE \E n \in Notifiers : ModuleObserverStep(n)
  BY <1>5 DEF ModuleObserverStep, BeginShutdown, SignalStop, EndStop, BeginClose,
     CancelModuleContext, ReleaseBroker, EndClose, UngatedNext, Next, PipelineStep
<1>6. CASE UNCHANGED systemVars
  BY <1>6 DEF systemVars
<1> QED
  BY <1>1, <1>2, <1>3, <1>4, <1>5, <1>6 DEF MessagingNext, LiveStep

LEMMA OneMoreAttached ==
    ASSUME NEW S, NEW s \in Seq(S), NEW e \in S
    PROVE  ToSet(Append(s, e)) = ToSet(s) \cup {e}
<1> DEFINE t == Append(s, e)
<1>1. DOMAIN s = 1..Len(s) /\ Len(s) \in Nat /\ DOMAIN t = 1..Len(s) + 1
  OBVIOUS
<1>2. \A i \in DOMAIN t : t[i] = IF i = Len(s) + 1 THEN e ELSE s[i]
  OBVIOUS
<1>3. \A i \in DOMAIN s : i \in DOMAIN t /\ i # Len(s) + 1
  BY <1>1
<1> HIDE DEF t
<1>4. ToSet(t) = ToSet(s) \cup {e}
  BY <1>1, <1>2, <1>3 DEF ToSet
<1> QED
  BY <1>4 DEF t

LEMMA Attaching ==
    ASSUME ShutdownTypeOK, NEW o \in Observers, Attach(o), NEW l
    PROVE  Fresh(l)' <=> Fresh(l) /\ l # o
<1>1. services \in Goroutines /\ observers' = [observers EXCEPT ![services] = Append(observers[services], o)]
  BY DEF Attach, ShutdownTypeOK
<1>2. ToSet(Append(observers[services], o)) = ToSet(observers[services]) \cup {o}
  BY <1>1, OneMoreAttached DEF ShutdownTypeOK
<1>3. \A g \in Goroutines :
         l \in ToSet(observers'[g]) <=> l \in ToSet(observers[g]) \/ (g = services /\ l = o)
  BY <1>1, <1>2 DEF ShutdownTypeOK
<1>4. Fresh(l)' <=> \A g \in Goroutines : l \notin ToSet(observers'[g])
  BY DEF Fresh
<1>5. services \in Goroutines
  BY <1>1
<1> QED
  BY <1>3, <1>4, <1>5 DEF Fresh

LEMMA ObserversKept ==
    ASSUME [UngatedNext]_allVars
    PROVE  (\E o \in Observers : Attach(o)) \/ observers' = observers
  BY DEF UngatedNext, WorkMoves, Next, Initialize, Signal, Notify, allVars, shutdownVars,
     subjectVars, PipelineStep, ReceiveSignal, TakeSnapshot, StopObserver, BeginDrain, EndDrain,
     CloseObserver, EndNotify, DrainProgress, UnitStep

\* A lifecycle stays fresh until the module attaches it.
LEMMA FreshSteps ==
    ASSUME ModuleInv, [MessagingNext]_systemVars
    PROVE  \/ AttachModule /\ \A l : Fresh(l)' <=> Fresh(l) /\ l # opening.of
           \/ ~AttachModule /\ \A l \in Lifecycles : Fresh(l)' <=> Fresh(l)
<1> USE DEF ModuleInv, PipelineInv
<1>1. CASE AttachModule
  <2>1. opening.of \in Observers /\ Attach(opening.of)
    BY <1>1, LifecyclesAssumption, ObserversAssumption DEF AttachModule, Openings
  <2> QED
    BY <1>1, <2>1, Attaching
<1>2. CASE \E o \in Observers \ Lifecycles : Attach(o)
  <2>1. PICK o \in Observers \ Lifecycles : Attach(o)
    BY <1>2
  <2> QED
    BY <2>1, <1>1, Attaching
<1>3. CASE observers' = observers /\ ~AttachModule
  BY <1>3 DEF Fresh
<1>4. (\E o \in Observers \ Lifecycles : Attach(o)) \/ observers' = observers \/ AttachModule
  <2>1. CASE ApplicationStep \/ \E n \in Notifiers : OtherPipelineStep(n) \/ ModuleObserverStep(n)
    BY <2>1 DEF ApplicationStep, Initialize, Signal, Notify, OtherPipelineStep, ReceiveSignal,
       TakeSnapshot, BeginDrain, EndDrain, EndNotify, StopObserver, CloseObserver, DrainProgress,
       ModuleObserverStep, BeginShutdown, SignalStop, EndStop, BeginClose, CancelModuleContext,
       ReleaseBroker, EndClose, allVars, shutdownVars, subjectVars
  <2>2. CASE \E c \in Consumers : CreationStep(c) \/ LiveStep(c)
    BY <2>2 DEF CreationStep, NewConsumer, RegisterConsumer, CallProvider, ProviderConsumer,
       ActivateConsumer, AbandonSignal, AbandonUnregister, LiveStep, Deliver, ProviderStops,
       ListenerStep, Receive, HandlerReturns, Settle, ListenerStops, ListenerExit,
       UnregisterConsumer, ReleaseModuleTask, ListenerDone, CloseConsumer, CloseReturns,
       allVars, shutdownVars, subjectVars
  <2>3. CASE ModuleStep \/ UNCHANGED systemVars
    BY <2>3 DEF ModuleStep, InitializeModule, ResetModuleState, SetInstance, systemVars, allVars,
       shutdownVars, subjectVars
  <2> QED
    BY <2>1, <2>2, <2>3 DEF MessagingNext, LiveStep
<1> QED
  BY <1>1, <1>2, <1>3, <1>4

\* What a pipeline took was attached.
LEMMA TakenAreUsed ==
    ASSUME ModuleInv, [MessagingNext]_systemVars
    PROVE  \A n \in Notifiers : \A l \in Noticed(n)' \cap Lifecycles : ~Fresh(l)'
<1> SUFFICES ASSUME NEW n \in Notifiers, NEW l \in Noticed(n)' \cap Lifecycles PROVE ~Fresh(l)'
  OBVIOUS
<1> USE DEF ModuleInv, PipelineInv
<1>1. CASE snapshot'[n] = snapshot[n]
  BY <1>1, FreshSteps DEF Openings, Noticed
<1>2. CASE TakeSnapshot(n)
  <2>1. snapshot'[n] = observers[target[n]] /\ target[n] \in Goroutines
    BY <1>2 DEF TakeSnapshot, Targets, ShutdownTypeOK
  <2> QED
    BY <1>2, <2>1 DEF Fresh, Noticed, TakeSnapshot, subjectVars
<1>3. TakeSnapshot(n) \/ snapshot'[n] = snapshot[n]
  BY MessagingIsUngated DEF UngatedNext, WorkMoves, Next, Initialize, Signal, Attach, Notify, allVars, shutdownVars,
     PipelineStep, ReceiveSignal, TakeSnapshot, StopObserver, BeginDrain, EndDrain, CloseObserver,
     EndNotify, DrainProgress, UnitStep, pipelineVars, ShutdownTypeOK
<1> QED
  BY <1>1, <1>2, <1>3

LEMMA ModuleInvInit == SystemInit => ModuleInv
<1> SUFFICES ASSUME SystemInit PROVE ModuleInv
  OBVIOUS
<1>1. PipelineInv /\ MessagingInv
  BY ShutdownInvInit, MessagingInvInit DEF SystemInit, ShutdownInv
<1>2. Openings
  BY DEF SystemInit, MessagingInit, Init, ShutdownInit, Openings, NoOpening, Fresh, Noticed, ToSet
<1> QED
  BY <1>1, <1>2 DEF ModuleInv

LEMMA OpeningsStep ==
    ASSUME ModuleInv, [MessagingNext]_systemVars
    PROVE  Openings'
<1> USE DEF ModuleInv, MessagingInv
<1>1. \A n \in Notifiers : \A l \in Noticed(n)' \cap Lifecycles : ~Fresh(l)'
  BY TakenAreUsed
<1>2. CASE ModuleStep
  <2> USE <1>1, LifecyclesAssumption DEF Openings, Used, moduleVars, consumerVars, MessagingTypeOK
  <2>1. CASE AttachModule
    <3>1. \A l : Fresh(l)' <=> Fresh(l) /\ l # opening.of
      BY <2>1, FreshSteps
    <3> QED
      BY <2>1, <3>1 DEF AttachModule, NoOpening
  <2>2. CASE ~AttachModule
    <3>1. \A l \in Lifecycles : Fresh(l)' <=> Fresh(l)
      BY <2>2, FreshSteps
    <3>2. CASE \E l \in Lifecycles : InitializeModule(l)
      BY <3>1, <3>2 DEF InitializeModule
    <3>3. CASE ResetModuleState
      BY <3>1, <3>3 DEF ResetModuleState
    <3>4. CASE SetInstance
      BY <3>1, <3>4 DEF SetInstance
    <3> QED
      BY <1>2, <2>2, <3>2, <3>3, <3>4 DEF ModuleStep
  <2> QED
    BY <2>1, <2>2
<1>3. ASSUME UNCHANGED <<opening, instance>>, released' \subseteq released \cup ({instance} \ {NotOpen}),
             \A c \in Consumers :
                \/ pc'[c] \in {"none", "failed"}
                \/ pc[c] \notin {"none", "failed"} /\ provider'[c] = provider[c]
                \/ provider'[c] = instance /\ instance # NotOpen
      PROVE  Openings'
  <2>1. ~AttachModule
    BY <1>3 DEF AttachModule, NoOpening
  <2>2. \A l \in Lifecycles : Fresh(l)' <=> Fresh(l)
    BY <2>1, FreshSteps
  <2> QED
    BY <1>1, <1>3, <2>2 DEF Openings, Used, MessagingTypeOK
<1>4. CASE \E n \in Notifiers : ModuleObserverStep(n)
  BY <1>3, <1>4 DEF ModuleObserverStep, BeginShutdown, SignalStop, EndStop, BeginClose,
     CancelModuleContext, ReleaseBroker, EndClose, moduleVars, lifecycleVars, consumerVars
<1>5. CASE UNCHANGED messagingVars
  BY <1>3, <1>5 DEF messagingVars, moduleVars, lifecycleVars, consumerVars
<1>6. ASSUME NEW c \in Consumers, CreationStep(c) \/ LiveStep(c)
      PROVE  Openings'
  BY <1>3, <1>6 DEF CreationStep, NewConsumer, RegisterConsumer, CallProvider, ProviderConsumer,
     ActivateConsumer, AbandonSignal, AbandonUnregister, LiveStep, Deliver, ProviderStops,
     ListenerStep, Receive, HandlerReturns, Settle, ListenerStops, ListenerExit,
     UnregisterConsumer, ReleaseModuleTask, ListenerDone, CloseConsumer, CloseReturns, Goto,
     moduleVars, lifecycleVars, MessagingTypeOK, Created, Listens
<1> QED
  BY <1>2, <1>4, <1>5, <1>6 DEF MessagingNext, LiveStep, ApplicationStep, OtherPipelineStep, systemVars

LEMMA ModuleInvStep == ModuleInv /\ [MessagingNext]_systemVars => ModuleInv'
  BY MessagingIsUngated, PipelineInvStep, MessagingInvStep, OpeningsStep DEF ModuleInv

-----------------------------------------------------------------------------
(* The calls of the pipelines into the module's observer. *)

\* Pipeline n has called Stop on an observer of the module, or is calling it.
Asked(n) ==
    \/ signalling[n].on
    \/ stage[n] = "stopping" /\ \E i \in 1..Len(snapshot[n]) : i < at[n] /\ snapshot[n][i] \in Lifecycles
    \/ stage[n] \in {"draining", "closing"} /\ Noticed(n) \cap Lifecycles # {}

CallsAt(n) ==
    /\ signalling[n].on => Stopping(n)
    /\ ~signalling[n].on => signalling[n].todo = {}
    /\ releasing[n] # "no" => Closing(n)

\* What a step may do to pipeline n and its calls.
LEMMA OwnSteps ==
    ASSUME ModuleInv, [MessagingNext]_systemVars, NEW n \in Notifiers
    PROVE  \/ OtherPipelineStep(n) \/ ModuleObserverStep(n)
           \/ n \in Callers /\ Notify(n) /\ UNCHANGED messagingVars
           \/ /\ stage'[n] = stage[n] /\ at'[n] = at[n] /\ snapshot'[n] = snapshot[n]
              /\ signalling'[n] = signalling[n] /\ releasing'[n] = releasing[n]
<1> USE DEF ModuleInv, PipelineInv, MessagingInv, ShutdownTypeOK, MessagingTypeOK
<1>1. CASE \E m \in Notifiers \ {n} : OtherPipelineStep(m)
  BY <1>1 DEF OtherPipelineStep, ReceiveSignal, TakeSnapshot, StopObserver, BeginDrain, EndDrain,
     CloseObserver, EndNotify, Advance, DrainProgress, shutdownVars, pipelineVars, messagingVars, observerVars
<1>2. CASE \E m \in Notifiers \ {n} : ModuleObserverStep(m)
  BY <1>2 DEF ModuleObserverStep, BeginShutdown, SignalStop, EndStop, StopObserver, BeginClose,
     CancelModuleContext, ReleaseBroker, EndClose, CloseObserver, Advance, allVars, shutdownVars, pipelineVars
<1>3. CASE ApplicationStep
  BY <1>3 DEF ApplicationStep, Initialize, Signal, Attach, Notify, pipelineVars, messagingVars, observerVars, Notifiers
<1>4. CASE ModuleStep \/ UNCHANGED systemVars
  BY <1>4 DEF ModuleStep, InitializeModule, ResetModuleState, SetInstance, AttachModule, Attach,
     systemVars, allVars, shutdownVars, pipelineVars, messagingVars, observerVars
<1>5. CASE \E c \in Consumers : CreationStep(c) \/ LiveStep(c)
  BY <1>5 DEF CreationStep, NewConsumer, RegisterConsumer, CallProvider, ProviderConsumer,
     ActivateConsumer, AbandonSignal, AbandonUnregister, LiveStep, Deliver, ProviderStops,
     ListenerStep, Receive, HandlerReturns, Settle, ListenerStops, ListenerExit,
     UnregisterConsumer, ReleaseModuleTask, ListenerDone, CloseConsumer, CloseReturns,
     allVars, shutdownVars, pipelineVars, observerVars
<1> QED
  BY <1>1, <1>2, <1>3, <1>4, <1>5 DEF MessagingNext, LiveStep

\* A call is made where the pipeline is, and only BeginShutdown asks the module.
LEMMA CallsStep ==
    ASSUME ModuleInv, [MessagingNext]_systemVars, NEW n \in Notifiers, CallsAt(n)
    PROVE  CallsAt(n)' /\ (Asked(n)' => Asked(n) \/ BeginShutdown(n))
<1> USE DEF ModuleInv, PipelineInv, MessagingInv, ShutdownTypeOK, MessagingTypeOK, CallsAt,
            Asked, Stopping, Closing, Visiting, Current
<1>1. CASE OtherPipelineStep(n)
  <2> USE DEF messagingVars, observerVars, Advance, Noticed
  <2>1. CASE ReceiveSignal(n) \/ EndNotify(n)
    BY <1>1, <2>1 DEF OtherPipelineStep, ReceiveSignal, EndNotify
  <2>2. CASE TakeSnapshot(n)
    BY <1>1, <2>2 DEF OtherPipelineStep, TakeSnapshot, Barrier
  <2>3. CASE BeginDrain(n)
    <3>1. ~signalling[n].on /\ releasing[n] = "no" /\ UNCHANGED <<signalling, releasing>>
      BY <1>1, <2>3 DEF OtherPipelineStep, BeginDrain
    <3>2. stage'[n] = "draining" /\ Noticed(n)' = Noticed(n)
      BY <2>3 DEF BeginDrain
    <3>3. ASSUME NEW l \in Noticed(n) \cap Lifecycles PROVE Asked(n)
      <4>1. DOMAIN snapshot[n] = 1..Len(snapshot[n])
        OBVIOUS
      <4>2. PICK i \in 1..Len(snapshot[n]) : snapshot[n][i] = l
        BY <4>1 DEF ToSet
      <4> QED
        BY <2>3, <4>2 DEF BeginDrain
    <3> QED
      BY <3>1, <3>2, <3>3
  <2>4. CASE EndDrain(n)
    BY <1>1, <2>4 DEF OtherPipelineStep, EndDrain
  <2>5. CASE ~Stopping(n) /\ StopObserver(n)
    <3>1. ~signalling[n].on /\ releasing[n] = "no" /\ UNCHANGED <<signalling, releasing>>
      BY <1>1, <2>5 DEF OtherPipelineStep, StopObserver
    <3>2. stage'[n] = "stopping" /\ at'[n] = at[n] + 1 /\ snapshot'[n] = snapshot[n]
          /\ snapshot[n][at[n]] \notin Lifecycles
      BY <2>5 DEF StopObserver
    <3> QED
      BY <2>5, <3>1, <3>2 DEF StopObserver
  <2>6. CASE ~Closing(n) /\ CloseObserver(n)
    BY <1>1, <2>6 DEF OtherPipelineStep, CloseObserver
  <2>7. CASE DrainProgress(n)
    BY <1>1, <2>7 DEF OtherPipelineStep, DrainProgress, shutdownVars, pipelineVars
  <2> QED
    BY <1>1, <2>1, <2>2, <2>3, <2>4, <2>5, <2>6, <2>7 DEF OtherPipelineStep
<1>2. CASE ModuleObserverStep(n)
  <2> USE DEF allVars, shutdownVars, pipelineVars, Advance, Noticed
  <2>1. CASE BeginShutdown(n)
    BY <2>1 DEF BeginShutdown
  <2>2. CASE SignalStop(n)
    BY <2>2 DEF SignalStop
  <2>3. CASE EndStop(n)
    BY <2>3 DEF EndStop, StopObserver, NotSignalling
  <2>4. CASE BeginClose(n) \/ CancelModuleContext(n) \/ ReleaseBroker(n)
    BY <2>4 DEF BeginClose, CancelModuleContext, ReleaseBroker
  <2>5. CASE EndClose(n)
    BY <2>5 DEF EndClose, CloseObserver
  <2> QED
    BY <1>2, <2>1, <2>2, <2>3, <2>4, <2>5 DEF ModuleObserverStep
<1>3. CASE n \in Callers /\ Notify(n) /\ UNCHANGED messagingVars
  BY <1>3 DEF Notify, messagingVars, observerVars
<1>4. CASE /\ stage'[n] = stage[n] /\ at'[n] = at[n] /\ snapshot'[n] = snapshot[n]
           /\ signalling'[n] = signalling[n] /\ releasing'[n] = releasing[n]
  BY <1>4 DEF Noticed
<1> QED
  BY <1>1, <1>2, <1>3, <1>4, OwnSteps

-----------------------------------------------------------------------------
(* The module between openings that no shutdown overlaps. *)

\* An Initialize that opens the module once more, before it publishes the new provider.
Reopening == opening.step \in {"dialed", "reset"} /\ instance # NotOpen

\* No shutdown begins while the module is being opened once more.
OpeningAlone == Reopening => ~ShutdownUnderWay

\* Someone will tell consumer c to stop, or has.
Told(c) == c \in done \/ \E n \in Notifiers : c \in signalling[n].todo

\* A consumer in the registry or past it, that nothing has made leave.
Live(c) == Listens(c) \/ pc[c] \in {"registered", "calling", "wired"}

\* An Initialize that opens the module once more found it closing.
FoundClosing == opening.step = "dialed" /\ instance # NotOpen => moduleClosing

Releases ==
    /\ \A n \in Notifiers : releasing[n] \in {"cancel", "release"} =>
          /\ moduleClosed /\ instance \notin released
          /\ \A m \in Notifiers \ {n} : releasing[m] \notin {"cancel", "release"}
    /\ moduleClosed => moduleClosing
    /\ FoundClosing
    /\ instance \in released /\ ~Reopening => moduleClosed

Reached ==
    /\ \A c \in Consumers : Live(c) => c \in consumers \/ Told(c)
    /\ moduleClosing => \A c \in Consumers : Live(c) => Told(c)

StopInv ==
    /\ \A n \in Notifiers : CallsAt(n) /\ (Asked(n) => moduleClosing)
    /\ Releases
    /\ Reached

\* Nobody asks a module that was never open.
LEMMA QuietUnopened ==
    ASSUME ModuleInv, instance = NotOpen, NEW n \in Notifiers
    PROVE  ~Stopping(n) /\ ~Closing(n) /\ (Asked(n) => signalling[n].on)
<1> USE DEF ModuleInv
<1>1. Noticed(n) \cap Lifecycles = {}
  BY DEF Openings
<1>2. \A i \in 1..Len(snapshot[n]) : snapshot[n][i] \notin Lifecycles
  <2>1. DOMAIN snapshot[n] = 1..Len(snapshot[n])
    BY DEF PipelineInv, ShutdownTypeOK
  <2> QED
    BY <1>1, <2>1 DEF Noticed, ToSet
<1>3. at[n] \in Nat \ {0}
  BY DEF PipelineInv, ShutdownTypeOK
<1> QED
  BY <1>1, <1>2, <1>3 DEF Asked, Stopping, Closing, Visiting, Current

LEMMA Quiet ==
    ASSUME ModuleInv, StopInv, OpeningAlone, opening.step \in {"dialed", "reset"}, NEW n \in Notifiers
    PROVE  ~Asked(n) /\ ~Stopping(n) /\ ~Closing(n) /\ releasing[n] = "no"
<1> USE DEF StopInv, CallsAt, ModuleInv
<1>1. CASE instance # NotOpen
  BY <1>1 DEF OpeningAlone, Reopening, ShutdownUnderWay, Asked, Stopping, Closing, Visiting
<1>2. CASE instance = NotOpen
  BY <1>2, QuietUnopened
<1> QED
  BY <1>1, <1>2

\* A pipeline that closes the module's observer stopped it.
LEMMA ClosingIsAsked ==
    ASSUME ModuleInv, NEW n \in Notifiers, Closing(n) PROVE Asked(n)
<1>1. at[n] \in DOMAIN snapshot[n]
  BY DEF Closing, Visiting, ModuleInv, PipelineInv, ShutdownTypeOK
<1> QED
  BY <1>1 DEF Closing, Visiting, Current, Asked, Noticed, ToSet

\* Only Initialize takes back that the module closes.
LEMMA ClosingKept ==
    ASSUME [MessagingNext]_systemVars
    PROVE  ResetModuleState \/ (moduleClosing => moduleClosing')
  BY DEF MessagingNext, ApplicationStep, ModuleStep, InitializeModule, SetInstance, AttachModule,
     CreationStep, NewConsumer, RegisterConsumer, CallProvider, ProviderConsumer, ActivateConsumer,
     AbandonSignal, AbandonUnregister, Deliver, ProviderStops, ListenerStep, Receive,
     HandlerReturns, Settle, ListenerStops, ListenerExit, UnregisterConsumer, ReleaseModuleTask,
     ListenerDone, CloseConsumer, CloseReturns, OtherPipelineStep, ModuleObserverStep,
     BeginShutdown, SignalStop, EndStop, BeginClose, CancelModuleContext, ReleaseBroker, EndClose,
     moduleVars, messagingVars, systemVars

LEMMA CallsClose ==
    ASSUME ModuleInv, StopInv, OpeningAlone, [MessagingNext]_systemVars, NEW n \in Notifiers
    PROVE  CallsAt(n)' /\ (Asked(n)' => moduleClosing')
<1> USE DEF StopInv
<1>1. CallsAt(n)' /\ (Asked(n)' => Asked(n) \/ BeginShutdown(n))
  BY CallsStep
<1>2. CASE ResetModuleState
  BY <1>1, <1>2, Quiet DEF ResetModuleState, BeginShutdown
<1>3. CASE moduleClosing => moduleClosing'
  BY <1>1, <1>3 DEF BeginShutdown
<1>4. ResetModuleState \/ (moduleClosing => moduleClosing')
  BY ClosingKept
<1> QED
  BY <1>1, <1>2, <1>3, <1>4

LEMMA ReleasesStep ==
    ASSUME ModuleInv, StopInv, OpeningAlone, OpeningAlone', [MessagingNext]_systemVars
    PROVE  Releases'
<1> USE DEF StopInv, Releases, FoundClosing, Reopening
<1>1. CASE UNCHANGED <<instance, moduleClosing, moduleClosed, opening, released, releasing>>
  BY <1>1
<1>2. CASE ModuleStep
  <2> USE DEF moduleVars, consumerVars, observerVars
  <2>1. CASE \E l \in Lifecycles : InitializeModule(l)
    BY <2>1 DEF InitializeModule, AlreadyConnected
  <2>2. CASE ResetModuleState
    BY <2>2, Quiet, LifecyclesAssumption DEF ResetModuleState, ModuleInv, Openings, MessagingInv, MessagingTypeOK
  <2>3. CASE SetInstance
    BY <2>3 DEF SetInstance, ModuleInv, Openings, Used
  <2>4. CASE AttachModule
    BY <2>4 DEF AttachModule, NoOpening
  <2> QED
    BY <1>2, <2>1, <2>2, <2>3, <2>4 DEF ModuleStep
<1>3. ASSUME NEW n \in Notifiers, ModuleObserverStep(n) PROVE Releases'
  <2> USE DEF moduleVars, lifecycleVars, consumerVars, ModuleInv, MessagingInv, MessagingTypeOK
  <2>1. CASE BeginShutdown(n)
    BY <2>1 DEF BeginShutdown
  <2>2. CASE SignalStop(n) \/ EndStop(n)
    BY <2>2 DEF SignalStop, EndStop
  <2>3. CASE BeginClose(n)
    <3>1. moduleClosing
      BY <2>3, ClosingIsAsked DEF BeginClose
    <3>2. ~Reopening
      BY <2>3 DEF BeginClose, OpeningAlone, ShutdownUnderWay, Closing, Visiting
    <3> QED
      BY <2>3, <3>1, <3>2 DEF BeginClose
  <2>4. CASE CancelModuleContext(n)
    BY <2>4 DEF CancelModuleContext
  <2>5. CASE ReleaseBroker(n)
    BY <2>5 DEF ReleaseBroker
  <2>6. CASE EndClose(n)
    BY <2>6 DEF EndClose
  <2> QED
    BY <1>3, <2>1, <2>2, <2>3, <2>4, <2>5, <2>6 DEF ModuleObserverStep
<1>4. CASE ApplicationStep \/ UNCHANGED systemVars \/ \E n \in Notifiers : OtherPipelineStep(n)
  BY <1>1, <1>4 DEF ApplicationStep, OtherPipelineStep, systemVars, messagingVars, moduleVars,
     lifecycleVars, observerVars
<1>5. CASE \E c \in Consumers : CreationStep(c) \/ LiveStep(c)
  BY <1>1, <1>5 DEF CreationStep, NewConsumer, RegisterConsumer, CallProvider, ProviderConsumer,
     ActivateConsumer, AbandonSignal, AbandonUnregister, LiveStep, Deliver, ProviderStops,
     ListenerStep, Receive, HandlerReturns, Settle, ListenerStops, ListenerExit,
     UnregisterConsumer, ReleaseModuleTask, ListenerDone, CloseConsumer, CloseReturns,
     moduleVars, lifecycleVars, observerVars
<1> QED
  BY <1>2, <1>3, <1>4, <1>5 DEF MessagingNext, LiveStep

\* A consumer told to stop, or about to be, stays so.
LEMMA ToldKept ==
    ASSUME ModuleInv, \A n \in Notifiers : CallsAt(n), [MessagingNext]_systemVars,
           NEW c \in Consumers, Told(c)
    PROVE  Told(c)'
<1> USE DEF Told, ModuleInv, MessagingInv, MessagingTypeOK
<1>1. CASE done \subseteq done' /\ signalling' = signalling
  BY <1>1
<1>2. ASSUME NEW n \in Notifiers, ModuleObserverStep(n) PROVE Told(c)'
  <2>1. CASE BeginShutdown(n)
    <3>1. signalling[n].todo = {}
      BY <2>1 DEF BeginShutdown, CallsAt
    <3> QED
      BY <2>1, <3>1 DEF BeginShutdown, consumerVars
  <2>2. CASE SignalStop(n)
    BY <2>2 DEF SignalStop
  <2>3. CASE EndStop(n)
    BY <2>3 DEF EndStop, consumerVars
  <2>4. CASE BeginClose(n) \/ CancelModuleContext(n) \/ ReleaseBroker(n) \/ EndClose(n)
    BY <2>4, <1>1 DEF BeginClose, CancelModuleContext, ReleaseBroker, EndClose, consumerVars
  <2> QED
    BY <1>2, <2>1, <2>2, <2>3, <2>4 DEF ModuleObserverStep
<1>3. CASE ModuleStep \/ ApplicationStep \/ UNCHANGED systemVars \/ \E n \in Notifiers : OtherPipelineStep(n)
  BY <1>1, <1>3 DEF ModuleStep, InitializeModule, ResetModuleState, SetInstance, AttachModule,
     ApplicationStep, OtherPipelineStep, systemVars, messagingVars, consumerVars, observerVars
<1>4. CASE \E d \in Consumers : CreationStep(d) \/ LiveStep(d)
  BY <1>1, <1>4 DEF CreationStep, NewConsumer, RegisterConsumer, CallProvider, ProviderConsumer,
     ActivateConsumer, AbandonSignal, AbandonUnregister, LiveStep, Deliver, ProviderStops,
     ListenerStep, Receive, HandlerReturns, Settle, ListenerStops, ListenerExit,
     UnregisterConsumer, ReleaseModuleTask, ListenerDone, CloseConsumer, CloseReturns,
     observerVars
<1> QED
  BY <1>2, <1>3, <1>4 DEF MessagingNext, LiveStep

LEMMA ReachedStep ==
    ASSUME ModuleInv, \A n \in Notifiers : CallsAt(n), Reached, FoundClosing, [MessagingNext]_systemVars
    PROVE  Reached'
<1> USE DEF ModuleInv, MessagingInv, MessagingTypeOK, Reached
<1> SUFFICES ASSUME NEW c \in Consumers, Live(c)'
    PROVE  /\ c \in consumers' \/ Told(c)'
           /\ moduleClosing' => Told(c)'
  OBVIOUS
<1>1. Told(c) => Told(c)'
  BY ToldKept
<1>2. CASE Live(c) /\ (c \in consumers => c \in consumers') /\ (moduleClosing' => moduleClosing)
  BY <1>1, <1>2
<1>3. CASE \E n \in Notifiers : BeginShutdown(n)
  <2>1. PICK n \in Notifiers : BeginShutdown(n)
    BY <1>3
  <2>2. Live(c)
    BY <2>1 DEF BeginShutdown, Live, Listens, consumerVars
  <2>3. c \in consumers => Told(c)'
    BY <2>1 DEF BeginShutdown, Told
  <2> QED
    BY <1>1, <2>2, <2>3
<1>4. CASE (\E n \in Notifiers : ModuleObserverStep(n)) /\ ~\E n \in Notifiers : BeginShutdown(n)
  BY <1>2, <1>4 DEF ModuleObserverStep, SignalStop, EndStop, BeginClose, CancelModuleContext,
     ReleaseBroker, EndClose, consumerVars, moduleVars, Live, Listens
<1>5. CASE ModuleStep
  <2>1. Live(c)
    BY <1>5 DEF ModuleStep, InitializeModule, ResetModuleState, SetInstance, AttachModule,
       consumerVars, Live, Listens
  <2>2. CASE ResetModuleState
    <3>1. instance # NotOpen
      BY <2>1 DEF Openings, Live, Listens
    <3>2. moduleClosing
      BY <2>2, <3>1 DEF ResetModuleState, FoundClosing
    <3> QED
      BY <1>1, <2>1, <3>2
  <2>3. CASE ~ResetModuleState
    BY <1>2, <1>5, <2>1, <2>3 DEF ModuleStep, InitializeModule, SetInstance, AttachModule, moduleVars
  <2> QED
    BY <2>2, <2>3
<1>6. CASE ApplicationStep \/ UNCHANGED systemVars \/ \E n \in Notifiers : OtherPipelineStep(n)
  BY <1>2, <1>6 DEF ApplicationStep, OtherPipelineStep, systemVars, messagingVars, moduleVars,
     consumerVars, Live, Listens
<1>7. ASSUME NEW d \in Consumers, CreationStep(d) \/ LiveStep(d)
      PROVE  \/ Live(c) /\ (c \in consumers => c \in consumers') /\ moduleClosing' = moduleClosing
             \/ c \in consumers' /\ ~moduleClosing /\ ~moduleClosing'
  <2> USE DEF Live, Listens, Goto, moduleVars
  <2>1. CASE RegisterConsumer(d)
    BY <2>1 DEF RegisterConsumer
  <2>2. CASE ~RegisterConsumer(d)
    BY <1>7, <2>2 DEF CreationStep, NewConsumer, CallProvider, ProviderConsumer,
       ActivateConsumer, AbandonSignal, AbandonUnregister, LiveStep, Deliver, ProviderStops,
       ListenerStep, Receive, HandlerReturns, Settle, ListenerStops, ListenerExit,
       UnregisterConsumer, ReleaseModuleTask, ListenerDone, CloseConsumer, CloseReturns
  <2> QED
    BY <2>1, <2>2
<1> QED
  BY <1>2, <1>3, <1>4, <1>5, <1>6, <1>7 DEF MessagingNext, LiveStep

LEMMA StopInvInit == SystemInit => StopInv
  BY DEF SystemInit, MessagingInit, Init, ShutdownInit, StopInv, CallsAt, Asked, Releases, Reached,
     FoundClosing, Live, Listens, NotSignalling, NoOpening

LEMMA StopInvStep ==
    ASSUME ModuleInv, StopInv, OpeningAlone, OpeningAlone', [MessagingNext]_systemVars
    PROVE  StopInv'
<1>1. \A n \in Notifiers : CallsAt(n)' /\ (Asked(n)' => moduleClosing')
  BY CallsClose
<1>2. Releases'
  BY ReleasesStep
<1>3. Reached'
  BY ReachedStep DEF StopInv, Releases
<1> QED
  BY <1>1, <1>2, <1>3 DEF StopInv

\* Between openings that no shutdown overlaps, the module is asked and released in order.
LEMMA StopsInOrder == MessagingSpec /\ []OpeningAlone => [](ModuleInv /\ StopInv)
<1>1. SystemInit => ModuleInv /\ StopInv
  BY ModuleInvInit, StopInvInit
<1>2. ModuleInv /\ StopInv /\ OpeningAlone /\ OpeningAlone' /\ [MessagingNext]_systemVars
        => (ModuleInv /\ StopInv)'
  BY ModuleInvStep, StopInvStep
<1> QED
  BY <1>1, <1>2, PTL DEF MessagingSpec

-----------------------------------------------------------------------------
(* The handlers, when no creation is under way while the module is opened once more. *)

Creating(c) == pc[c] \in {"created", "registered", "calling", "wired"}

CreationsOver == Reopening => \A c \in Consumers : ~Creating(c)

Took(n) == Noticed(n) \cap Lifecycles

\* Once a pipeline that asked the module saw the counted work empty, no consumer listens.
Emptied ==
    \A n \in Notifiers :
        Asked(n) /\ SeenBy(n) \in {"counted", "settled", "drained"} => active \cap Consumers = {}

\* Nor does one of a lifecycle that drained, or of a released provider, now or later.
Served ==
    /\ \A c \in Consumers : Creating(c) => provider[c] = instance
    /\ \A n \in Notifiers : wait[n] = "drained" =>
          /\ \A c \in active \cap Consumers : provider[c] \notin Took(n)
          /\ instance \in Took(n) /\ ~Reopening => moduleClosing
    /\ \A l \in released :
          \/ \E n \in Notifiers : wait[n] = "timedOut"
          \/ \A c \in active \cap Consumers : provider[c] # l

HandlerInv == Emptied /\ Served

\* Only a consumer being created starts to listen, and not once the module is closing.
LEMMA NewlyActive ==
    ASSUME ModuleInv, [MessagingNext]_systemVars, NEW c \in Consumers, c \in active', c \notin active
    PROVE  Creating(c) /\ ~moduleClosing /\ provider'[c] = provider[c]
<1> USE DEF ModuleInv, MessagingInv, MessagingTypeOK, Creating
<1>1. CASE \E d \in Consumers : ActivateConsumer(d)
  BY <1>1 DEF ActivateConsumer, AddModuleTask, workVars, unitVars
<1>2. CASE (\E d \in Consumers : CreationStep(d) \/ LiveStep(d)) /\ ~\E d \in Consumers : ActivateConsumer(d)
  BY <1>2 DEF CreationStep, NewConsumer, RegisterConsumer, CallProvider, ProviderConsumer,
     AbandonSignal, AbandonUnregister, LiveStep, Deliver, ProviderStops, ListenerStep, Receive,
     HandlerReturns, Settle, ListenerStops, ListenerExit, UnregisterConsumer, ReleaseModuleTask,
     DoneModuleTask, ListenerDone, CloseConsumer, CloseReturns, allVars, workVars, unitVars
<1>3. CASE ModuleStep \/ ApplicationStep \/ UNCHANGED systemVars
  BY <1>3 DEF ModuleStep, InitializeModule, ResetModuleState, SetInstance, AttachModule, Attach,
     ApplicationStep, Initialize, Signal, Notify, systemVars, allVars, workVars, unitVars
<1>4. CASE \E n \in Notifiers : OtherPipelineStep(n) \/ ModuleObserverStep(n)
  BY <1>4 DEF OtherPipelineStep, ReceiveSignal, TakeSnapshot, BeginDrain, StartDrain, EndDrain,
     EndNotify, StopObserver, CloseObserver, DrainProgress, DrainStep, DeadlineFires,
     CountersIdle, LegacyWait, LegacyIdle, GiveUp, ModuleObserverStep, BeginShutdown, SignalStop,
     EndStop, BeginClose, CancelModuleContext, ReleaseBroker, EndClose, allVars, workVars, unitVars
<1> QED
  BY <1>1, <1>2, <1>3, <1>4 DEF MessagingNext, LiveStep

\* The provider of a consumer that listens stays its own.
LEMMA ProviderKept ==
    ASSUME ModuleInv, [MessagingNext]_systemVars, NEW c \in Consumers, pc[c] # "none"
    PROVE  provider'[c] = provider[c]
<1> USE DEF ModuleInv, MessagingInv, MessagingTypeOK
<1>1. CASE \E d \in Consumers : NewConsumer(d)
  BY <1>1 DEF NewConsumer
<1>2. CASE (\E d \in Consumers : CreationStep(d) \/ LiveStep(d)) /\ ~\E d \in Consumers : NewConsumer(d)
  BY <1>2 DEF CreationStep, RegisterConsumer, CallProvider, ProviderConsumer, ActivateConsumer,
     AbandonSignal, AbandonUnregister, LiveStep, Deliver, ProviderStops, ListenerStep, Receive,
     HandlerReturns, Settle, ListenerStops, ListenerExit, UnregisterConsumer, ReleaseModuleTask,
     ListenerDone, CloseConsumer, CloseReturns
<1>3. CASE ~\E d \in Consumers : CreationStep(d) \/ LiveStep(d)
  BY <1>3 DEF MessagingNext, ModuleStep, InitializeModule, ResetModuleState, SetInstance,
     AttachModule, ApplicationStep, OtherPipelineStep, ModuleObserverStep, BeginShutdown,
     SignalStop, EndStop, BeginClose, CancelModuleContext, ReleaseBroker, EndClose, LiveStep,
     consumerVars, messagingVars, systemVars
<1> QED
  BY <1>1, <1>2, <1>3

LEMMA EmptiedStep ==
    ASSUME ModuleInv, ModuleInv', StopInv, Emptied, [MessagingNext]_systemVars
    PROVE  Emptied'
<1> SUFFICES ASSUME NEW n \in Notifiers, Asked(n)', SeenBy(n)' \in {"counted", "settled", "drained"}
    PROVE  active' \cap Consumers = {}
  BY DEF Emptied
<1> USE DEF ModuleInv, PipelineInv
<1>1. Asked(n)
  <2>1. ~BeginShutdown(n)
    BY DEF BeginShutdown, Stopping, Visiting, Barrier, SeenBy, allVars, workVars, waitVars
  <2> QED
    BY <2>1, CallsStep DEF StopInv
<1>2. \A c \in Consumers : c \in active' => c \in active
  BY <1>1, NewlyActive DEF StopInv
<1>3. \/ SeenBy(n) \in {"counted", "settled", "drained"}
      \/ SeenBy(n)' = "counted" /\ active' \cap (AppUnits \cup ModuleUnits) = {}
  BY MessagingIsUngated, NewlySeen
<1> QED
  BY <1>1, <1>2, <1>3 DEF Emptied, Consumers

\* A consumer being created uses the provider of the moment.
LEMMA CreatingStep ==
    ASSUME ModuleInv, Served, CreationsOver, [MessagingNext]_systemVars, NEW c \in Consumers, Creating(c)'
    PROVE  provider'[c] = instance'
<1> USE DEF ModuleInv, MessagingInv, MessagingTypeOK, Creating
<1>1. CASE NewConsumer(c)
  BY <1>1 DEF NewConsumer, Goto, moduleVars
<1>2. CASE SetInstance
  <2>1. Creating(c)
    BY <1>2 DEF SetInstance, consumerVars
  <2> QED
    BY <1>2, <2>1 DEF SetInstance, CreationsOver, Reopening, Openings
<1>3. CASE ~NewConsumer(c) /\ ~SetInstance
  <2>1. Creating(c) /\ instance' = instance
    <3>1. CASE \E d \in Consumers : CreationStep(d) \/ LiveStep(d)
      BY <1>3, <3>1 DEF CreationStep, NewConsumer, RegisterConsumer, CallProvider, ProviderConsumer,
         ActivateConsumer, AbandonSignal, AbandonUnregister, LiveStep, Deliver, ProviderStops,
         ListenerStep, Receive, HandlerReturns, Settle, ListenerStops, ListenerExit,
         UnregisterConsumer, ReleaseModuleTask, ListenerDone, CloseConsumer, CloseReturns, Goto, moduleVars
    <3>2. CASE ~\E d \in Consumers : CreationStep(d) \/ LiveStep(d)
      BY <1>3, <3>2 DEF MessagingNext, LiveStep, ModuleStep, InitializeModule, ResetModuleState,
         AttachModule, ApplicationStep, OtherPipelineStep, ModuleObserverStep, BeginShutdown, SignalStop,
         EndStop, BeginClose, CancelModuleContext, ReleaseBroker, EndClose,
         moduleVars, consumerVars, messagingVars, systemVars
    <3> QED
      BY <3>1, <3>2
  <2> QED
    BY <2>1, ProviderKept DEF Served
<1> QED
  BY <1>1, <1>2, <1>3

\* A consumer that starts to listen uses a provider no shutdown has reached.
LEMMA NewlyServed ==
    ASSUME ModuleInv, StopInv, HandlerInv, CreationsOver, [MessagingNext]_systemVars,
           NEW c \in Consumers, c \in active', c \notin active
    PROVE  /\ provider'[c] = instance /\ ~Reopening /\ ~moduleClosing
           /\ instance \notin released
           /\ \A n \in Notifiers : wait[n] = "drained" => instance \notin Took(n)
<1>1. Creating(c) /\ ~moduleClosing /\ provider'[c] = provider[c]
  BY NewlyActive
<1>2. ~Reopening
  BY <1>1 DEF CreationsOver
<1> QED
  BY <1>1, <1>2 DEF HandlerInv, Served, StopInv, Releases

LEMMA DrainedStep ==
    ASSUME ModuleInv, ModuleInv', StopInv, HandlerInv, CreationsOver, [MessagingNext]_systemVars,
           NEW n \in Notifiers, wait'[n] = "drained"
    PROVE  /\ \A c \in active' \cap Consumers : provider'[c] \notin Took(n)'
           /\ instance' \in Took(n)' /\ ~Reopening' => moduleClosing'
<1> USE DEF ModuleInv, PipelineInv
<1>1. Took(n)' = Took(n) /\ wait[n] # "idle"
  <2>1. wait[n] # "idle"
    BY MessagingIsUngated, Waits DEF BeginDrain, StartDrain, RefInv, WorkInv, WorkTypeOK, Notifiers, Waiters
  <2> QED
    BY <2>1, MessagingIsUngated, Snapshots DEF Took, Noticed
\* The drain has just ended, or had ended before.
<1>2. wait[n] = "drained" \/ (wait[n] \notin {"idle", "drained"} /\ SeenBy(n) = "settled")
  BY <1>1, MessagingIsUngated, NewlySeen DEF SeenBy
<1>3. ASSUME wait[n] # "drained", Took(n) # {} PROVE Asked(n) /\ active \cap Consumers = {} /\ moduleClosing
  <2>1. stage[n] \in {"draining", "closing"}
    <3>1. wait[n] \notin Ended
      BY <1>2, <1>3 DEF SeenBy, Ended
    <3> QED
      BY <1>1, <3>1 DEF Barrier, ShutdownTypeOK
  <2>2. Asked(n)
    BY <1>3, <2>1 DEF Asked, Took
  <2> QED
    BY <1>2, <1>3, <2>2 DEF HandlerInv, Emptied, StopInv
<1>4. ASSUME NEW c \in active' \cap Consumers PROVE provider'[c] \notin Took(n)'
  <2>1. CASE c \in active
    <3>1. provider'[c] = provider[c]
      BY <2>1, <1>4, ProviderKept DEF MessagingInv, Held, HeldAt, Listens
    <3> QED
      BY <1>1, <1>3, <1>4, <2>1, <3>1 DEF HandlerInv, Served
  <2>2. CASE c \notin active
    BY <1>1, <1>3, <1>4, <2>2, NewlyServed DEF StopInv
  <2> QED
    BY <2>1, <2>2
<1>5. ASSUME instance' \in Took(n)', ~Reopening' PROVE moduleClosing'
  <2>1. CASE SetInstance
    BY <1>1, <1>5, <2>1 DEF SetInstance, Openings, Took
  <2>2. CASE ResetModuleState
    BY <1>1, <1>5, <2>2, LifecyclesAssumption DEF ResetModuleState, Reopening, Took, MessagingInv, MessagingTypeOK
  <2>3. CASE \E l \in Lifecycles : InitializeModule(l)
    BY <1>1, <1>5, <2>3, LifecyclesAssumption DEF InitializeModule, Reopening, Took, moduleVars
  <2>4. CASE ~SetInstance /\ ~ResetModuleState /\ ~\E l \in Lifecycles : InitializeModule(l)
    <3>1. instance' = instance /\ (moduleClosing => moduleClosing') /\ (Reopening => Reopening')
      BY <2>4 DEF MessagingNext, ModuleStep, AttachModule, ApplicationStep, CreationStep, NewConsumer,
         RegisterConsumer, CallProvider, ProviderConsumer, ActivateConsumer, AbandonSignal,
         AbandonUnregister, Deliver, ProviderStops, ListenerStep, Receive, HandlerReturns, Settle,
         ListenerStops, ListenerExit, UnregisterConsumer, ReleaseModuleTask, ListenerDone,
         CloseConsumer, CloseReturns, OtherPipelineStep, ModuleObserverStep, BeginShutdown,
         SignalStop, EndStop, BeginClose, CancelModuleContext, ReleaseBroker, EndClose,
         moduleVars, lifecycleVars, messagingVars, systemVars, Reopening
    <3> QED
      BY <1>1, <1>3, <1>5, <3>1 DEF HandlerInv, Served
  <2> QED
    BY <2>1, <2>2, <2>3, <2>4
<1> QED
  BY <1>4, <1>5

LEMMA ReleasedStep ==
    ASSUME ModuleInv, ModuleInv', StopInv, HandlerInv, CreationsOver, [MessagingNext]_systemVars,
           NEW l \in released'
    PROVE  \/ \E n \in Notifiers : wait'[n] = "timedOut"
           \/ \A c \in active' \cap Consumers : provider'[c] # l
<1> USE DEF ModuleInv, PipelineInv
<1>1. \A n \in Notifiers : wait[n] = "timedOut" => wait'[n] = "timedOut"
  BY MessagingIsUngated, Waits DEF Ended, RefInv, WorkInv
<1>2. ASSUME NEW c \in active \cap Consumers PROVE provider'[c] = provider[c]
  BY <1>2, ProviderKept DEF MessagingInv, Held, HeldAt, Listens
<1>3. CASE l \in released
  <2>1. \A c \in Consumers : c \in active' /\ c \notin active => provider'[c] # l
    BY <1>3, NewlyServed
  <2> QED
    BY <1>1, <1>2, <1>3, <2>1 DEF HandlerInv, Served
<1>4. CASE l \notin released
  <2>1. PICK n \in Notifiers : ReleaseBroker(n)
    BY <1>4 DEF MessagingNext, ModuleStep, InitializeModule, ResetModuleState, SetInstance, AttachModule,
       ApplicationStep, CreationStep, NewConsumer, RegisterConsumer, CallProvider, ProviderConsumer,
       ActivateConsumer, AbandonSignal, AbandonUnregister, Deliver, ProviderStops, ListenerStep,
       Receive, HandlerReturns, Settle, ListenerStops, ListenerExit, UnregisterConsumer,
       ReleaseModuleTask, ListenerDone, CloseConsumer, CloseReturns, OtherPipelineStep,
       ModuleObserverStep, BeginShutdown, SignalStop, EndStop, BeginClose, CancelModuleContext,
       EndClose, lifecycleVars, messagingVars, systemVars
  <2>2. Closing(n) /\ Asked(n)
    BY <2>1, ClosingIsAsked DEF ReleaseBroker, StopInv, CallsAt
  <2>3. wait[n] \in Ended
    BY <2>2 DEF Closing, Visiting, Barrier
  <2>4. CASE wait[n] = "timedOut"
    BY <1>1, <2>4
  <2>5. CASE wait[n] = "drained"
    <3>1. active \cap Consumers = {} /\ active' = active
      BY <2>1, <2>2, <2>5 DEF HandlerInv, Emptied, SeenBy, ReleaseBroker, allVars, workVars, unitVars
    <3> QED
      BY <3>1
  <2> QED
    BY <2>3, <2>4, <2>5 DEF Ended
<1> QED
  BY <1>3, <1>4

LEMMA HandlerInvInit == SystemInit => HandlerInv
  BY DEF SystemInit, MessagingInit, Init, WorkInit, ShutdownInit, HandlerInv, Emptied, Served,
     Creating, Took, Noticed, ToSet, Waiters, Notifiers, SeenBy

LEMMA HandlerInvStep ==
    ASSUME ModuleInv, ModuleInv', StopInv, HandlerInv, CreationsOver, [MessagingNext]_systemVars
    PROVE  HandlerInv'
<1>1. Emptied'
  BY EmptiedStep DEF HandlerInv
<1>2. \A c \in Consumers : Creating(c)' => provider'[c] = instance'
  BY CreatingStep DEF HandlerInv
<1> QED
  BY <1>1, <1>2, DrainedStep, ReleasedStep DEF HandlerInv, Served

LEMMA HandlersInOrder ==
    MessagingSpec /\ []OpeningAlone /\ []CreationsOver => [](ModuleInv /\ StopInv /\ HandlerInv)
<1>1. SystemInit => ModuleInv /\ StopInv /\ HandlerInv
  BY ModuleInvInit, StopInvInit, HandlerInvInit
<1>2. ModuleInv /\ StopInv /\ HandlerInv /\ OpeningAlone /\ OpeningAlone' /\ CreationsOver
      /\ [MessagingNext]_systemVars => (ModuleInv /\ StopInv /\ HandlerInv)'
  BY ModuleInvStep, StopInvStep, HandlerInvStep
<1> QED
  BY <1>1, <1>2, PTL DEF MessagingSpec

-----------------------------------------------------------------------------
(* Two openings of the module, which any shutdowns may overlap. *)

OpenedTwice == \A l, k, m \in Lifecycles : l = k \/ k = m \/ l = m

\* An opening is left, and the module was not started over for it.
Early == (\E l \in Lifecycles : ~Used(l)) /\ (opening.step = "reset" => instance = NotOpen)

TwiceInv ==
    /\ \A n \in Notifiers : CallsAt(n)
    /\ Reached
    /\ FoundClosing
    /\ Early => (\A n \in Notifiers : Asked(n) => moduleClosing) /\ (moduleClosed => moduleClosing)

LEMMA TwiceInvInit == SystemInit => TwiceInv
  BY StopInvInit DEF StopInv, Releases, TwiceInv

\* A lifecycle that was used stays so.
LEMMA UsedKept ==
    ASSUME ModuleInv, [MessagingNext]_systemVars, NEW l \in Lifecycles, Used(l)
    PROVE  Used(l)'
<1> USE DEF Used
<1>1. CASE AttachModule
  BY <1>1, FreshSteps DEF AttachModule, ModuleInv, Openings
<1>2. CASE ~AttachModule
  <2>1. Fresh(l)' <=> Fresh(l)
    BY <1>2, FreshSteps
  <2>2. opening.step = "published" => opening' = opening
    BY <1>2 DEF MessagingNext, ApplicationStep, ModuleStep, InitializeModule, SetInstance,
       ResetModuleState, CreationStep, NewConsumer, RegisterConsumer, CallProvider,
       ProviderConsumer, ActivateConsumer, AbandonSignal, AbandonUnregister, Deliver,
       ProviderStops, ListenerStep, Receive, HandlerReturns, Settle, ListenerStops, ListenerExit,
       UnregisterConsumer, ReleaseModuleTask, ListenerDone, CloseConsumer, CloseReturns,
       OtherPipelineStep, ModuleObserverStep, BeginShutdown, SignalStop, EndStop, BeginClose,
       CancelModuleContext, ReleaseBroker, EndClose, lifecycleVars, messagingVars, systemVars
  <2> QED
    BY <2>1, <2>2
<1> QED
  BY <1>1, <1>2

\* Once the module is started over for the last opening, there is none left.
LEMMA EarlyBefore ==
    ASSUME OpenedTwice, ModuleInv, [MessagingNext]_systemVars, Early'
    PROVE  Early
<1>1. \E l \in Lifecycles : ~Used(l)
  BY UsedKept DEF Early
<1>2. ASSUME opening.step = "reset", instance # NotOpen PROVE FALSE
  <2>1. CASE SetInstance
    <3>1. PICK k, l \in Lifecycles : k = opening.of /\ l = instance
      BY <1>2 DEF ModuleInv, Openings, MessagingInv, MessagingTypeOK
    <3>2. k # l /\ Used(l)'
      BY <1>2, <3>1, UsedKept DEF ModuleInv, Openings, Used
    <3>3. Used(k)'
      BY <2>1, <3>1 DEF SetInstance, Used, ModuleInv, MessagingInv, MessagingTypeOK
    <3> QED
      BY <3>1, <3>2, <3>3 DEF OpenedTwice, Early
  <2>2. CASE ~SetInstance
    <3>1. opening' = opening /\ instance' = instance
      BY <1>2, <2>2 DEF MessagingNext, ApplicationStep, ModuleStep, InitializeModule, AttachModule,
         ResetModuleState, CreationStep, NewConsumer, RegisterConsumer, CallProvider,
         ProviderConsumer, ActivateConsumer, AbandonSignal, AbandonUnregister, Deliver,
         ProviderStops, ListenerStep, Receive, HandlerReturns, Settle, ListenerStops, ListenerExit,
         UnregisterConsumer, ReleaseModuleTask, ListenerDone, CloseConsumer, CloseReturns,
         OtherPipelineStep, ModuleObserverStep, BeginShutdown, SignalStop, EndStop, BeginClose,
         CancelModuleContext, ReleaseBroker, EndClose, lifecycleVars, moduleVars, messagingVars,
         systemVars
    <3> QED
      BY <1>2, <3>1 DEF Early
  <2> QED
    BY <2>1, <2>2
<1> QED
  BY <1>1, <1>2 DEF Early

LEMMA TwiceInvStep ==
    ASSUME OpenedTwice, ModuleInv, TwiceInv, [MessagingNext]_systemVars
    PROVE  TwiceInv'
<1> USE DEF TwiceInv
<1>1. \A n \in Notifiers : CallsAt(n)' /\ (Asked(n)' => Asked(n) \/ BeginShutdown(n))
  BY CallsStep
<1>2. Reached'
  BY ReachedStep
<1>3. ASSUME Early', NEW n \in Notifiers, Asked(n)' PROVE moduleClosing'
  <2>1. Early
    BY <1>3, EarlyBefore
  <2>2. CASE ResetModuleState
    <3>1. instance = NotOpen
      BY <1>3, <2>2 DEF ResetModuleState, Early
    <3> QED
      BY <1>1, <1>3, <2>2, <3>1, QuietUnopened DEF ResetModuleState, BeginShutdown, CallsAt
  <2>3. CASE moduleClosing => moduleClosing'
    BY <1>1, <1>3, <2>1, <2>3 DEF BeginShutdown
  <2> QED
    BY <2>2, <2>3, ClosingKept
<1>4. ASSUME Early', moduleClosed' PROVE moduleClosing'
  <2>1. Early
    BY <1>4, EarlyBefore
  <2>2. CASE \E n \in Notifiers : BeginClose(n)
    BY <2>1, <2>2, ClosingIsAsked DEF BeginClose
  <2>3. CASE ~\E n \in Notifiers : BeginClose(n)
    <3>1. ~ResetModuleState /\ (moduleClosed' => moduleClosed)
      BY <1>4, <2>3 DEF MessagingNext, ApplicationStep, ModuleStep, InitializeModule, SetInstance,
         AttachModule, ResetModuleState, CreationStep, NewConsumer, RegisterConsumer, CallProvider,
         ProviderConsumer, ActivateConsumer, AbandonSignal, AbandonUnregister, Deliver,
         ProviderStops, ListenerStep, Receive, HandlerReturns, Settle, ListenerStops, ListenerExit,
         UnregisterConsumer, ReleaseModuleTask, ListenerDone, CloseConsumer, CloseReturns,
         OtherPipelineStep, ModuleObserverStep, BeginShutdown, SignalStop, EndStop,
         CancelModuleContext, ReleaseBroker, EndClose, moduleVars, messagingVars, systemVars
    <3> QED
      BY <1>4, <2>1, <3>1, ClosingKept
  <2> QED
    BY <2>2, <2>3
<1>5. FoundClosing'
  <2>1. CASE \E l \in Lifecycles : InitializeModule(l)
    <3>1. opening.step = "none" /\ \E l \in Lifecycles : ~Used(l)
      BY <2>1 DEF InitializeModule, Used
    <3>2. moduleClosed => moduleClosing
      BY <3>1 DEF Early
    <3> QED
      BY <2>1, <3>2 DEF InitializeModule, AlreadyConnected, FoundClosing, moduleVars
  <2>2. CASE ~\E l \in Lifecycles : InitializeModule(l)
    <3>1. opening'.step = "dialed" => /\ opening.step = "dialed" /\ instance' = instance
                                      /\ ~ResetModuleState
      BY <2>2 DEF MessagingNext, ApplicationStep, ModuleStep, InitializeModule, SetInstance,
         AttachModule, NoOpening, ResetModuleState, CreationStep, NewConsumer, RegisterConsumer,
         CallProvider, ProviderConsumer, ActivateConsumer, AbandonSignal, AbandonUnregister,
         Deliver, ProviderStops, ListenerStep, Receive, HandlerReturns, Settle, ListenerStops,
         ListenerExit, UnregisterConsumer, ReleaseModuleTask, ListenerDone, CloseConsumer,
         CloseReturns, OtherPipelineStep, ModuleObserverStep, BeginShutdown, SignalStop, EndStop,
         BeginClose, CancelModuleContext, ReleaseBroker, EndClose, lifecycleVars, moduleVars,
         messagingVars, systemVars, ModuleInv, MessagingInv, MessagingTypeOK
    <3> QED
      BY <3>1, ClosingKept DEF FoundClosing
  <2> QED
    BY <2>1, <2>2
<1> QED
  BY <1>1, <1>2, <1>3, <1>4, <1>5

-----------------------------------------------------------------------------

\* The lifecycle of the module, its consumers and its observer keep their types in every
\* behaviour, with any number of openings (messaging.go, consumer.go).
THEOREM MessagingTypes == MessagingSpec => []MessagingTypeOK
<1>1. MessagingInv => MessagingTypeOK
  BY DEF MessagingInv
<1> QED
  BY <1>1, MessagingInvInit, MessagingInvStep, PTL DEF MessagingSpec

\* The module uses the pipelines and the running work as they are meant to be used, though
\* its Stop and its Close take many steps and its consumers register without a gate: nothing
\* is closed before a pipeline that took it stopped every Stopper and ended its drain, and
\* each drain keeps the contract of Drain, for any consumers, openings and pipelines
\* (messaging.go and consumer.go over subject.go).
THEOREM MessagingKeepsPipeline ==
    MessagingSpec => []NoCloseBeforeAllStopped /\ DrainContract
<1>1. SystemInit => Init
  BY DEF SystemInit
<1>2. ModuleInv /\ [MessagingNext]_systemVars => [UngatedNext]_allVars
  BY MessagingIsUngated
<1>3. PipelineInv => NoCloseBeforeAllStopped
  BY DEF PipelineInv, Closers, Barrier, Ended, NoCloseBeforeAllStopped
<1> QED
  BY <1>1, <1>2, <1>3, ModuleInvInit, ModuleInvStep, PipelinesKeepDrain, PTL DEF MessagingSpec

\* A creation that failed is in no registry, holds no module task, and leaves no provider
\* goroutine without the signal to stop, whatever closes or reopens meanwhile
\* (consumer.go, newConsumer and abandon).
THEOREM FailureLeavesNothingAlways == MessagingSpec => []FailureLeavesNothing
<1>1. MessagingInv => FailureLeavesNothing
  BY DEF MessagingInv, Held, HeldAt, Listens, FailureLeavesNothing
<1> QED
  BY <1>1, MessagingInvInit, MessagingInvStep, PTL DEF MessagingSpec

\* A Close that returned left nothing of its consumer: no entry in the registry, no module
\* task, no handler and, where the polling is joined, no poll (consumer.go, Close).
THEOREM CloseIsCompleteAlways == MessagingSpec => []CloseIsComplete
<1>1. MessagingInv => CloseIsComplete
  BY DEF MessagingInv, Held, HeldAt, Listens, CloseIsComplete
<1> QED
  BY <1>1, MessagingInvInit, MessagingInvStep, PTL DEF MessagingSpec

\* However slow a broker is to create a consumer, and however many pipelines stop and close
\* the module, nobody is left to listen without being told to stop: as long as no shutdown
\* begins while the module is opened once more (consumer.go, newConsumer; messaging.go,
\* beginShutdown).
THEOREM NobodyLeftRunningAlways == MessagingSpec /\ []OpeningAlone => []NobodyLeftRunning
<1>1. ModuleInv /\ StopInv => NobodyLeftRunning
  BY DEF StopInv, Reached, Live, Told, NobodyLeftRunning
<1> QED
  BY <1>1, StopsInOrder, PTL

\* Each provider is released once, whichever pipelines close the module and however often it
\* is opened again, under the same condition (messaging.go, beginClose and releaseBroker).
THEOREM ReleasedOnceAlways == MessagingSpec /\ []OpeningAlone => ReleasedOnce
<1>1. ModuleInv /\ StopInv =>
        [\A n \in Notifiers : releasing[n] = "release" /\ releasing'[n] # "release"
                                => instance \notin released]_systemVars
  BY DEF StopInv, Releases
<1> QED
  BY <1>1, StopsInOrder, PTL DEF ReleasedOnce

\* Nothing closes under a handler: not its broker, unless a drain gave up, nor what was
\* attached beside it, for any consumers, openings and pipelines.  Beside the condition
\* above, no creation of a consumer may be under way while the module is opened once more:
\* that consumer would listen to the provider of the opening before.
THEOREM HandlersUndisturbedAlways ==
    MessagingSpec /\ []OpeningAlone /\ []CreationsOver => []HandlersUndisturbed
<1>1. ModuleInv /\ StopInv /\ HandlerInv => HandlersUndisturbed
  <2> SUFFICES ASSUME ModuleInv, HandlerInv, NEW c \in Consumers, pc[c] \in {"handling", "settling"}
      PROVE  /\ provider[c] \notin released \/ \E n \in Notifiers : wait[n] = "timedOut"
             /\ \A n \in Notifiers : wait[n] = "drained" => provider[c] \notin Noticed(n)
    BY DEF HandlersUndisturbed, BrokerOutlivesHandlers
  <2>1. c \in active /\ provider[c] \in Lifecycles
    BY DEF ModuleInv, MessagingInv, Held, HeldAt, Listens, Openings
  <2> QED
    BY <2>1 DEF HandlerInv, Served, Took
<1> QED
  BY <1>1, HandlersInOrder, PTL

\* A module that is opened at most once meets both conditions.
OpenedOnce == \A l, k \in Lifecycles : l = k

LEMMA OnceIsAlone == OpenedOnce => (MessagingSpec => []OpeningAlone /\ []CreationsOver)
<1> SUFFICES ASSUME OpenedOnce PROVE MessagingSpec => []OpeningAlone /\ []CreationsOver
  OBVIOUS
<1>1. ModuleInv => OpeningAlone /\ CreationsOver
  <2> SUFFICES ASSUME ModuleInv PROVE ~Reopening
    BY DEF OpeningAlone, CreationsOver
  <2> QED
    BY DEF OpenedOnce, Reopening, ModuleInv, Openings, Used, MessagingInv, MessagingTypeOK
<1> QED
  BY <1>1, ModuleInvInit, ModuleInvStep, PTL DEF MessagingSpec

\* One opening of the module, with nothing else assumed: any number of consumers, pipelines,
\* services and other observers (messaging.go, consumer.go).
THEOREM OneOpeningIsSafe ==
    OpenedOnce => (MessagingSpec => []NobodyLeftRunning /\ ReleasedOnce /\ []HandlersUndisturbed)
<1> SUFFICES ASSUME OpenedOnce
    PROVE  MessagingSpec => []NobodyLeftRunning /\ ReleasedOnce /\ []HandlersUndisturbed
  OBVIOUS
<1>1. MessagingSpec => []OpeningAlone /\ []CreationsOver
  BY OnceIsAlone
<1> QED
  BY <1>1, NobodyLeftRunningAlways, ReleasedOnceAlways, HandlersUndisturbedAlways, PTL

\* Two openings of the module, whatever shutdowns overlap them, for any consumers and
\* pipelines: nobody is left to listen without being told to stop.  It takes a third
\* Initialize to drop a registry with a live listener in it (messaging.go, Initialize and
\* resetModuleState).
THEOREM TwoOpeningsAreStopped == OpenedTwice => (MessagingSpec => []NobodyLeftRunning)
<1> SUFFICES ASSUME OpenedTwice PROVE MessagingSpec => []NobodyLeftRunning
  OBVIOUS
<1>1. ModuleInv /\ TwiceInv /\ [MessagingNext]_systemVars => (ModuleInv /\ TwiceInv)'
  BY ModuleInvStep, TwiceInvStep
<1>2. TwiceInv => NobodyLeftRunning
  BY DEF TwiceInv, Reached, Live, Told, NobodyLeftRunning
<1> QED
  BY <1>1, <1>2, ModuleInvInit, TwiceInvInit, PTL DEF MessagingSpec

=============================================================================
