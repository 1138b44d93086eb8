-------------------------- MODULE WebServiceProofs --------------------------
(***************************************************************************)
(* Proofs about a service built on the SDK, for any requests and any       *)
(* shutdowns: what the middlewares count and know of a request, what the   *)
(* close of the server leaves in flight, and what a request that counts    *)
(* itself in the running work is promised.                                 *)
(***************************************************************************)
EXTENDS WebService, ShutdownProofs

\* A request behind the authentication of an authenticated route has its context; and
\* the requests in flight can be counted.
RequestInv ==
    /\ IsFiniteSet(InFlight)
    /\ ~customAuth =>
          \A r \in ApiRoutes : place[r] \in {"custom", "route", "handler"} => r \in identity

AfterAttach == {"listen", "serving", "crashed"}

\* The server is attached once, and gone for good once the pipeline closed it.
ServerInv ==
    /\ \A g \in Goroutines : web \in ToSet(observers[g]) => boot \in AfterAttach
    /\ \A n \in Notifiers : web \in Noticed(n) => boot \in AfterAttach
    /\ srv # "nil" => boot \in AfterAttach
    /\ closes[web] > 0 => srv = "nil"

\* A drain that has not begun selects on nothing, and one past its select has seen its
\* channel closed.
SelectInv ==
    \A n \in Notifiers : /\ wait[n] = "idle" => signal[n] = Nil
                         /\ wait[n] \in {"legacy", "drained"} => signal[n] \in closed

\* A counted request is counted for as long as its handler runs, and what is counted
\* after a drain saw nothing began after it did.
CountedInv ==
    /\ \A r \in AppUnits : place[r] = "handler" => r \in active
    /\ SawIdle => active \cap AppUnits \subseteq lateStart

ServiceInv ==
    /\ ShutdownInv /\ ServiceTypeOK /\ RequestInv /\ ServerInv /\ SelectInv /\ CountedInv
    /\ CloseDrainsRequests /\ CountedRequestsKeepDatabase

-----------------------------------------------------------------------------
(* A service is a use of the shutdown pipeline. *)

\* Nothing stops the work of a request from registering, so every step of a service is a
\* step of the pipeline and the running work, or leaves them alone.
LEMMA ServiceIsShutdown ==
    ASSUME ShutdownTypeOK, [ServiceNext]_serviceVars PROVE [Next]_allVars
<1>1. CASE \E r \in Requests : RequestStep(r)
  <2>1. PICK r \in Requests : RequestStep(r)
    BY <1>1
  <2>2. CASE BeginHandler(r)
    BY <2>2, WebAssumption DEF BeginHandler, Next, UnitStep, GateOpen, ShutdownTypeOK, allVars
  <2>3. CASE EndHandler(r)
    <3>1. CASE r \in active
      BY <2>3, <3>1 DEF EndHandler, Next, UnitStep, DoneRunning
    <3>2. CASE r \notin active
      BY <2>3, <3>2 DEF EndHandler, allVars
    <3> QED
      BY <3>1, <3>2
  <2> QED
    BY <2>1, <2>2, <2>3 DEF RequestStep, AccessControl, Authenticate, CustomMiddleware,
       RefuseEntry, QueryDatabase
<1>2. CASE \E n \in Notifiers : BeginServerClose(n) \/ EndServerClose(n) \/ OtherPipelineStep(n)
  BY <1>2 DEF BeginServerClose, EndServerClose, OtherPipelineStep, Next, PipelineStep
<1>3. CASE LoadConfig \/ OpenDatabase \/ Migrate \/ AttachServer \/ Listen
  BY <1>3, WebAssumption DEF LoadConfig, OpenDatabase, Migrate, AttachServer, Listen, Next
<1> QED
  BY <1>1, <1>2, <1>3 DEF ServiceNext, InitializeApp, Accept, Next, serviceVars

-----------------------------------------------------------------------------
(* The requests. *)

RequestInfo == ServiceTypeOK /\ RequestInv

\* A request that goes on stays in flight, and one that leaves is in flight no more.
LEMMA FlightChanges ==
    ASSUME RequestInfo, NEW r \in InFlight
    PROVE  /\ \A p \in {"cors", "auth", "custom", "route", "handler"} :
                 place' = [place EXCEPT ![r] = p] => InFlight' = InFlight
           /\ place' = [place EXCEPT ![r] = "done"] =>
                 /\ InFlight' = InFlight \ {r} /\ IsFiniteSet(InFlight')
                 /\ Cardinality(InFlight') = meter - 1 /\ meter - 1 \in Nat
<1> USE DEF RequestInfo, ServiceTypeOK, RequestInv, InFlight
<1>1. ASSUME NEW p \in {"cors", "auth", "custom", "route", "handler"}, place' = [place EXCEPT ![r] = p]
      PROVE  InFlight' = InFlight
  BY <1>1
<1>2. ASSUME place' = [place EXCEPT ![r] = "done"]
      PROVE  InFlight' = InFlight \ {r}
  BY <1>2
<1>3. /\ IsFiniteSet(InFlight \ {r}) /\ Cardinality(InFlight \ {r}) = meter - 1
      /\ meter \in Nat /\ Cardinality(InFlight \ {r}) \in Nat
  <2> HIDE DEF InFlight
  <2>1. IsFiniteSet(InFlight) /\ meter = Cardinality(InFlight) /\ r \in InFlight /\ meter \in Nat
    BY DEF MeterCountsInFlight
  <2>2. IsFiniteSet(InFlight \ {r}) /\ Cardinality(InFlight \ {r}) = Cardinality(InFlight) - 1
    BY <2>1, FS_RemoveElement
  <2>3. Cardinality(InFlight \ {r}) \in Nat
    BY <2>2, FS_CardinalityType
  <2> QED
    BY <2>1, <2>2, <2>3
<1> QED
  BY <1>1, <1>2, <1>3

\* What is left of a request that leaves: nothing in flight, nothing counted.
LEMMA LeaveKeeps ==
    ASSUME RequestInfo, NEW r \in InFlight, NEW s \in {"preflight", "refused", "ok", "error", "recovered"},
           Leave(r, s), UNCHANGED <<identity, customAuth>>
    PROVE  /\ place' \in [Requests -> {"none", "cors", "auth", "custom", "route", "handler", "done"}]
           /\ status' \in [Requests -> {"none", "preflight", "refused", "ok", "error", "recovered"}]
           /\ meter' \in Nat /\ MeterCountsInFlight' /\ HandlersKnowTheirUser' /\ RequestInv'
<1>1. /\ IsFiniteSet(InFlight)' /\ meter' = Cardinality(InFlight') /\ meter' \in Nat
  BY FlightChanges DEF Leave
<1> QED
  BY <1>1, WebAssumption DEF RequestInfo, ServiceTypeOK, RequestInv, Leave, MeterCountsInFlight,
     HandlersKnowTheirUser

LEMMA RequestSteps ==
    ASSUME RequestInfo, ShutdownTypeOK', NEW r \in Requests, Accept(r) \/ RequestStep(r)
    PROVE  RequestInfo'
<1> USE WebAssumption DEF RequestInfo, ServiceTypeOK, serverVars
<1>1. CASE Accept(r)
  <2>1. InFlight' = InFlight \cup {r} /\ r \notin InFlight
    BY <1>1 DEF Accept, InFlight
  <2>2. IsFiniteSet(InFlight') /\ Cardinality(InFlight') = Cardinality(InFlight) + 1
    BY <2>1, FS_AddElement DEF RequestInv
  <2> QED
    BY <1>1, <2>2 DEF Accept, RequestInv, MeterCountsInFlight, HandlersKnowTheirUser
<1>2. CASE AccessControl(r)
  <2>1. r \in InFlight
    BY <1>2 DEF AccessControl, InFlight
  <2>2. CASE Leave(r, "preflight")
    BY <1>2, <2>1, <2>2, LeaveKeeps DEF AccessControl, Leave
  <2>3. CASE Enter(r, "auth")
    <3>1. InFlight' = InFlight
      BY <2>1, <2>3, FlightChanges DEF Enter
    <3> QED
      BY <1>2, <2>3, <3>1 DEF AccessControl, Enter, RequestInv, MeterCountsInFlight, HandlersKnowTheirUser
  <2> QED
    BY <1>2, <2>2, <2>3 DEF AccessControl
<1>3. CASE Authenticate(r)
  <2>1. r \in InFlight
    BY <1>3 DEF Authenticate, InFlight
  <2>2. UNCHANGED serverVars
    BY <1>3 DEF Authenticate
  <2>3. CASE Leave(r, "refused") /\ UNCHANGED identity
    BY <2>1, <2>2, <2>3, LeaveKeeps DEF Leave
  <2>4. CASE Enter(r, "custom") /\ (customAuth \/ identity' = identity \cup ({r} \cap ApiRoutes))
             /\ identity \subseteq identity' /\ identity' \subseteq Requests
    <3>1. InFlight' = InFlight
      BY <2>1, <2>4, FlightChanges DEF Enter
    <3> QED
      BY <1>3, <2>2, <2>4, <3>1 DEF Authenticate, Enter, RequestInv, MeterCountsInFlight, HandlersKnowTheirUser
  <2>5. CASE customAuth
    BY <1>3, <2>3, <2>4, <2>5 DEF Authenticate, CustomAuthenticates
  <2>6. CASE ~customAuth
    BY <1>3, <2>3, <2>4, <2>6 DEF Authenticate, DefaultAuthenticates
  <2> QED
    BY <2>5, <2>6
<1>4. CASE CustomMiddleware(r)
  <2>1. r \in InFlight
    BY <1>4 DEF CustomMiddleware, InFlight
  <2>2. CASE Leave(r, "refused")
    BY <1>4, <2>1, <2>2, LeaveKeeps DEF CustomMiddleware, Leave
  <2>3. CASE Enter(r, "route")
    <3>1. InFlight' = InFlight
      BY <2>1, <2>3, FlightChanges DEF Enter
    <3> QED
      BY <1>4, <2>3, <3>1 DEF CustomMiddleware, Enter, RequestInv, MeterCountsInFlight, HandlersKnowTheirUser
  <2> QED
    BY <1>4, <2>2, <2>3 DEF CustomMiddleware
<1>5. CASE BeginHandler(r)
  <2>1. r \in InFlight
    BY <1>5 DEF BeginHandler, InFlight
  <2>2. InFlight' = InFlight
    BY <1>5, <2>1, FlightChanges DEF BeginHandler
  <2>3. lateStart' \subseteq AppUnits
    BY <1>5 DEF BeginHandler
  <2> QED
    BY <1>5, <2>2, <2>3 DEF BeginHandler, RequestInv, MeterCountsInFlight, HandlersKnowTheirUser
<1>6. CASE RefuseEntry(r)
  <2>1. r \in InFlight
    BY <1>6 DEF RefuseEntry, InFlight
  <2> QED
    BY <1>6, <2>1, LeaveKeeps DEF RefuseEntry, Leave
<1>7. CASE QueryDatabase(r)
  BY <1>7 DEF QueryDatabase, RequestInv, InFlight, MeterCountsInFlight, HandlersKnowTheirUser
<1>8. CASE EndHandler(r)
  <2>1. r \in InFlight
    BY <1>8 DEF EndHandler, InFlight
  <2>2. PICK s \in {"ok", "error", "recovered"} : Leave(r, s)
    BY <1>8 DEF EndHandler
  <2>3. UNCHANGED <<serverVars, identity>>
    BY <1>8 DEF EndHandler
  <2>4. /\ place' \in [Requests -> {"none", "cors", "auth", "custom", "route", "handler", "done"}]
        /\ status' \in [Requests -> {"none", "preflight", "refused", "ok", "error", "recovered"}]
        /\ meter' \in Nat /\ MeterCountsInFlight' /\ HandlersKnowTheirUser' /\ RequestInv'
    BY <2>1, <2>2, <2>3, LeaveKeeps
  <2>5. UNCHANGED <<lateStart, failed>>
    BY <2>2 DEF Leave
  <2> QED
    BY <2>3, <2>4, <2>5
<1> QED
  BY <1>1, <1>2, <1>3, <1>4, <1>5, <1>6, <1>7, <1>8 DEF RequestStep

\* What is not a step of a request leaves the requests alone.
LEMMA RequestInfoStep ==
    ASSUME RequestInfo, ShutdownTypeOK', [ServiceNext]_serviceVars
    PROVE  RequestInfo'
<1>1. CASE \E r \in Requests : Accept(r) \/ RequestStep(r)
  BY <1>1, RequestSteps
<1>2. CASE ~ \E r \in Requests : Accept(r) \/ RequestStep(r)
  <2> USE DEF RequestInfo, ServiceTypeOK
  <2>1. UNCHANGED requestVars /\ (customAuth => customAuth')
    BY <1>2 DEF ServiceNext, LoadConfig, OpenDatabase, Migrate, AttachServer, Listen,
       InitializeApp, BeginServerClose, EndServerClose, OtherPipelineStep, serviceVars, webVars, requestVars
  <2>2. RequestInv' /\ MeterCountsInFlight' /\ HandlersKnowTheirUser'
    BY <2>1 DEF RequestInv, MeterCountsInFlight, HandlersKnowTheirUser, InFlight, requestVars
  <2>3. /\ boot' \in {"config", "app", "database", "migrate", "web", "listen", "serving", "crashed"}
        /\ customAuth' \in BOOLEAN /\ srv' \in {"nil", "set", "closing"}
        /\ listening' \in BOOLEAN /\ forced' \in BOOLEAN
    BY <1>2 DEF ServiceNext, LoadConfig, OpenDatabase, Migrate, AttachServer, Listen,
       InitializeApp, BeginServerClose, EndServerClose, OtherPipelineStep, serviceVars, webVars
  <2> QED
    BY <2>1, <2>2, <2>3 DEF requestVars
<1> QED
  BY <1>1, <1>2

-----------------------------------------------------------------------------
(* The server. *)

\* Past its attach the boot can only go on to serve, or crash.
LEMMA BootGoesOn ==
    ASSUME ServiceTypeOK, [ServiceNext]_serviceVars
    PROVE  boot \in AfterAttach => boot' \in AfterAttach
  BY DEF AfterAttach, ServiceTypeOK, ServiceNext, LoadConfig, OpenDatabase, Migrate, AttachServer,
     Listen, InitializeApp, Accept, RequestStep, AccessControl, Authenticate, CustomMiddleware,
     BeginHandler, RefuseEntry, QueryDatabase, EndHandler, BeginServerClose, EndServerClose,
     OtherPipelineStep, serverVars, webVars, serviceVars

\* The server is attached only by AttachServer, and reaches a snapshot from there.
LEMMA AttachedStep ==
    ASSUME ServiceInv, [ServiceNext]_serviceVars
    PROVE  /\ \A g \in Goroutines : web \in ToSet(observers'[g]) => boot' \in AfterAttach
           /\ \A n \in Notifiers : web \in Noticed(n)' => boot' \in AfterAttach
<1> USE DEF ServiceInv, ShutdownInv, PipelineInv, ServerInv, ShutdownTypeOK
<1>1. boot \in AfterAttach => boot' \in AfterAttach
  BY BootGoesOn
<1>2. ASSUME NEW g \in Goroutines, web \in ToSet(observers'[g])
      PROVE  boot' \in AfterAttach
  <2>1. CASE observers' = observers
    BY <1>1, <1>2, <2>1
  <2>2. CASE AttachServer
    BY <2>2 DEF AttachServer, AfterAttach
  <2>3. CASE Attach(database)
    <3>1. observers' = [observers EXCEPT ![services] = Append(@, database)] /\ services \in Goroutines
      BY <2>3 DEF Attach
    <3>2. observers[g] \in Seq(Observers) /\ database \in Observers
      BY WebAssumption
    <3>3. web \in ToSet(observers[g])
      BY <1>2, <3>1, <3>2, WebAssumption DEF ToSet
    <3> QED
      BY <1>1, <3>3
  <2>4. observers' = observers \/ AttachServer \/ Attach(database)
    BY DEF ServiceNext, LoadConfig, OpenDatabase, Migrate, Listen,
       InitializeApp, Initialize, Signal, Accept, RequestStep, AccessControl, Authenticate,
       CustomMiddleware, BeginHandler, RefuseEntry, QueryDatabase, EndHandler, BeginServerClose,
       EndServerClose, OtherPipelineStep, ReceiveSignal, TakeSnapshot, StopObserver, BeginDrain,
       EndDrain, EndNotify, DrainProgress, CloseObserver, subjectVars, shutdownVars, allVars, serviceVars
  <2> QED
    BY <2>1, <2>2, <2>3, <2>4
<1>3. ASSUME NEW n \in Notifiers, web \in Noticed(n)' PROVE boot' \in AfterAttach
  <2>1. CASE snapshot'[n] = snapshot[n]
    BY <1>1, <1>3, <2>1 DEF Noticed
  <2>2. CASE \E m \in Notifiers : TakeSnapshot(m) /\ OtherPipelineStep(m)
    <3>1. PICK m \in Notifiers : TakeSnapshot(m) /\ OtherPipelineStep(m)
      BY <2>2
    <3>2. target[m] \in Goroutines
      BY <3>1 DEF TakeSnapshot, Targets
    <3>3. snapshot'[n] \in {snapshot[n], observers[target[m]]}
      BY <3>1 DEF TakeSnapshot
    <3> QED
      BY <1>1, <1>3, <3>2, <3>3 DEF Noticed
  <2>3. snapshot' = snapshot \/ \E m \in Notifiers : TakeSnapshot(m) /\ OtherPipelineStep(m)
    BY DEF ServiceNext, LoadConfig, OpenDatabase, Migrate, AttachServer, Listen, Attach,
       InitializeApp, Initialize, Signal, Accept, RequestStep, AccessControl, Authenticate,
       CustomMiddleware, BeginHandler, RefuseEntry, QueryDatabase, EndHandler, BeginServerClose,
       EndServerClose, OtherPipelineStep, ReceiveSignal, StopObserver, BeginDrain,
       EndDrain, EndNotify, DrainProgress, CloseObserver, pipelineVars, shutdownVars, allVars, serviceVars
  <2> QED
    BY <2>1, <2>2, <2>3
<1> QED
  BY <1>2, <1>3

\* Only the pipeline that finds the server set closes it, once.
LEMMA ServerStep ==
    ASSUME ServiceInv, [ServiceNext]_serviceVars
    PROVE  ServerInv' /\ CloseDrainsRequests'
<1> USE DEF ServiceInv, ShutdownInv, PipelineInv, ServerInv, ShutdownTypeOK, AfterAttach
<1>1. /\ \A g \in Goroutines : web \in ToSet(observers'[g]) => boot' \in AfterAttach
      /\ \A n \in Notifiers : web \in Noticed(n)' => boot' \in AfterAttach
  BY AttachedStep
<1>2. closes[web] \in Nat
  BY WebAssumption
<1>3. closes[web] > 0 => boot \in AfterAttach
  BY WebAssumption DEF Closers
<1>4. SUFFICES /\ srv' # "nil" => boot' \in AfterAttach
               /\ closes'[web] > 0 => srv' = "nil"
               /\ closes'[web] > 0 /\ ~forced' /\ ~listening' => InFlight' = {}
  BY <1>1 DEF CloseDrainsRequests
<1>5. CASE LoadConfig \/ OpenDatabase \/ Migrate \/ AttachServer \/ Listen
  BY <1>3, <1>5 DEF LoadConfig, OpenDatabase, Migrate, AttachServer, Listen, Attach, allVars,
     shutdownVars, effectVars, requestVars, InFlight, CloseDrainsRequests
<1>6. CASE (\E g \in Goroutines : InitializeApp(g)) \/ (Signal /\ UNCHANGED webVars)
  BY <1>6 DEF InitializeApp, Initialize, Signal, effectVars, webVars, requestVars, InFlight,
     CloseDrainsRequests
<1>7. CASE \E r \in Requests : Accept(r) \/ RequestStep(r)
  <2>1. UNCHANGED <<closes, serverVars>>
    BY <1>7 DEF Accept, RequestStep, AccessControl, Authenticate, CustomMiddleware, BeginHandler,
       RefuseEntry, QueryDatabase, EndHandler, allVars, shutdownVars, effectVars
  <2>2. InFlight = {} /\ ~listening => InFlight' = {}
    BY <1>7 DEF InFlight, Accept, RequestStep, AccessControl, Authenticate, CustomMiddleware,
       BeginHandler, RefuseEntry, QueryDatabase, EndHandler
  <2> QED
    BY <2>1, <2>2 DEF serverVars, CloseDrainsRequests
<1>8. ASSUME NEW n \in Notifiers, BeginServerClose(n) \/ EndServerClose(n) \/ OtherPipelineStep(n)
      PROVE  /\ srv' # "nil" => boot' \in AfterAttach
             /\ closes'[web] > 0 => srv' = "nil"
             /\ closes'[web] > 0 /\ ~forced' /\ ~listening' => InFlight' = {}
  <2>1. CASE BeginServerClose(n)
    BY <1>8, <2>1 DEF BeginServerClose, allVars, shutdownVars, effectVars
  <2>2. CASE EndServerClose(n)
    BY <2>2 DEF EndServerClose, ShutdownEnds, GivesUp, requestVars, InFlight
  <2>3. CASE OtherPipelineStep(n)
    <3>1. CASE CloseObserver(n) /\ ~ClosesServer(n)
      <4>1. Current(n) # web /\ closes' = [closes EXCEPT ![Current(n)] = closes[Current(n)] + 1]
        BY <3>1 DEF CloseObserver, ClosesServer
      <4> HIDE DEF Current
      <4>2. closes'[web] = closes[web]
        BY <4>1, WebAssumption
      <4> QED
        BY <2>3, <4>2 DEF OtherPipelineStep, webVars, InFlight, CloseDrainsRequests
    <3>2. CASE ~(CloseObserver(n) /\ ~ClosesServer(n))
      <4>1. closes' = closes
        BY <2>3, <3>2 DEF OtherPipelineStep, ReceiveSignal, TakeSnapshot, StopObserver, BeginDrain,
           EndDrain, EndNotify, DrainProgress, effectVars, shutdownVars
      <4> QED
        BY <2>3, <4>1 DEF OtherPipelineStep, webVars, InFlight, CloseDrainsRequests
    <3> QED
      BY <3>1, <3>2
  <2> QED
    BY <1>8, <2>1, <2>2, <2>3
<1>9. CASE UNCHANGED serviceVars
  BY <1>9 DEF serviceVars, allVars, shutdownVars, effectVars, webVars, InFlight, CloseDrainsRequests
<1> QED
  BY <1>5, <1>6, <1>7, <1>8, <1>9 DEF ServiceNext

-----------------------------------------------------------------------------
(* What the drains have seen of the counted requests. *)

\* Channels are never opened again, and only a Done that leaves no application work
\* closes one.
LEMMA ClosedGrows ==
    ASSUME WorkTypeOK, [WorkNext]_workVars
    PROVE  closed \subseteq closed'
  BY DEF WorkTypeOK, WorkNext, AddRunning, DoneRunning, AddModuleTask, DoneModuleTask, LegacyAdd,
     LegacyDone, ExtraDoneRunning, ExtraDoneModuleTask, StartAppWait, AppIdleSignal, AppReleased,
     StartDrain, AllIdleSignal, DrainStep, DeadlineFires, CountersIdle, LegacyWait, LegacyIdle,
     GiveUp, SignalIdle, counterVars, workVars

LEMMA SelectStep ==
    ASSUME WorkTypeOK, SelectInv, [WorkNext]_workVars
    PROVE  SelectInv'
<1> USE WaitersAssumption DEF WorkTypeOK, SelectInv, Waiters, Notifiers
<1>1. closed \subseteq closed'
  BY ClosedGrows
<1>2. CASE \E d \in Drains : StartDrain(d)
  BY <1>1, <1>2 DEF StartDrain, AllIdleSignal
<1>3. CASE \E w \in AppWaiters : StartAppWait(w) \/ AppReleased(w)
  BY <1>1, <1>3 DEF StartAppWait, AppReleased, AppIdleSignal
<1>4. CASE \E d \in Drains : DrainStep(d)
  BY <1>1, <1>4 DEF DrainStep, DeadlineFires, CountersIdle, LegacyWait, LegacyIdle, GiveUp, counterVars
<1>5. CASE UNCHANGED <<wait, signal>>
  BY <1>1, <1>5
<1> QED
  BY <1>2, <1>3, <1>4, <1>5 DEF WorkNext, AddRunning, DoneRunning, AddModuleTask, DoneModuleTask,
     LegacyAdd, LegacyDone, ExtraDoneRunning, ExtraDoneModuleTask, waitVars, workVars

\* The first drain to see the work empty sees no application work running.
LEMMA FirstSight ==
    ASSUME RefInv, RefInv', [WorkNext]_workVars, ~SawIdle, SawIdle'
    PROVE  active' \cap AppUnits = {}
<1> USE WaitersAssumption DEF RefInv, WorkInv, WorkTypeOK, Waiters, Notifiers, SawIdle
<1>1. appRunning' <= 0 => active' \cap AppUnits = {}
  <2>1. appRunning' = Cardinality(active' \cap AppUnits) /\ IsFiniteSet(active')
    BY DEF Counts
  <2> QED
    BY <2>1, EmptyBucket
<1>2. PICK n \in Drains : signal'[n] \in closed' /\ signal[n] \notin closed
  OBVIOUS
<1>3. CASE \E u : DoneRunning(u) \/ DoneModuleTask(u)
  BY <1>1, <1>2, <1>3 DEF DoneRunning, DoneModuleTask, SignalIdle, waitVars
<1>4. CASE \E d \in Drains : StartDrain(d)
  BY <1>1, <1>2, <1>4 DEF StartDrain, AllIdleSignal, NoDoubleClose
<1>5. CASE \E w \in AppWaiters : StartAppWait(w)
  BY <1>1, <1>2, <1>5 DEF StartAppWait, AppIdleSignal
<1>6. CASE ExtraDoneRunning \/ ExtraDoneModuleTask
  BY <1>6 DEF ExtraDoneRunning, ExtraDoneModuleTask, Counts
<1>7. CASE UNCHANGED <<signal, closed>>
  BY <1>2, <1>7
<1> QED
  BY <1>3, <1>4, <1>5, <1>6, <1>7 DEF WorkNext, AddRunning, AddModuleTask, LegacyAdd, LegacyDone,
     AppReleased, DrainStep, DeadlineFires, CountersIdle, LegacyWait, LegacyIdle, GiveUp,
     counterVars, waitVars, workVars

\* A handler that counts itself is counted from its first moment to its last.
LEMMA CountedStep ==
    ASSUME ServiceInv, ShutdownInv', [ServiceNext]_serviceVars
    PROVE  CountedInv'
<1> USE DEF ServiceInv, ShutdownInv, PipelineInv, ServiceTypeOK, CountedInv
<1>1. [WorkNext]_workVars
  BY ServiceIsShutdown, GatedIsUngated, StepsOfWork
<1>2. /\ active' \cap AppUnits \subseteq (active \cap AppUnits) \cup lateStart'
         \/ ~SawIdle
      /\ lateStart \subseteq lateStart'
      /\ \A r \in AppUnits : place'[r] = "handler" => r \in active'
  <2> USE WebAssumption
  <2>1. CASE \E r \in Requests : BeginHandler(r)
    BY <2>1 DEF BeginHandler, AddRunning, workVars, unitVars
  <2>2. CASE \E r \in Requests : EndHandler(r)
    BY <2>2 DEF EndHandler, Leave, DoneRunning, workVars, unitVars
  <2>3. CASE \E r \in Requests : \/ Accept(r) \/ AccessControl(r) \/ Authenticate(r)
                                 \/ CustomMiddleware(r) \/ RefuseEntry(r) \/ QueryDatabase(r)
    BY <2>3 DEF Accept, AccessControl, Authenticate, DefaultAuthenticates, CustomAuthenticates, CustomMiddleware, RefuseEntry, QueryDatabase,
       Leave, Enter, allVars, workVars, unitVars
  <2>4. CASE LoadConfig \/ OpenDatabase \/ Migrate \/ AttachServer \/ Listen
             \/ (\E g \in Goroutines : InitializeApp(g)) \/ (Signal /\ UNCHANGED webVars)
    BY <2>4 DEF LoadConfig, OpenDatabase, Migrate, AttachServer, Listen, Attach, InitializeApp,
       Initialize, Signal, allVars, workVars, unitVars, requestVars, webVars
  <2>5. CASE \E n \in Notifiers : BeginServerClose(n) \/ EndServerClose(n) \/ OtherPipelineStep(n)
    BY <2>5 DEF BeginServerClose, EndServerClose, OtherPipelineStep, ReceiveSignal, TakeSnapshot,
       StopObserver, BeginDrain, StartDrain, EndDrain, CloseObserver, EndNotify, DrainProgress,
       DrainStep, DeadlineFires, CountersIdle, LegacyWait, LegacyIdle, GiveUp, allVars, workVars,
       unitVars, requestVars, webVars
  <2>6. CASE UNCHANGED serviceVars
    BY <2>6 DEF serviceVars, allVars, workVars, unitVars, webVars
  <2> QED
    BY <2>1, <2>2, <2>3, <2>4, <2>5, <2>6 DEF ServiceNext, RequestStep
<1>3. CASE SawIdle
  BY <1>2, <1>3
<1>4. CASE ~SawIdle
  BY <1>1, <1>2, <1>4, FirstSight
<1> QED
  BY <1>3, <1>4

\* The request that finds the database closed runs after a drain: it gave up, or saw no
\* work before the request began.
LEMMA KeepDatabaseStep ==
    ASSUME ServiceInv, [ServiceNext]_serviceVars
    PROVE  CountedRequestsKeepDatabase'
<1> USE DEF ServiceInv, ShutdownInv, PipelineInv, ServiceTypeOK
<1> SUFFICES ASSUME NEW r \in failed' \cap AppUnits
    PROVE  r \in lateStart' \/ \E n \in Notifiers : wait'[n] = "timedOut"
  BY DEF CountedRequestsKeepDatabase
<1>1. \A n \in Notifiers : wait[n] = "timedOut" => wait'[n] = "timedOut"
  BY ServiceIsShutdown, GatedIsUngated, Waits DEF Ended, RefInv, WorkInv
<1>2. lateStart \subseteq lateStart'
  BY DEF ServiceNext, LoadConfig, OpenDatabase, Migrate, AttachServer, Listen, InitializeApp, Accept,
     RequestStep, AccessControl, Authenticate, DefaultAuthenticates,
     CustomAuthenticates, CustomMiddleware, BeginHandler, RefuseEntry, QueryDatabase,
     EndHandler, Leave, Enter, BeginServerClose, EndServerClose, OtherPipelineStep, requestVars,
     webVars, serviceVars
<1>3. CASE r \in failed
  BY <1>1, <1>2, <1>3 DEF CountedRequestsKeepDatabase
<1>4. CASE r \notin failed
  <2>1. QueryDatabase(r)
    BY <1>4 DEF ServiceNext, LoadConfig, OpenDatabase, Migrate, AttachServer, Listen, InitializeApp,
       Accept, RequestStep, AccessControl, Authenticate, DefaultAuthenticates,
     CustomAuthenticates, CustomMiddleware, BeginHandler, RefuseEntry,
       QueryDatabase, EndHandler, Leave, Enter, BeginServerClose, EndServerClose, OtherPipelineStep,
       requestVars, webVars, serviceVars
  <2>2. r \in active /\ closes[database] > 0
    BY <1>4, <2>1, WebAssumption DEF QueryDatabase, DatabaseOpen, CountedInv, ShutdownTypeOK
  <2>3. PICK n \in Notifiers : wait[n] \in Ended
    BY <2>2, WebAssumption DEF Closers
  <2>4. CASE wait[n] = "timedOut"
    BY <1>1, <2>4
  <2>5. CASE wait[n] = "drained"
    BY <1>2, <2>2, <2>5 DEF SelectInv, CountedInv, SawIdle
  <2> QED
    BY <2>3, <2>4, <2>5 DEF Ended
<1> QED
  BY <1>3, <1>4

-----------------------------------------------------------------------------

LEMMA ServiceInvInit == ServiceInit => ServiceInv
<1> SUFFICES ASSUME ServiceInit PROVE ServiceInv
  OBVIOUS
<1> USE WebAssumption DEF ServiceInit, WebInit, Notifiers
<1>1. ShutdownInv
  BY ShutdownInvInit
<1>2. InFlight = {}
  BY DEF InFlight
<1>3. RequestInv /\ MeterCountsInFlight
  BY <1>2, FS_EmptySet DEF RequestInv, MeterCountsInFlight
<1>4. ServiceTypeOK
  BY <1>1, <1>3 DEF ShutdownInv, PipelineInv, ServiceTypeOK, HandlersKnowTheirUser
<1>5. ServerInv
  BY DEF ServerInv, Init, ShutdownInit, Noticed, ToSet
<1>6. SelectInv
  BY DEF SelectInv, Init, WorkInit, Waiters
<1>7. CountedInv /\ CountedRequestsKeepDatabase /\ CloseDrainsRequests
  BY <1>2 DEF CountedInv, CountedRequestsKeepDatabase, CloseDrainsRequests, Init, WorkInit
<1> QED
  BY <1>1, <1>3, <1>4, <1>5, <1>6, <1>7 DEF ServiceInv

LEMMA ServiceInvStep == ServiceInv /\ [ServiceNext]_serviceVars => ServiceInv'
<1> SUFFICES ASSUME ServiceInv, [ServiceNext]_serviceVars PROVE ServiceInv'
  OBVIOUS
<1> USE DEF ServiceInv
<1>1. [Next]_allVars
  BY ServiceIsShutdown DEF ServiceTypeOK
<1>2. ShutdownInv'
  BY <1>1, ShutdownInvStep
<1>3. RequestInfo'
  BY <1>2, RequestInfoStep DEF RequestInfo, ShutdownInv, PipelineInv
<1>4. ServerInv' /\ CloseDrainsRequests'
  BY ServerStep
<1>5. SelectInv'
  BY <1>1, GatedIsUngated, StepsOfWork, SelectStep DEF ShutdownInv, PipelineInv, RefInv, WorkInv
<1>6. CountedInv'
  BY <1>2, CountedStep
<1>7. CountedRequestsKeepDatabase'
  BY KeepDatabaseStep
<1> QED
  BY <1>2, <1>3, <1>4, <1>5, <1>6, <1>7 DEF RequestInfo

-----------------------------------------------------------------------------

LEMMA ServiceKeepsInv == ServiceSpec => []ServiceInv
  BY ServiceInvInit, ServiceInvStep, PTL DEF ServiceSpec

\* A service uses the shutdown pipeline as it is meant to be used: whatever its requests
\* and its boot do, every behaviour of it is one of Shutdown (colibri.go, restserver and
\* sqlDB over observer).
THEOREM ServiceUsesShutdown == ServiceSpec => Spec
<1>1. ServiceInv /\ [ServiceNext]_serviceVars => [Next]_allVars
  BY ServiceIsShutdown DEF ServiceInv, ServiceTypeOK
<1>2. ServiceInit => Init
  BY DEF ServiceInit
<1> QED
  BY <1>1, <1>2, ServiceKeepsInv, PTL DEF ServiceSpec, Spec

\* The drains of a service keep the contract of Drain, whatever its handlers count
\* (handlers over single_wait_group.go).
THEOREM ServiceKeepsDrain == ServiceSpec => DrainContract
  BY ServiceUsesShutdown, ShutdownKeepsDrain, PTL

\* The variables keep their types, the instrument counts exactly the requests in flight,
\* however each of them left, and under the default middleware a handler of an authenticated
\* route has a tenant and a user, for any set of requests (middlewares.go).
THEOREM ServiceTypes == ServiceSpec => []ServiceTypeOK
<1>1. ServiceInv => ServiceTypeOK
  BY DEF ServiceInv
<1> QED
  BY <1>1, ServiceKeepsInv, PTL

\* Once the close of the server ended without its timeout, no request is in flight and
\* none comes, unless the server began to listen meanwhile (server.go, restserver/observer.go).
THEOREM CloseDrainsRequestsAlways == ServiceSpec => []CloseDrainsRequests
<1>1. ServiceInv => CloseDrainsRequests
  BY DEF ServiceInv
<1> QED
  BY <1>1, ServiceKeepsInv, PTL

\* A request that counted itself before a drain saw no work never finds the database
\* closed, unless a drain gave up (subject.go, sqlDB/observer.go).
THEOREM CountedRequestsKeepDatabaseAlways == ServiceSpec => []CountedRequestsKeepDatabase
<1>1. ServiceInv => CountedRequestsKeepDatabase
  BY DEF ServiceInv
<1> QED
  BY <1>1, ServiceKeepsInv, PTL

=============================================================================
