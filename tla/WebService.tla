----------------------------- MODULE WebService -----------------------------
(***************************************************************************)
(* A service built on the SDK: its boot (colibri.go, sqlDB.Initialize,     *)
(* restserver.ListenAndServe), the HTTP requests through the middlewares   *)
(* to their handlers, and the shutdown pipeline closing the database and   *)
(* the server.  A request whose handler counts itself in the running work  *)
(* is an application unit of RunningWork; the SDK itself counts none.      *)
(***************************************************************************)
EXTENDS Shutdown

CONSTANTS
    Requests,       \* HTTP requests
    ApiRoutes,      \* those whose URI holds "/api/"
    Identified,     \* those with a tenant and a user in their headers
    Panicking,      \* those whose handler may panic
    database, web   \* the observers of sqlDB and restserver

ASSUME WebAssumption ==
    /\ AppUnits \subseteq Requests /\ ApiRoutes \subseteq Requests
    /\ Identified \subseteq Requests /\ Panicking \subseteq Requests
    /\ {database, web} = Observers /\ database # web
    /\ Stoppers = {}    \* neither of the two has a Stop

VARIABLES
    boot,       \* where main is
    customAuth, \* whether the application replaced the authentication middleware
    srv,        \* the server: "nil" before and after its life, "set", "closing"
    listening,  \* its listener is open
    forced,     \* its shutdown timed out with requests in flight
    place,      \* per request, the middleware or the handler it is in
    status,     \* per request, its response
    identity,   \* the requests the default middleware gave a tenant and a user
    meter,      \* what the active requests instrument counts
    lateStart,  \* counted requests that registered after a drain saw none
    failed      \* the requests that found the database closed

webVars == <<boot, customAuth, srv, listening, forced, place, status, identity, meter, lateStart, failed>>
serverVars == <<boot, customAuth, srv, listening, forced>>
requestVars == <<place, status, identity, meter, lateStart, failed>>
serviceVars == <<allVars, webVars>>

WebInit ==
    /\ boot = "config" /\ customAuth \in BOOLEAN /\ srv = "nil" /\ listening = FALSE /\ forced = FALSE
    /\ place = [r \in Requests |-> "none"] /\ status = [r \in Requests |-> "none"]
    /\ identity = {} /\ meter = 0 /\ lateStart = {} /\ failed = {}

InFlight == {r \in Requests : place[r] \notin {"none", "done"}}
DatabaseOpen == closes[database] = 0

-----------------------------------------------------------------------------
(* Boot, on the goroutine of main. *)

\* config.Load: a variable that is missing or does not convert ends the process.
LoadConfig ==
    /\ boot = "config" /\ boot' \in {"app", "crashed"}
    /\ UNCHANGED <<allVars, customAuth, srv, listening, forced, requestVars>>

\* InitializeApp starts the observer; what it starts besides holds nothing to close.
InitializeApp(g) ==
    /\ boot = "app" /\ boot' = "database" /\ Initialize(g)
    /\ UNCHANGED <<customAuth, srv, listening, forced, requestVars>>

\* NewSQLDatabaseInstance attaches the observer as soon as the database answered; when it
\* does not, the process ends.
OpenDatabase ==
    /\ boot = "database"
    /\ \/ Attach(database) /\ boot' = "migrate"
       \/ UNCHANGED allVars /\ boot' = "crashed"
    /\ UNCHANGED <<customAuth, srv, listening, forced, requestVars>>

\* executeDatabaseMigration: one that fails ends the process, one whose source cannot be
\* opened is skipped.
Migrate ==
    /\ boot = "migrate" /\ boot' \in {"web", "crashed"}
    /\ UNCHANGED <<allVars, customAuth, srv, listening, forced, requestVars>>

\* ListenAndServe builds the server, attaches it, and only then listens.
AttachServer ==
    /\ boot = "web" /\ Attach(web)
    /\ boot' = "listen" /\ srv' = "set"
    /\ UNCHANGED <<customAuth, listening, forced, requestVars>>

\* By now a shutdown may have come and gone: on a nil server the call panics, and one
\* whose shutdown ran before it listened listens all the same.
Listen ==
    /\ boot = "listen"
    /\ IF srv = "nil" THEN boot' = "crashed" /\ UNCHANGED listening
       ELSE boot' = "serving" /\ listening' = TRUE
    /\ UNCHANGED <<allVars, customAuth, srv, forced, requestVars>>

-----------------------------------------------------------------------------
(* Requests. *)

\* Defect: an error response is uncounted where it is written and on the way out.
LeaveUncountedTwice(r, s) ==
    /\ place' = [place EXCEPT ![r] = "done"] /\ status' = [status EXCEPT ![r] = s]
    /\ meter' = (IF s = "error" THEN meter - 2 ELSE meter - 1) /\ UNCHANGED <<lateStart, failed>>

\* A request leaves through the deferred functions of the middlewares it entered.
Leave(r, s) ==
    /\ place' = [place EXCEPT ![r] = "done"] /\ status' = [status EXCEPT ![r] = s]
    /\ meter' = meter - 1 /\ UNCHANGED <<lateStart, failed>>

Enter(r, p) == place' = [place EXCEPT ![r] = p] /\ UNCHANGED <<status, meter, lateStart, failed>>

\* The server takes a request in: tracing, metrics, then its correlation id.
Accept(r) ==
    /\ listening /\ place[r] = "none"
    /\ place' = [place EXCEPT ![r] = "cors"] /\ meter' = meter + 1
    /\ UNCHANGED <<allVars, serverVars, status, identity, lateStart, failed>>

\* The access control answers a preflight request itself.
AccessControl(r) ==
    /\ place[r] = "cors" /\ (Leave(r, "preflight") \/ Enter(r, "auth"))
    /\ UNCHANGED <<allVars, serverVars, identity>>

\* The default middleware asks only the authenticated routes who they are, and refuses
\* those without a tenant and a user.
DefaultAuthenticates(r) ==
    IF r \in ApiRoutes \ Identified THEN Leave(r, "refused") /\ UNCHANGED identity
    ELSE Enter(r, "custom") /\ identity' = identity \cup ({r} \cap ApiRoutes)

\* One of the application decides for every route: its error refuses, and whatever context
\* it returns goes on, even an empty one or none.
CustomAuthenticates(r) == (Leave(r, "refused") \/ Enter(r, "custom")) /\ UNCHANGED identity

Authenticate(r) ==
    /\ place[r] = "auth"
    /\ IF customAuth THEN CustomAuthenticates(r) ELSE DefaultAuthenticates(r)
    /\ UNCHANGED <<allVars, serverVars>>

\* The middlewares of the application and the BeforeEnter of the route.
CustomMiddleware(r) ==
    /\ place[r] = "custom" /\ (Leave(r, "refused") \/ Enter(r, "route"))
    /\ UNCHANGED <<allVars, serverVars, identity>>

\* Some drain has seen the counted work empty.
SawIdle == \E n \in Notifiers : signal[n] \in closed

\* Defect: the handler runs before the work is registered.
BeginHandlerUncounted(r) ==
    /\ place[r] = "route" /\ Enter(r, "handler")
    /\ UNCHANGED <<allVars, serverVars, identity>>

\* The handler begins; one that counts itself registers first.
BeginHandler(r) ==
    /\ place[r] = "route"
    /\ place' = [place EXCEPT ![r] = "handler"]
    /\ IF r \in AppUnits
       THEN /\ AddRunning(r)
            /\ lateStart' = IF SawIdle THEN lateStart \cup {r} ELSE lateStart
       ELSE UNCHANGED <<workVars, lateStart>>
    /\ UNCHANGED <<shutdownVars, serverVars, status, identity, meter, failed>>

RefuseEntry(r) ==
    /\ place[r] = "route" /\ Leave(r, "refused")
    /\ UNCHANGED <<allVars, serverVars, identity>>

\* A query of the handler: sqlDBInstance stays set after its close.
QueryDatabase(r) ==
    /\ place[r] = "handler"
    /\ failed' = IF DatabaseOpen THEN failed ELSE failed \cup {r}
    /\ failed' # failed
    /\ UNCHANGED <<allVars, serverVars, place, status, identity, meter, lateStart>>

\* The handler ends: it answers, an unencodable body becomes an error response, or
\* panicRecover turns its panic into one.  DoneRunning is deferred.
EndHandler(r) ==
    /\ place[r] = "handler"
    /\ IF r \in active THEN DoneRunning(r) ELSE UNCHANGED workVars
    /\ \/ Leave(r, "ok")
       \/ Leave(r, "error")
       \/ r \in Panicking /\ Leave(r, "recovered")
    /\ UNCHANGED <<shutdownVars, serverVars, identity>>

RequestStep(r) ==
    \/ AccessControl(r) \/ Authenticate(r) \/ CustomMiddleware(r) \/ BeginHandler(r)
    \/ RefuseEntry(r) \/ QueryDatabase(r) \/ EndHandler(r)

-----------------------------------------------------------------------------
(* The close of the server, one observer of the pipeline. *)

ClosesServer(n) == Visiting(n, "closing") /\ Current(n) = web

\* restObserver.Close calls shutdown: the listener closes.
BeginServerClose(n) ==
    /\ ClosesServer(n) /\ srv = "set"
    /\ srv' = "closing" /\ listening' = FALSE
    /\ UNCHANGED <<allVars, boot, customAuth, forced, requestVars>>

\* Defect: the shutdown returns once the listener is closed.
ShutdownEndsAtOnce == TRUE

ShutdownEnds == InFlight = {}

\* Defect: the shutdown has no timeout.
NeverGivesUp == FALSE

GivesUp == InFlight # {}

\* shutdown returns when the requests are over, or after ten seconds.
EndServerClose(n) ==
    /\ ClosesServer(n) /\ srv = "closing" /\ srv' = "nil"
    /\ \/ ShutdownEnds /\ UNCHANGED forced
       \/ GivesUp /\ forced' = TRUE
    /\ CloseObserver(n)
    /\ UNCHANGED <<boot, customAuth, listening, requestVars>>

OtherPipelineStep(n) ==
    /\ \/ ReceiveSignal(n) \/ TakeSnapshot(n) \/ StopObserver(n) \/ BeginDrain(n)
       \/ EndDrain(n) \/ EndNotify(n) \/ DrainProgress(n)
       \/ ~ClosesServer(n) /\ CloseObserver(n)
    /\ UNCHANGED webVars

\* A crash ends every goroutine of the process.
Alive == boot # "crashed"

ServiceNext ==
    /\ Alive
    /\ \/ LoadConfig \/ OpenDatabase \/ Migrate \/ AttachServer \/ Listen
       \/ \E g \in Goroutines : InitializeApp(g)
       \/ Signal /\ UNCHANGED webVars
       \/ \E r \in Requests : Accept(r) \/ RequestStep(r)
       \/ \E n \in Notifiers : BeginServerClose(n) \/ EndServerClose(n) \/ OtherPipelineStep(n)

ServiceInit == Init /\ WebInit

\* The goroutine of the pipeline runs, and its timeouts elapse.
ServiceFairness ==
    \A n \in Notifiers :
        WF_serviceVars(/\ Alive
                       /\ OtherPipelineStep(n) \/ BeginServerClose(n) \/ EndServerClose(n))

ServiceSpec == ServiceInit /\ [][ServiceNext]_serviceVars /\ ServiceFairness

-----------------------------------------------------------------------------
(* Properties. *)

\* The active requests instrument counts the requests in flight, however each of them
\* ended (middlewares.go:145-164).
MeterCountsInFlight == meter = Cardinality(InFlight)

\* Under the default middleware a handler of an authenticated route runs with a tenant and a
\* user; one of the application is not held to that (middlewares.go:55-88).
HandlersKnowTheirUser ==
    ~customAuth => \A r \in ApiRoutes : place[r] = "handler" => r \in identity

\* The types, with what the middlewares keep of a request.
ServiceTypeOK ==
    /\ ShutdownTypeOK /\ MeterCountsInFlight /\ HandlersKnowTheirUser
    /\ boot \in {"config", "app", "database", "migrate", "web", "listen", "serving", "crashed"}
    /\ customAuth \in BOOLEAN /\ srv \in {"nil", "set", "closing"} /\ listening \in BOOLEAN /\ forced \in BOOLEAN
    /\ place \in [Requests -> {"none", "cors", "auth", "custom", "route", "handler", "done"}]
    /\ status \in [Requests -> {"none", "preflight", "refused", "ok", "error", "recovered"}]
    /\ identity \subseteq Requests /\ meter \in Nat /\ failed \subseteq Requests
    /\ lateStart \subseteq AppUnits

\* "The shutdown itself waits for the requests still in flight" (observer.go:12-14 of
\* restserver): when it returned without its timeout, and the server did not begin to
\* listen meanwhile, no request is left.
CloseDrainsRequests ==
    closes[web] > 0 /\ ~forced /\ ~listening => InFlight = {}

\* A request that counts itself and registered before the drain saw none finds the database
\* open, unless the drain gave up, although the database closes before the server
\* (subject.go:101-110, observer.go:18-20 of sqlDB).
CountedRequestsKeepDatabase ==
    \A r \in failed \cap AppUnits :
        r \in lateStart \/ \E n \in Notifiers : wait[n] = "timedOut"

\* A pipeline that began ends while the process lives, whatever the requests in flight do.
PipelineEnds == \A n \in Notifiers : stage[n] = "notify" ~> stage[n] = "done" \/ ~Alive

\* "The work that queries the database has already been drained" when the database
\* closes (sqlDB/observer.go:16-17): no request finds it closed.
DatabaseOutlivesRequests == failed = {}

=============================================================================
