----------------------------- MODULE RestClient -----------------------------
(***************************************************************************)
(* Calls of pkg/web/restclient through one client: the cache of responses, *)
(* the attempts, and the circuit breaker they share.  The breaker is       *)
(* mercari/go-circuitbreaker, with the options NewRestClient gives it.     *)
(***************************************************************************)
EXTENDS Naturals

CONSTANTS
    Calls,      \* goroutines that call
    Trip,       \* consecutive failures that open the breaker: 5 in the code
    Probes      \* successes that close a half-open breaker

ASSUME RestAssumption == Trip \in Nat \ {0} /\ Probes \in Nat \ {0}

VARIABLES
    call,       \* per call, where it is
    cached,     \* per call, whether its request has a cache
    made,       \* per call, the executions made so far
    outcome,    \* per call, what its last execution ended with
    breaker,    \* the state of the breaker
    fails,      \* consecutive failures it counted while closed
    passes,     \* successes it counted while half-open
    stored,     \* whether the cache holds a response
    succeeded,  \* some execution ended with a success and a body
    inRow       \* executions since the last one that succeeded, counted up to Trip

restVars == <<call, cached, made, outcome, breaker, fails, passes, stored, succeeded, inRow>>
breakerVars == <<breaker, fails, passes>>
historyVars == <<succeeded, inRow>>

\* How an execution ends.  The request cannot be built: its body does not encode, or a
\* field of the form is neither a text nor a file.  Or its method or its address is none,
\* and with that error ignored the use of the nil request panics.
BodyOutcomes == {"unbuilt", "panic"}
\* No response came, or the caller gave up before it.
TransportOutcomes == {"broken", "cancelled"}
\* A 2xx with a body that decodes, one without a body, one that does not decode; any
\* other status, whether or not its body decodes.
ResponseOutcomes == {"body", "empty", "garbled", "status"}
Outcomes == BodyOutcomes \cup TransportOutcomes \cup ResponseOutcomes
Successes == {"body", "empty"}

RestInit ==
    /\ call = [c \in Calls |-> "idle"] /\ cached = [c \in Calls |-> FALSE]
    /\ made = [c \in Calls |-> 0] /\ outcome = [c \in Calls |-> "none"]
    /\ breaker = "closed" /\ fails = 0 /\ passes = 0
    /\ stored = FALSE /\ succeeded = FALSE /\ inRow = 0

\* NewRestClient copies neither Retries nor RetrySleepInSeconds of its configuration.
ClientRetries == 0

\* Call: StartTransaction and validate.  With a cache the answer may be there.
StartCall(c) ==
    /\ call[c] = "idle"
    /\ \E withCache \in BOOLEAN :
          /\ cached' = [cached EXCEPT ![c] = withCache]
          /\ call' = [call EXCEPT ![c] = IF withCache THEN "lookup" ELSE "ready"]
    /\ made' = [made EXCEPT ![c] = 0] /\ outcome' = [outcome EXCEPT ![c] = "none"]
    /\ UNCHANGED <<breakerVars, stored, historyVars>>

\* A hit is answered without a request; an error of the cache counts as a miss.
LookupResponse(c) ==
    /\ call[c] = "lookup"
    /\ \/ /\ stored /\ call' = [call EXCEPT ![c] = "done"]
          /\ outcome' = [outcome EXCEPT ![c] = "cached"]
       \/ call' = [call EXCEPT ![c] = "ready"] /\ UNCHANGED outcome
    /\ UNCHANGED <<cached, made, breakerVars, stored, historyVars>>

\* execute asks the breaker first; an open one refuses the execution.
Ready(c) ==
    /\ call[c] = "ready" /\ made' = [made EXCEPT ![c] = @ + 1]
    /\ IF breaker = "open"
       THEN call' = [call EXCEPT ![c] = "ended"] /\ outcome' = [outcome EXCEPT ![c] = "open"]
       ELSE call' = [call EXCEPT ![c] = "sent"] /\ UNCHANGED outcome
    /\ UNCHANGED <<cached, breakerVars, stored, historyVars>>

\* The timer of an open breaker: the next executions are probes.
OpenTimeout ==
    /\ breaker = "open" /\ breaker' = "half" /\ passes' = 0
    /\ UNCHANGED <<call, cached, made, outcome, fails, stored, historyVars>>

\* Defect: a body that ends at once is an error of the decoder.
CountsEmptyAsFailure(o) == o \in {"garbled", "broken", "unbuilt", "panic", "empty"}

\* What the deferred Done is told.  The err of a response with another status is
\* shadowed inside its if, and the breaker takes it for a success.
CountsAsFailure(o) == o \in {"garbled", "broken", "unbuilt", "panic"}

\* The breaker, told of a failure or of a success.  A cancelled call tells it nothing.
CountFailure ==
    /\ passes' = 0
    /\ IF breaker = "half" \/ (breaker = "closed" /\ fails + 1 >= Trip)
       THEN breaker' = "open" /\ fails' = 0
       ELSE UNCHANGED breaker /\ fails' = IF breaker = "closed" THEN fails + 1 ELSE fails

CountSuccess ==
    /\ fails' = 0
    /\ IF breaker = "half" /\ passes + 1 >= Probes
       THEN breaker' = "closed" /\ passes' = 0
       ELSE UNCHANGED breaker /\ passes' = IF breaker = "half" THEN passes + 1 ELSE 0

\* The rest of execute: the body is built, the request sent, the response decoded.
Execute(c) ==
    /\ call[c] = "sent"
    /\ \E o \in Outcomes :
          /\ outcome' = [outcome EXCEPT ![c] = o]
          /\ IF CountsAsFailure(o) THEN CountFailure
             ELSE IF o = "cancelled" THEN UNCHANGED breakerVars ELSE CountSuccess
          /\ succeeded' = (succeeded \/ o = "body")
          /\ inRow' = IF o \in Successes THEN 0
                      ELSE IF o = "cancelled" \/ inRow = Trip THEN inRow ELSE inRow + 1
    /\ call' = [call EXCEPT ![c] = "ended"]
    /\ UNCHANGED <<cached, made, stored>>

\* Only a success is stored, and it ends the attempts.
Stores(c) == cached[c] /\ outcome[c] \in Successes

\* After an execution: a success ends the call, a failure is tried again, a panic leaves
\* the call.  The body of an empty success is stored as null, which One takes for a miss.
EndExecution(c) ==
    /\ call[c] = "ended"
    /\ call' = [call EXCEPT ![c] =
                  IF outcome[c] \notin Successes \cup {"panic"} /\ made[c] <= ClientRetries
                  THEN "ready" ELSE "done"]
    /\ IF Stores(c) THEN stored' \in {stored, outcome[c] # "empty"} ELSE UNCHANGED stored
    /\ UNCHANGED <<cached, made, outcome, breakerVars, historyVars>>

\* The caller has its response; the goroutine may call again.
Return(c) ==
    /\ call[c] = "done" /\ call' = [call EXCEPT ![c] = "idle"]
    /\ UNCHANGED <<cached, made, outcome, breakerVars, stored, historyVars>>

\* The time to live of the response.
ExpireResponse ==
    /\ stored /\ stored' = FALSE
    /\ UNCHANGED <<call, cached, made, outcome, breakerVars, historyVars>>

RestNext ==
    \/ \E c \in Calls : StartCall(c) \/ LookupResponse(c) \/ Ready(c) \/ Execute(c)
                        \/ EndExecution(c) \/ Return(c)
    \/ OpenTimeout \/ ExpireResponse

RestSpec == RestInit /\ [][RestNext]_restVars

-----------------------------------------------------------------------------
(* Properties. *)

RestTypeOK ==
    /\ call \in [Calls -> {"idle", "lookup", "ready", "sent", "ended", "done"}]
    /\ cached \in [Calls -> BOOLEAN] /\ made \in [Calls -> Nat]
    /\ outcome \in [Calls -> Outcomes \cup {"none", "open", "cached"}]
    /\ breaker \in {"closed", "open", "half"} /\ fails \in 0..(Trip - 1)
    /\ passes \in 0..(Probes - 1) /\ stored \in BOOLEAN
    /\ succeeded \in BOOLEAN /\ inRow \in 0..Trip

\* A cached answer, which is returned without asking the server, was once the body of a
\* success: neither an error body nor an empty one takes its place (request.go:57-70).
CachedWasSuccess == stored => succeeded

\* A breaker that is closed opens only when Trip executions ended without a success and none
\* with one between them, whichever calls they were of: a success forgets the failures
\* before it, and one the caller gave up is no failure (client.go:60-66, request.go:244-275).
OpensOnFailures == [][breaker = "closed" /\ breaker' = "open" => inRow' = Trip]_restVars

\* The cache answers with what a server answered, and the breaker opens on failures in a row.
AnswersTold == []CachedWasSuccess /\ OpensOnFailures

=============================================================================
