------------------------------- MODULE Queue -------------------------------
(***************************************************************************)
(* What every provider of pkg/messaging promises about one queue: delivery *)
(* at least once.  A message is delivered and given back any number of     *)
(* times; it leaves the queue for good only when a handler processed it,   *)
(* or for the dead letters; and what does not decode is never handled.     *)
(***************************************************************************)
CONSTANTS Messages, Malformed

VARIABLES place,    \* of each message: not published, in the queue, in flight, deleted, dead
          handled   \* the messages some handler processed without an error

promiseVars == <<place, handled>>

Init == place \in [Messages -> {"new", "queue"}] /\ handled = {}

Move(m, from, to) ==
    place[m] = from /\ place' = [place EXCEPT ![m] = to] /\ UNCHANGED handled

Publish(m) == Move(m, "new", "queue")
Deliver(m) == Move(m, "queue", "flight")

\* The broker has several back at once when a connection is lost.
GiveBack(lost) ==
    /\ \A m \in lost : place[m] = "flight"
    /\ place' = [m \in Messages |-> IF m \in lost THEN "queue" ELSE place[m]]
    /\ UNCHANGED handled

\* A handler may succeed on a message that was given back, or buried, meanwhile.
Handle(m) ==
    /\ m \notin Malformed /\ place[m] # "new"
    /\ handled' = handled \cup {m} /\ UNCHANGED place

\* The acknowledgement, which may be lost, or be for an older delivery.
Delete(m) ==
    /\ m \in handled /\ place[m] \notin {"new", "dead"}
    /\ place' = [place EXCEPT ![m] = "deleted"] /\ UNCHANGED handled

Bury(m) == \E from \in {"queue", "flight"} : Move(m, from, "dead")

Next ==
    \/ \E m \in Messages : Publish(m) \/ Deliver(m) \/ Handle(m) \/ Delete(m) \/ Bury(m)
    \/ \E lost \in SUBSET Messages : GiveBack(lost)

Spec == Init /\ [][Next]_promiseVars

=============================================================================
