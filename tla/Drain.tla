------------------------------- MODULE Drain -------------------------------
(***************************************************************************)
(* What a drain promises to the code that calls it.                        *)
(*                                                                         *)
(* Work registers and finishes.  A drain that has begun sees the counted   *)
(* work empty at some moment, then the deprecated WaitGroup empty at some  *)
(* later moment, and only then reports that it drained; or it gives up.    *)
(* Emptiness is latched: the moment the last counted unit finishes every   *)
(* drain that waits has seen it, whatever registers afterwards.            *)
(***************************************************************************)
EXTENDS FiniteSets

CONSTANTS Counted,  \* units counted by AddRunning and AddModuleTask
          Legacy,   \* units registered on GetWaitGroup()
          Drains    \* calls of WaitRunningTimeout

VARIABLES running,  \* units registered and not finished
          phase     \* what each drain has seen

vars == <<running, phase>>

Init == /\ running = {}
        /\ phase = [d \in Drains |-> "idle"]

Move(d, from, to) == /\ phase[d] = from
                     /\ phase' = [phase EXCEPT ![d] = to]

Register(u) ==
    /\ u \notin running
    /\ running' = running \cup {u}
    /\ UNCHANGED phase

\* The last counted unit releases every waiting drain.
FinishCounted(u) ==
    /\ u \in running
    /\ running' = running \ {u}
    /\ phase' = [d \in Drains |->
                   IF phase[d] = "waiting" /\ running' \cap Counted = {}
                   THEN "counted" ELSE phase[d]]

\* The last legacy unit releases the drains already parked on its WaitGroup.
FinishLegacy(u) ==
    /\ u \in running
    /\ running' = running \ {u}
    /\ \E parked \in SUBSET {d \in Drains : phase[d] = "counted"} :
          /\ running' \cap Legacy = {} \/ parked = {}
          /\ phase' = [d \in Drains |-> IF d \in parked THEN "settled" ELSE phase[d]]

Begin(d) == /\ Move(d, "idle", IF running \cap Counted = {} THEN "counted" ELSE "waiting")
            /\ UNCHANGED running

SeeLegacyEmpty(d) == /\ Move(d, "counted", "settled")
                     /\ running \cap Legacy = {}
                     /\ UNCHANGED running

Report(d) == /\ Move(d, "settled", "drained")
             /\ UNCHANGED running

GiveUp(d) == /\ \E from \in {"waiting", "counted", "settled"} : Move(d, from, "timedOut")
             /\ UNCHANGED running

Next == \/ \E u \in Counted : Register(u) \/ FinishCounted(u)
        \/ \E u \in Legacy : Register(u) \/ FinishLegacy(u)
        \/ \E d \in Drains : Begin(d) \/ SeeLegacyEmpty(d) \/ Report(d) \/ GiveUp(d)

Spec == Init /\ [][Next]_vars

=============================================================================
