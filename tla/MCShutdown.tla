----------------------------- MODULE MCShutdown -----------------------------
(* Two observers, one of them a Stopper that gates a unit of each kind. *)
EXTENDS Shutdown

CONSTANTS db, broker, a1, m1, l1

MCGate == a1 :> broker @@ m1 :> broker @@ l1 :> broker

\* Application work alone.
MCGateApp == a1 :> broker

=============================================================================
