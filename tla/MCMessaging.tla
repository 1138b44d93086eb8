---------------------------- MODULE MCMessaging ----------------------------
(* A consumer of the messaging module and up to two openings of the module. *)
EXTENDS Messaging, TLC

MCGate == [u \in Consumers |-> NotOpen]

\* The openings of the module are interchangeable.
Symmetry == Permutations(Lifecycles)

=============================================================================
