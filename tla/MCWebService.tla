---------------------------- MODULE MCWebService ----------------------------
(* Two requests to a service; nothing gates them. *)
EXTENDS WebService

MCWebGate == [u \in Units |-> NoService]

=============================================================================
