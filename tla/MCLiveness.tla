----------------------------- MODULE MCLiveness -----------------------------
(***************************************************************************)
(* The liveness of the messaging module and of the RabbitMQ provider, which *)
(* share no state, checked in one run: a behaviour is one of either, chosen *)
(* initially, while the other keeps its initial state, where none of its   *)
(* fair actions is enabled.                                                *)
(***************************************************************************)
EXTENDS MCMessaging

CONSTANTS Subscribers, MaxConns

VARIABLES part, conn, dialled, up, open, watcher, recon, shut, subs, started, told,
          listening, serving, brokerSubs, place, items, handled, confirming, pub, unread, returned

rabbitVars == <<conn, dialled, up, open, watcher, recon, shut, subs, started, told,
                listening, serving, brokerSubs, place, items, handled, confirming, pub, unread,
                returned>>

R == INSTANCE RabbitMQ WITH Consumers <- Subscribers, Messages <- {}, Malformed <- {},
                            Published <- {}, Faults <- {}, closing <- shut, done <- told

LivenessInit == part \in {"module", "rabbit"} /\ SystemInit /\ R!Init

LivenessNext ==
    /\ UNCHANGED part
    /\ \/ part = "module" /\ MessagingNext /\ UNCHANGED rabbitVars
       \/ part = "rabbit" /\ R!Next /\ UNCHANGED systemVars

LivenessSpec ==
    /\ LivenessInit /\ [][LivenessNext]_<<part, systemVars, rabbitVars>>
    /\ MessagingFairness /\ R!Fairness

\* A subscribed consumer that nobody stopped is served by the channel of the current
\* connection again and again, whatever number of watched connections drop.
LiveConsumersServed == R!LiveConsumersServed

\* A consumer told to stop is forgotten: no later reconnect re-subscribes it.
StoppedForgotten == R!StoppedForgotten

=============================================================================
