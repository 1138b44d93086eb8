------------------------------ MODULE RabbitMQ ------------------------------
(***************************************************************************)
(* The RabbitMQ provider (pkg/messaging/rabbitmq.go): one connection and   *)
(* one channel, watched and redialled when the connection drops; the live  *)
(* consumers re-subscribed on the replacement; deliveries handed to the    *)
(* listeners and acknowledged on the channel they came from; publishes     *)
(* confirmed by the broker; and the close of the shutdown.                 *)
(*                                                                         *)
(* Connections are numbered in the order they are dialled and each has one *)
(* channel.  The broker is external: it keeps a message ready, or unacked  *)
(* by a subscription of an open channel (prefetch 1), or settled; and it   *)
(* answers a publish when it reads it, which may be after the publisher    *)
(* gave up or lost the channel.  A mutex section is one action, except the *)
(* re-subscription, which holds mu while it talks to the broker.           *)
(***************************************************************************)
EXTENDS Naturals, FiniteSets

CONSTANTS
    Consumers,   \* consumers created over the provider's life
    Messages,    \* messages of the queue they all consume
    Malformed,   \* the messages whose body is not valid JSON
    Published,   \* the messages that calls of producer send; the others are in the queue
    MaxConns,    \* bound: connections dialled
    Faults       \* failures beyond a watched connection dropping

ASSUME RabbitAssumption ==
    /\ MaxConns \in Nat \ {0}
    /\ Malformed \subseteq Messages /\ Published \subseteq Messages
    /\ Faults \subseteq {"unwatched", "channel", "resubscribe"}

Conns == 1..MaxConns

VARIABLES
    conn,      \* the connection installed in the provider
    dialled,   \* connections dialled so far
    up,        \* connections that are up
    open,      \* connections whose channel is open
    watcher,   \* the goroutine of watchClose for each connection
    recon,     \* the reconnect under way: its step, replacement and consumers left
    closing,   \* progress of close(): "no", then "closing" (flag set), then "closed"
    subs,      \* the consumers the provider re-subscribes
    started,   \* consumers whose creation succeeded
    done,      \* consumers told to stop
    listening, \* consumers whose listener is up
    serving,   \* <<c, k>>: a processMessages goroutine of c on the channel of k
    brokerSubs,\* <<c, k>>: a subscription at the broker; no consumer cancels one
    place,     \* where each message is: New, Ready, unacked by <<c, k>>, Acked or Dead
    items,     \* deliveries inside the process: message, subscription and stage
    handled,   \* messages some handler processed without an error
    confirming,\* connections whose channel is in confirm mode
    pub,       \* each publish: its step, the channel it read, its deferred confirmation
    unread,    \* published messages that were sent and the broker has not read
    returned   \* published messages no queue matched, handed to NotifyReturn

connVars == <<conn, dialled, up, open, watcher, recon, closing>>
subVars  == <<subs, started, done, listening, serving>>
msgVars  == <<brokerSubs, place, items, handled>>
pubVars  == <<confirming, pub, unread, returned>>
vars     == <<connVars, subVars, msgVars, pubVars>>

New   == <<"new">>
Ready == <<"ready">>
Acked == <<"acked">>
Dead  == <<"dead">>

NoReconnect == [step |-> "none", conn |-> 0, todo |-> {}]
MuFree == recon.step # "resubscribing"

Init ==
    /\ conn = 1 /\ dialled = 1
    /\ up = {1} /\ open = {1}
    /\ watcher = [k \in Conns |-> IF k = 1 THEN "armed" ELSE "unset"]
    /\ recon = NoReconnect
    /\ closing = "no"
    /\ subs = {} /\ started = {} /\ done = {} /\ listening = {} /\ serving = {}
    /\ brokerSubs = {} /\ items = {} /\ handled = {}
    /\ place = [m \in Messages |-> IF m \in Published THEN New ELSE Ready]
    /\ confirming = {1} /\ unread = {} /\ returned = {}
    /\ pub = [m \in Published |-> [step |-> "idle", on |-> 0, answer |-> "none"]]

----------------------------------------------------------------------------
(* The broker and the network (external). *)

\* A channel that ends loses its subscriptions and requeues what they hold; amqp091
\* resolves the deferred confirmations of the channel as not acknowledged.
ChannelEnds(k) ==
    /\ open' = open \ {k}
    /\ pub' = [m \in Published |->
                 IF pub[m].step = "sent" /\ pub[m].on = k /\ pub[m].answer = "none"
                 THEN [pub[m] EXCEPT !.answer = "nack"] ELSE pub[m]]
    /\ UNCHANGED <<confirming, unread, returned>>
    /\ brokerSubs' = {s \in brokerSubs : s[2] # k}
    /\ place' = [m \in Messages |->
                   IF \E c \in Consumers : place[m] = <<c, k>> THEN Ready ELSE place[m]]

\* A connection drops.  Its NotifyClose listener gets the error; one registered
\* later is closed at once instead.
Drop(k) ==
    /\ k \in up
    /\ dialled < MaxConns
    /\ watcher[k] = "armed" \/ "unwatched" \in Faults
    /\ up' = up \ {k}
    /\ ChannelEnds(k)
    /\ watcher' = [watcher EXCEPT ![k] = IF @ = "armed" THEN "notified" ELSE @]
    /\ UNCHANGED <<conn, dialled, recon, closing, subVars, items, handled>>

\* The broker closes the channel alone, as for a Consume on a queue that does not
\* exist or a publish to an exchange that does not.
ChannelException(k) ==
    /\ "channel" \in Faults
    /\ k \in up \cap open
    /\ ChannelEnds(k)
    /\ UNCHANGED <<conn, dialled, up, watcher, recon, closing, subVars, items, handled>>

Deliver(m, c, k) ==
    /\ place[m] = Ready
    /\ <<c, k>> \in brokerSubs
    /\ \A n \in Messages : place[n] # <<c, k>>
    /\ place' = [place EXCEPT ![m] = <<c, k>>]
    /\ items' = items \cup {[msg |-> m, of |-> <<c, k>>, stage |-> "wire"]}
    /\ UNCHANGED <<connVars, subVars, brokerSubs, handled, pubVars>>

\* The broker's answer to an Ack or Reject of item i: none on a channel that ended.
SettleAs(i, where) ==
    place' = IF i.of[2] \in open THEN [place EXCEPT ![i.msg] = where] ELSE place

----------------------------------------------------------------------------
(* watchClose and reconnect. *)

\* The goroutine of watchClose: stopped, or woken by the lost connection.
WatcherStops(k) ==
    /\ watcher[k] \in {"armed", "notified"} /\ closing # "no"
    /\ watcher' = [watcher EXCEPT ![k] = "gone"]
    /\ UNCHANGED <<conn, dialled, up, open, recon, closing, subVars, msgVars, pubVars>>

WatcherReconnects(k) ==
    /\ watcher[k] = "notified" /\ closing = "no"
    /\ MuFree
    /\ watcher' = [watcher EXCEPT ![k] = "gone"]
    /\ recon' = [NoReconnect EXCEPT !.step = "dialing"]
    /\ UNCHANGED <<conn, dialled, up, open, closing, subVars, msgVars, pubVars>>

\* A dial that fails leaves the loop where it is, after a delay cut short by stop, and so
\* does one whose channel is refused the confirm mode.  One already under way when the
\* provider closes may still succeed.
Dial ==
    /\ recon.step = "dialing"
    /\ dialled < MaxConns
    /\ dialled' = dialled + 1
    /\ up' = up \cup {dialled + 1} /\ open' = open \cup {dialled + 1}
    /\ confirming' = confirming \cup {dialled + 1}
    /\ recon' = [recon EXCEPT !.step = "dialled", !.conn = dialled + 1]
    /\ UNCHANGED <<conn, watcher, closing, subVars, msgVars, pub, unread, returned>>

GiveUpDialing ==
    /\ recon.step = "dialing" /\ closing # "no"
    /\ recon' = NoReconnect
    /\ UNCHANGED <<conn, dialled, up, open, watcher, closing, subVars, msgVars, pubVars>>

\* The replacement is installed without looking at closing.
InstallAlways ==
    /\ recon.step = "dialled"
    /\ LET live == subs \ done IN
       /\ conn' = recon.conn
       /\ watcher' = [watcher EXCEPT ![recon.conn] =
                        IF recon.conn \in up THEN "armed" ELSE "gone"]
       /\ subs' = live
       /\ recon' = [recon EXCEPT !.step = "resubscribing", !.todo = live]
    /\ UNCHANGED <<dialled, up, open, closing, started, done, listening, serving, msgVars, pubVars>>

\* The canceled consumers stay among the ones to re-subscribe.
InstallKeepsCanceled ==
    /\ recon.step = "dialled" /\ closing = "no"
    /\ conn' = recon.conn
    /\ watcher' = [watcher EXCEPT ![recon.conn] =
                     IF recon.conn \in up THEN "armed" ELSE "gone"]
    /\ recon' = [recon EXCEPT !.step = "resubscribing", !.todo = subs \ done]
    /\ UNCHANGED <<dialled, up, open, closing, subVars, msgVars, pubVars>>

\* The replacement is swapped in and watched, and canceled consumers are dropped.
Install ==
    /\ recon.step = "dialled" /\ closing = "no"
    /\ LET live == subs \ done IN
       /\ conn' = recon.conn
       /\ watcher' = [watcher EXCEPT ![recon.conn] =
                        IF recon.conn \in up THEN "armed" ELSE "gone"]
       /\ subs' = live
       /\ recon' = [recon EXCEPT !.step = "resubscribing", !.todo = live]
    /\ UNCHANGED <<dialled, up, open, closing, started, done, listening, serving, msgVars, pubVars>>

\* The provider closed during the dial: the replacement is closed instead.
CloseReplacement ==
    /\ recon.step = "dialled" /\ closing # "no"
    /\ up' = up \ {recon.conn}
    /\ ChannelEnds(recon.conn)
    /\ recon' = NoReconnect
    /\ UNCHANGED <<conn, dialled, watcher, closing, subVars, items, handled>>

\* startConsumingOn subscribes c on the channel of k.
Subscribe(c, k) ==
    /\ brokerSubs' = brokerSubs \cup {<<c, k>>}
    /\ serving' = serving \cup {<<c, k>>}

\* An error is logged and the subscription kept, for the next reconnect.
Resubscribe(c) ==
    /\ recon.step = "resubscribing" /\ c \in recon.todo
    /\ recon' = [recon EXCEPT !.todo = @ \ {c}]
    /\ \/ recon.conn \in open /\ Subscribe(c, recon.conn)
       \/ /\ recon.conn \notin open \/ "resubscribe" \in Faults
          /\ UNCHANGED <<brokerSubs, serving>>
    /\ UNCHANGED <<conn, dialled, up, open, watcher, closing, subs, started, done, listening,
                   place, items, handled, pubVars>>

ReconnectDone ==
    /\ recon.step = "resubscribing" /\ recon.todo = {}
    /\ recon' = NoReconnect
    /\ UNCHANGED <<conn, dialled, up, open, watcher, closing, subVars, msgVars, pubVars>>

----------------------------------------------------------------------------
(* consumer, and what its goroutine does with a delivery. *)

\* The creation does not take mu: it may run while a reconnect re-subscribes.
NewConsumerUnlocked(c) ==
    /\ c \notin started
    /\ closing = "no" /\ conn \in open
    /\ started' = started \cup {c} /\ listening' = listening \cup {c}
    /\ subs' = subs \cup {c}
    /\ recon' = [recon EXCEPT !.todo = IF recon.step = "resubscribing" THEN @ \cup {c} ELSE @]
    /\ Subscribe(c, conn)
    /\ UNCHANGED <<conn, dialled, up, open, watcher, closing, done, place, items, handled, pubVars>>

\* The subscription is recorded before the Consume whose error is returned.
NewConsumerRecordsFirst(c) ==
    /\ c \notin started
    /\ MuFree /\ closing = "no"
    /\ subs' = subs \cup {c}
    /\ IF conn \in open
       THEN started' = started \cup {c} /\ listening' = listening \cup {c} /\ Subscribe(c, conn)
       ELSE UNCHANGED <<started, listening, brokerSubs, serving>>
    /\ UNCHANGED <<connVars, done, place, items, handled, pubVars>>

\* Refused while the provider closes; the error of a dead channel is returned.
NewConsumer(c) ==
    /\ c \notin started
    /\ MuFree /\ closing = "no" /\ conn \in open
    /\ started' = started \cup {c} /\ listening' = listening \cup {c}
    /\ subs' = subs \cup {c}
    /\ Subscribe(c, conn)
    /\ UNCHANGED <<connVars, done, place, items, handled, pubVars>>

SignalStop(c) ==
    /\ c \in started \ done
    /\ done' = done \cup {c}
    /\ UNCHANGED <<connVars, subs, started, listening, serving, msgVars, pubVars>>

InHand(s) == {i \in items : i.of = s /\ i.stage = "hand"}

\* processMessages takes a delivery: a malformed one is rejected, any other one is
\* offered to the listener.
ProcessDelivery(i) ==
    /\ i \in items /\ i.stage = "wire"
    /\ i.of \in serving /\ InHand(i.of) = {}
    /\ IF i.msg \in Malformed
       THEN items' = items \ {i} /\ SettleAs(i, Dead)
       ELSE items' = (items \ {i}) \cup {[i EXCEPT !.stage = "hand"]} /\ UNCHANGED place
    /\ UNCHANGED <<connVars, subVars, brokerSubs, handled, pubVars>>

Buffered(c) == {i \in items : i.of[1] = c /\ i.stage = "buffer"}

OfferToListener(i) ==
    /\ i \in items /\ i.stage = "hand"
    /\ Buffered(i.of[1]) = {}
    /\ items' = (items \ {i}) \cup {[i EXCEPT !.stage = "buffer"]}
    /\ UNCHANGED <<connVars, subVars, brokerSubs, place, handled, pubVars>>

\* Nobody listens: the delivery is settled as read.
HandOverDrops(i) ==
    /\ i \in items /\ i.stage = "hand" /\ i.of[1] \in done
    /\ items' = items \ {i}
    /\ SettleAs(i, Acked)
    /\ UNCHANGED <<connVars, subVars, brokerSubs, handled, pubVars>>

\* Nobody listens anymore: Reject with requeue.
HandBack(i) ==
    /\ i \in items /\ i.stage = "hand" /\ i.of[1] \in done
    /\ items' = items \ {i}
    /\ SettleAs(i, Ready)
    /\ UNCHANGED <<connVars, subVars, brokerSubs, handled, pubVars>>

\* The goroutine of a stopped consumer forgets its subscription.
ProcessStops(c, k) ==
    /\ <<c, k>> \in serving /\ InHand(<<c, k>>) = {}
    /\ c \in done
    /\ MuFree
    /\ subs' = subs \ {c}
    /\ serving' = serving \ {<<c, k>>}
    /\ UNCHANGED <<connVars, started, done, listening, msgVars, pubVars>>

\* A closed delivery channel is taken for a stop.
ProcessEndsForgets(c, k) ==
    /\ <<c, k>> \in serving /\ InHand(<<c, k>>) = {}
    /\ k \notin open /\ MuFree
    /\ subs' = subs \ {c}
    /\ serving' = serving \ {<<c, k>>}
    /\ items' = {i \in items : ~(i.of = <<c, k>> /\ i.stage = "wire")}
    /\ UNCHANGED <<connVars, started, done, listening, brokerSubs, place, handled, pubVars>>

\* The delivery channel was closed: the subscription is kept for the reconnect.
ProcessEnds(c, k) ==
    /\ <<c, k>> \in serving /\ InHand(<<c, k>>) = {}
    /\ k \notin open
    /\ serving' = serving \ {<<c, k>>}
    /\ items' = {i \in items : ~(i.of = <<c, k>> /\ i.stage = "wire")}
    /\ UNCHANGED <<connVars, subs, started, done, listening, brokerSubs, place, handled, pubVars>>

Outcomes == {"succeeded", "failed"}
Handling(c) == {i \in items : i.of[1] = c /\ i.stage \in {"handling"} \cup Outcomes}

ListenerTakes(i) ==
    /\ i \in items /\ i.stage = "buffer"
    /\ i.of[1] \in listening /\ Handling(i.of[1]) = {}
    /\ items' = (items \ {i}) \cup {[i EXCEPT !.stage = "handling"]}
    /\ UNCHANGED <<connVars, subVars, brokerSubs, place, handled, pubVars>>

\* Consume returns nil, or it returns an error or panics.
HandlerReturns(i) ==
    /\ i \in items /\ i.stage = "handling"
    /\ \E outcome \in Outcomes :
          /\ items' = (items \ {i}) \cup {[i EXCEPT !.stage = outcome]}
          /\ handled' = IF outcome = "succeeded" THEN handled \cup {i.msg} ELSE handled
    /\ UNCHANGED <<connVars, subVars, brokerSubs, place, pubVars>>

\* Ack after a success, Reject without requeue otherwise, on the channel the delivery
\* came from.  Their errors are logged.
ListenerSettles(i) ==
    /\ i \in items /\ i.stage \in Outcomes
    /\ items' = items \ {i}
    /\ SettleAs(i, IF i.stage = "succeeded" THEN Acked ELSE Dead)
    /\ UNCHANGED <<connVars, subVars, brokerSubs, handled, pubVars>>

ListenerStops(c) ==
    /\ c \in listening \cap done /\ Handling(c) = {}
    /\ listening' = listening \ {c}
    /\ UNCHANGED <<connVars, subs, started, done, serving, msgVars, pubVars>>

----------------------------------------------------------------------------
(* producer, and the broker that reads what it publishes. *)

ReadChannel(m) ==
    /\ pub[m].step = "idle" /\ MuFree
    /\ pub' = [pub EXCEPT ![m].step = "read", ![m].on = conn]
    /\ UNCHANGED <<connVars, subVars, msgVars, confirming, unread, returned>>

\* Without a deferred confirmation, on a channel not in confirm mode, producer returns nil.
Send(m) ==
    /\ pub[m].step = "read"
    /\ LET sent == pub[m].on \in open
           next == IF ~sent THEN "error" ELSE IF pub[m].on \in confirming THEN "sent" ELSE "ok"
       IN  /\ pub' = [pub EXCEPT ![m].step = next]
           /\ unread' = IF sent THEN unread \cup {m} ELSE unread
    /\ UNCHANGED <<connVars, subVars, msgVars, confirming, returned>>

\* The answer reaches the deferred confirmation only through the open channel.
Answers(m, answer) ==
    pub' = [pub EXCEPT ![m].answer =
              IF @ = "none" /\ pub[m].on \in open THEN answer ELSE @]

\* The broker (external) stores the message; or hands it back, as mandatory asks when no
\* queue matches, and confirms it all the same; or refuses it.
BrokerReads(m) ==
    /\ m \in unread /\ unread' = unread \ {m}
    /\ \/ /\ place' = [place EXCEPT ![m] = Ready] /\ Answers(m, "ack")
          /\ UNCHANGED returned
       \/ /\ pub[m].on \in open /\ returned' = returned \cup {m} /\ Answers(m, "ack")
          /\ UNCHANGED place
       \/ Answers(m, "nack") /\ UNCHANGED <<place, returned>>
    /\ UNCHANGED <<connVars, subVars, brokerSubs, items, handled, confirming>>

\* Defect: a wait that ended is taken for a confirmation, acked not looked at.
AwaitIgnoresAcked(m) ==
    /\ pub[m].step = "sent" /\ pub[m].answer # "none"
    /\ pub' = [pub EXCEPT ![m].step = "ok"]
    /\ UNCHANGED <<connVars, subVars, msgVars, confirming, unread, returned>>

\* WaitContext: nil for what the broker acknowledged.
Await(m) ==
    /\ pub[m].step = "sent" /\ pub[m].answer # "none"
    /\ pub' = [pub EXCEPT ![m].step = IF pub[m].answer = "ack" THEN "ok" ELSE "error"]
    /\ UNCHANGED <<connVars, subVars, msgVars, confirming, unread, returned>>

\* The publish timeout.
PublishTimesOut(m) ==
    /\ pub[m].step = "sent"
    /\ pub' = [pub EXCEPT ![m].step = "error"]
    /\ UNCHANGED <<connVars, subVars, msgVars, confirming, unread, returned>>

----------------------------------------------------------------------------
(* close. *)

BeginClose ==
    /\ MuFree /\ closing = "no"
    /\ closing' = "closing"
    /\ UNCHANGED <<conn, dialled, up, open, watcher, recon, subVars, msgVars, pubVars>>

\* The channel and the connection read under the lock; closing = TRUE keeps them.
EndClose ==
    /\ closing = "closing"
    /\ closing' = "closed"
    /\ up' = up \ {conn}
    /\ ChannelEnds(conn)
    /\ UNCHANGED <<conn, dialled, watcher, recon, subVars, items, handled>>

----------------------------------------------------------------------------
WatchStep(k) == WatcherStops(k) \/ WatcherReconnects(k)

ReconnectStep ==
    \/ Dial \/ GiveUpDialing
    \/ Install \/ CloseReplacement
    \/ \E c \in Consumers : Resubscribe(c)
    \/ ReconnectDone

ItemStep(i) ==
    \/ ProcessDelivery(i) \/ OfferToListener(i) \/ HandBack(i)
    \/ ListenerTakes(i) \/ HandlerReturns(i) \/ ListenerSettles(i)

Next ==
    \/ \E k \in Conns : Drop(k) \/ ChannelException(k) \/ WatchStep(k)
    \/ \E m \in Messages, c \in Consumers, k \in Conns : Deliver(m, c, k)
    \/ ReconnectStep
    \/ \E c \in Consumers : NewConsumer(c) \/ SignalStop(c) \/ ListenerStops(c)
    \/ \E c \in Consumers, k \in Conns : ProcessStops(c, k) \/ ProcessEnds(c, k)
    \/ \E i \in items : ItemStep(i)
    \/ \E m \in Published : \/ ReadChannel(m) \/ Send(m) \/ BrokerReads(m)
                            \/ Await(m) \/ PublishTimesOut(m)
    \/ BeginClose \/ EndClose

Spec == Init /\ [][Next]_vars

\* The goroutines are scheduled, the handlers return, and a broker that is down
\* comes back: a dial retried for ever succeeds.  A select with a done channel ready
\* for ever picks it in the end.
Fairness ==
    /\ \A k \in Conns : WF_vars(WatchStep(k))
    /\ WF_vars(ReconnectStep)
    /\ \A c \in Consumers : WF_vars(ListenerStops(c))
    /\ \A c \in Consumers, k \in Conns : /\ SF_vars(ProcessStops(c, k))
                                         /\ WF_vars(ProcessEnds(c, k))
    /\ \A m \in Messages, c \in Consumers, k \in Conns :
          WF_vars(\E i \in items : i.msg = m /\ i.of = <<c, k>> /\ ItemStep(i))
    /\ WF_vars(EndClose)

FairSpec == Spec /\ Fairness

----------------------------------------------------------------------------
(* Properties. *)

Stages == {"wire", "hand", "buffer", "handling"} \cup Outcomes

TypeOK ==
    /\ conn \in 1..dialled /\ dialled \in Conns
    /\ up \subseteq 1..dialled /\ open \subseteq up
    /\ watcher \in [Conns -> {"unset", "armed", "notified", "gone"}]
    /\ recon \in [step : {"none", "dialing", "dialled", "resubscribing"},
                  conn : 0..dialled, todo : SUBSET Consumers]
    /\ closing \in {"no", "closing", "closed"}
    /\ subs \subseteq started /\ started \subseteq Consumers
    /\ done \subseteq started /\ listening \subseteq started
    /\ serving \subseteq started \X (1..dialled)
    /\ brokerSubs \subseteq started \X open
    /\ place \in [Messages -> {New, Ready, Acked, Dead} \cup brokerSubs]
    /\ items \subseteq [msg : Messages, of : started \X (1..dialled), stage : Stages]
    /\ handled \subseteq Messages /\ confirming \subseteq 1..dialled
    /\ unread \subseteq Published /\ returned \subseteq Published
    /\ pub \in [Published -> [step : {"idle", "read", "sent", "ok", "error"},
                              on : 0..dialled, answer : {"none", "ack", "nack"}]]

\* "The subscription and the Consume happen under the same lock so a reconnect cannot
\* swap the channel in between and re-subscribe this queue a second time."
NoSecondSubscription ==
    [][\A c \in recon.todo :
         c \notin recon'.todo => <<c, recon.conn>> \notin brokerSubs]_vars

\* A message is acknowledged only by the listener whose handler succeeded on the delivery
\* the broker has down for it, and leaves for the dead letters only by one whose handler
\* failed, or as malformed: an acknowledgement of a delivery whose channel was lost never
\* settles the redelivered copy.
SettledByItsHandler ==
    [][\A m \in Messages :
         place[m] \notin {Acked, Dead} /\ place'[m] \in {Acked, Dead} =>
             \E i \in items : /\ i.msg = m /\ i.of = place[m]
                              /\ \/ i.stage = IF place'[m] = Acked THEN "succeeded" ELSE "failed"
                                 \/ place'[m] = Dead /\ m \in Malformed]_vars

\* Where the queue has a message: an unacked one is in flight, and one acknowledged gone.
Held(m) ==
    IF place[m] = New THEN "new" ELSE IF place[m] = Ready THEN "queue"
    ELSE IF place[m] = Acked THEN "deleted" ELSE IF place[m] = Dead THEN "dead" ELSE "flight"

\* The provider of RabbitMQ keeps the promise of a queue, whatever connections and channels
\* are lost: delivery at least once, and nothing acknowledged before a handler processed it.
Promise == INSTANCE Queue WITH place <- [m \in Messages |-> Held(m)]
DeliversAtLeastOnce == Promise!Spec

\* However the close of the shutdown races with a reconnect, no connection is left up
\* when both are over.
CloseLeavesNoConnection ==
    closing = "closed" /\ recon.step = "none" => up = {}

\* A publish that returned nil did not vanish, whatever happened meanwhile to the channel it
\* read: the broker has its message, or handed it to the return listener, which logs it
\* ("a nack, a wait that fails, or a connection lost mid-publish becomes an error").
ConfirmedNotLost ==
    \A m \in Published : pub[m].step = "ok" => place[m] # New \/ m \in returned

Served(c) == \E k \in open : <<c, k>> \in serving \cap brokerSubs

\* Every live consumer is served again after the connection was lost, as often as it
\* is lost: reconnect "re-subscribes every live consumer".
LiveConsumersServed ==
    \A c \in Consumers :
        c \in subs \ done /\ closing = "no" ~> Served(c) \/ c \in done \/ closing # "no"

\* A consumer that was stopped is forgotten, even when it is stopped while the
\* connection is down: no later reconnect revives it.
StoppedForgotten ==
    \A c \in Consumers : c \in done ~> c \notin subs \/ closing # "no"

=============================================================================
