--------------------------- MODULE RabbitMQProofs ---------------------------
(***************************************************************************)
(* Proofs about the RabbitMQ provider, for any consumers and messages, any *)
(* number of connections and any faults: the close leaves no connection    *)
(* up, a reconnect never subscribes a consumer twice, a message is settled *)
(* only by the listener that handled it on the subscription that holds it, *)
(* and a publish that returned nil did not vanish.                         *)
(***************************************************************************)
EXTENDS RabbitMQ, Sequences, TLAPS

\* Only the installed connection is watched, and only while no dial is under way; besides
\* it only a replacement just dialled is up.
Connected ==
    /\ \A k \in Conns : watcher[k] \in {"armed", "notified"} =>
          k = conn /\ recon.step \in {"none", "resubscribing"}
    /\ watcher[conn] = "notified" => conn \notin up
    /\ recon.step \in {"dialing", "dialled"} => conn \notin up
    /\ up \subseteq {conn} \cup (IF recon.step = "dialled" THEN {recon.conn} ELSE {})
    /\ closing = "closed" => conn \notin up

\* A replacement has no subscription before its reconnect makes it.
Resubscribed ==
    /\ recon.step \in {"dialled", "resubscribing"} => recon.conn \in 1..dialled
    /\ recon.step = "dialled" => \A c \in Consumers : <<c, recon.conn>> \notin brokerSubs
    /\ recon.todo \subseteq started /\ (recon.step # "resubscribing" => recon.todo = {})
    /\ \A c \in recon.todo : <<c, recon.conn>> \notin brokerSubs

\* A delivery on an open channel is the only one of its subscription, and the broker has
\* the message down for it.
Delivered ==
    \A i \in items : i.of[2] \in open =>
        place[i.msg] = i.of /\ \A j \in items : j.of = i.of => j = i

\* Every channel is in confirm mode, what the broker acknowledged is not lost, and what it
\* has not read, or was not sent, it does not have.
Answered ==
    /\ open \subseteq confirming
    /\ \A m \in Published :
          /\ pub[m].answer = "ack" \/ pub[m].step = "ok" => place[m] # New \/ m \in returned
          /\ pub[m].step \in {"idle", "read"} => place[m] = New /\ m \notin unread
    /\ \A m \in unread : place[m] = New

RabbitInv == TypeOK /\ Connected /\ Resubscribed /\ Delivered /\ Answered

Settlements == {Ready, Acked, Dead}
Places == {New} \cup Settlements
Publishes == [Published -> [step : {"idle", "read", "sent", "ok", "error"},
                            on : 0..dialled, answer : {"none", "ack", "nack"}]]

-----------------------------------------------------------------------------

\* The broker's words for a message are not subscriptions, and differ.
LEMMA PlacesDiffer ==
    /\ Ready # Acked /\ Ready # Dead /\ Acked # Dead
    /\ New # Ready /\ New # Acked /\ New # Dead
    /\ \A c, k : <<c, k>> # New /\ <<c, k>> # Ready /\ <<c, k>> # Acked /\ <<c, k>> # Dead
<1>1. \A c, k : Len(<<c, k>>) = 2
  OBVIOUS
<1>2. Len(New) = 1 /\ Len(Ready) = 1 /\ Len(Acked) = 1 /\ Len(Dead) = 1
  BY DEF New, Ready, Acked, Dead
<1>3. New[1] = "new" /\ Ready[1] = "ready" /\ Acked[1] = "acked" /\ Dead[1] = "dead"
  BY DEF New, Ready, Acked, Dead
<1> QED
  BY <1>1, <1>2, <1>3

LEMMA RabbitInvInit == Init => RabbitInv
<1> SUFFICES ASSUME Init PROVE RabbitInv
  OBVIOUS
<1> USE RabbitAssumption DEF Init, NoReconnect, Conns
<1>1. TypeOK
  BY DEF TypeOK
<1>2. Connected /\ Resubscribed /\ Delivered /\ Answered
  BY DEF Connected, Resubscribed, Delivered, Answered
<1> QED
  BY <1>1, <1>2 DEF RabbitInv

\* What a step does not do, unless it reads a publish: store a message.
Stays == \A m \in Messages : place'[m] = New <=> place[m] = New

\* A channel that ends takes its subscriptions along, and nothing else.
LEMMA EndedChannel ==
    ASSUME TypeOK, Delivered, Answered, NEW k, ChannelEnds(k), UNCHANGED <<items, dialled>>
    PROVE  /\ open' = open \ {k} /\ UNCHANGED <<confirming, unread, returned>>
           /\ brokerSubs' \subseteq brokerSubs /\ brokerSubs' \subseteq started \X open'
           /\ place' \in [Messages -> Places \cup brokerSubs'] /\ pub' \in Publishes'
           /\ Delivered' /\ Answered'
<1> USE DEF ChannelEnds, TypeOK
<1>1. open' = open \ {k} /\ brokerSubs' \subseteq brokerSubs /\ UNCHANGED <<confirming, unread, returned>>
  OBVIOUS
<1>2. brokerSubs' \subseteq started \X open'
  OBVIOUS
<1>3. ASSUME NEW m \in Messages
      PROVE  place'[m] \in Places \cup brokerSubs' /\ (place'[m] = New <=> place[m] = New)
  <2>1. CASE \E c \in Consumers : place[m] = <<c, k>>
    <3>1. place'[m] = Ready
      BY <2>1
    <3>2. place[m] # New /\ Ready # New
      BY <2>1, PlacesDiffer
    <3> QED
      BY <3>1, <3>2 DEF Places, Settlements
  <2>2. CASE ~\E c \in Consumers : place[m] = <<c, k>>
    <3>1. place'[m] = place[m]
      BY <2>2
    <3>2. CASE place[m] \in Places
      BY <3>1, <3>2
    <3>3. CASE place[m] \in brokerSubs
      <4>1. place[m] \in started \X open
        BY <3>3
      <4>2. place[m] = <<place[m][1], place[m][2]>> /\ place[m][1] \in Consumers
        BY <4>1
      <4>3. place[m][2] # k
        BY <2>2, <4>2
      <4> QED
        BY <3>1, <3>3, <4>2, <4>3
    <3> QED
      BY <3>1, <3>2, <3>3 DEF Places, Settlements
  <2> QED
    BY <2>1, <2>2
<1>4. place' \in [Messages -> Places \cup brokerSubs']
  BY <1>3
<1>5. Delivered'
  <2> SUFFICES ASSUME NEW i \in items, i.of[2] \in open'
      PROVE  place'[i.msg] = i.of /\ \A j \in items : j.of = i.of => j = i
    BY DEF Delivered
  <2>1. place[i.msg] = i.of /\ \A j \in items : j.of = i.of => j = i
    BY <1>1 DEF Delivered
  <2>2. i.msg \in Messages /\ i.of[2] # k /\ \A c : i.of = <<c, k>> => i.of[2] = k
    BY <1>1
  <2> QED
    BY <2>1, <2>2
<1>6. pub' \in Publishes' /\ \A m \in Published :
        (pub'[m].answer = "ack" => pub[m].answer = "ack") /\ pub'[m].step = pub[m].step
  BY DEF Publishes
<1>7. Answered'
  BY <1>1, <1>3, <1>6, RabbitAssumption DEF Answered
<1> QED
  BY <1>1, <1>2, <1>4, <1>5, <1>6, <1>7

\* A step that leaves the publishes and the channels alone, and un-stores nothing.
LEMMA AnsweredStays ==
    ASSUME TypeOK, Answered, Stays, open' \subseteq open, UNCHANGED pubVars
    PROVE  Answered'
<1>1. unread \subseteq Messages /\ Published \subseteq Messages
  BY RabbitAssumption DEF TypeOK
<1> QED
  BY <1>1 DEF Answered, Stays, pubVars

\* Settling a delivery that is the only one of its subscription disturbs no other.
LEMMA Settled ==
    ASSUME TypeOK, Delivered, NEW i \in items, NEW where \in Settlements, SettleAs(i, where)
    PROVE  /\ place' \in [Messages -> Places \cup brokerSubs]
           /\ \A j \in items \ {i} : j.of[2] \in open => place'[j.msg] = j.of
           /\ \A m \in Messages : place'[m] # place[m] => m = i.msg /\ place[m] = i.of
           /\ Stays
<1> USE PlacesDiffer DEF TypeOK, Places, Settlements, Stays
<1>1. CASE i.of[2] \notin open
  BY <1>1 DEF SettleAs, Delivered
<1>2. CASE i.of[2] \in open
  <2>1. i.msg \in Messages /\ place' = [place EXCEPT ![i.msg] = where] /\ place[i.msg] = i.of
    BY <1>2 DEF SettleAs, Delivered
  <2>2. ASSUME NEW j \in items \ {i}, j.of[2] \in open PROVE place'[j.msg] = j.of
    <3>1. place[j.msg] = j.of /\ j.msg \in Messages
      BY <2>2 DEF Delivered
    <3>2. j.msg # i.msg
      BY <1>2, <2>1, <3>1 DEF Delivered
    <3> QED
      BY <2>1, <3>1, <3>2
  <2> QED
    BY <2>1, <2>2
<1> QED
  BY <1>1, <1>2

-----------------------------------------------------------------------------
(* The steps, by who takes them. *)

NetworkStep ==
    \/ \E k \in Conns : Drop(k) \/ ChannelException(k)
    \/ \E m \in Messages, c \in Consumers, k \in Conns : Deliver(m, c, k)
    \/ BeginClose \/ EndClose

LEMMA NetworkSteps ==
    ASSUME RabbitInv, NetworkStep
    PROVE  RabbitInv'
<1> USE RabbitAssumption DEF RabbitInv, connVars, subVars, msgVars, pubVars
<1>1. ASSUME NEW k \in Conns, Drop(k) PROVE RabbitInv'
  <2>1. /\ open' = open \ {k}
        /\ brokerSubs' \subseteq brokerSubs /\ brokerSubs' \subseteq started \X open'
        /\ place' \in [Messages -> Places \cup brokerSubs'] /\ pub' \in Publishes'
        /\ Delivered' /\ Answered' /\ UNCHANGED <<confirming, unread, returned>>
    BY <1>1, EndedChannel DEF Drop
  <2>2. TypeOK'
    BY <1>1, <2>1 DEF Drop, TypeOK, Places, Settlements, Publishes
  <2>3. Connected'
    BY <1>1 DEF Drop, Connected, TypeOK
  <2>4. Resubscribed'
    BY <1>1, <2>1 DEF Drop, Resubscribed
  <2> QED
    BY <2>1, <2>2, <2>3, <2>4
<1>2. ASSUME NEW k \in Conns, ChannelException(k) PROVE RabbitInv'
  <2>1. /\ open' = open \ {k}
        /\ brokerSubs' \subseteq brokerSubs /\ brokerSubs' \subseteq started \X open'
        /\ place' \in [Messages -> Places \cup brokerSubs'] /\ pub' \in Publishes'
        /\ Delivered' /\ Answered' /\ UNCHANGED <<confirming, unread, returned>>
    BY <1>2, EndedChannel DEF ChannelException
  <2>2. TypeOK'
    BY <1>2, <2>1 DEF ChannelException, TypeOK, Places, Settlements, Publishes
  <2>3. Connected' /\ Resubscribed'
    BY <1>2, <2>1 DEF ChannelException, Connected, Resubscribed
  <2> QED
    BY <2>1, <2>2, <2>3
<1>3. ASSUME NEW m \in Messages, NEW c \in Consumers, NEW k \in Conns, Deliver(m, c, k) PROVE RabbitInv'
  <2> DEFINE new == [msg |-> m, of |-> <<c, k>>, stage |-> "wire"]
  <2>1. TypeOK'
    <3>1. c \in started /\ k \in 1..dialled
      BY <1>3 DEF Deliver, TypeOK
    <3>2. new \in [msg : Messages, of : started \X (1..dialled), stage : Stages]
      BY <3>1 DEF Stages
    <3> QED
      BY <1>3, <3>2 DEF Deliver, TypeOK
  <2>2. Connected' /\ Resubscribed' /\ Answered'
    <3>1. Stays
      BY <1>3, PlacesDiffer DEF Deliver, Stays, TypeOK
    <3>2. Answered'
      BY <1>3, <3>1, AnsweredStays DEF Deliver
    <3> QED
      BY <1>3, <3>2 DEF Deliver, Connected, Resubscribed
  <2>3. Delivered'
    <3>1. \A i \in items : i.of[2] \in open => i.of # <<c, k>> /\ i.msg # m
      <4> SUFFICES ASSUME NEW i \in items, i.of[2] \in open PROVE i.of # <<c, k>> /\ i.msg # m
        OBVIOUS
      <4>1. place[i.msg] = i.of /\ i.msg \in Messages
        BY DEF Delivered, TypeOK
      <4>2. i.of = <<i.of[1], i.of[2]>>
        BY DEF TypeOK
      <4> QED
        BY <1>3, <4>1, <4>2, PlacesDiffer DEF Deliver
    <3>2. place'[m] = <<c, k>> /\ \A n \in Messages \ {m} : place'[n] = place[n]
      BY <1>3 DEF Deliver, TypeOK
    <3>3. items' = items \cup {new} /\ open' = open /\ k \in open
      BY <1>3 DEF Deliver, TypeOK
    <3> SUFFICES ASSUME NEW i \in items', i.of[2] \in open
        PROVE  place'[i.msg] = i.of /\ \A j \in items' : j.of = i.of => j = i
      BY <3>3 DEF Delivered
    <3>4. CASE i = new
      BY <3>1, <3>2, <3>3, <3>4
    <3>5. CASE i \in items
      <4>1. place[i.msg] = i.of /\ i.msg \in Messages /\ \A j \in items : j.of = i.of => j = i
        BY <3>5 DEF Delivered, TypeOK
      <4> QED
        BY <3>1, <3>2, <3>3, <3>5, <4>1
    <3> QED
      BY <3>3, <3>4, <3>5
  <2> QED
    BY <2>1, <2>2, <2>3
<1>4. CASE BeginClose
  BY <1>4 DEF BeginClose, TypeOK, Connected, Resubscribed, Delivered, Answered
<1>5. CASE EndClose
  <2>1. /\ open' = open \ {conn}
        /\ brokerSubs' \subseteq brokerSubs /\ brokerSubs' \subseteq started \X open'
        /\ place' \in [Messages -> Places \cup brokerSubs'] /\ pub' \in Publishes'
        /\ Delivered' /\ Answered' /\ UNCHANGED <<confirming, unread, returned>>
    BY <1>5, EndedChannel DEF EndClose
  <2>2. TypeOK'
    BY <1>5, <2>1 DEF EndClose, TypeOK, Places, Settlements, Publishes
  <2>3. Connected' /\ Resubscribed'
    BY <1>5, <2>1 DEF EndClose, Connected, Resubscribed
  <2> QED
    BY <2>1, <2>2, <2>3
<1> QED
  BY <1>1, <1>2, <1>3, <1>4, <1>5 DEF NetworkStep

LEMMA WatchSteps ==
    ASSUME RabbitInv, (\E k \in Conns : WatchStep(k)) \/ ReconnectStep
    PROVE  RabbitInv'
<1> USE RabbitAssumption DEF RabbitInv, connVars, subVars, msgVars, pubVars
<1>1. ASSUME NEW k \in Conns, WatchStep(k) PROVE RabbitInv'
  <2>1. TypeOK'
    <3>1. CASE WatcherStops(k)
      BY <1>1, <3>1 DEF WatcherStops, TypeOK
    <3>2. CASE WatcherReconnects(k)
      <4>1. recon' = [step |-> "dialing", conn |-> 0, todo |-> {}]
        BY <3>2 DEF WatcherReconnects, NoReconnect
      <4>2. recon' \in [step : {"none", "dialing", "dialled", "resubscribing"},
                        conn : 0..dialled, todo : SUBSET Consumers]
        BY <4>1 DEF TypeOK, Conns
      <4> QED
        BY <3>2, <4>1, <4>2 DEF WatcherReconnects, TypeOK
    <3> QED
      BY <1>1, <3>1, <3>2 DEF WatchStep
  <2>2. Connected'
    BY <1>1 DEF WatchStep, WatcherStops, WatcherReconnects, NoReconnect, Connected, TypeOK
  <2>3. Resubscribed' /\ Delivered' /\ Answered'
    BY <1>1 DEF WatchStep, WatcherStops, WatcherReconnects, NoReconnect, Resubscribed, Delivered,
       Answered
  <2> QED
    BY <2>1, <2>2, <2>3
<1>2. CASE Dial
  <2>1. dialled + 1 \in Conns /\ dialled \in Nat
    BY <1>2 DEF Dial, TypeOK, Conns
  <2>2. recon' = [step |-> "dialled", conn |-> dialled + 1, todo |-> recon.todo]
    BY <1>2 DEF Dial, TypeOK
  <2>3. TypeOK'
    <3>1. /\ conn' \in 1..dialled' /\ dialled' \in Conns /\ up' \subseteq 1..dialled'
          /\ open' \subseteq up' /\ recon'.conn \in 0..dialled'
      BY <1>2, <2>1, <2>2 DEF Dial, TypeOK, Conns
    <3>2. 1..dialled \subseteq 1..dialled' /\ 0..dialled \subseteq 0..dialled' /\ open \subseteq open'
      BY <1>2, <2>1 DEF Dial
    <3>3. recon' \in [step : {"none", "dialing", "dialled", "resubscribing"},
                      conn : 0..dialled', todo : SUBSET Consumers]
      BY <2>2, <3>1 DEF TypeOK
    <3>4. /\ serving' \subseteq started' \X (1..dialled') /\ brokerSubs' \subseteq started' \X open'
          /\ items' \subseteq [msg : Messages, of : started' \X (1..dialled'), stage : Stages]
      BY <1>2, <3>2 DEF Dial, TypeOK
    <3>5. pub' \in [Published -> [step : {"idle", "read", "sent", "ok", "error"},
                                  on : 0..dialled', answer : {"none", "ack", "nack"}]]
          /\ confirming' \subseteq 1..dialled'
      BY <1>2, <2>1, <3>2 DEF Dial, TypeOK
    <3> QED
      BY <1>2, <3>1, <3>3, <3>4, <3>5 DEF Dial, TypeOK
  <2>4. Connected'
    BY <1>2, <2>1, <2>2 DEF Dial, Connected, TypeOK
  <2>5. Resubscribed'
    <3>1. \A c \in Consumers : <<c, dialled + 1>> \notin brokerSubs
      BY <2>1 DEF TypeOK
    <3> QED
      BY <1>2, <2>1, <2>2, <3>1 DEF Dial, Resubscribed, TypeOK
  <2>6. Delivered'
    <3>1. \A i \in items : i.of[2] # dialled + 1
      BY <2>1 DEF TypeOK
    <3> QED
      BY <1>2, <3>1 DEF Dial, Delivered
  <2>7. Answered'
    BY <1>2 DEF Dial, Answered
  <2> QED
    BY <2>3, <2>4, <2>5, <2>6, <2>7
<1>3. CASE GiveUpDialing \/ ReconnectDone
  <2>1. recon' = NoReconnect /\ UNCHANGED <<conn, dialled, up, open, watcher, closing, subVars, msgVars, pubVars>>
    BY <1>3 DEF GiveUpDialing, ReconnectDone
  <2>2. recon' \in [step : {"none"}, conn : {0}, todo : {{}}] /\ 0 \in 0..dialled
    BY <2>1 DEF NoReconnect, TypeOK, Conns
  <2>3. TypeOK'
    BY <2>1, <2>2 DEF TypeOK
  <2>4. Connected'
    BY <1>3, <2>1, <2>2 DEF Connected, GiveUpDialing, ReconnectDone
  <2>5. Resubscribed' /\ Delivered' /\ Answered'
    BY <2>1, <2>2 DEF Resubscribed, Delivered, Answered
  <2> QED
    BY <2>3, <2>4, <2>5
<1>4. CASE Install
  <2>1. recon' = [step |-> "resubscribing", conn |-> recon.conn, todo |-> subs \ done]
    BY <1>4 DEF Install, TypeOK
  <2>2. recon.conn \in 1..dialled
    BY <1>4 DEF Install, Resubscribed
  <2>3. TypeOK'
    BY <1>4, <2>1, <2>2 DEF Install, TypeOK
  <2>4. Connected'
    BY <1>4, <2>1, <2>2 DEF Install, Connected, TypeOK, Conns
  <2>5. Resubscribed' /\ Delivered' /\ Answered'
    BY <1>4, <2>1, <2>2 DEF Install, Resubscribed, Delivered, Answered, TypeOK
  <2> QED
    BY <2>3, <2>4, <2>5
<1>5. CASE CloseReplacement
  <2>1. /\ open' = open \ {recon.conn}
        /\ brokerSubs' \subseteq brokerSubs /\ brokerSubs' \subseteq started \X open'
        /\ place' \in [Messages -> Places \cup brokerSubs'] /\ pub' \in Publishes'
        /\ Delivered' /\ Answered' /\ UNCHANGED <<confirming, unread, returned>>
    BY <1>5, EndedChannel DEF CloseReplacement
  <2>2. TypeOK'
    <3>1. recon' \in [step : {"none"}, conn : {0}, todo : {{}}] /\ 0 \in 0..dialled
      BY <1>5 DEF CloseReplacement, NoReconnect, TypeOK, Conns
    <3> QED
      BY <1>5, <2>1, <3>1 DEF CloseReplacement, TypeOK, Places, Settlements, Publishes
  <2>3. Connected' /\ Resubscribed'
    BY <1>5, <2>1 DEF CloseReplacement, NoReconnect, Connected, Resubscribed
  <2> QED
    BY <2>1, <2>2, <2>3
<1>6. ASSUME NEW c \in Consumers, Resubscribe(c) PROVE RabbitInv'
  <2>1. recon' = [step |-> "resubscribing", conn |-> recon.conn, todo |-> recon.todo \ {c}]
    BY <1>6 DEF Resubscribe, TypeOK
  <2>2. TypeOK'
    <3>1. recon.conn \in 1..dialled /\ c \in started
      BY <1>6 DEF Resubscribe, Resubscribed
    <3>2. recon' \in [step : {"none", "dialing", "dialled", "resubscribing"},
                      conn : 0..dialled, todo : SUBSET Consumers]
      BY <2>1 DEF TypeOK
    <3>3. brokerSubs \subseteq brokerSubs' /\ brokerSubs' \subseteq started \X open
          /\ serving' \subseteq started \X (1..dialled)
      BY <1>6, <3>1 DEF Resubscribe, Subscribe, TypeOK
    <3>4. place' \in [Messages -> {New, Ready, Acked, Dead} \cup brokerSubs']
      BY <1>6, <3>3 DEF Resubscribe, TypeOK
    <3> QED
      BY <1>6, <3>2, <3>3, <3>4 DEF Resubscribe, TypeOK
  <2>3. Connected' /\ Delivered' /\ Answered'
    BY <1>6, <2>1 DEF Resubscribe, Connected, Delivered, Answered
  <2>4. Resubscribed'
    BY <1>6, <2>1 DEF Resubscribe, Subscribe, Resubscribed
  <2> QED
    BY <2>2, <2>3, <2>4
<1> QED
  BY <1>1, <1>2, <1>3, <1>4, <1>5, <1>6 DEF ReconnectStep

ConsumerStep ==
    \/ \E c \in Consumers : NewConsumer(c) \/ SignalStop(c) \/ ListenerStops(c)
    \/ \E c \in Consumers, k \in Conns : ProcessStops(c, k) \/ ProcessEnds(c, k)

LEMMA ConsumerSteps ==
    ASSUME RabbitInv, ConsumerStep
    PROVE  RabbitInv'
<1> USE DEF RabbitInv, connVars, subVars, msgVars, pubVars
<1>1. ASSUME NEW c \in Consumers, NewConsumer(c) PROVE RabbitInv'
  <2>1. brokerSubs \subseteq brokerSubs' /\ brokerSubs' \subseteq started' \X open
        /\ serving' \subseteq started' \X (1..dialled)
    BY <1>1 DEF NewConsumer, Subscribe, TypeOK
  <2>2. place' \in [Messages -> {New, Ready, Acked, Dead} \cup brokerSubs']
    BY <1>1, <2>1 DEF NewConsumer, TypeOK
  <2>3. TypeOK'
    BY <1>1, <2>1, <2>2 DEF NewConsumer, TypeOK
  <2>4. Connected' /\ Delivered' /\ Answered'
    BY <1>1 DEF NewConsumer, Connected, Delivered, Answered
  <2>5. Resubscribed'
    <3>1. recon.step = "dialled" => recon.conn # conn
      BY <1>1 DEF NewConsumer, Connected, Resubscribed, TypeOK
    <3> QED
      BY <1>1, <3>1 DEF NewConsumer, Subscribe, Resubscribed, MuFree
  <2> QED
    BY <2>3, <2>4, <2>5
<1>2. ASSUME NEW c \in Consumers, SignalStop(c) \/ ListenerStops(c) PROVE RabbitInv'
  BY <1>2 DEF SignalStop, ListenerStops, TypeOK, Connected, Resubscribed, Delivered, Answered
<1>3. ASSUME NEW c \in Consumers, NEW k \in Conns, ProcessStops(c, k) \/ ProcessEnds(c, k)
      PROVE  RabbitInv'
  <2>1. TypeOK'
    BY <1>3 DEF ProcessStops, ProcessEnds, TypeOK
  <2>2. Connected' /\ Resubscribed' /\ Delivered' /\ Answered'
    BY <1>3 DEF ProcessStops, ProcessEnds, Connected, Resubscribed, Delivered, Answered
  <2> QED
    BY <2>1, <2>2
<1> QED
  BY <1>1, <1>2, <1>3 DEF ConsumerStep

LEMMA ItemSteps ==
    ASSUME RabbitInv, NEW i \in items, ItemStep(i)
    PROVE  RabbitInv'
<1> USE DEF RabbitInv, connVars, subVars, msgVars, pubVars
<1>1. /\ UNCHANGED <<connVars, subVars, brokerSubs, pubVars>>
      /\ \/ items' = items \ {i} /\ \E where \in Settlements : SettleAs(i, where)
         \/ \E s \in Stages : items' = (items \ {i}) \cup {[i EXCEPT !.stage = s]} /\ place' = place
  BY DEF ItemStep, ProcessDelivery, OfferToListener, HandBack, ListenerTakes, HandlerReturns,
     ListenerSettles, Settlements, Stages, Outcomes
<1>2. handled' \subseteq Messages
  BY DEF ItemStep, ProcessDelivery, OfferToListener, HandBack, ListenerTakes, HandlerReturns,
     ListenerSettles, TypeOK
<1>3. Connected' /\ Resubscribed'
  BY <1>1 DEF Connected, Resubscribed
<1>4. ASSUME NEW where \in Settlements, items' = items \ {i}, SettleAs(i, where)
      PROVE  TypeOK' /\ Delivered' /\ Answered'
  <2>1. /\ place' \in [Messages -> Places \cup brokerSubs]
        /\ \A j \in items \ {i} : j.of[2] \in open => place'[j.msg] = j.of
        /\ Stays
    BY <1>4, Settled
  <2>2. TypeOK'
    BY <1>1, <1>2, <1>4, <2>1 DEF TypeOK, Places, Settlements
  <2>3. Delivered'
    BY <1>1, <1>4, <2>1 DEF Delivered
  <2>4. Answered'
    BY <1>1, <2>1, AnsweredStays
  <2> QED
    BY <2>2, <2>3, <2>4
<1>5. ASSUME NEW s \in Stages, items' = (items \ {i}) \cup {[i EXCEPT !.stage = s]}, place' = place
      PROVE  TypeOK' /\ Delivered' /\ Answered'
  <2> DEFINE next == [i EXCEPT !.stage = s]
  <2>1. /\ next \in [msg : Messages, of : started \X (1..dialled), stage : Stages]
        /\ next.of = i.of /\ next.msg = i.msg
    BY DEF TypeOK
  <2>2. TypeOK'
    BY <1>1, <1>2, <1>5, <2>1 DEF TypeOK
  <2>3. Delivered'
    BY <1>1, <1>5, <2>1 DEF Delivered
  <2>4. Answered'
    BY <1>1, <1>5, AnsweredStays DEF Stays
  <2> QED
    BY <2>2, <2>3, <2>4
<1> QED
  BY <1>1, <1>3, <1>4, <1>5

PublishStep(m) == ReadChannel(m) \/ Send(m) \/ BrokerReads(m) \/ Await(m) \/ PublishTimesOut(m)

LEMMA PublishSteps ==
    ASSUME RabbitInv, NEW m \in Published, PublishStep(m)
    PROVE  RabbitInv'
<1> USE RabbitAssumption DEF RabbitInv, connVars, subVars, msgVars, pubVars
<1>1. UNCHANGED <<connVars, subVars, brokerSubs, items, handled, confirming>>
  BY DEF PublishStep, ReadChannel, Send, BrokerReads, Await, PublishTimesOut
<1>2. pub' \in Publishes /\ unread' \subseteq Published /\ returned \subseteq returned' /\ returned' \subseteq Published
  <2>1. conn \in 0..dialled
    BY DEF TypeOK, Conns
  <2> QED
    BY <2>1 DEF PublishStep, ReadChannel, Send, BrokerReads, Answers, Await, PublishTimesOut, TypeOK, Publishes
<1>3. place' = place \/ (BrokerReads(m) /\ place' = [place EXCEPT ![m] = Ready])
  BY DEF PublishStep, ReadChannel, Send, BrokerReads, Await, PublishTimesOut
<1>4. TypeOK'
  <2>1. place' \in [Messages -> {New, Ready, Acked, Dead} \cup brokerSubs']
    BY <1>1, <1>3 DEF TypeOK
  <2> QED
    BY <1>1, <1>2, <2>1 DEF TypeOK, Publishes
<1>5. Connected' /\ Resubscribed'
  BY <1>1 DEF Connected, Resubscribed
<1>6. Delivered'
  <2>1. ASSUME NEW i \in items, i.of[2] \in open PROVE place'[i.msg] = i.of
    <3>1. i.msg \in Messages /\ place[i.msg] = <<i.of[1], i.of[2]>>
      BY <2>1 DEF Delivered, TypeOK
    <3>2. BrokerReads(m) => i.msg # m
      BY <3>1, PlacesDiffer DEF BrokerReads, Answered
    <3> QED
      BY <1>3, <2>1, <3>1, <3>2 DEF Delivered, TypeOK
  <2> QED
    BY <1>1, <2>1 DEF Delivered
<1>7. Answered'
  <2>1. CASE ReadChannel(m)
    BY <2>1 DEF ReadChannel, Answered, TypeOK
  <2>2. CASE Send(m)
    <3>1. pub[m].on \in open => pub'[m].step = "sent"
      BY <2>2 DEF Send, Answered, TypeOK
    <3>2. pub'[m].step \in {"sent", "error"} /\ pub'[m].answer = pub[m].answer
      BY <2>2, <3>1 DEF Send, TypeOK
    <3>3. \A n \in Published : n # m => pub'[n] = pub[n]
      BY <2>2 DEF Send, TypeOK
    <3>4. unread' \subseteq unread \cup {m} /\ place[m] = New /\ UNCHANGED <<place, returned, open, confirming>>
      BY <2>2 DEF Send, Answered
    <3> QED
      BY <3>2, <3>3, <3>4 DEF Answered
  <2>3. CASE BrokerReads(m)
    <3>1. unread' = unread \ {m} /\ m \in unread /\ UNCHANGED <<open, confirming>>
      BY <2>3 DEF BrokerReads
    <3>2. \A n \in Published : pub'[n].step = pub[n].step /\ (n # m => pub'[n] = pub[n])
      BY <2>3 DEF BrokerReads, Answers, TypeOK
    <3>3. \A n \in Published : n # m => place'[n] = place[n] /\ (n \in returned' <=> n \in returned)
      BY <2>3 DEF BrokerReads, TypeOK
    <3>4. /\ place'[m] # New \/ m \in returned' \/ pub'[m].answer = "nack" \/ pub'[m] = pub[m]
          /\ place'[m] # New \/ place'[m] = place[m]
      BY <2>3, PlacesDiffer DEF BrokerReads, Answers, TypeOK
    <3>5. pub[m].step \notin {"idle", "read"}
      BY <3>1 DEF Answered
    <3> QED
      BY <1>2, <3>1, <3>2, <3>3, <3>4, <3>5 DEF Answered
  <2>4. CASE Await(m) \/ PublishTimesOut(m)
    BY <2>4 DEF Await, PublishTimesOut, Answered, TypeOK
  <2> QED
    BY <2>1, <2>2, <2>3, <2>4 DEF PublishStep
<1> QED
  BY <1>4, <1>5, <1>6, <1>7

LEMMA RabbitInvStep == RabbitInv /\ [Next]_vars => RabbitInv'
<1> SUFFICES ASSUME RabbitInv, [Next]_vars PROVE RabbitInv'
  OBVIOUS
<1>1. CASE UNCHANGED vars
  BY <1>1 DEF vars, connVars, subVars, msgVars, pubVars, RabbitInv, TypeOK, Connected, Resubscribed,
     Delivered, Answered
<1>2. CASE Next
  BY <1>2, NetworkSteps, WatchSteps, ConsumerSteps, ItemSteps, PublishSteps
  DEF Next, NetworkStep, ConsumerStep, PublishStep
<1> QED
  BY <1>1, <1>2

\* A consumer leaves the list of a reconnect not yet subscribed on its replacement.
LEMMA ResubscribesOnce ==
    ASSUME RabbitInv, [Next]_vars, NEW c \in recon.todo, c \notin recon'.todo
    PROVE  <<c, recon.conn>> \notin brokerSubs
  BY DEF RabbitInv, Resubscribed

\* What settles a message is the delivery the broker has down for it.
LEMMA SettlesItsOwn ==
    ASSUME RabbitInv, [Next]_vars, NEW m \in Messages,
           place[m] \notin {Acked, Dead}, place'[m] \in {Acked, Dead}
    PROVE  \E i \in items : /\ i.msg = m /\ i.of = place[m]
                            /\ \/ i.stage = IF place'[m] = Acked THEN "succeeded" ELSE "failed"
                               \/ place'[m] = Dead /\ m \in Malformed
<1> USE DEF RabbitInv, connVars, subVars, msgVars, pubVars
<1>1. CASE \E i \in items : ItemStep(i)
  <2>1. PICK i \in items : ItemStep(i)
    BY <1>1
  <2>2. PICK where \in Settlements :
           /\ SettleAs(i, where)
           /\ \/ where = Acked /\ i.stage = "succeeded"
              \/ where = Dead /\ (i.stage = "failed" \/ i.msg \in Malformed)
              \/ where = Ready
    <3>1. CASE ProcessDelivery(i)
      BY <1>1, <2>1, <3>1 DEF ProcessDelivery, Settlements
    <3>2. CASE HandBack(i)
      BY <3>2 DEF HandBack, Settlements
    <3>3. CASE ListenerSettles(i)
      BY <3>3 DEF ListenerSettles, Outcomes, Settlements
    <3>4. CASE OfferToListener(i) \/ ListenerTakes(i) \/ HandlerReturns(i)
      BY <3>4 DEF OfferToListener, ListenerTakes, HandlerReturns
    <3> QED
      BY <2>1, <3>1, <3>2, <3>3, <3>4 DEF ItemStep
  <2>3. m = i.msg /\ place[m] = i.of
    BY <2>2, Settled
  <2>4. place'[m] = where
    BY <2>2, <2>3 DEF SettleAs, TypeOK
  <2> QED
    BY <2>2, <2>3, <2>4, PlacesDiffer
<1>2. CASE \E k : ChannelEnds(k)
  BY <1>2, PlacesDiffer DEF ChannelEnds
<1>3. CASE \E n \in Messages, c \in Consumers, k \in Conns : Deliver(n, c, k)
  BY <1>3, PlacesDiffer DEF Deliver, TypeOK
<1>4. CASE \E n \in Published : PublishStep(n)
  <2>1. place' = place \/ \E n \in Published : place' = [place EXCEPT ![n] = Ready]
    BY <1>4 DEF PublishStep, ReadChannel, Send, BrokerReads, Await, PublishTimesOut
  <2> QED
    BY <2>1, PlacesDiffer DEF TypeOK
<1>5. CASE UNCHANGED place
  BY <1>5
<1> QED
  BY <1>1, <1>2, <1>3, <1>4, <1>5 DEF Next, vars, Drop, ChannelException, WatchStep, WatcherStops,
     WatcherReconnects, ReconnectStep, Dial, GiveUpDialing, Install, CloseReplacement, Resubscribe,
     ReconnectDone, NewConsumer, SignalStop, ListenerStops, ProcessStops, ProcessEnds, BeginClose,
     EndClose, PublishStep

-----------------------------------------------------------------------------

\* The connections, the subscriptions, the deliveries and the publishes keep their types,
\* with any number of connections and any faults (rabbitmq.go).
THEOREM RabbitTypes == Spec => []TypeOK
<1>1. RabbitInv => TypeOK
  BY DEF RabbitInv
<1> QED
  BY <1>1, RabbitInvInit, RabbitInvStep, PTL DEF Spec

\* However the close races with a reconnect, no connection is left up when both are over
\* (rabbitmq.go, connect, reconnect and close).
THEOREM CloseLeavesNone == Spec => []CloseLeavesNoConnection
<1>1. RabbitInv => CloseLeavesNoConnection
  BY DEF RabbitInv, Connected, CloseLeavesNoConnection
<1> QED
  BY <1>1, RabbitInvInit, RabbitInvStep, PTL DEF Spec

\* A reconnect subscribes on its replacement only consumers that are not subscribed there
\* yet (rabbitmq.go, consumer and reconnect, which hold mu).
THEOREM NoSecondSubscriptionEver == Spec => NoSecondSubscription
<1>1. RabbitInv /\ [Next]_vars =>
        [\A c \in recon.todo : c \notin recon'.todo => <<c, recon.conn>> \notin brokerSubs]_vars
  BY ResubscribesOnce
<1> QED
  BY <1>1, RabbitInvInit, RabbitInvStep, PTL DEF Spec, NoSecondSubscription

\* A message is acknowledged only by the listener whose handler succeeded on the delivery the
\* broker has down for it, and dead only after a failure on that delivery or as malformed,
\* whatever channels were lost and redelivered meanwhile (rabbitmq.go:133-143, 458-500).
THEOREM SettledByItsHandlerAlways == Spec => SettledByItsHandler
<1>1. RabbitInv /\ [Next]_vars =>
        [\A m \in Messages :
           place[m] \notin {Acked, Dead} /\ place'[m] \in {Acked, Dead} =>
             \E i \in items : /\ i.msg = m /\ i.of = place[m]
                              /\ \/ i.stage = IF place'[m] = Acked THEN "succeeded" ELSE "failed"
                                 \/ place'[m] = Dead /\ m \in Malformed]_vars
  BY SettlesItsOwn
<1> QED
  BY <1>1, RabbitInvInit, RabbitInvStep, PTL DEF Spec, SettledByItsHandler

\* A publish that returned nil did not vanish, for any number of publishes, channels lost,
\* reconnects, timeouts and unroutable messages: the broker has its message, or handed it to
\* the return listener (rabbitmq.go:340-390).
THEOREM ConfirmedNotLostAlways == Spec => []ConfirmedNotLost
<1>1. RabbitInv => ConfirmedNotLost
  BY DEF RabbitInv, Answered, ConfirmedNotLost
<1> QED
  BY <1>1, RabbitInvInit, RabbitInvStep, PTL DEF Spec

-----------------------------------------------------------------------------
(* The promise of a queue, step by step. *)

\* Only what decodes is offered to a listener, and a listener acknowledges what its handler
\* processed.
Deserved ==
    \A i \in items : /\ i.msg \in Messages /\ place[i.msg] # New
                     /\ i.stage # "wire" => i.msg \notin Malformed
                     /\ i.stage = "succeeded" => i.msg \in handled

\* Where no step moves a message back to not being published.
LEMMA NewIsLeft ==
    ASSUME RabbitInv, [Next]_vars
    PROVE  \A m \in Messages : place'[m] = New => place[m] = New
<1> USE DEF RabbitInv, connVars, subVars, msgVars, pubVars
<1>1. CASE \E i \in items : ItemStep(i)
  <2>1. PICK i \in items : ItemStep(i)
    BY <1>1
  <2>2. place' = place \/ \E where \in Settlements : SettleAs(i, where)
    BY <2>1 DEF ItemStep, ProcessDelivery, OfferToListener, HandBack, ListenerTakes, HandlerReturns,
       ListenerSettles, Settlements, Outcomes
  <2> QED
    BY <2>2, Settled DEF Stays
<1>2. CASE \E k : ChannelEnds(k)
  BY <1>2, PlacesDiffer DEF ChannelEnds
<1>3. CASE \E n \in Messages, c \in Consumers, k \in Conns : Deliver(n, c, k)
  BY <1>3, PlacesDiffer DEF Deliver, TypeOK
<1>4. CASE \E n \in Published : PublishStep(n)
  <2>1. place' = place \/ \E n \in Published : place' = [place EXCEPT ![n] = Ready]
    BY <1>4 DEF PublishStep, ReadChannel, Send, BrokerReads, Await, PublishTimesOut
  <2> QED
    BY <2>1, PlacesDiffer DEF TypeOK
<1>5. CASE UNCHANGED place
  BY <1>5
<1> QED
  BY <1>1, <1>2, <1>3, <1>4, <1>5 DEF Next, vars, Drop, ChannelException, WatchStep, WatcherStops,
     WatcherReconnects, ReconnectStep, Dial, GiveUpDialing, Install, CloseReplacement, Resubscribe,
     ReconnectDone, NewConsumer, SignalStop, ListenerStops, ProcessStops, ProcessEnds, BeginClose,
     EndClose, PublishStep

LEMMA DeservedStep ==
    ASSUME RabbitInv, Deserved, [Next]_vars
    PROVE  Deserved'
<1> USE DEF msgVars
<1>1. CASE \E i \in items : ItemStep(i)
  <2>1. PICK i \in items : ItemStep(i)
    BY <1>1
  <2>2. \/ items' \subseteq items
        \/ \E s \in Stages : /\ items' = (items \ {i}) \cup {[i EXCEPT !.stage = s]}
                             /\ i.stage # "wire" \/ i.msg \notin Malformed
                             /\ s = "succeeded" => i.msg \in handled'
    BY <2>1 DEF ItemStep, ProcessDelivery, OfferToListener, HandBack, ListenerTakes, HandlerReturns,
       ListenerSettles, Stages, Outcomes
  <2>3. handled \subseteq handled'
    BY <2>1 DEF ItemStep, ProcessDelivery, OfferToListener, HandBack, ListenerTakes, HandlerReturns,
       ListenerSettles
  <2>4. CASE items' \subseteq items
    BY <2>3, <2>4, NewIsLeft DEF Deserved
  <2>5. CASE ~(items' \subseteq items)
    <3>1. PICK s \in Stages : /\ items' = (items \ {i}) \cup {[i EXCEPT !.stage = s]}
                              /\ i.stage # "wire" \/ i.msg \notin Malformed
                              /\ s = "succeeded" => i.msg \in handled'
      BY <2>2, <2>5
    <3>2. i.msg \notin Malformed /\ [i EXCEPT !.stage = s].msg = i.msg /\ [i EXCEPT !.stage = s].stage = s
      BY <3>1 DEF Deserved, RabbitInv, TypeOK
    <3> QED
      BY <2>3, <3>1, <3>2, NewIsLeft DEF Deserved
  <2> QED
    BY <2>4, <2>5
<1>2. CASE \E n \in Messages, c \in Consumers, k \in Conns : Deliver(n, c, k)
  <2>1. PICK n \in Messages, c \in Consumers, k \in Conns : Deliver(n, c, k)
    BY <1>2
  <2> DEFINE new == [msg |-> n, of |-> <<c, k>>, stage |-> "wire"]
  <2>2. items' = items \cup {new} /\ handled' = handled /\ place[n] = Ready
    BY <2>1 DEF Deliver
  <2>3. new.msg = n /\ new.stage = "wire"
    OBVIOUS
  <2> HIDE DEF new
  <2> QED
    BY <2>2, <2>3, NewIsLeft, PlacesDiffer DEF Deserved
<1>3. CASE items' \subseteq items /\ handled' = handled
  BY <1>3, NewIsLeft DEF Deserved
<1> QED
  BY <1>1, <1>2, <1>3 DEF Next, vars, Drop, ChannelException, WatchStep, WatcherStops,
     WatcherReconnects, ReconnectStep, Dial, GiveUpDialing, Install, CloseReplacement, Resubscribe,
     ReconnectDone, NewConsumer, SignalStop, ListenerStops, ProcessStops, ProcessEnds, ReadChannel,
     Send, BrokerReads, Await, PublishTimesOut, BeginClose, EndClose

Shown == [m \in Messages |-> Held(m)]

LEMMA HeldWords ==
    ASSUME NEW m
    PROVE  /\ place[m] = New => Held(m) = "new"
           /\ place[m] = Ready => Held(m) = "queue"
           /\ place[m] = Acked => Held(m) = "deleted"
           /\ place[m] = Dead => Held(m) = "dead"
           /\ \A c, k : place[m] = <<c, k>> => Held(m) = "flight"
  BY PlacesDiffer DEF Held

LEMMA HeldWordsNext ==
    ASSUME NEW m
    PROVE  /\ place'[m] = New => Held(m)' = "new"
           /\ place'[m] = Ready => Held(m)' = "queue"
           /\ place'[m] = Acked => Held(m)' = "deleted"
           /\ place'[m] = Dead => Held(m)' = "dead"
           /\ \A c, k : place'[m] = <<c, k>> => Held(m)' = "flight"
  BY PlacesDiffer DEF Held

\* One message changes its place.
LEMMA OneMoves ==
    ASSUME TypeOK, NEW m \in Messages, NEW to, place' = [place EXCEPT ![m] = to]
    PROVE  Shown' = [Shown EXCEPT ![m] = Held(m)'] /\ place'[m] = to
<1>1. place'[m] = to /\ \A x \in Messages : x # m => place'[x] = place[x]
  BY DEF TypeOK
<1>2. \A x \in Messages : x # m => Held(x)' = Held(x)
  BY <1>1 DEF Held
<1> QED
  BY <1>1, <1>2 DEF Shown

\* A message in flight is given back, deleted once it was handled, or dead.
LEMMA SettleIsPromised ==
    ASSUME TypeOK, NEW m \in Messages, NEW c, NEW k, place[m] = <<c, k>>, NEW where \in Settlements,
           place' = [place EXCEPT ![m] = where], handled' = handled, where = Acked => m \in handled
    PROVE  Promise!Next
<1>1. Shown[m] = "flight" /\ place'[m] = where
  <2>1. Held(m) = "flight"
    BY HeldWords
  <2>2. place'[m] = where
    BY OneMoves
  <2> QED
    BY <2>1, <2>2 DEF Shown
<1>2. Shown' = [Shown EXCEPT ![m] = Held(m)']
  BY OneMoves
<1>3. CASE where = Ready
  <2>1. Held(m)' = "queue"
    BY <1>1, <1>3, HeldWordsNext
  <2>2. Shown' = [x \in Messages |-> IF x \in {m} THEN "queue" ELSE Shown[x]]
    BY <1>2, <2>1 DEF Shown
  <2>3. Promise!GiveBack({m})
    BY <1>1, <2>1, <2>2 DEF Promise!GiveBack, Shown
  <2> QED
    BY <2>3 DEF Promise!Next
<1>4. CASE where = Acked
  <2>1. Held(m)' = "deleted"
    BY <1>1, <1>4, HeldWordsNext
  <2>2. Promise!Delete(m)
    BY <1>1, <1>2, <1>4, <2>1 DEF Promise!Delete, Shown
  <2> QED
    BY <2>2 DEF Promise!Next
<1>5. CASE where = Dead
  <2>1. Held(m)' = "dead"
    BY <1>1, <1>5, HeldWordsNext
  <2>2. Promise!Bury(m)
    BY <1>1, <1>2, <2>1 DEF Promise!Bury, Promise!Move, Shown
  <2> QED
    BY <2>2 DEF Promise!Next
<1> QED
  BY <1>3, <1>4, <1>5 DEF Settlements

LEMMA ChannelEndIsPromised ==
    ASSUME TypeOK, NEW k, ChannelEnds(k), handled' = handled
    PROVE  Promise!Next
<1> DEFINE lost == {m \in Messages : \E c \in Consumers : place[m] = <<c, k>>}
<1>1. \A m \in Messages : place'[m] = IF m \in lost THEN Ready ELSE place[m]
  BY DEF ChannelEnds
<1>2. \A m \in lost : Held(m) = "flight"
  BY HeldWords
<1>3. \A m \in Messages : Held(m)' = IF m \in lost THEN "queue" ELSE Held(m)
  BY <1>1, HeldWordsNext DEF Held
<1>4. Promise!GiveBack(lost)
  <2> HIDE DEF lost
  <2>1. lost \subseteq Messages
    BY DEF lost
  <2>2. \A m \in lost : Shown[m] = "flight"
    BY <1>2, <2>1 DEF Shown
  <2>3. Shown' = [m \in Messages |-> IF m \in lost THEN "queue" ELSE Shown[m]]
    BY <1>3 DEF Shown
  <2> QED
    BY <2>2, <2>3 DEF Promise!GiveBack, Shown
<1> QED
  BY <1>4 DEF Promise!Next

LEMMA DeliverIsPromised ==
    ASSUME TypeOK, NEW m \in Messages, NEW c \in Consumers, NEW k \in Conns, Deliver(m, c, k)
    PROVE  Promise!Next
<1>1. Shown' = [Shown EXCEPT ![m] = Held(m)'] /\ place'[m] = <<c, k>> /\ handled' = handled
  <2> DEFINE s == <<c, k>>
  <2>1. place' = [place EXCEPT ![m] = s] /\ handled' = handled
    BY DEF Deliver
  <2> HIDE DEF s
  <2>2. Shown' = [Shown EXCEPT ![m] = Held(m)'] /\ place'[m] = s
    BY <2>1, OneMoves
  <2> QED
    BY <2>1, <2>2 DEF s
<1>2. Shown[m] = "queue" /\ Held(m)' = "flight"
  BY <1>1, HeldWords, HeldWordsNext DEF Deliver, Shown
<1>3. Promise!Deliver(m)
  BY <1>1, <1>2 DEF Promise!Deliver, Promise!Move, Shown
<1> QED
  BY <1>3 DEF Promise!Next

\* The broker stores a publish.
LEMMA StoreIsPromised ==
    ASSUME RabbitInv, NEW m \in Published, PublishStep(m)
    PROVE  Promise!Next \/ UNCHANGED <<place, handled>>
<1> USE RabbitAssumption DEF RabbitInv, msgVars
<1>1. handled' = handled /\ (place' = place \/ (m \in unread /\ place' = [place EXCEPT ![m] = Ready]))
  BY DEF PublishStep, ReadChannel, Send, BrokerReads, Await, PublishTimesOut
<1>2. ASSUME m \in unread, place' = [place EXCEPT ![m] = Ready] PROVE Promise!Next
  <2>1. Shown' = [Shown EXCEPT ![m] = Held(m)'] /\ place'[m] = Ready
    BY <1>2, OneMoves
  <2>2. Shown[m] = "new" /\ Held(m)' = "queue"
    BY <1>2, <2>1, HeldWords, HeldWordsNext DEF Answered, Shown
  <2>3. Promise!Publish(m)
    BY <1>1, <2>1, <2>2 DEF Promise!Publish, Promise!Move, Shown
  <2> QED
    BY <2>3 DEF Promise!Next
<1> QED
  BY <1>1, <1>2

\* A handler that returns nil handles its message, and only then is it acknowledged.
LEMMA ItemIsPromised ==
    ASSUME RabbitInv, Deserved, NEW i \in items, ItemStep(i)
    PROVE  Promise!Next \/ UNCHANGED <<place, handled>>
<1> USE DEF RabbitInv, msgVars
<1>1. CASE HandlerReturns(i)
  <2>1. UNCHANGED place /\ (handled' = handled \/ handled' = handled \cup {i.msg})
    BY <1>1 DEF HandlerReturns
  <2>2. i.msg \in Messages /\ i.msg \notin Malformed /\ Shown[i.msg] # "new"
    <3>1. i.msg \in Messages /\ i.msg \notin Malformed /\ place[i.msg] # New
      BY <1>1 DEF HandlerReturns, Deserved
    <3> QED
      BY <3>1 DEF Shown, Held
  <2>3. Shown' = Shown
    BY <2>1 DEF Shown, Held
  <2>4. handled' = handled \cup {i.msg} => Promise!Handle(i.msg)
    BY <2>2, <2>3 DEF Promise!Handle, Shown
  <2> QED
    BY <2>1, <2>2, <2>4 DEF Promise!Next
<1>2. CASE ~HandlerReturns(i)
  <2>1. /\ handled' = handled
        /\ \/ UNCHANGED place
           \/ \E where \in Settlements : SettleAs(i, where) /\ (where = Acked => i.stage = "succeeded")
    BY <1>2, PlacesDiffer DEF ItemStep, ProcessDelivery, OfferToListener, HandBack, ListenerTakes,
       ListenerSettles, Settlements, Outcomes
  <2>2. ASSUME NEW where \in Settlements, SettleAs(i, where), where = Acked => i.stage = "succeeded",
               ~UNCHANGED place
        PROVE  Promise!Next
    <3>1. i.of[2] \in open /\ place' = [place EXCEPT ![i.msg] = where]
      BY <2>2 DEF SettleAs
    <3>2. i.msg \in Messages /\ place[i.msg] = <<i.of[1], i.of[2]>>
      BY <3>1 DEF Delivered, TypeOK
    <3>3. where = Acked => i.msg \in handled
      BY <2>2 DEF Deserved
    <3> QED
      BY <2>1, <3>1, <3>2, <3>3, SettleIsPromised
  <2> QED
    BY <2>1, <2>2
<1> QED
  BY <1>1, <1>2

LEMMA PromiseStep ==
    ASSUME RabbitInv, Deserved, [Next]_vars
    PROVE  [Promise!Next]_(Promise!promiseVars)
<1>1. UNCHANGED <<place, handled>> => UNCHANGED Promise!promiseVars
  BY DEF Promise!promiseVars, Held
<1>2. CASE \E i \in items : ItemStep(i)
  BY <1>1, <1>2, ItemIsPromised
<1>3. CASE \E n \in Messages, c \in Consumers, k \in Conns : Deliver(n, c, k)
  BY <1>3, DeliverIsPromised DEF RabbitInv
<1>4. CASE (\E k : ChannelEnds(k)) /\ handled' = handled
  BY <1>4, ChannelEndIsPromised DEF RabbitInv
<1>5. CASE \E n \in Published : PublishStep(n)
  BY <1>1, <1>5, StoreIsPromised
<1>6. CASE UNCHANGED <<place, handled>>
  BY <1>1, <1>6
<1> QED
  BY <1>2, <1>3, <1>4, <1>5, <1>6 DEF Next, vars, msgVars, Drop, ChannelException, WatchStep,
     WatcherStops, WatcherReconnects, ReconnectStep, Dial, GiveUpDialing, Install, CloseReplacement,
     Resubscribe, ReconnectDone, NewConsumer, SignalStop, ListenerStops, ProcessStops, ProcessEnds,
     BeginClose, EndClose, PublishStep

\* RabbitMQ keeps the promise of a queue that SQS and Pub/Sub keep, for any connections,
\* channels, reconnects and publishes: what a lost channel held is delivered again, what the
\* broker deletes some handler processed before, on whatever delivery, and nothing that does
\* not decode is handled (rabbitmq.go, processMessages, reconnect and the acknowledgements).
THEOREM RabbitKeepsPromise == Spec => DeliversAtLeastOnce
<1>1. Init => RabbitInv /\ Deserved /\ Promise!Init
  <2> SUFFICES ASSUME Init PROVE Deserved /\ Promise!Init
    BY RabbitInvInit
  <2>1. \A m \in Messages : Held(m) \in {"new", "queue"}
    BY HeldWords DEF Init
  <2> QED
    BY <2>1 DEF Init, Deserved, Promise!Init
<1>2. RabbitInv /\ Deserved /\ [Next]_vars =>
        RabbitInv' /\ Deserved' /\ [Promise!Next]_(Promise!promiseVars)
  BY RabbitInvStep, DeservedStep, PromiseStep
<1> QED
  BY <1>1, <1>2, PTL DEF Spec, DeliversAtLeastOnce, Promise!Spec

=============================================================================
