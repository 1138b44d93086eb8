------------------------------ MODULE Delivery ------------------------------
(***************************************************************************)
(* The SQS and Pub/Sub providers of pkg/messaging on one queue: the poll   *)
(* of each consumer, the channel of one message to its listener, the       *)
(* acknowledgement policies, what happens to a message whose consumer      *)
(* stops, and the TestProducer, whose handler hands what it consumed to    *)
(* the Execute that waits for it.  The brokers are external.               *)
(***************************************************************************)
EXTENDS Naturals, FiniteSets

CONSTANTS
    Messages, Malformed,    \* what is published, and which of it does not decode
    Consumers, Tester,      \* consumers of the queue; Tester is the one of a TestProducer
    MaxReceives,            \* maxReceiveCount of the redrive policy
    NoMsg

ASSUME DeliveryAssumption ==
    /\ Malformed \subseteq Messages /\ NoMsg \notin Messages
    /\ Tester \in Consumers /\ MaxReceives \in Nat \ {0}

VARIABLES
    provider,   \* "sqs" or "pubsub"
    place,      \* per message: not published, in the queue, in flight, deleted, dead-lettered
    receives,   \* per message, its deliveries
    holder,     \* per message in flight, the consumer that received it last
    kept,       \* messages in flight that were meant to be: settled so, or not released
    handled,    \* messages some handler processed without an error
    poll,       \* per consumer, its poll goroutine
    taken,      \* per consumer, the message its poll received
    chan,       \* per consumer, the message in its channel
    listener,   \* per consumer, its listener goroutine, which acks or nacks once the handler ended
    hand,       \* per consumer, the message being processed
    stopped,    \* consumers whose done channel is closed
    moduleOver, \* the module context is cancelled
    execute,    \* the TestProducer's Execute
    answers     \* which of chSuccess and chError hold what its handler sent

deliveryVars == <<provider, place, receives, holder, kept, handled, poll, taken, chan,
                  listener, hand, stopped, moduleOver, execute, answers>>
queueVars == <<place, receives, holder, kept>>
pollVars == <<poll, taken>>
listenVars == <<chan, listener, hand, handled>>
testVars == <<execute, answers>>
moduleVars == <<provider, stopped, moduleOver>>

DeliveryInit ==
    /\ provider \in {"sqs", "pubsub"}
    /\ place = [m \in Messages |-> "new"] /\ receives = [m \in Messages |-> 0]
    /\ holder = [m \in Messages |-> NoMsg] /\ kept = {} /\ handled = {}
    /\ poll = [c \in Consumers |-> "off"] /\ taken = [c \in Consumers |-> NoMsg]
    /\ chan = [c \in Consumers |-> NoMsg] /\ listener = [c \in Consumers |-> "off"]
    /\ hand = [c \in Consumers |-> NoMsg] /\ stopped = {} /\ moduleOver = FALSE
    /\ execute = "idle" /\ answers = {}

\* The message is where it was put, and nobody's.
Leaves(m, to) ==
    /\ place' = [place EXCEPT ![m] = to] /\ holder' = [holder EXCEPT ![m] = NoMsg]
    /\ kept' = kept \ {m}

\* The message is visible to the next receive; one that was deleted or moved stays so.
Show(m) ==
    IF place[m] = "flight" THEN Leaves(m, "queue") ELSE UNCHANGED <<place, holder, kept>>

\* Its holder means it to wait for the visibility timeout, or could not do otherwise.
Keeps(m) ==
    /\ kept' = IF place[m] = "flight" THEN kept \cup {m} ELSE kept
    /\ UNCHANGED <<place, holder>>

\* A nack without requeue: SQS takes it for nothing and leaves the message to the redrive
\* policy, Pub/Sub redelivers it, at once unless its client is closed.
Rejects(m) ==
    \/ provider = "pubsub" /\ Show(m)
    \/ (provider = "sqs" \/ moduleOver) /\ Keeps(m)

-----------------------------------------------------------------------------
(* The broker. *)

\* Producer.Publish: a publish that reports an error may have reached the broker, and
\* one that did not leaves nothing to follow.
Publish(m) ==
    /\ place[m] = "new" /\ place' = [place EXCEPT ![m] = "queue"]
    /\ UNCHANGED <<receives, holder, kept, pollVars, listenVars, testVars, moduleVars>>

\* Nobody settled the message in time, while its handler may still be at it.
VisibilityTimeout(m) ==
    /\ place[m] = "flight" /\ Show(m)
    /\ UNCHANGED <<receives, pollVars, listenVars, testVars, moduleVars>>

DeadLetter(m) ==
    /\ place[m] = "queue" /\ receives[m] = MaxReceives
    /\ place' = [place EXCEPT ![m] = "dead"]
    /\ UNCHANGED <<receives, holder, kept, pollVars, listenVars, testVars, moduleVars>>

\* A delivery to c.
Hands(m, c) ==
    /\ place[m] = "queue" /\ receives[m] < MaxReceives
    /\ place' = [place EXCEPT ![m] = "flight"] /\ holder' = [holder EXCEPT ![m] = c]
    /\ receives' = [receives EXCEPT ![m] = @ + 1] /\ UNCHANGED kept

-----------------------------------------------------------------------------
(* The poll of a consumer. *)

PollStarts(c) == /\ poll' = [poll EXCEPT ![c] = "ready"]
                 /\ listener' = [listener EXCEPT ![c] = "on"]

Subscribe(c) ==
    /\ c # Tester /\ poll[c] = "off" /\ ~moduleOver /\ PollStarts(c)
    /\ UNCHANGED <<queueVars, taken, chan, hand, handled, testVars, moduleVars>>

\* isCanceled, then the next receive.
NextReceive(c) ==
    /\ poll[c] = "ready"
    /\ poll' = [poll EXCEPT ![c] = IF c \in stopped THEN "over" ELSE "receiving"]
    /\ UNCHANGED <<queueVars, taken, listenVars, testVars, moduleVars>>

\* Pub/Sub holds back a message while one is outstanding.
MayReceive(c) == provider = "sqs" \/ (chan[c] = NoMsg /\ hand[c] = NoMsg)

ReceiveMessage(c) ==
    /\ poll[c] = "receiving" /\ MayReceive(c)
    /\ \E m \in Messages : Hands(m, c) /\ taken' = [taken EXCEPT ![c] = m]
    /\ poll' = [poll EXCEPT ![c] = "received"]
    /\ UNCHANGED <<listenVars, testVars, moduleVars>>

\* An empty answer or an error: the poll of SQS goes around.  The error of a Receive of
\* Pub/Sub, which ends only so, is logged and leaves the consumer without a poll for good.
ReceiveNothing(c) ==
    /\ poll[c] = "receiving"
    /\ poll' = [poll EXCEPT ![c] = IF provider = "sqs" THEN "ready" ELSE "over"]
    /\ UNCHANGED <<queueVars, taken, listenVars, testVars, moduleVars>>

\* The module context ends a receive in flight, and SQS may hand a message to it all
\* the same.  The receive of Pub/Sub ends with its consumer, and hands it back.
ReceiveCut(c) ==
    /\ poll[c] = "receiving" /\ poll' = [poll EXCEPT ![c] = "over"]
    /\ IF provider = "sqs" /\ moduleOver
       THEN UNCHANGED queueVars \/ \E m \in Messages : Hands(m, c)
       ELSE provider = "pubsub" /\ c \in stopped /\ UNCHANGED queueVars
    /\ UNCHANGED <<taken, listenVars, testVars, moduleVars>>

\* releaseMessage, whose error is logged; Nack of Pub/Sub has none.
Release(m) == UNCHANGED receives /\ (Show(m) \/ ((provider = "sqs" \/ moduleOver) /\ Keeps(m)))

PollDrops(c, next) ==
    poll' = [poll EXCEPT ![c] = next] /\ taken' = [taken EXCEPT ![c] = NoMsg]

\* Defect: the poll returns with the message in its hand.
ClosedMeanwhileKeeps(c) ==
    /\ poll[c] = "received" /\ provider = "sqs" /\ c \in stopped
    /\ PollDrops(c, "over")
    /\ UNCHANGED <<queueVars, listenVars, testVars, moduleVars>>

\* Closed while the receive was in flight: the message goes back.
ClosedMeanwhile(c) ==
    /\ poll[c] = "received" /\ provider = "sqs" /\ c \in stopped
    /\ Release(taken[c]) /\ PollDrops(c, "over")
    /\ UNCHANGED <<listenVars, testVars, moduleVars>>

\* handleMessage of a body that does not decode: SQS leaves it in flight for the
\* redrive policy, Pub/Sub rejects it.
SkipMalformed(c) ==
    /\ poll[c] = "received" /\ taken[c] \in Malformed
    /\ provider = "sqs" => c \notin stopped
    /\ Rejects(taken[c]) /\ PollDrops(c, "ready")
    /\ UNCHANGED <<receives, listenVars, testVars, moduleVars>>

DecodeMessage(c) ==
    /\ poll[c] = "received" /\ taken[c] \notin Malformed
    /\ provider = "sqs" => c \notin stopped
    /\ poll' = [poll EXCEPT ![c] = "offering"]
    /\ UNCHANGED <<queueVars, taken, listenVars, testVars, moduleVars>>

\* The select of handleMessage: either branch when both are ready.
Offer(c) ==
    /\ poll[c] = "offering" /\ PollDrops(c, "ready")
    /\ \/ chan[c] = NoMsg /\ chan' = [chan EXCEPT ![c] = taken[c]] /\ UNCHANGED queueVars
       \/ c \in stopped /\ Release(taken[c]) /\ UNCHANGED chan
    /\ UNCHANGED <<listener, hand, handled, testVars, moduleVars>>

-----------------------------------------------------------------------------
(* The listener. *)

Listen(c) ==
    /\ listener[c] = "on" /\ hand[c] = NoMsg
    /\ \/ chan[c] # NoMsg /\ hand' = [hand EXCEPT ![c] = chan[c]]
          /\ chan' = [chan EXCEPT ![c] = NoMsg] /\ UNCHANGED listener
       \/ c \in stopped /\ listener' = [listener EXCEPT ![c] = "over"] /\ UNCHANGED <<chan, hand>>
    /\ UNCHANGED <<handled, queueVars, pollVars, testVars, moduleVars>>

\* chSuccess and chError buffer one value each.
Room(channel) == channel \notin answers

\* The handler of the TestProducer sends what it decoded, or its error, once there is room.
Answer(c, channel) ==
    /\ c = Tester => Room(channel)
    /\ answers' = IF c = Tester THEN answers \cup {channel} ELSE answers

\* The handler returned nil, or it failed or panicked.
HandlerSucceeds(c) ==
    /\ listener[c] = "on" /\ hand[c] # NoMsg /\ Answer(c, "success")
    /\ handled' = handled \cup {hand[c]} /\ listener' = [listener EXCEPT ![c] = "acking"]
    /\ UNCHANGED <<hand, chan, execute, queueVars, pollVars, moduleVars>>

HandlerFails(c) ==
    /\ listener[c] = "on" /\ hand[c] # NoMsg /\ Answer(c, "error")
    /\ listener' = [listener EXCEPT ![c] = "nacking"]
    /\ UNCHANGED <<handled, hand, chan, execute, queueVars, pollVars, moduleVars>>

Settled(c) ==
    /\ hand' = [hand EXCEPT ![c] = NoMsg] /\ listener' = [listener EXCEPT ![c] = "on"]
    /\ UNCHANGED <<handled, receives, chan, testVars, pollVars, moduleVars>>

\* Defect: the message is acknowledged whatever its handler returned.
ListenerAcksAlways(c) ==
    /\ listener[c] \in {"acking", "nacking"} /\ Settled(c)
    /\ IF place[hand[c]] = "dead" THEN UNCHANGED <<place, holder, kept>>
                                  ELSE Leaves(hand[c], "deleted")

\* Ack, which may fail, and then the message stays in flight.
ListenerAcks(c) ==
    /\ listener[c] = "acking" /\ Settled(c)
    /\ \/ IF place[hand[c]] = "dead" THEN UNCHANGED <<place, holder, kept>>
                                     ELSE Leaves(hand[c], "deleted")
       \/ Keeps(hand[c])

\* Nack without requeue.
ListenerNacks(c) ==
    /\ listener[c] = "nacking" /\ Settled(c) /\ Rejects(hand[c])

-----------------------------------------------------------------------------
(* The end of a consumer. *)

Stop(c) ==
    /\ c # Tester /\ poll[c] # "off" /\ c \notin stopped /\ stopped' = stopped \cup {c}
    /\ UNCHANGED <<queueVars, pollVars, listenVars, testVars, provider, moduleOver>>

\* messagingObserver.Close cancels the module context once every consumer was told to stop
\* and the drain ended, which may be by its timeout, with handlers still running.
CancelModule ==
    /\ ~moduleOver /\ moduleOver' = TRUE /\ execute \in {"idle", "returned"}
    /\ \A c \in Consumers : poll[c] # "off" => c \in stopped
    /\ UNCHANGED <<queueVars, pollVars, listenVars, testVars, provider, stopped>>

-----------------------------------------------------------------------------
(* TestProducer.Execute. *)

ExecuteStarts ==
    /\ execute = "idle" /\ ~moduleOver /\ execute' = "producing" /\ PollStarts(Tester)
    /\ UNCHANGED <<queueVars, taken, chan, hand, handled, answers, moduleVars>>

\* producerFn publishes, or fails, maybe after it published.
Produce ==
    /\ execute = "producing" /\ execute' \in {"waiting", "leaving"}
    /\ UNCHANGED <<queueVars, pollVars, listenVars, answers, moduleVars>>

\* The select: an answer, or the timeout.
AwaitAnswer ==
    /\ execute = "waiting" /\ execute' = "leaving"
    /\ answers' \in {answers} \cup {answers \ {a} : a \in answers}
    /\ UNCHANGED <<queueVars, pollVars, listenVars, moduleVars>>

\* The deferred Close signals the consumer and waits for its goroutines.
ExecuteCloses ==
    /\ execute = "leaving" /\ execute' = "closing" /\ stopped' = stopped \cup {Tester}
    /\ UNCHANGED <<queueVars, pollVars, listenVars, answers, provider, moduleOver>>

ExecuteReturns ==
    /\ execute = "closing" /\ listener[Tester] = "over"
    /\ provider = "sqs" => poll[Tester] = "over"
    /\ execute' = "returned"
    /\ UNCHANGED <<queueVars, pollVars, listenVars, answers, moduleVars>>

DeliveryNext ==
    \/ \E m \in Messages : Publish(m) \/ VisibilityTimeout(m) \/ DeadLetter(m)
    \/ \E c \in Consumers :
          \/ Subscribe(c) \/ NextReceive(c) \/ ReceiveMessage(c) \/ ReceiveNothing(c)
          \/ ReceiveCut(c) \/ ClosedMeanwhile(c) \/ SkipMalformed(c) \/ DecodeMessage(c)
          \/ Offer(c) \/ Listen(c) \/ HandlerSucceeds(c) \/ HandlerFails(c)
          \/ ListenerAcks(c) \/ ListenerNacks(c) \/ Stop(c)
    \/ CancelModule \/ ExecuteStarts \/ Produce \/ AwaitAnswer \/ ExecuteCloses \/ ExecuteReturns

DeliverySpec == DeliveryInit /\ [][DeliveryNext]_deliveryVars

-----------------------------------------------------------------------------
(* Properties. *)

DeliveryTypeOK ==
    /\ provider \in {"sqs", "pubsub"} /\ moduleOver \in BOOLEAN
    /\ place \in [Messages -> {"new", "queue", "flight", "deleted", "dead"}]
    /\ receives \in [Messages -> 0..MaxReceives] /\ holder \in [Messages -> Consumers \cup {NoMsg}]
    /\ kept \subseteq Messages /\ handled \subseteq Messages \ Malformed /\ stopped \subseteq Consumers
    /\ poll \in [Consumers -> {"off", "ready", "receiving", "received", "offering", "over"}]
    /\ listener \in [Consumers -> {"off", "on", "acking", "nacking", "over"}]
    /\ {taken, chan, hand} \subseteq [Consumers -> Messages \cup {NoMsg}]
    /\ execute \in {"idle", "producing", "waiting", "leaving", "closing", "returned"}
    /\ answers \subseteq {"success", "error"}

\* The providers of SQS and Pub/Sub keep the promise of a queue, whatever their polls,
\* listeners and closes do: delivery at least once, and nothing malformed handled
\* (aws.go:134-201, gcp.go:81-104).
Promise == INSTANCE Queue
DeliversAtLeastOnce == Promise!Spec

\* A message leaves the broker for good only by way of the dead letters or of a handler
\* that processed it, whatever consumers close meanwhile (aws.go:47-72, 168-201).
DeletedWereHandled ==
    \A m \in Messages : place[m] = "deleted" => m \in handled

\* A consumer that ended leaves in flight only the message still in its channel and those
\* meant to wait for the visibility timeout: what its poll had received goes back at once,
\* while the module lives (aws.go:134-154, 193-200; gcp.go:81-103).
EndedHandsBack ==
    \A m \in Messages, c \in Consumers :
        place[m] = "flight" /\ holder[m] = c /\ m \notin kept /\ ~moduleOver
        /\ poll[c] = "over" /\ listener[c] = "over" => chan[c] = m

=============================================================================
