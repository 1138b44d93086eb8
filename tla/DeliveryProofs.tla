--------------------------- MODULE DeliveryProofs ---------------------------
(***************************************************************************)
(* Proofs about the SQS and Pub/Sub deliveries, for any messages, any      *)
(* consumers and any number of receives: what is deleted was handled, and  *)
(* a consumer that ended has handed back what its poll had received.       *)
(***************************************************************************)
EXTENDS Delivery, TLAPS

Places == {"new", "queue", "flight", "deleted", "dead"}

\* A message in flight that nobody meant to leave there is in the hands of its holder.
InHand ==
    \A m \in Messages, c \in Consumers :
        place[m] = "flight" /\ holder[m] = c /\ m \notin kept /\ ~moduleOver =>
            m = taken[c] \/ m = chan[c] \/ m = hand[c]

\* A poll between receives, and a listener that is over, hold nothing; one that acks holds
\* what its handler processed; the test producer has no consumer before its Execute.
HandsEmpty ==
    /\ \A c \in Consumers : taken[c] # NoMsg <=> poll[c] \in {"received", "offering"}
    /\ \A c \in Consumers : /\ listener[c] = "over" => hand[c] = NoMsg
                            /\ listener[c] \in {"acking", "nacking"} => hand[c] # NoMsg
                            /\ listener[c] = "acking" => hand[c] \in handled
    /\ execute = "idle" => poll[Tester] = "off"

\* What a poll offers, and what a listener takes, decodes.
DecodedOnly ==
    \A c \in Consumers :
        {chan[c], hand[c]} \cap Malformed = {} /\ (poll[c] = "offering" => taken[c] \notin Malformed)

DeliveryInv == DeliveryTypeOK /\ DeletedWereHandled /\ InHand /\ HandsEmpty /\ DecodedOnly

-----------------------------------------------------------------------------

LEMMA DeliveryInvInit == DeliveryInit => DeliveryInv
<1> SUFFICES ASSUME DeliveryInit PROVE DeliveryInv
  OBVIOUS
<1> USE DeliveryAssumption DEF DeliveryInit
<1>1. DeliveryTypeOK
  <2>1. 0 \in 0..MaxReceives
    OBVIOUS
  <2>2. {taken, chan, hand} \subseteq [Consumers -> Messages \cup {NoMsg}]
    OBVIOUS
  <2>3. {} \subseteq Messages /\ {} \subseteq Consumers
    OBVIOUS
  <2> QED
    BY <2>1, <2>2, <2>3 DEF DeliveryTypeOK
<1>2. DeletedWereHandled /\ InHand /\ HandsEmpty /\ DecodedOnly
  BY DEF DeletedWereHandled, InHand, HandsEmpty, DecodedOnly
<1> QED
  BY <1>1, <1>2 DEF DeliveryInv

\* What a settlement of m does to the broker: nothing enters flight or is deleted, and m
\* itself is out of flight or meant to wait.
Settles(m) ==
    /\ place' \in [Messages -> Places] /\ holder' \in [Messages -> Consumers \cup {NoMsg}]
    /\ kept' \subseteq Messages
    /\ \A x \in Messages : place'[x] = "deleted" => place[x] = "deleted"
    /\ \A x \in Messages :
          place'[x] = "flight" => /\ place[x] = "flight" /\ holder'[x] = holder[x]
                                  /\ x \in kept \/ x = m => x \in kept'

LEMMA ShowSettles ==
    ASSUME DeliveryTypeOK, NEW m \in Messages, Show(m)
    PROVE  Settles(m)
  BY DEF DeliveryTypeOK, Show, Leaves, Settles, Places

LEMMA KeepsSettles ==
    ASSUME DeliveryTypeOK, NEW m \in Messages, Keeps(m)
    PROVE  Settles(m)
  BY DEF DeliveryTypeOK, Keeps, Settles, Places

LEMMA RejectsSettles ==
    ASSUME DeliveryTypeOK, NEW m \in Messages, Rejects(m)
    PROVE  Settles(m)
  BY ShowSettles, KeepsSettles DEF Rejects

LEMMA ReleaseSettles ==
    ASSUME DeliveryTypeOK, NEW m \in Messages, Release(m)
    PROVE  Settles(m) /\ UNCHANGED receives
  BY ShowSettles, KeepsSettles DEF Release

\* A delivery.
LEMMA HandsTypes ==
    ASSUME DeliveryTypeOK, NEW m \in Messages, NEW c \in Consumers, Hands(m, c)
    PROVE  /\ place' \in [Messages -> Places] /\ holder' \in [Messages -> Consumers \cup {NoMsg}]
           /\ receives' \in [Messages -> 0..MaxReceives] /\ kept' = kept
           /\ \A x \in Messages \ {m} : place'[x] = place[x] /\ holder'[x] = holder[x]
           /\ place'[m] = "flight" /\ holder'[m] = c
<1>1. receives[m] + 1 \in 0..MaxReceives
  BY DeliveryAssumption DEF DeliveryTypeOK, Hands
<1> QED
  BY <1>1 DEF DeliveryTypeOK, Hands, Places

-----------------------------------------------------------------------------
(* The steps, by the part of the system that takes them. *)

BrokerStep(m) == Publish(m) \/ VisibilityTimeout(m) \/ DeadLetter(m)

LEMMA BrokerSteps ==
    ASSUME DeliveryInv, NEW m \in Messages, BrokerStep(m)
    PROVE  DeliveryInv'
<1> USE DEF DeliveryInv
<1>1. CASE Publish(m)
  BY <1>1 DEF Publish, pollVars, listenVars, testVars, moduleVars,
              DeliveryTypeOK, DeletedWereHandled, InHand, HandsEmpty, DecodedOnly
<1>2. CASE VisibilityTimeout(m)
  <2>1. Settles(m)
    BY <1>2, ShowSettles DEF VisibilityTimeout
  <2> QED
    BY <1>2, <2>1 DEF VisibilityTimeout, Settles, Places, pollVars, listenVars, testVars, moduleVars,
                      DeliveryTypeOK, DeletedWereHandled, InHand, HandsEmpty, DecodedOnly
<1>3. CASE DeadLetter(m)
  BY <1>3 DEF DeadLetter, pollVars, listenVars, testVars, moduleVars,
              DeliveryTypeOK, DeletedWereHandled, InHand, HandsEmpty, DecodedOnly
<1> QED
  BY <1>1, <1>2, <1>3 DEF BrokerStep

\* The steps of a consumer that settle nothing and receive nothing.
QuietStep(c) ==
    \/ Subscribe(c) \/ NextReceive(c) \/ ReceiveNothing(c) \/ DecodeMessage(c)
    \/ Listen(c) \/ Stop(c)

LEMMA QuietSteps ==
    ASSUME DeliveryInv, NEW c \in Consumers, QuietStep(c)
    PROVE  DeliveryInv'
<1> USE DeliveryAssumption DEF DeliveryInv, queueVars, pollVars, listenVars, testVars, moduleVars
<1>1. CASE Subscribe(c)
  BY <1>1 DEF Subscribe, PollStarts, DeliveryTypeOK, DeletedWereHandled, InHand, HandsEmpty, DecodedOnly
<1>2. CASE NextReceive(c)
  BY <1>2 DEF NextReceive, DeliveryTypeOK, DeletedWereHandled, InHand, HandsEmpty, DecodedOnly
<1>3. CASE ReceiveNothing(c)
  BY <1>3 DEF ReceiveNothing, DeliveryTypeOK, DeletedWereHandled, InHand, HandsEmpty, DecodedOnly
<1>4. CASE DecodeMessage(c)
  BY <1>4 DEF DecodeMessage, DeliveryTypeOK, DeletedWereHandled, InHand, HandsEmpty, DecodedOnly
<1>5. CASE Listen(c)
  <2>1. DeliveryTypeOK' /\ DeletedWereHandled'
    BY <1>5 DEF Listen, DeliveryTypeOK, DeletedWereHandled
  <2>2. HandsEmpty' /\ DecodedOnly'
    BY <1>5 DEF Listen, DeliveryTypeOK, HandsEmpty, DecodedOnly
  <2>3. InHand'
    BY <1>5 DEF Listen, DeliveryTypeOK, InHand
  <2> QED
    BY <2>1, <2>2, <2>3
<1>6. CASE Stop(c)
  BY <1>6 DEF Stop, DeliveryTypeOK, DeletedWereHandled, InHand, HandsEmpty, DecodedOnly
<1> QED
  BY <1>1, <1>2, <1>3, <1>4, <1>5, <1>6 DEF QuietStep

\* The steps that receive a message, or end a receive.
LEMMA ReceiveSteps ==
    ASSUME DeliveryInv, NEW c \in Consumers, ReceiveMessage(c) \/ ReceiveCut(c)
    PROVE  DeliveryInv'
<1> USE DeliveryAssumption DEF DeliveryInv, queueVars, listenVars, testVars, moduleVars
<1>1. CASE ReceiveMessage(c)
  <2>1. PICK m \in Messages : Hands(m, c) /\ taken' = [taken EXCEPT ![c] = m]
    BY <1>1 DEF ReceiveMessage
  <2>2. /\ place' \in [Messages -> Places] /\ holder' \in [Messages -> Consumers \cup {NoMsg}]
        /\ receives' \in [Messages -> 0..MaxReceives] /\ kept' = kept
        /\ \A x \in Messages \ {m} : place'[x] = place[x] /\ holder'[x] = holder[x]
        /\ place'[m] = "flight" /\ holder'[m] = c
    BY <2>1, HandsTypes
  <2>3. DeliveryTypeOK' /\ DeletedWereHandled'
    BY <1>1, <2>1, <2>2 DEF ReceiveMessage, Places, DeliveryTypeOK, DeletedWereHandled
  <2>4. HandsEmpty' /\ DecodedOnly'
    BY <1>1, <2>1 DEF ReceiveMessage, DeliveryTypeOK, HandsEmpty, DecodedOnly
  <2>5. taken[c] = NoMsg
    BY <1>1 DEF ReceiveMessage, HandsEmpty
  <2>6. InHand'
    BY <1>1, <2>1, <2>2, <2>5 DEF ReceiveMessage, DeliveryTypeOK, InHand
  <2> QED
    BY <2>3, <2>4, <2>6
<1>2. CASE ReceiveCut(c)
  <2>1. HandsEmpty' /\ DecodedOnly'
    BY <1>2 DEF ReceiveCut, DeliveryTypeOK, HandsEmpty, DecodedOnly
  <2>2. CASE UNCHANGED queueVars
    BY <1>2, <2>1, <2>2 DEF ReceiveCut, DeliveryTypeOK, DeletedWereHandled, InHand
  <2>3. CASE moduleOver /\ \E m \in Messages : Hands(m, c)
    <3>1. PICK m \in Messages : Hands(m, c)
      BY <2>3
    <3>2. /\ place' \in [Messages -> Places] /\ holder' \in [Messages -> Consumers \cup {NoMsg}]
          /\ receives' \in [Messages -> 0..MaxReceives] /\ kept' = kept
          /\ \A x \in Messages \ {m} : place'[x] = place[x] /\ holder'[x] = holder[x]
          /\ place'[m] = "flight" /\ holder'[m] = c
      BY <3>1, HandsTypes
    <3> QED
      BY <1>2, <2>1, <2>3, <3>2 DEF ReceiveCut, Places, DeliveryTypeOK, DeletedWereHandled, InHand
  <2> QED
    BY <1>2, <2>2, <2>3 DEF ReceiveCut
<1> QED
  BY <1>1, <1>2

\* The steps that settle what the poll received.
LEMMA PollSettles ==
    ASSUME DeliveryInv, NEW c \in Consumers, ClosedMeanwhile(c) \/ SkipMalformed(c) \/ Offer(c)
    PROVE  DeliveryInv'
<1> USE DeliveryAssumption DEF DeliveryInv, queueVars, testVars, moduleVars
<1>1. taken[c] \in Messages /\ taken' = [taken EXCEPT ![c] = NoMsg] /\ poll[c] \in {"received", "offering"}
  BY DEF ClosedMeanwhile, SkipMalformed, Offer, PollDrops, HandsEmpty, DeliveryTypeOK
<1>2. HandsEmpty'
  BY <1>1 DEF ClosedMeanwhile, SkipMalformed, Offer, PollDrops, HandsEmpty, DeliveryTypeOK, listenVars
<1>3. DecodedOnly'
  BY <1>1 DEF ClosedMeanwhile, SkipMalformed, Offer, PollDrops, DecodedOnly, DeliveryTypeOK, listenVars
<1>4. CASE Settles(taken[c]) /\ UNCHANGED <<receives, chan>>
  <2>1. DeliveryTypeOK' /\ DeletedWereHandled'
    BY <1>1, <1>4 DEF ClosedMeanwhile, SkipMalformed, Offer, PollDrops, Settles, Places, listenVars,
                      DeliveryTypeOK, DeletedWereHandled
  <2>2. InHand'
    BY <1>1, <1>4 DEF ClosedMeanwhile, SkipMalformed, Offer, PollDrops, Settles, listenVars,
                      DeliveryTypeOK, InHand
  <2> QED
    BY <1>2, <1>3, <2>1, <2>2
<1>5. CASE Offer(c) /\ chan[c] = NoMsg /\ chan' = [chan EXCEPT ![c] = taken[c]] /\ UNCHANGED queueVars
  <2>1. DeliveryTypeOK' /\ DeletedWereHandled'
    BY <1>1, <1>5 DEF Offer, PollDrops, DeliveryTypeOK, DeletedWereHandled
  <2>2. InHand'
    BY <1>1, <1>5 DEF Offer, DeliveryTypeOK, InHand
  <2> QED
    BY <1>2, <1>3, <2>1, <2>2
<1> QED
  BY <1>1, <1>4, <1>5, ReleaseSettles, RejectsSettles
  DEF ClosedMeanwhile, SkipMalformed, Offer, listenVars

\* The handler ends, and the listener has still to settle what it has in hand.
LEMMA HandlerEnds ==
    ASSUME DeliveryInv, NEW c \in Consumers, HandlerSucceeds(c) \/ HandlerFails(c)
    PROVE  DeliveryInv'
<1> USE DeliveryAssumption DEF DeliveryInv, pollVars, moduleVars, queueVars
<1>1. /\ hand[c] \in Messages /\ hand[c] \notin Malformed
      /\ UNCHANGED <<hand, receives, chan, taken, poll, place, holder, kept, moduleOver, execute, provider, stopped>>
  BY DEF HandlerSucceeds, HandlerFails, DeliveryTypeOK, DecodedOnly
<1>2. answers' \subseteq {"success", "error"}
  <2>1. PICK a \in {"success", "error"} : Answer(c, a)
    BY DEF HandlerSucceeds, HandlerFails
  <2>2. answers' = answers \cup {a} \/ answers' = answers
    BY <2>1 DEF Answer
  <2>3. answers \subseteq {"success", "error"}
    BY DEF DeliveryTypeOK
  <2> QED
    BY <2>1, <2>2, <2>3
<1>3. /\ handled \subseteq handled' /\ handled' \subseteq Messages \ Malformed
      /\ listener' \in [Consumers -> {"off", "on", "acking", "nacking", "over"}]
  BY <1>1 DEF HandlerSucceeds, HandlerFails, DeliveryTypeOK
<1>4. DeliveryTypeOK' /\ DeletedWereHandled'
  BY <1>1, <1>2, <1>3 DEF DeliveryTypeOK, DeletedWereHandled
<1>5. HandsEmpty'
  <2>1. \A d \in Consumers : d # c => listener'[d] = listener[d]
    BY DEF HandlerSucceeds, HandlerFails, DeliveryTypeOK
  <2>2. (listener'[c] = "acking" /\ hand[c] \in handled') \/ listener'[c] = "nacking"
    BY <1>3 DEF HandlerSucceeds, HandlerFails, DeliveryTypeOK
  <2> QED
    BY <1>1, <1>3, <2>1, <2>2 DEF HandsEmpty
<1>6. InHand' /\ DecodedOnly'
  BY <1>1 DEF InHand, DecodedOnly
<1> QED
  BY <1>4, <1>5, <1>6

\* The listener acks or nacks what it has in hand.
LEMMA ListenerSettles ==
    ASSUME DeliveryInv, NEW c \in Consumers, ListenerAcks(c) \/ ListenerNacks(c)
    PROVE  DeliveryInv'
<1> USE DeliveryAssumption DEF DeliveryInv, pollVars, moduleVars, testVars
<1>1. /\ hand' = [hand EXCEPT ![c] = NoMsg] /\ listener' = [listener EXCEPT ![c] = "on"]
      /\ UNCHANGED <<handled, receives, chan, taken, poll, moduleOver, execute, answers, provider, stopped>>
  BY DEF ListenerAcks, ListenerNacks, Settled
<1>2. hand[c] \in Messages
  BY DEF ListenerAcks, ListenerNacks, HandsEmpty, DeliveryTypeOK
<1>3. HandsEmpty' /\ DecodedOnly'
  BY <1>1 DEF HandsEmpty, DecodedOnly, DeliveryTypeOK
<1>4. CASE Settles(hand[c])
  <2>1. DeliveryTypeOK' /\ DeletedWereHandled'
    BY <1>1, <1>2, <1>4 DEF Settles, Places, DeliveryTypeOK, DeletedWereHandled
  <2>2. InHand'
    BY <1>1, <1>2, <1>4 DEF Settles, DeliveryTypeOK, InHand
  <2> QED
    BY <1>3, <2>1, <2>2
<1>5. CASE ListenerAcks(c)
  <2>1. \/ Keeps(hand[c]) \/ Leaves(hand[c], "deleted")
        \/ place[hand[c]] = "dead" /\ UNCHANGED <<place, holder, kept>>
    BY <1>5 DEF ListenerAcks
  <2>2. CASE Keeps(hand[c])
    <3>1. Settles(hand[c])
      BY <1>2, <2>2, KeepsSettles
    <3> QED
      BY <1>4, <3>1
  <2>3. CASE Leaves(hand[c], "deleted")
    <3>1. hand[c] \in handled
      BY <1>5 DEF ListenerAcks, HandsEmpty
    <3>2. DeliveryTypeOK' /\ DeletedWereHandled'
      BY <1>1, <1>2, <2>3, <3>1 DEF Leaves, DeliveryTypeOK, DeletedWereHandled
    <3>3. InHand'
      BY <1>1, <1>2, <2>3 DEF Leaves, DeliveryTypeOK, InHand
    <3> QED
      BY <1>3, <3>2, <3>3
  <2>4. CASE place[hand[c]] = "dead" /\ UNCHANGED <<place, holder, kept>>
    <3>1. DeliveryTypeOK' /\ DeletedWereHandled'
      BY <1>1, <2>4 DEF DeliveryTypeOK, DeletedWereHandled
    <3>2. InHand'
      BY <1>1, <2>4 DEF DeliveryTypeOK, InHand
    <3> QED
      BY <1>3, <3>1, <3>2
  <2> QED
    BY <2>1, <2>2, <2>3, <2>4
<1>6. CASE ListenerNacks(c)
  <2>1. Rejects(hand[c])
    BY <1>6 DEF ListenerNacks
  <2> QED
    BY <1>2, <1>4, <2>1, RejectsSettles
<1> QED
  BY <1>5, <1>6

\* The steps of the test producer, and the end of the module.
OtherStep ==
    CancelModule \/ ExecuteStarts \/ Produce \/ AwaitAnswer \/ ExecuteCloses \/ ExecuteReturns

LEMMA OtherSteps ==
    ASSUME DeliveryInv, OtherStep
    PROVE  DeliveryInv'
<1> USE DeliveryAssumption DEF DeliveryInv, queueVars, pollVars, listenVars, moduleVars, testVars
<1>1. CASE ExecuteStarts
  <2>1. taken[Tester] = NoMsg
    BY <1>1 DEF ExecuteStarts, HandsEmpty
  <2> QED
    BY <1>1, <2>1 DEF ExecuteStarts, PollStarts, DeliveryTypeOK, DeletedWereHandled, InHand, HandsEmpty, DecodedOnly
<1>2. CASE CancelModule
  BY <1>2 DEF CancelModule, DeliveryTypeOK, DeletedWereHandled, InHand, HandsEmpty, DecodedOnly
<1>3. CASE Produce \/ AwaitAnswer \/ ExecuteCloses \/ ExecuteReturns
  BY <1>3 DEF Produce, AwaitAnswer, ExecuteCloses, ExecuteReturns,
              DeliveryTypeOK, DeletedWereHandled, InHand, HandsEmpty, DecodedOnly
<1> QED
  BY <1>1, <1>2, <1>3 DEF OtherStep

LEMMA DeliveryInvNext == DeliveryInv /\ [DeliveryNext]_deliveryVars => DeliveryInv'
<1> SUFFICES ASSUME DeliveryInv, [DeliveryNext]_deliveryVars PROVE DeliveryInv'
  OBVIOUS
<1>1. CASE UNCHANGED deliveryVars
  BY <1>1 DEF deliveryVars, DeliveryInv, DeliveryTypeOK, DeletedWereHandled, InHand, HandsEmpty, DecodedOnly
<1>2. CASE DeliveryNext
  BY <1>2, BrokerSteps, QuietSteps, ReceiveSteps, PollSettles, HandlerEnds, ListenerSettles, OtherSteps
  DEF DeliveryNext, BrokerStep, QuietStep, OtherStep
<1> QED
  BY <1>1, <1>2

\* Once its poll and its listener are over, a consumer has nothing in hand.
LEMMA InHandIsHandedBack == DeliveryInv => EndedHandsBack
  BY DeliveryAssumption DEF DeliveryInv, DeliveryTypeOK, InHand, HandsEmpty, EndedHandsBack

-----------------------------------------------------------------------------

\* Every message and every consumer is where the module says it can be: what the polls, the
\* channels and the handlers hold is a message, and what was handled decodes.
THEOREM DeliveryTypes == DeliverySpec => []DeliveryTypeOK
<1>1. DeliveryInv => DeliveryTypeOK
  BY DEF DeliveryInv
<1> QED
  BY <1>1, DeliveryInvInit, DeliveryInvNext, PTL DEF DeliverySpec

\* A message is deleted only when some handler processed it, for any number of consumers,
\* redeliveries and failed releases (aws.go:47-72, 168-201).
THEOREM DeletedWereHandledAlways == DeliverySpec => []DeletedWereHandled
<1>1. DeliveryInv => DeletedWereHandled
  BY DEF DeliveryInv
<1> QED
  BY <1>1, DeliveryInvInit, DeliveryInvNext, PTL DEF DeliverySpec

\* A consumer that ended has handed back what its poll had received, for any number of
\* consumers and redeliveries (aws.go:134-154, 193-200; gcp.go:81-103).
THEOREM EndedHandsBackAlways == DeliverySpec => []EndedHandsBack
  BY InHandIsHandedBack, DeliveryInvInit, DeliveryInvNext, PTL DEF DeliverySpec

-----------------------------------------------------------------------------
(* The promise of a queue, step by step. *)

\* What a poll, a channel or a listener holds was published.
HeldWasPublished ==
    \A m \in Messages, c \in Consumers :
        place[m] = "new" => m # taken[c] /\ m # chan[c] /\ m # hand[c]

\* What a step of the providers does to the queue and to what was handled.
Kept == UNCHANGED <<place, handled>>

LEMMA BackIsPromised ==
    ASSUME DeliveryTypeOK, NEW m \in Messages, Show(m) \/ Keeps(m), UNCHANGED handled
    PROVE  Promise!Next \/ Kept
<1>1. CASE UNCHANGED place
  BY <1>1 DEF Kept
<1>2. CASE place[m] = "flight" /\ place' = [place EXCEPT ![m] = "queue"]
  <2>1. place' = [x \in Messages |-> IF x \in {m} THEN "queue" ELSE place[x]]
    BY <1>2 DEF DeliveryTypeOK
  <2>2. Promise!GiveBack({m})
    BY <1>2, <2>1 DEF Promise!GiveBack
  <2> QED
    BY <2>2 DEF Promise!Next
<1> QED
  BY <1>1, <1>2 DEF Show, Keeps, Leaves

LEMMA RejectIsPromised ==
    ASSUME DeliveryTypeOK, NEW m \in Messages, Rejects(m) \/ Release(m), UNCHANGED handled
    PROVE  Promise!Next \/ Kept
  BY BackIsPromised DEF Rejects, Release

LEMMA HandsIsPromised ==
    ASSUME NEW m \in Messages, NEW c \in Consumers, Hands(m, c), UNCHANGED handled
    PROVE  Promise!Next
<1>1. Promise!Deliver(m)
  BY DEF Hands, Promise!Deliver, Promise!Move
<1> QED
  BY <1>1 DEF Promise!Next

LEMMA SuccessIsPromised ==
    ASSUME DeliveryInv, HeldWasPublished, NEW c \in Consumers, HandlerSucceeds(c)
    PROVE  Promise!Next
<1>1. hand[c] \in Messages /\ hand[c] \notin Malformed /\ place[hand[c]] # "new"
  BY DEF HandlerSucceeds, DeliveryInv, DeliveryTypeOK, DecodedOnly, HeldWasPublished
<1>2. handled' = handled \cup {hand[c]} /\ UNCHANGED place
  BY DEF HandlerSucceeds, queueVars
<1>3. Promise!Handle(hand[c])
  BY <1>1, <1>2 DEF Promise!Handle
<1> QED
  BY <1>1, <1>3 DEF Promise!Next

\* What is deleted was handled before.
LEMMA AckIsPromised ==
    ASSUME DeliveryInv, HeldWasPublished, NEW c \in Consumers, ListenerAcks(c)
    PROVE  Promise!Next \/ Kept
<1>1. hand[c] \in handled /\ hand[c] \in Messages /\ place[hand[c]] # "new" /\ handled' = handled
  BY DEF ListenerAcks, Settled, DeliveryInv, HandsEmpty, DeliveryTypeOK, HeldWasPublished
<1>2. \/ place[hand[c]] # "dead" /\ place' = [place EXCEPT ![hand[c]] = "deleted"]
      \/ UNCHANGED place
  BY DEF ListenerAcks, Leaves, Keeps
<1>3. CASE place[hand[c]] # "dead" /\ place' = [place EXCEPT ![hand[c]] = "deleted"]
  <2>1. Promise!Delete(hand[c])
    BY <1>1, <1>3 DEF Promise!Delete
  <2> QED
    BY <1>1, <2>1 DEF Promise!Next
<1>4. CASE UNCHANGED place
  BY <1>1, <1>4 DEF Kept
<1> QED
  BY <1>2, <1>3, <1>4

LEMMA BrokerIsPromised ==
    ASSUME DeliveryInv, NEW m \in Messages, BrokerStep(m)
    PROVE  Promise!Next \/ Kept
<1> USE DEF DeliveryInv, listenVars
<1>1. CASE Publish(m)
  <2>1. Promise!Publish(m)
    BY <1>1 DEF Publish, Promise!Publish, Promise!Move
  <2> QED
    BY <2>1 DEF Promise!Next
<1>2. CASE VisibilityTimeout(m)
  BY <1>2, BackIsPromised DEF VisibilityTimeout
<1>3. CASE DeadLetter(m)
  <2>1. Promise!Bury(m)
    BY <1>3 DEF DeadLetter, Promise!Bury, Promise!Move
  <2> QED
    BY <2>1 DEF Promise!Next
<1> QED
  BY <1>1, <1>2, <1>3 DEF BrokerStep

LEMMA ConsumerIsPromised ==
    ASSUME DeliveryInv, HeldWasPublished, NEW c \in Consumers,
           \/ QuietStep(c) \/ ReceiveMessage(c) \/ ReceiveCut(c)
           \/ ClosedMeanwhile(c) \/ SkipMalformed(c) \/ Offer(c)
           \/ HandlerSucceeds(c) \/ HandlerFails(c) \/ ListenerAcks(c) \/ ListenerNacks(c)
    PROVE  Promise!Next \/ Kept
<1> USE DEF queueVars, listenVars
<1>1. CASE QuietStep(c)
  BY <1>1 DEF QuietStep, Subscribe, NextReceive, ReceiveNothing, DecodeMessage, Listen, Stop, Kept
<1>2. CASE ReceiveMessage(c) \/ ReceiveCut(c)
  <2>1. UNCHANGED handled
    BY <1>2 DEF ReceiveMessage, ReceiveCut
  <2>2. UNCHANGED place \/ \E m \in Messages : Hands(m, c)
    BY <1>2 DEF ReceiveMessage, ReceiveCut
  <2> QED
    BY <2>1, <2>2, HandsIsPromised DEF Kept
<1>3. CASE ClosedMeanwhile(c) \/ SkipMalformed(c) \/ Offer(c)
  <2>1. UNCHANGED handled /\ taken[c] \in Messages
    BY <1>3, DeliveryAssumption DEF ClosedMeanwhile, SkipMalformed, Offer, DeliveryInv, HandsEmpty,
       DeliveryTypeOK
  <2>2. UNCHANGED place \/ Release(taken[c]) \/ Rejects(taken[c])
    BY <1>3 DEF ClosedMeanwhile, SkipMalformed, Offer
  <2> QED
    BY <2>1, <2>2, RejectIsPromised DEF Kept, DeliveryInv
<1>4. CASE HandlerSucceeds(c)
  BY <1>4, SuccessIsPromised
<1>5. CASE ListenerNacks(c)
  <2>1. UNCHANGED handled /\ hand[c] \in Messages /\ Rejects(hand[c])
    BY <1>5 DEF ListenerNacks, Settled, DeliveryInv, HandsEmpty, DeliveryTypeOK
  <2> QED
    BY <2>1, RejectIsPromised DEF DeliveryInv
<1>6. CASE HandlerFails(c)
  BY <1>6 DEF HandlerFails, Kept
<1>7. CASE ListenerAcks(c)
  BY <1>7, AckIsPromised
<1> QED
  BY <1>1, <1>2, <1>3, <1>4, <1>5, <1>6, <1>7

LEMMA StepIsPromised ==
    ASSUME DeliveryInv, HeldWasPublished, [DeliveryNext]_deliveryVars
    PROVE  [Promise!Next]_(Promise!promiseVars)
<1>1. Kept => UNCHANGED Promise!promiseVars
  BY DEF Kept, Promise!promiseVars
<1>2. CASE OtherStep \/ UNCHANGED deliveryVars
  BY <1>1, <1>2 DEF OtherStep, CancelModule, ExecuteStarts, Produce, AwaitAnswer, ExecuteCloses,
     ExecuteReturns, queueVars, listenVars, deliveryVars, Kept
<1>3. CASE DeliveryNext
  BY <1>1, <1>2, <1>3, BrokerIsPromised, ConsumerIsPromised
  DEF DeliveryNext, BrokerStep, QuietStep, OtherStep
<1> QED
  BY <1>2, <1>3

\* Nothing goes back to not being published, and only what is in the queue is received.
LEMMA HeldWasPublishedStep ==
    ASSUME DeliveryInv, HeldWasPublished, [DeliveryNext]_deliveryVars
    PROVE  HeldWasPublished'
<1>1. \A m \in Messages : place'[m] = "new" => place[m] = "new"
  <2>1. [Promise!Next]_(Promise!promiseVars)
    BY StepIsPromised
  <2> QED
    BY <2>1 DEF Promise!Next, Promise!promiseVars, Promise!Publish, Promise!Deliver, Promise!Handle,
       Promise!Delete, Promise!Bury, Promise!Move, Promise!GiveBack, DeliveryInv, DeliveryTypeOK
<1>2. ASSUME NEW c \in Consumers, NEW x \in {taken'[c], chan'[c], hand'[c]}, x \in Messages
      PROVE  x \in {taken[c], chan[c], hand[c]} \/ place[x] = "queue"
  <2> USE DeliveryAssumption DEF DeliveryInv, DeliveryTypeOK, pollVars, listenVars, testVars, queueVars
  <2>1. CASE UNCHANGED <<taken, chan, hand>>
    BY <1>2, <2>1
  <2>2. ASSUME NEW d \in Consumers, ReceiveMessage(d)
        PROVE  x \in {taken[c], chan[c], hand[c]} \/ place[x] = "queue"
    BY <1>2, <2>2 DEF ReceiveMessage, Hands
  <2>3. ASSUME NEW d \in Consumers, ClosedMeanwhile(d) \/ SkipMalformed(d) \/ Offer(d)
        PROVE  x \in {taken[c], chan[c], hand[c]} \/ place[x] = "queue"
    BY <1>2, <2>3 DEF ClosedMeanwhile, SkipMalformed, Offer, PollDrops
  <2>4. ASSUME NEW d \in Consumers, \/ Listen(d) \/ HandlerSucceeds(d) \/ HandlerFails(d)
                                    \/ ListenerAcks(d) \/ ListenerNacks(d)
        PROVE  x \in {taken[c], chan[c], hand[c]} \/ place[x] = "queue"
    BY <1>2, <2>4 DEF Listen, HandlerSucceeds, HandlerFails, ListenerAcks, ListenerNacks, Settled
  <2>5. ASSUME NEW m \in Messages, BrokerStep(m) PROVE UNCHANGED <<taken, chan, hand>>
    BY <2>5 DEF BrokerStep, Publish, VisibilityTimeout, DeadLetter
  <2>6. ASSUME NEW d \in Consumers, QuietStep(d), ~Listen(d) PROVE UNCHANGED <<taken, chan, hand>>
    BY <2>6 DEF QuietStep, Subscribe, NextReceive, ReceiveNothing, DecodeMessage, Stop
  <2>7. ASSUME NEW d \in Consumers, ReceiveCut(d) PROVE UNCHANGED <<taken, chan, hand>>
    BY <2>7 DEF ReceiveCut
  <2>8. OtherStep => UNCHANGED <<taken, chan, hand>>
    BY DEF OtherStep, CancelModule, ExecuteStarts, Produce, AwaitAnswer, ExecuteCloses, ExecuteReturns
  <2>9. UNCHANGED deliveryVars => UNCHANGED <<taken, chan, hand>>
    BY DEF deliveryVars
  <2> QED
    BY <2>1, <2>2, <2>3, <2>4, <2>5, <2>6, <2>7, <2>8, <2>9
    DEF DeliveryNext, BrokerStep, QuietStep, OtherStep
<1> QED
  BY <1>1, <1>2 DEF HeldWasPublished

\* SQS and Pub/Sub keep the promise of a queue, for any messages, consumers, redeliveries
\* and closes: a message published stays with the queue, to be delivered again, until a
\* handler processed it or it is dead-lettered, and what does not decode is handled by
\* nobody (aws.go:134-201, gcp.go:81-104).
THEOREM DeliveryKeepsPromise == DeliverySpec => DeliversAtLeastOnce
<1>1. DeliveryInit => DeliveryInv /\ HeldWasPublished /\ Promise!Init
  <2>1. ASSUME DeliveryInit PROVE HeldWasPublished /\ Promise!Init
    BY <2>1, DeliveryAssumption DEF DeliveryInit, HeldWasPublished, Promise!Init
  <2> QED
    BY <2>1, DeliveryInvInit
<1>2. DeliveryInv /\ HeldWasPublished /\ [DeliveryNext]_deliveryVars =>
        DeliveryInv' /\ HeldWasPublished' /\ [Promise!Next]_(Promise!promiseVars)
  BY DeliveryInvNext, HeldWasPublishedStep, StepIsPromised
<1> QED
  BY <1>1, <1>2, PTL DEF DeliverySpec, DeliversAtLeastOnce, Promise!Spec

=============================================================================
