--------------------------- MODULE SubscriptionProofs ---------------------------
(***************************************************************************)
(* What holds of a subscription for any messages, any capacity of its queue *)
(* and any number of streams that break and events that fail.               *)
(***************************************************************************)
EXTENDS Subscription, FiniteSetTheorems, TLAPS

\* A permit stands for a stream that is over, until close() releases one more; from then on
\* nobody opens a stream that is not being opened already.
PermitsInv ==
  /\ closing \in {"no", "stopped"} =>
       \/ permits = 0
       \/ permits = 1 /\ phase = "over" /\ receiver \notin {"subscribe", "sleep"}
  /\ running => closing = "no"
  /\ interrupted # {} => closing = "closed"

\* The reference is set when the request is sent.
StreamInv ==
  /\ receiver = "set" => connection > 0
  /\ receiver = "request" \/ requested => streamRef # 0

\* Every SUCCESS on its way is one of the listener's.
AckInv ==
  /\ \A k \in DOMAIN ackQueue :
       ackQueue[k].status = "SUCCESS" => ackQueue[k].message \in answered
  /\ acker = "send" /\ taken.status = "SUCCESS" => taken.message \in answered
  /\ \A d \in handling : d.status = "SUCCESS" => d.message \in answered

\* SubscriptionTypeOK is needed to count permits and deliveries; the three properties are not
\* inductive without what stands behind them.
SubscriptionInv ==
  /\ SubscriptionTypeOK
  /\ PermitsInv /\ OneStreamAtATime
  /\ StreamInv /\ NoEventRefused
  /\ AckInv /\ SettledWasAnswered

-----------------------------------------------------------------------------
(* Identities of deliveries *)

\* There are more identities than deliveries.
LEMMA IdIsFree ==
  ASSUME IsFiniteSet(handling), NEW m,
         handling \subseteq [id : Nat, message : Messages, status : Statuses \union {"none"},
                             sync : BOOLEAN]
  PROVE  FreshId(m) \in Nat
<1> DEFINE ids == {d.id : d \in handling}
           pool == 1 .. Cardinality(handling) + 1
           idOf == [d \in handling |-> d.id]
<1>1. Cardinality(handling) \in Nat
  BY FS_CardinalityType
<1>2. idOf \in Surjection(handling, ids)
  BY DEF Surjection
<1>3. IsFiniteSet(ids) /\ Cardinality(ids) <= Cardinality(handling) /\ Cardinality(ids) \in Nat
  BY <1>2, FS_Surjection, FS_CardinalityType
<1>4. IsFiniteSet(pool) /\ Cardinality(pool) = Cardinality(handling) + 1
  BY <1>1, FS_Interval
<1>5. ~ pool \subseteq ids
  <2>1. SUFFICES ASSUME pool \subseteq ids PROVE FALSE
    OBVIOUS
  <2>2. Cardinality(pool) <= Cardinality(ids)
    BY <1>3, <2>1, FS_Subset
  <2> QED BY <1>1, <1>3, <1>4, <2>2
<1>6. PICK n \in pool : n \notin ids
  BY <1>5
<1>7. \A d \in handling : d.message = m => d.id # n
  BY <1>6
<1>8. FreshId(m) \in pool
  BY <1>6, <1>7 DEF FreshId
<1> QED BY <1>1, <1>8

-----------------------------------------------------------------------------
LEMMA InitSubscription == Init => SubscriptionInv
<1> SUFFICES ASSUME Init PROVE SubscriptionInv
  OBVIOUS
<1>1. IsFiniteSet(handling)
  BY FS_EmptySet DEF Init
<1>2. ackQueue \in Seq(Acks) /\ Len(ackQueue) = 0 /\ wire \in Seq(Messages)
  BY DEF Init
<1>3. streamRef \in 0 .. connection /\ taken \in Acks \union {NoAck} /\ acker # "send"
  BY DEF Init
<1>4. handling = {} /\ Len(ackQueue) <= QueueCapacity
  BY <1>2, SubscriptionAssumption DEF Init
<1>5. SubscriptionTypeOK
  BY <1>1, <1>2, <1>3, <1>4 DEF Init, SubscriptionTypeOK
<1>6. AckInv /\ SettledWasAnswered
  BY DEF Init, AckInv, SettledWasAnswered
<1> QED
  BY <1>5, <1>6 DEF Init, SubscriptionInv, PermitsInv, OneStreamAtATime, StreamInv, NoEventRefused

\* What the receiver's steps and those of close() leave alone keeps what the acks stand for.
LEMMA AcksUnchanged ==
  ASSUME SubscriptionInv, UNCHANGED <<ackVars, listenerVars, settled>>
  PROVE  AckInv' /\ SettledWasAnswered'
BY DEF SubscriptionInv, ackVars, listenerVars, AckInv, SettledWasAnswered

LEMMA DeliverKeeps ==
  ASSUME SubscriptionInv, NEW m \in Messages, Deliver(m)
  PROVE  SubscriptionInv'
<1>1. AckInv' /\ SettledWasAnswered'
  BY AcksUnchanged DEF Deliver
<1> QED
  BY <1>1
     DEF Deliver, SubscriptionInv, SubscriptionTypeOK, PermitsInv, OneStreamAtATime, StreamInv,
         NoEventRefused, threadVars, ackVars, listenerVars

LEMMA DisconnectKeeps ==
  ASSUME SubscriptionInv, Disconnect
  PROVE  SubscriptionInv'
<1>1. AckInv' /\ SettledWasAnswered'
  BY AcksUnchanged DEF Disconnect, Break
<1>2. PICK n \in 0 .. Len(wire) : wire' = SubSeq(wire, 1, n)
  BY DEF Disconnect, Break
<1>3. wire' \in Seq(Messages) /\ (wire' # <<>> => wire # <<>>)
  BY <1>2 DEF SubscriptionInv, SubscriptionTypeOK
<1> QED
  BY <1>1, <1>3
     DEF Disconnect, Break, SubscriptionInv, SubscriptionTypeOK, PermitsInv, OneStreamAtATime,
         StreamInv, NoEventRefused, threadVars, ackVars, listenerVars

LEMMA ReceiverKeeps ==
  ASSUME SubscriptionInv, ReceiverStep
  PROVE  SubscriptionInv'
<1>1. AckInv' /\ SettledWasAnswered'
  BY AcksUnchanged
     DEF ReceiverStep, Subscribe, SetStream, SendRequest, Interrupted, Acquire, WakeUp, sidecarVars
<1> USE <1>1 DEF SubscriptionInv, SubscriptionTypeOK, PermitsInv, OneStreamAtATime, StreamInv,
                 NoEventRefused, ackVars, streamVars, sidecarVars, listenerVars
<1>2. CASE Subscribe
  <2>1. /\ wire' \in Seq(Messages) /\ connection' \in Nat /\ streamRef' \in 0 .. connection'
        /\ receiver' = "set" /\ phase' = "open" /\ requested' = FALSE
    BY <1>2 DEF Subscribe
  <2>2. UNCHANGED <<running, permits, interrupted, closing, ackVars, sidecarVars, listenerVars,
                    breaks>>
    BY <1>2 DEF Subscribe
  <2>3. SubscriptionTypeOK'
    BY <2>1, <2>2
  <2> QED BY <1>2, <2>3 DEF Subscribe
<1>3. CASE SetStream
  BY <1>3 DEF SetStream
<1>4. CASE SendRequest
  BY <1>4 DEF SendRequest
<1>5. CASE Interrupted
  BY <1>5 DEF Interrupted
<1>6. CASE Acquire
  BY <1>6 DEF Acquire, NextRound
<1>7. CASE WakeUp
  BY <1>7 DEF WakeUp, NextRound
<1> QED BY <1>2, <1>3, <1>4, <1>5, <1>6, <1>7 DEF ReceiverStep

LEMMA CloseKeeps ==
  ASSUME SubscriptionInv, Close \/ Release \/ Interrupt
  PROVE  SubscriptionInv'
<1>1. AckInv' /\ SettledWasAnswered'
  BY AcksUnchanged DEF Close, Release, Interrupt, CloseStep, sidecarVars
<1> USE <1>1 DEF SubscriptionInv, SubscriptionTypeOK, PermitsInv, OneStreamAtATime, StreamInv,
                 NoEventRefused, CloseStep, ackVars, streamVars, sidecarVars, listenerVars
<1>2. CASE Close
  BY <1>2 DEF Close
<1>3. CASE Release
  BY <1>3 DEF Release
<1>4. CASE Interrupt
  BY <1>4 DEF Interrupt
<1> QED BY <1>2, <1>3, <1>4

\* The head of a queue of acks stands for what any ack stands for.
LEMMA TakeKeeps ==
  ASSUME SubscriptionInv, Take
  PROVE  SubscriptionInv'
<1> USE DEF SubscriptionInv, SubscriptionTypeOK
<1>1. /\ Head(ackQueue) \in Acks /\ Tail(ackQueue) \in Seq(Acks)
      /\ Len(Tail(ackQueue)) <= QueueCapacity
      /\ Head(ackQueue) = ackQueue[1] /\ 1 \in DOMAIN ackQueue
      /\ \A k \in DOMAIN Tail(ackQueue) :
           Tail(ackQueue)[k] = ackQueue[k + 1] /\ k + 1 \in DOMAIN ackQueue
  BY SubscriptionAssumption DEF Take
<1>2. SubscriptionTypeOK'
  BY <1>1 DEF Take, threadVars, streamVars, sidecarVars, listenerVars
<1>3. AckInv' /\ SettledWasAnswered'
  BY <1>1 DEF Take, AckInv, SettledWasAnswered, sidecarVars, listenerVars
<1> QED
  BY <1>2, <1>3 DEF Take, PermitsInv, OneStreamAtATime, StreamInv, NoEventRefused, threadVars,
                    streamVars

LEMMA SendKeeps ==
  ASSUME SubscriptionInv, Send
  PROVE  SubscriptionInv'
<1> USE DEF SubscriptionInv, SubscriptionTypeOK
<1>1. taken \in Acks /\ taken' = NoAck /\ acker' \in {"take", "sleep", "ended"}
  BY DEF Send, NextRound
<1>2. UNCHANGED <<threadVars, ackQueue, listenerVars, breaks>>
  BY DEF Send
<1>3. CASE UNCHANGED <<streamVars, sidecarVars>>
  BY <1>1, <1>2, <1>3
     DEF PermitsInv, OneStreamAtATime, StreamInv, NoEventRefused, AckInv, SettledWasAnswered,
         threadVars, listenerVars, streamVars, sidecarVars
<1>4. CASE AckArrives(taken)
  <2>1. settled' \subseteq Messages /\ outstanding' \subseteq Messages /\ UNCHANGED streamVars
    BY <1>1, <1>4 DEF AckArrives, Acks
  <2>2. settled' \subseteq answered
    BY <1>1, <1>4 DEF AckArrives, Send, AckInv, SettledWasAnswered, Acks, Statuses
  <2>3. SubscriptionTypeOK'
    BY <1>1, <1>2, <2>1 DEF threadVars, listenerVars, streamVars
  <2> QED
    BY <1>1, <1>2, <2>1, <2>2, <2>3
       DEF PermitsInv, OneStreamAtATime, StreamInv, NoEventRefused, AckInv, SettledWasAnswered,
           threadVars, listenerVars, streamVars
<1>5. CASE phase = "open" /\ Break
  <2>1. PICK n \in 0 .. Len(wire) : wire' = SubSeq(wire, 1, n)
    BY <1>5 DEF Break
  <2>2. wire' \in Seq(Messages) /\ (wire' # <<>> => wire # <<>>)
    BY <2>1
  <2>3. /\ phase = "open" /\ phase' = "gone" /\ outstanding' = {}
        /\ UNCHANGED <<connection, requested, settled>>
    BY <1>5 DEF Break
  <2>4. SubscriptionTypeOK'
    <3>1. UNCHANGED <<running, permits, receiver, interrupted, closing, streamRef, ackQueue,
                      handling, failures, answered, unanswered, breaks>>
      BY <1>2 DEF threadVars, listenerVars
    <3>2. taken' \in Acks \union {NoAck} /\ acker' \in {"take", "sleep", "ended"}
      BY <1>1
    <3>3. wire' \in Seq(Messages)
      BY <2>2
    <3> QED BY <2>3, <3>1, <3>2, <3>3
  <2>5. AckInv' /\ SettledWasAnswered'
    BY <1>1, <1>2, <2>3 DEF AckInv, SettledWasAnswered, listenerVars
  <2> QED
    BY <1>1, <1>2, <2>2, <2>3, <2>4, <2>5
       DEF PermitsInv, OneStreamAtATime, StreamInv, NoEventRefused, threadVars
<1> QED BY <1>3, <1>4, <1>5 DEF Send

LEMMA AckerKeeps ==
  ASSUME SubscriptionInv, AckerStep
  PROVE  SubscriptionInv'
<1>1. CASE AckerInterrupted \/ AckerWakesUp
  <2>1. /\ acker' \in {"take", "ended"}
        /\ UNCHANGED <<threadVars, ackQueue, taken, streamVars, sidecarVars, listenerVars, breaks>>
    BY <1>1 DEF AckerInterrupted, AckerWakesUp, NextRound
  <2>2. SubscriptionTypeOK'
    BY <2>1 DEF SubscriptionInv, SubscriptionTypeOK, threadVars, streamVars, sidecarVars,
                listenerVars
  <2> QED
    BY <2>1, <2>2
       DEF SubscriptionInv, PermitsInv, OneStreamAtATime, StreamInv, NoEventRefused, AckInv,
           SettledWasAnswered, threadVars, streamVars, sidecarVars, listenerVars
<1> QED BY <1>1, TakeKeeps, SendKeeps DEF AckerStep

-----------------------------------------------------------------------------
(* The callbacks and the listener *)

LEMMA OnNextKeeps ==
  ASSUME SubscriptionInv, OnNext
  PROVE  SubscriptionInv'
<1> USE DEF SubscriptionInv, SubscriptionTypeOK
<1>1. PICK outcome \in Outcomes :
        /\ failures' = IF outcome = "failed" THEN failures + 1 ELSE failures
        /\ permits' = permits
        /\ unanswered' = IF outcome = "failed" THEN unanswered \union {Head(wire)}
                         ELSE unanswered \ {Head(wire)}
        /\ handling' =
             IF outcome \in {"within", "later"}
             THEN handling \union {[id |-> FreshId(Head(wire)), message |-> Head(wire),
                                    status |-> "none", sync |-> outcome = "within"]}
             ELSE handling
  BY DEF OnNext, PermitsAfterEvent
<1> DEFINE new == [id |-> FreshId(Head(wire)), message |-> Head(wire), status |-> "none",
                   sync |-> outcome = "within"]
<1>2. Head(wire) \in Messages /\ Tail(wire) \in Seq(Messages) /\ wire # <<>>
  BY DEF OnNext
<1>3. FreshId(Head(wire)) \in Nat
  BY IdIsFree
<1>4. new \in [id : Nat, message : Messages, status : Statuses \union {"none"},
               sync : BOOLEAN]
  BY <1>2, <1>3 DEF Ended
<1>0. /\ handling' \in {handling, handling \union {new}}
      /\ new.status = "none"
  BY <1>1
<1> HIDE DEF new
<1>5. IsFiniteSet(handling')
  BY <1>0, FS_AddElement
<1>6. /\ handling' \subseteq [id : Nat, message : Messages, status : Statuses \union {"none"},
                              sync : BOOLEAN]
      /\ \A d \in handling' : d \in handling \/ d.status = "none"
  BY <1>0, <1>4
<1>7. SubscriptionTypeOK'
  BY <1>1, <1>2, <1>5, <1>6 DEF OnNext, ackVars, sidecarVars
<1>8. AckInv' /\ SettledWasAnswered'
  BY <1>6 DEF OnNext, AckInv, SettledWasAnswered, ackVars, sidecarVars
<1> QED
  BY <1>1, <1>2, <1>7, <1>8
     DEF OnNext, PermitsInv, OneStreamAtATime, StreamInv, NoEventRefused

LEMMA AnswerKeeps ==
  ASSUME SubscriptionInv, NEW d \in handling, Answer(d)
  PROVE  SubscriptionInv'
<1> USE DEF SubscriptionInv, SubscriptionTypeOK
<1>1. PICK answer \in Statuses \union {"error"} :
        /\ failures' = IF answer # "SUCCESS" THEN failures + 1 ELSE failures
        /\ answered' = IF answer = "SUCCESS" THEN answered \union {d.message} ELSE answered
        /\ handling' = (handling \ {d}) \union {[d EXCEPT !.status = StatusOf(answer)]}
  BY DEF Answer
<1> DEFINE new == [d EXCEPT !.status = StatusOf(answer)]
<1>2. /\ new \in [id : Nat, message : Messages, status : Statuses \union {"none"},
                  sync : BOOLEAN]
      /\ new.message = d.message /\ new.status = StatusOf(answer) /\ d.message \in Messages
  BY DEF StatusOf, Statuses
<1>3. new.status = "SUCCESS" => new.message \in answered'
  BY <1>1, <1>2 DEF StatusOf
<1>4. IsFiniteSet(handling \ {d})
  BY FS_RemoveElement
<1>5. IsFiniteSet(handling')
  BY <1>1, <1>4, FS_AddElement
<1>6. /\ handling' \subseteq [id : Nat, message : Messages, status : Statuses \union {"none"},
                              sync : BOOLEAN]
      /\ answered \subseteq answered' /\ answered' \subseteq Messages
  BY <1>1, <1>2
<1>7. SubscriptionTypeOK'
  BY <1>1, <1>5, <1>6 DEF Answer, threadVars, ackVars, streamVars, sidecarVars
<1>8. AckInv' /\ SettledWasAnswered'
  BY <1>1, <1>3, <1>6 DEF Answer, AckInv, SettledWasAnswered, ackVars, sidecarVars
<1> QED
  BY <1>7, <1>8
     DEF Answer, PermitsInv, OneStreamAtATime, StreamInv, NoEventRefused, threadVars, streamVars

LEMMA PutAckKeeps ==
  ASSUME SubscriptionInv, NEW d \in handling, PutAck(d)
  PROVE  SubscriptionInv'
<1> USE DEF SubscriptionInv, SubscriptionTypeOK
<1> DEFINE ack == [message |-> d.message, status |-> d.status]
<1>1. ack \in Acks /\ d.status \in Statuses
  BY DEF PutAck, Acks
<1>2. /\ ackQueue' \in Seq(Acks) /\ Len(ackQueue') = Len(ackQueue) + 1
      /\ Len(ackQueue) < QueueCapacity
      /\ \A k \in DOMAIN ackQueue' :
           IF k \in DOMAIN ackQueue THEN ackQueue'[k] = ackQueue[k] ELSE ackQueue'[k] = ack
  BY <1>1 DEF PutAck
<1>3. IsFiniteSet(handling') /\ handling' \subseteq handling
  BY FS_RemoveElement DEF PutAck
<1>4. Len(ackQueue') <= QueueCapacity
  BY <1>2, SubscriptionAssumption
<1>5. SubscriptionTypeOK'
  BY <1>2, <1>3, <1>4 DEF PutAck, threadVars, streamVars, sidecarVars
<1>6. AckInv' /\ SettledWasAnswered'
  BY <1>2, <1>3 DEF PutAck, AckInv, SettledWasAnswered, sidecarVars
<1> QED
  BY <1>5, <1>6
     DEF PutAck, PermitsInv, OneStreamAtATime, StreamInv, NoEventRefused, threadVars, streamVars

LEMMA EndOfStreamKeeps ==
  ASSUME SubscriptionInv, EndOfStream
  PROVE  SubscriptionInv'
<1>1. AckInv' /\ SettledWasAnswered'
  BY AcksUnchanged DEF EndOfStream, sidecarVars
<1> QED
  BY <1>1
     DEF EndOfStream, SubscriptionInv, SubscriptionTypeOK, PermitsInv, OneStreamAtATime,
         StreamInv, NoEventRefused, ackVars, sidecarVars, listenerVars

LEMMA NextSubscription == SubscriptionInv /\ [Next]_vars => SubscriptionInv'
<1> SUFFICES ASSUME SubscriptionInv, [Next]_vars PROVE SubscriptionInv'
  OBVIOUS
<1>1. CASE UNCHANGED vars
  BY <1>1
     DEF vars, threadVars, ackVars, streamVars, sidecarVars, listenerVars, SubscriptionInv,
         SubscriptionTypeOK, PermitsInv, OneStreamAtATime, StreamInv, NoEventRefused, AckInv,
         SettledWasAnswered
<1> QED
  BY <1>1, DeliverKeeps, DisconnectKeeps, ReceiverKeeps, AckerKeeps, OnNextKeeps,
     EndOfStreamKeeps, AnswerKeeps, PutAckKeeps, CloseKeeps DEF Next, Rest

-----------------------------------------------------------------------------
LEMMA SubscriptionInvariant == Spec => []SubscriptionInv
BY InitSubscription, NextSubscription, PTL DEF Spec

\* Every thread is where it can be, and the queue of acks stays within its capacity.
THEOREM SubscriptionTypeCorrect == Spec => []SubscriptionTypeOK
<1>1. SubscriptionInv => SubscriptionTypeOK
  BY DEF SubscriptionInv
<1> QED BY <1>1, SubscriptionInvariant, PTL

\* An event always finds a stream to be answered on.
THEOREM EventsFindAStream == Spec => []NoEventRefused
<1>1. SubscriptionInv => NoEventRefused
  BY DEF SubscriptionInv
<1> QED BY <1>1, SubscriptionInvariant, PTL

\* No stream is opened while another is open, however many streams break and events fail, and
\* wherever close() comes in between.
THEOREM StreamsDoNotOverlap == Spec => []OneStreamAtATime
<1>1. SubscriptionInv => OneStreamAtATime
  BY DEF SubscriptionInv
<1> QED BY <1>1, SubscriptionInvariant, PTL

\* An event that is settled was answered by the listener, on whatever stream its ack went out.
THEOREM SettledEventsWereAnswered == Spec => []SettledWasAnswered
<1>1. SubscriptionInv => SettledWasAnswered
  BY DEF SubscriptionInv
<1> QED BY <1>1, SubscriptionInvariant, PTL
=============================================================================
