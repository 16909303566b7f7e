------------------------------ MODULE Subscription ------------------------------
(***************************************************************************)
(* Subscription: a streaming subscription of events.  The receiver thread   *)
(* opens a stream, sends the request and waits on a semaphore until the     *)
(* stream has ended, to open the next one; the threads of gRPC call onNext, *)
(* onError and onCompleted, one call at a time; the acker thread sends what *)
(* the listener answered, from a bounded queue, on whatever stream there is.*)
(*                                                                         *)
(* The sidecar is not in this repository: it delivers what is not settled   *)
(* on a stream whose request it has seen, each event once per stream or     *)
(* until it is asked to retry, and forgets its deliveries with the stream.  *)
(* How long a thread sleeps (the backoff) is left out.                      *)
(***************************************************************************)
EXTENDS Naturals, Sequences, FiniteSets

CONSTANTS
  Messages,       \* what is published
  QueueCapacity,  \* of the queue of acks
  MaxBreaks,      \* bound: streams that break
  MaxFailures     \* bound: events the listener fails on, or wants again

ASSUME SubscriptionAssumption ==
  QueueCapacity \in Nat \ {0} /\ MaxBreaks \in Nat /\ MaxFailures \in Nat

VARIABLES
  running, permits,      \* the flag, and the permits of receiverStateChange
  receiver, acker,       \* where the threads are
  interrupted,           \* the threads that are interrupted
  closing,               \* how far close() has got
  streamRef,             \* the stream the acker sends on, 0 for none
  ackQueue,
  taken,                 \* the ack the acker holds, or none
  connection,            \* the last stream opened
  phase,                 \* of that stream: none, open, gone (at the sidecar), over (we were told)
  requested,             \* the sidecar has seen the stream's request
  wire,                  \* events on their way to us
  handling,              \* events the listener works on, or whose ack waits for room
  settled, outstanding,  \* the sidecar's: done with, delivered on this stream
  failures, breaks,      \* counted against the bounds
  answered, unanswered   \* messages answered with SUCCESS, messages whose last delivery failed
                         \* and is not answered (for the properties)

threadVars == <<running, permits, receiver, interrupted, closing, streamRef>>
ackVars == <<acker, ackQueue, taken>>
streamVars == <<connection, phase, requested, wire>>
sidecarVars == <<settled, outstanding>>
listenerVars == <<handling, failures, answered, unanswered>>
vars == <<threadVars, ackVars, streamVars, sidecarVars, listenerVars, breaks>>

\* DROP settles an event like SUCCESS.
Statuses == {"SUCCESS", "RETRY"}
Acks == [message : Messages, status : Statuses]
NoAck == <<>>

Init ==
  /\ running = TRUE /\ permits = 0 /\ interrupted = {} /\ closing = "no"
  /\ receiver = "subscribe" /\ acker = "take"
  /\ streamRef = 0 /\ ackQueue = <<>> /\ taken = NoAck
  /\ connection = 0 /\ phase = "none" /\ requested = FALSE /\ wire = <<>>
  /\ handling = {} /\ failures = 0 /\ answered = {} /\ unanswered = {}
  /\ settled = {} /\ outstanding = {} /\ breaks = 0

\* Both threads have ended: awaitTermination() returns.
Ended == receiver = "ended" /\ acker = "ended"

-----------------------------------------------------------------------------
(* The sidecar *)

Deliver(m) ==
  /\ phase = "open" /\ requested /\ m \notin settled \union outstanding
  /\ outstanding' = outstanding \union {m}
  /\ wire' = Append(wire, m)
  /\ UNCHANGED <<threadVars, ackVars, connection, phase, requested, settled, listenerVars, breaks>>

\* The stream is gone; of what is on its way, some may still come.
Break ==
  /\ phase' = "gone"
  /\ \E n \in 0 .. Len(wire) : wire' = SubSeq(wire, 1, n)
  /\ outstanding' = {}
  /\ UNCHANGED <<connection, requested, settled>>

Disconnect ==
  /\ phase = "open" /\ breaks < MaxBreaks
  /\ breaks' = breaks + 1
  /\ Break
  /\ UNCHANGED <<threadVars, ackVars, listenerVars>>

\* An ack names the event: it counts if that is outstanding.
AckArrives(ack) ==
  /\ outstanding' = outstanding \ {ack.message}
  /\ settled' = IF ack.status # "RETRY" /\ ack.message \in outstanding
                THEN settled \union {ack.message} ELSE settled
  /\ UNCHANGED streamVars

-----------------------------------------------------------------------------
(* The receiver thread *)

\* The head of either loop is part of the step that comes before it.
NextRound(at) == IF running THEN at ELSE "ended"

Subscribe ==
  /\ receiver = "subscribe"
  /\ receiver' = "set"
  /\ connection' = connection + 1 /\ phase' = "open" /\ requested' = FALSE /\ wire' = <<>>
  /\ UNCHANGED <<running, permits, interrupted, closing, streamRef, ackVars, sidecarVars,
                 listenerVars, breaks>>

\* A mistake the runs must notice: the stream is not set before the request is sent.
StreamNotSet ==
  /\ receiver = "set"
  /\ receiver' = "request"
  /\ UNCHANGED <<running, permits, interrupted, closing, streamRef, ackVars, streamVars,
                 sidecarVars, listenerVars, breaks>>

SetStream ==
  /\ receiver = "set"
  /\ receiver' = "request"
  /\ streamRef' = connection
  /\ UNCHANGED <<running, permits, interrupted, closing, ackVars, streamVars, sidecarVars,
                 listenerVars, breaks>>

SendRequest ==
  /\ receiver = "request"
  /\ receiver' = "acquire"
  /\ requested' = (phase = "open")
  /\ UNCHANGED <<running, permits, interrupted, closing, streamRef, ackVars, connection, phase,
                 wire, sidecarVars, listenerVars, breaks>>

\* acquire() and sleep() throw if the thread is interrupted.
Interrupted ==
  /\ receiver \in {"acquire", "sleep"} /\ "receiver" \in interrupted
  /\ running' = FALSE
  /\ receiver' = "ended"
  /\ UNCHANGED <<permits, interrupted, closing, streamRef, ackVars, streamVars, sidecarVars,
                 listenerVars, breaks>>

Acquire ==
  /\ receiver = "acquire" /\ "receiver" \notin interrupted /\ permits > 0
  /\ permits' = permits - 1
  /\ receiver' = NextRound("sleep")
  /\ UNCHANGED <<running, interrupted, closing, streamRef, ackVars, streamVars, sidecarVars,
                 listenerVars, breaks>>

WakeUp ==
  /\ receiver = "sleep" /\ "receiver" \notin interrupted
  /\ receiver' = NextRound("subscribe")
  /\ UNCHANGED <<running, permits, interrupted, closing, streamRef, ackVars, streamVars,
                 sidecarVars, listenerVars, breaks>>

ReceiverStep ==
  \/ Subscribe \/ SetStream \/ SendRequest
  \/ Interrupted \/ Acquire \/ WakeUp

-----------------------------------------------------------------------------
(* The acker thread *)

AckerInterrupted ==
  /\ acker \in {"take", "sleep"} /\ "acker" \in interrupted
  /\ acker' = "ended"
  /\ UNCHANGED <<threadVars, ackQueue, taken, streamVars, sidecarVars, listenerVars, breaks>>

Take ==
  /\ acker = "take" /\ "acker" \notin interrupted /\ ackQueue # <<>>
  /\ acker' = "send"
  /\ taken' = Head(ackQueue) /\ ackQueue' = Tail(ackQueue)
  /\ UNCHANGED <<threadVars, streamVars, sidecarVars, listenerVars, breaks>>

\* The ack goes out on the stream that is set.  One that comes before the stream's request is
\* ignored by the sidecar or makes it end the stream; without a live stream it is lost, and the
\* acker may notice and sleep.
Send ==
  /\ acker = "send"
  /\ taken' = NoAck
  /\ IF streamRef = connection /\ phase = "open"
     THEN /\ acker' = NextRound("take")
          /\ \/ requested /\ AckArrives(taken)
             \/ ~requested /\ UNCHANGED <<streamVars, sidecarVars>>
             \/ ~requested /\ Break
     ELSE /\ acker' \in {NextRound("take"), "sleep"}
          /\ UNCHANGED <<streamVars, sidecarVars>>
  /\ UNCHANGED <<threadVars, ackQueue, listenerVars, breaks>>

AckerWakesUp ==
  /\ acker = "sleep" /\ "acker" \notin interrupted
  /\ acker' = NextRound("take")
  /\ UNCHANGED <<threadVars, ackQueue, taken, streamVars, sidecarVars, listenerVars, breaks>>

AckerStep == AckerInterrupted \/ Take \/ Send \/ AckerWakesUp

-----------------------------------------------------------------------------
(* The stream's callbacks, and the listener *)

\* gRPC calls once at a time: not while a listener answers, or waits for room, in the call.
CallbackFree == \A d \in handling : ~d.sync

\* Tells the deliveries of a message apart.
FreshId(m) ==
  CHOOSE n \in 1 .. Cardinality(handling) + 1 : \A d \in handling : d.message = m => d.id # n

\* What becomes of an event: refused for want of a stream; failed, by the converter or by the
\* listener before it returned a Mono; answered within the call or later.
Outcomes == IF streamRef = 0 THEN {"refused"} ELSE {"failed", "within", "later"}

\* A mistake the runs must notice: an event that fails ends the stream.
PermitsAfterEventReleased(outcome) == IF outcome = "failed" THEN permits + 1 ELSE permits

\* An event that fails is told to the listener, and no more.
PermitsAfterEvent(outcome) == permits

OnNext ==
  /\ wire # <<>> /\ CallbackFree
  /\ wire' = Tail(wire)
  /\ \E outcome \in Outcomes :
       /\ outcome = "failed" => failures < MaxFailures
       /\ failures' = IF outcome = "failed" THEN failures + 1 ELSE failures
       /\ permits' = PermitsAfterEvent(outcome)
       /\ unanswered' = IF outcome = "failed" THEN unanswered \union {Head(wire)}
                        ELSE unanswered \ {Head(wire)}
       /\ handling' =
            IF outcome \in {"within", "later"}
            THEN handling \union {[id |-> FreshId(Head(wire)), message |-> Head(wire), status |-> "none",
                                   sync |-> outcome = "within"]}
            ELSE handling
  /\ UNCHANGED <<running, receiver, interrupted, closing, streamRef, ackVars, connection, phase,
                 requested, sidecarVars, answered, breaks>>

\* A mistake the runs must notice: an error counts as an answer.
ErrorsSucceed(answer) == IF answer = "error" THEN "SUCCESS" ELSE answer

\* onErrorReturn
StatusOf(answer) == IF answer = "error" THEN "RETRY" ELSE answer

Answer(d) ==
  /\ d.status = "none"
  /\ \E answer \in Statuses \union {"error"} :
       /\ answer # "SUCCESS" => failures < MaxFailures
       /\ failures' = IF answer # "SUCCESS" THEN failures + 1 ELSE failures
       /\ answered' = IF answer = "SUCCESS" THEN answered \union {d.message} ELSE answered
       /\ handling' = (handling \ {d}) \union {[d EXCEPT !.status = StatusOf(answer)]}
  /\ UNCHANGED <<threadVars, ackVars, streamVars, sidecarVars, unanswered, breaks>>

\* A mistake the runs must notice: an ack that finds no room is dropped.
OfferAck(d) ==
  /\ d.status # "none"
  /\ ackQueue' = IF Len(ackQueue) < QueueCapacity
                 THEN Append(ackQueue, [message |-> d.message, status |-> d.status])
                 ELSE ackQueue
  /\ handling' = handling \ {d}
  /\ UNCHANGED <<threadVars, acker, taken, streamVars, sidecarVars, failures, answered,
                 unanswered, breaks>>

\* A mistake the runs must notice: the queue has no bound.
AddAck(d) ==
  /\ d.status # "none"
  /\ ackQueue' = Append(ackQueue, [message |-> d.message, status |-> d.status])
  /\ handling' = handling \ {d}
  /\ UNCHANGED <<threadVars, acker, taken, streamVars, sidecarVars, failures, answered,
                 unanswered, breaks>>

PutAck(d) ==
  /\ d.status # "none" /\ Len(ackQueue) < QueueCapacity
  /\ ackQueue' = Append(ackQueue, [message |-> d.message, status |-> d.status])
  /\ handling' = handling \ {d}
  /\ UNCHANGED <<threadVars, acker, taken, streamVars, sidecarVars, failures, answered,
                 unanswered, breaks>>

\* onError or onCompleted
EndOfStream ==
  /\ phase = "gone" /\ wire = <<>> /\ CallbackFree
  /\ phase' = "over"
  /\ permits' = permits + 1
  /\ UNCHANGED <<running, receiver, interrupted, closing, streamRef, ackVars, connection,
                 requested, wire, sidecarVars, listenerVars, breaks>>

-----------------------------------------------------------------------------
(* close(): the steps of the thread that calls it *)

CloseStep(from, to) ==
  /\ closing = from
  /\ closing' = to
  /\ UNCHANGED <<receiver, streamRef, ackVars, streamVars, sidecarVars, listenerVars, breaks>>

Close ==
  /\ CloseStep("no", "stopped")
  /\ running' = FALSE /\ UNCHANGED <<permits, interrupted>>

Release ==
  /\ CloseStep("stopped", "released")
  /\ permits' = permits + 1 /\ UNCHANGED <<running, interrupted>>

\* A mistake the runs must notice: only the receiver is interrupted.
InterruptReceiver ==
  /\ CloseStep("released", "closed")
  /\ interrupted' = {"receiver"} /\ UNCHANGED <<running, permits>>

Interrupt ==
  /\ CloseStep("released", "closed")
  /\ interrupted' = {"receiver", "acker"} /\ UNCHANGED <<running, permits>>

-----------------------------------------------------------------------------
\* Nothing is left to do, or nobody left to do it.
Rest ==
  /\ Ended \/ \A m \in Messages : m \in settled \union unanswered
  /\ UNCHANGED vars

Next ==
  \/ \E m \in Messages : Deliver(m)
  \/ Disconnect
  \/ ReceiverStep \/ AckerStep
  \/ OnNext \/ EndOfStream
  \/ \E d \in handling : Answer(d) \/ PutAck(d)
  \/ Close \/ Release \/ Interrupt
  \/ Rest

Spec == Init /\ [][Next]_vars

\* Threads run, the listener answers, the sidecar delivers.  Nobody need call close().
FairSpec ==
  /\ Spec
  /\ WF_vars(ReceiverStep) /\ WF_vars(AckerStep)
  /\ WF_vars(OnNext) /\ WF_vars(EndOfStream)
  /\ WF_vars(\E d \in handling : Answer(d)) /\ WF_vars(\E d \in handling : PutAck(d))
  /\ WF_vars(Release) /\ WF_vars(Interrupt)
  /\ \A m \in Messages : WF_vars(Deliver(m))

-----------------------------------------------------------------------------
(* Properties *)

SubscriptionTypeOK ==
  /\ running \in BOOLEAN /\ permits \in Nat /\ interrupted \subseteq {"receiver", "acker"}
  /\ closing \in {"no", "stopped", "released", "closed"}
  /\ receiver \in {"subscribe", "set", "request", "acquire", "sleep", "ended"}
  /\ acker \in {"take", "send", "sleep", "ended"}
  /\ connection \in Nat /\ streamRef \in 0 .. connection
  /\ ackQueue \in Seq(Acks) /\ Len(ackQueue) <= QueueCapacity
  /\ taken \in Acks \union {NoAck} /\ (acker = "send" => taken \in Acks)
  /\ phase \in {"none", "open", "gone", "over"} /\ requested \in BOOLEAN
  /\ wire \in Seq(Messages)
  /\ IsFiniteSet(handling)
  /\ handling \subseteq [id : Nat, message : Messages, status : Statuses \union {"none"},
                         sync : BOOLEAN]
  /\ settled \subseteq Messages /\ outstanding \subseteq Messages /\ answered \subseteq Messages
  /\ unanswered \subseteq Messages
  /\ failures \in Nat /\ breaks \in Nat

\* No event finds that there is no stream: the reference is set before the request, which the
\* sidecar must have seen to deliver, is sent.
NoEventRefused == wire # <<>> => streamRef # 0

\* The receiver opens a stream only when it was told that the last one is over: the permits
\* of the semaphore stand for streams that ended, whatever their events did.
OneStreamAtATime ==
  receiver \in {"subscribe", "sleep"} => phase \in {"none", "over"}

\* What the sidecar will not deliver again has been answered: an error of the listener, a lost
\* or a late ack never settles an event.
SettledWasAnswered == settled \subseteq answered

\* close() ends both threads, wherever it finds them: waiting for a permit or for an ack,
\* asleep, or about to open a stream.
CloseEnds == closing # "no" ~> Ended

\* However streams break and acks are lost, late or held up by a full queue: an event is settled
\* in the end, unless the subscription is closed or the last word was a failure nobody answered.
EveryEventSettles ==
  \A m \in Messages : <>[](m \in settled \union unanswered \/ closing # "no")
=============================================================================
