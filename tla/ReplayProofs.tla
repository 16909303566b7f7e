------------------------------ MODULE ReplayProofs ------------------------------
(***************************************************************************)
(* Replay: each turn repeats the ones before it, event by event, and then   *)
(* goes on.                                                                 *)
(*                                                                         *)
(* The executor is restated here as a function from one state of a turn to  *)
(* the next, over a list of events; its actions are shown to follow that    *)
(* function, so that two turns over the same events go through the same     *)
(* states.  A committed history then remembers a run of that function that  *)
(* ends where the last turn ended: the turn that follows goes through it    *)
(* first.                                                                   *)
(***************************************************************************)
EXTENDS WorkflowProofs

-----------------------------------------------------------------------------
(* The executor as a function *)

\* What a turn has come to after the first idx events, in a workflow that is neither complete
\* nor suspended.
Snap(idx, acts, open, seq, queues, buffer, patch, ctl, at, out, seen, exceptions) ==
  [idx |-> idx, acts |-> acts, open |-> open, seq |-> seq, queues |-> queues, buffer |-> buffer,
   patch |-> patch, ctl |-> ctl, at |-> at, out |-> out, seen |-> seen, thrown |-> exceptions]

Now == Snap(ReadCount, pendingActions, openTasks, sequenceNumber, outstandingEvents,
            unprocessedEvents, appliedPatch, control, pc, outcome, observed, thrown)

Begin == Snap(0, NoTasks, NoTasks, 0, [n \in EventNames |-> <<>>], <<>>, "unset", "loop", 1,
              [s \in Slots |-> Pending], NoTasks, {})

\* Control passes to the loop, or nowhere: the workflow is "over", the history is "read".
Turned(x, ctl) == Snap(x.idx, x.acts, x.open, x.seq, x.queues, x.buffer, x.patch, ctl, x.at, x.out,
                       x.seen, x.thrown)

CodeAt(x, op) == x.ctl = "user" /\ x.at \in DOMAIN program /\ program[x.at].op = op
DoneIn(x, slot) == x.out[slot].kind # "pending"
Satisfied(x) ==
  LET on == ToSet(program[x.at].on)
  IN IF program[x.at].any THEN \E s \in on : DoneIn(x, s) ELSE \A s \in on : DoneIn(x, s)
Pumps(x) == x.ctl = "loop" \/ (CodeAt(x, "await") /\ ~Satisfied(x))

(* What an event does. *)

Passing(x, ctl) ==
  Snap(x.idx + 1, x.acts, x.open, x.seq, x.queues, x.buffer, x.patch, ctl, x.at, x.out, x.seen,
       x.thrown)

Throwing(x, exception, acts, open, seq) ==
  Snap(x.idx + 1, acts, open, seq, x.queues, x.buffer, x.patch,
       IF x.ctl = "loop" THEN "over" ELSE x.ctl, x.at, x.out, x.seen, x.thrown \union {exception})

Confirming(x, e, kinds) ==
  LET drop == /\ e.id \in DOMAIN x.acts
              /\ x.acts[e.id].kind = "optionalTimer"
              /\ e.name # "optionalTimer"
      acts == IF drop THEN ShiftDown(x.acts, e.id) ELSE x.acts
      open == IF drop THEN ShiftDown(x.open, e.id) ELSE x.open
      seq == IF drop THEN x.seq - 1 ELSE x.seq
      others == Restrict(acts, DOMAIN acts \ {e.id})
  IN IF e.id \in DOMAIN acts /\ acts[e.id].kind \in kinds
     THEN Snap(x.idx + 1, others, open, seq, x.queues, x.buffer, x.patch, x.ctl, x.at, x.out,
               x.seen, x.thrown)
     ELSE Throwing(x, "NonDeterministicOrchestratorException",
                   IF kinds = TimerKinds THEN others ELSE acts, open, seq)

Closing(x, id, result) ==
  LET slot == x.open[id]
      open == Restrict(x.open, DOMAIN x.open \ {id})
  IN IF id \notin DOMAIN x.open THEN Passing(x, x.ctl)
     ELSE IF ~IsWait(slot)
     THEN Snap(x.idx + 1, x.acts, open, x.seq, x.queues, x.buffer, x.patch, x.ctl, x.at,
               [x.out EXCEPT ![slot] = result], x.seen, x.thrown)
     ELSE IF ~DoneIn(x, slot) /\ result.kind = "ok"
     THEN Snap(x.idx + 1, x.acts, open, x.seq,
               [x.queues EXCEPT ![program[slot].name] = RemoveFirst(@, slot)], x.buffer, x.patch,
               x.ctl, x.at, [x.out EXCEPT ![slot] = Canceled], x.seen, x.thrown)
     ELSE Snap(x.idx + 1, x.acts, open, x.seq, x.queues, x.buffer, x.patch, x.ctl, x.at, x.out,
               x.seen, x.thrown)

Raising(x, e) ==
  LET waiters == x.queues[e.name]
  IN IF waiters = <<>>
     THEN Snap(x.idx + 1, x.acts, x.open, x.seq, x.queues, Append(x.buffer, e), x.patch, x.ctl,
               x.at, x.out, x.seen, x.thrown)
     ELSE Snap(x.idx + 1, x.acts, x.open, x.seq, [x.queues EXCEPT ![e.name] = Tail(@)], x.buffer,
               x.patch, x.ctl, x.at, [x.out EXCEPT ![Head(waiters)] = Deserialize(e.val)],
               x.seen, x.thrown)

Handling(x, e) ==
  IF e.type = "WorkflowStarted" THEN Passing(x, x.ctl)
  ELSE IF e.type = "ExecutionStarted" THEN Passing(x, "user")
  ELSE IF e.type = "TaskScheduled" THEN Confirming(x, e, {"scheduleTask"})
  ELSE IF e.type = "ChildWorkflowInstanceCreated" THEN Confirming(x, e, {"createChildWorkflow"})
  ELSE IF e.type = "TimerCreated" THEN
         IF e.id = InfrastructureTimer THEN Passing(x, x.ctl) ELSE Confirming(x, e, TimerKinds)
  ELSE IF e.type = "EventSent" THEN Throwing(x, "IllegalStateException", x.acts, x.open, x.seq)
  ELSE IF e.type \in {"TaskCompleted", "ChildWorkflowInstanceCompleted"}
       THEN Closing(x, e.id, Deserialize(e.val))
  ELSE IF e.type \in {"TaskFailed", "ChildWorkflowInstanceFailed"} THEN Closing(x, e.id, Failed)
  ELSE IF e.type = "TimerFired" THEN Closing(x, e.id, Result(0))
  ELSE IF e.type = "EventRaised" THEN Raising(x, e)
  ELSE Turned(x, "over")

(* What a call of the code does. *)

Asking(x, kind) ==
  Snap(x.idx, Put(x.acts, x.seq, Action(kind, x.at)), Put(x.open, x.seq, x.at), x.seq + 1,
       x.queues, x.buffer, x.patch, x.ctl, x.at + 1, x.out, x.seen, x.thrown)

Sending(x) ==
  Snap(x.idx, Put(x.acts, x.seq, Action("sendEvent", x.at)), x.open, x.seq + 1,
       x.queues, x.buffer, x.patch, x.ctl, x.at + 1, x.out, x.seen, x.thrown)

Buffered(x) ==
  SelectInSeq(x.buffer, LAMBDA e : CaseFold[e.name] = CaseFold[program[x.at].name])

Awaiting(x) ==
  LET i == Buffered(x)
      id == x.seq + 1
      kind == IF program[x.at].timeout = Indefinite THEN "optionalTimer" ELSE "eventTimer"
  IN IF i # 0 THEN
       IF x.buffer[i].val = BadPayload THEN Turned(x, "over")
       ELSE Snap(x.idx, x.acts, x.open, x.seq + 1, x.queues, RemoveAt(x.buffer, i), x.patch, x.ctl,
                 x.at + 1, [x.out EXCEPT ![x.at] = Result(x.buffer[i].val)], x.seen, x.thrown)
     ELSE IF program[x.at].timeout = ZeroTimeout
     THEN Snap(x.idx, x.acts, x.open, x.seq + 1, x.queues, x.buffer, x.patch, x.ctl,
               x.at + 1, [x.out EXCEPT ![x.at] = Canceled], x.seen, x.thrown)
     ELSE Snap(x.idx, Put(x.acts, id, Action(kind, x.at)), Put(x.open, id, x.at), x.seq + 2,
               [x.queues EXCEPT ![program[x.at].name] = Append(@, x.at)], x.buffer, x.patch, x.ctl,
               x.at + 1, x.out, x.seen, x.thrown)

\* An instance that started with the patch always has it.
Patching(x) ==
  Snap(x.idx, x.acts, x.open, x.seq, x.queues, x.buffer, "yes", x.ctl, x.at + 1, x.out,
       Put(x.seen, x.at, [s \in {x.at} |-> Result(1)]), x.thrown)

Handed(x) ==
  LET on == program[x.at].on
  IN IF program[x.at].any THEN Restrict(x.out, {on[SelectInSeq(on, LAMBDA s : DoneIn(x, s))]})
     ELSE Restrict(x.out, ToSet(on))

Continuing(x) ==
  LET given == Handed(x)
  IN IF (\E s \in DOMAIN given : given[s].kind \in {"failed", "canceled"}) /\ ~program[x.at].catch
     THEN Turned(x, "over")
     ELSE Snap(x.idx, x.acts, x.open, x.seq, x.queues, x.buffer, x.patch, x.ctl, x.at + 1, x.out,
               Put(x.seen, x.at, given), x.thrown)

Calling(x) ==
  LET op == program[x.at].op
  IN IF op = "callActivity" THEN Asking(x, "scheduleTask")
     ELSE IF op = "callSubOrchestrator" THEN Asking(x, "createChildWorkflow")
     ELSE IF op = "createTimer" THEN Asking(x, "createTimer")
     ELSE IF op = "sendEvent" THEN Sending(x)
     ELSE IF op = "waitForExternalEvent" THEN Awaiting(x)
     ELSE IF op = "isPatched" THEN Patching(x)
     ELSE IF op = "await" THEN Continuing(x)
     ELSE Turned(x, "over")

\* The state after x, over the events of H.
After(x, H) ==
  IF Pumps(x) THEN IF x.idx + 1 \in DOMAIN H THEN Handling(x, H[x.idx + 1]) ELSE Turned(x, "read")
  ELSE IF x.at \notin DOMAIN program THEN Turned(x, "loop")
  ELSE Calling(x)

-----------------------------------------------------------------------------
(* The actions follow the function *)

\* Nobody suspends the instance, and its SDK and its code are the new ones.
Calm ==
  /\ sdkEmitsOptionalTimer /\ patchDeployed
  /\ ~isSuspended /\ ~draining /\ eventsWhileSuspended = <<>>

\* isPatched says yes.
Answered == Running("isPatched") => CheckPatch = "yes"

\* The parts of the present state.
LEMMA NowIs ==
  /\ Now.idx = ReadCount /\ Now.acts = pendingActions /\ Now.open = openTasks
  /\ Now.seq = sequenceNumber /\ Now.queues = outstandingEvents /\ Now.buffer = unprocessedEvents
  /\ Now.patch = appliedPatch /\ Now.ctl = control /\ Now.at = pc /\ Now.out = outcome
  /\ Now.seen = observed /\ Now.thrown = thrown
BY DEF Now, Snap

\* What the code stands at, as the actions ask it.
LEMMA NowRuns ==
  ASSUME ~draining, control \in {"loop", "user"}
  PROVE  /\ Satisfied(Now) <=> AwaitOver
         /\ Pumps(Now) <=> Pumping
         /\ \A op : CodeAt(Now, op) <=> Running(op)
<1>1. Satisfied(Now) <=> AwaitOver
  BY NowIs DEF Satisfied, AwaitOver, Done, DoneIn
<1>2. \A op : CodeAt(Now, op) <=> Running(op)
  BY NowIs DEF CodeAt, Running
<1> QED BY <1>1, <1>2, NowIs DEF Pumps, Pumping

\* An event that is read is handled.
LEMMA EventFollows ==
  ASSUME IterTypeOK, IterInv, ~draining, NEW type, Read(type)
  PROVE  /\ After(Now, Given) = Handling(Now, NextEvent) /\ NextEvent.type = type
         /\ ReadCount' = ReadCount + 1 /\ observed' = observed /\ pc' = pc
<1>1. IsNext(NextEvent) /\ NextEvent.type = type
  BY ReadIsNext DEF Read
<1>2. Pumping /\ control \in {"loop", "user"}
  BY DEF Read, Pumping, Running
<1>3. Pumps(Now)
  BY <1>2, NowRuns
<1>4. observed' = observed /\ pc' = pc
  BY DEF Read
<1> QED BY <1>1, <1>3, <1>4, NowIs DEF After, IsNext

\* The workflow goes on as the function says, or is over.
Goes(y) ==
  \/ ~isComplete' /\ control' \in {"loop", "user"} /\ Now' = y
  \/ isComplete' /\ y.ctl = "over"

\* A handler that throws.
LEMMA ThrowsFollow ==
  ASSUME ~isComplete, control \in {"loop", "user"}, NEW exception, NEW acts, NEW seq,
         Throws(exception, acts, seq), ReadCount' = ReadCount + 1,
         UNCHANGED <<eventVars, patchVars, outcome, observed, pc>>
  PROVE  Goes(Throwing(Now, exception, acts, openTasks', seq))
<1>1. CASE control = "user"
  BY <1>1, NowIs DEF Throws, Goes, Throwing, Snap, Now, eventVars, patchVars, endVars
<1>2. CASE control = "loop"
  <2>1. isComplete'
    BY <1>2 DEF Throws, FailExecution, CompleteInternal
  <2>2. Throwing(Now, exception, acts, openTasks', seq).ctl = "over"
    BY <1>2, NowIs DEF Throwing, Snap
  <2> QED BY <2>1, <2>2 DEF Goes
<1> QED BY <1>1, <1>2

\* A confirmation.
LEMMA ConfirmFollows ==
  ASSUME ~isComplete, control \in {"loop", "user"}, NEW kinds, Confirm(kinds),
         ReadCount' = ReadCount + 1, observed' = observed, pc' = pc
  PROVE  Goes(Confirming(Now, NextEvent, kinds))
<1> DEFINE id == NextEvent.id
           drop == Superfluous(NextEvent)
           acts == IF drop THEN ShiftDown(pendingActions, id) ELSE pendingActions
           open == IF drop THEN ShiftDown(openTasks, id) ELSE openTasks
           seq == IF drop THEN sequenceNumber - 1 ELSE sequenceNumber
           others == Restrict(acts, DOMAIN acts \ {id})
           found == id \in DOMAIN acts /\ acts[id].kind \in kinds
           left == IF kinds = TimerKinds THEN others ELSE acts
<1>1. Confirming(Now, NextEvent, kinds) =
        IF found
        THEN Snap(ReadCount + 1, others, open, seq, outstandingEvents, unprocessedEvents,
                  appliedPatch, control, pc, outcome, observed, thrown)
        ELSE Throwing(Now, "NonDeterministicOrchestratorException", left, open, seq)
  BY NowIs, Zenon DEF Confirming, Superfluous
<1>2. /\ openTasks' = open /\ UNCHANGED <<eventVars, patchVars, outcome>>
      /\ \/ /\ found /\ pendingActions' = others /\ sequenceNumber' = seq
            /\ Returns /\ UNCHANGED thrown
         \/ /\ ~found
            /\ Throws("NonDeterministicOrchestratorException", left, seq)
  BY DEF Confirm
<1> HIDE DEF found, others, open, seq, left
<1>3. CASE found
  BY <1>1, <1>2, <1>3 DEF Goes, Returns, Now, endVars, eventVars, patchVars
<1>4. CASE ~found
  BY <1>1, <1>2, <1>4, ThrowsFollow
<1> QED BY <1>3, <1>4

\* A completion, or a timer that fires.
LEMMA CloseFollows ==
  ASSUME ~isComplete, control \in {"loop", "user"}, NEW id, NEW result, CloseTask(id, result),
         ReadCount' = ReadCount + 1, observed' = observed, pc' = pc
  PROVE  Goes(Closing(Now, id, result))
<1>1. UNCHANGED <<pendingActions, sequenceNumber, unprocessedEvents, patchVars, thrown, endVars,
                  control>>
  BY DEF CloseTask, Returns
<1>2. Now' = Closing(Now, id, result)
  <2>1. CASE id \notin DOMAIN openTasks
    BY <1>1, <2>1, NowIs DEF CloseTask, Closing, Passing, Now, patchVars
  <2>2. CASE id \in DOMAIN openTasks
    <3> DEFINE slot == openTasks[id]
    <3>1. openTasks' = Restrict(openTasks, DOMAIN openTasks \ {id})
      BY <2>2 DEF CloseTask
    <3>2. DoneIn(Now, slot) <=> Done(slot)
      BY NowIs DEF DoneIn, Done
    <3> QED BY <1>1, <2>2, <3>1, <3>2, NowIs DEF CloseTask, Closing, Now, patchVars
  <2> QED BY <2>1, <2>2
<1> QED BY <1>1, <1>2 DEF Goes, endVars

\* An external event.
LEMMA RaiseFollows ==
  ASSUME ~isComplete, control \in {"loop", "user"}, HandleEventRaised,
         ReadCount' = ReadCount + 1, observed' = observed, pc' = pc
  PROVE  Goes(Raising(Now, NextEvent))
<1>1. UNCHANGED <<taskVars, patchVars, thrown, endVars, control>>
  BY DEF HandleEventRaised, Returns
<1>2. Now' = Raising(Now, NextEvent)
  BY <1>1, NowIs DEF HandleEventRaised, Raising, Now, taskVars, patchVars
<1> QED BY <1>1, <1>2 DEF Goes, endVars

\* Nobody asked to suspend the instance, nor to resume it.
Suspending == {"ExecutionSuspended", "ExecutionResumed"}
NeverSuspended == \A i \in DOMAIN Given : Given[i].type \notin Suspending

\* What the invariants say of an execution that runs.
Underway ==
  /\ FullInv /\ IterInv /\ Calm /\ Answered /\ NeverSuspended
  /\ ~isComplete /\ control \in {"loop", "user"}

\* Every event is handled as the function says, or ends the turn.
LEMMA HandleEventFollows ==
  ASSUME Underway, HandleEvent
  PROVE  /\ Pumps(Now) /\ ReadCount + 1 \in DOMAIN Given
         /\ Goes(Handling(Now, Given[ReadCount + 1]))
<1>1. /\ IterTypeOK /\ IterInv /\ ~draining /\ ~isComplete /\ control \in {"loop", "user"}
      /\ ~isSuspended /\ eventsWhileSuspended = <<>>
  BY DEF Underway, FullInv, ExecutorInv, ExecutorTypeOK, Calm
<1>2. PICK type \in EventTypes : Read(type)
  BY EventIsRead
<1>3. /\ NextEvent = Given[ReadCount + 1] /\ NextEvent.type = type
      /\ ReadCount + 1 \in DOMAIN Given
      /\ ReadCount' = ReadCount + 1 /\ observed' = observed /\ pc' = pc
  BY <1>1, <1>2, ReadIsNext DEF IsNext, Read
<1>4. Pumps(Now)
  BY <1>1, <1>2, NowRuns DEF Read
<1> SUFFICES Goes(Handling(Now, NextEvent))
  BY <1>3, <1>4
<1>5. ASSUME NEW t, Read(t)
      PROVE  NextEvent.type = t
  BY <1>5 DEF Read
<1>6. CASE HandleTaskScheduled
  <2>1. NextEvent.type = "TaskScheduled" /\ Confirm({"scheduleTask"})
    BY <1>5, <1>6 DEF HandleTaskScheduled, Handle
  <2>2. Handling(Now, NextEvent) = Confirming(Now, NextEvent, {"scheduleTask"})
    BY <2>1 DEF Handling
  <2> QED BY <1>1, <1>3, <2>1, <2>2, ConfirmFollows
<1>7. CASE HandleSubOrchestrationCreated
  <2>1. NextEvent.type = "ChildWorkflowInstanceCreated" /\ Confirm({"createChildWorkflow"})
    BY <1>5, <1>7 DEF HandleSubOrchestrationCreated, Handle
  <2>2. Handling(Now, NextEvent) = Confirming(Now, NextEvent, {"createChildWorkflow"})
    BY <2>1 DEF Handling
  <2> QED BY <1>1, <1>3, <2>1, <2>2, ConfirmFollows
<1>8. CASE HandleTimerCreated
  <2>1. NextEvent.type = "TimerCreated" /\ Confirm(TimerKinds) /\ NextEvent.id # InfrastructureTimer
    BY <1>5, <1>8 DEF HandleTimerCreated, Handle
  <2>2. Handling(Now, NextEvent) = Confirming(Now, NextEvent, TimerKinds)
    BY <2>1 DEF Handling
  <2> QED BY <1>1, <1>3, <2>1, <2>2, ConfirmFollows
<1>9. CASE HandleTaskCompleted \/ HandleSubOrchestrationCompleted
  <2>1. /\ NextEvent.type \in {"TaskCompleted", "ChildWorkflowInstanceCompleted"}
        /\ CloseTask(NextEvent.id, Deserialize(NextEvent.val))
    BY <1>5, <1>9 DEF HandleTaskCompleted, HandleSubOrchestrationCompleted, Handle
  <2>2. Handling(Now, NextEvent) = Closing(Now, NextEvent.id, Deserialize(NextEvent.val))
    BY <2>1 DEF Handling
  <2> QED BY <1>1, <1>3, <2>1, <2>2, CloseFollows
<1>10. CASE HandleTaskFailed \/ HandleSubOrchestrationFailed
  <2>1. /\ NextEvent.type \in {"TaskFailed", "ChildWorkflowInstanceFailed"}
        /\ CloseTask(NextEvent.id, Failed)
    BY <1>5, <1>10 DEF HandleTaskFailed, HandleSubOrchestrationFailed, Handle
  <2>2. Handling(Now, NextEvent) = Closing(Now, NextEvent.id, Failed)
    BY <2>1 DEF Handling
  <2> QED BY <1>1, <1>3, <2>1, <2>2, CloseFollows
<1>11. CASE HandleTimerFired
  <2>1. NextEvent.type = "TimerFired" /\ CloseTask(NextEvent.id, Result(0))
    BY <1>5, <1>11 DEF HandleTimerFired, Handle
  <2>2. Handling(Now, NextEvent) = Closing(Now, NextEvent.id, Result(0))
    BY <2>1 DEF Handling
  <2> QED BY <1>1, <1>3, <2>1, <2>2, CloseFollows
<1>12. CASE HandleEventRaised
  <2>1. NextEvent.type = "EventRaised"
    BY <1>5, <1>12 DEF HandleEventRaised, Handle
  <2>2. Handling(Now, NextEvent) = Raising(Now, NextEvent)
    BY <2>1 DEF Handling
  <2> QED BY <1>1, <1>3, <1>12, <2>2, RaiseFollows
<1>13. CASE HandleUnknown
  <2>1. NextEvent.type = "EventSent"
    BY <1>5, <1>13 DEF HandleUnknown, Handle
  <2>2. /\ Throws("IllegalStateException", pendingActions, sequenceNumber)
        /\ UNCHANGED <<openTasks, eventVars, patchVars, outcome>>
    BY <1>13 DEF HandleUnknown
  <2>3. Handling(Now, NextEvent) =
          Throwing(Now, "IllegalStateException", pendingActions, openTasks', sequenceNumber)
    BY <2>1, <2>2, NowIs DEF Handling
  <2> QED BY <1>1, <1>3, <2>2, <2>3, ThrowsFollow
<1>14. CASE HandleWorkflowStarted \/ HandleInfrastructureTimer
  <2>1. Handling(Now, NextEvent) = Passing(Now, control)
    <3>1. \/ NextEvent.type = "WorkflowStarted"
          \/ NextEvent.type = "TimerCreated" /\ NextEvent.id = InfrastructureTimer
      BY <1>5, <1>14 DEF HandleWorkflowStarted, HandleInfrastructureTimer, Handle
    <3> QED BY <3>1, NowIs DEF Handling
  <2>2. UNCHANGED <<taskVars, eventVars, appliedPatch, outcome, thrown, control, endVars>>
    BY <1>14 DEF HandleWorkflowStarted, HandleInfrastructureTimer, Returns, patchVars
  <2>3. Now' = Passing(Now, control)
    BY <1>3, <2>2, NowIs DEF Now, Passing, taskVars, eventVars
  <2> QED BY <1>1, <2>1, <2>2, <2>3 DEF Goes, endVars
<1>15. CASE HandleExecutionStarted
  <2>1. NextEvent.type = "ExecutionStarted"
    BY <1>5, <1>15 DEF HandleExecutionStarted, Handle
  <2>2. Handling(Now, NextEvent) = Passing(Now, "user")
    BY <2>1 DEF Handling
  <2>3. control' = "user" /\ UNCHANGED <<taskVars, eventVars, patchVars, outcome, thrown, endVars>>
    BY <1>15 DEF HandleExecutionStarted
  <2>4. Now' = Passing(Now, "user")
    BY <1>3, <2>3, NowIs DEF Now, Passing, taskVars, eventVars, patchVars
  <2> QED BY <1>1, <2>2, <2>3, <2>4 DEF Goes, endVars
<1>16. CASE HandleExecutionTerminated
  <2>1. NextEvent.type = "ExecutionTerminated"
    BY <1>5, <1>16 DEF HandleExecutionTerminated
  <2>2. Handling(Now, NextEvent).ctl = "over"
    BY <2>1 DEF Handling, Turned, Snap
  <2>3. isComplete'
    BY <1>1, <1>16 DEF HandleExecutionTerminated, CompleteInternal
  <2> QED BY <2>2, <2>3 DEF Goes
<1>17. CASE HandleEventWhileSuspended \/ HandleExecutionSuspended \/ HandleExecutionResumed
  <2>1. NextEvent.type \notin Suspending
    BY <1>3 DEF Underway, NeverSuspended
  <2> QED BY <1>1, <1>5, <1>17, <2>1
          DEF HandleEventWhileSuspended, HandleExecutionSuspended, HandleExecutionResumed,
              Suspending
<1> QED BY <1>6, <1>7, <1>8, <1>9, <1>10, <1>11, <1>12, <1>13, <1>14, <1>15, <1>16, <1>17
        DEF HandleEvent

\* An exception that leaves the code.
LEMMA CodeThrowsFollow ==
  ASSUME ~isComplete, NEW acts, NEW seq, FailExecution(acts, seq)
  PROVE  isComplete'
BY DEF FailExecution, CompleteInternal

\* A call that asks for work.
LEMMA ScheduleFollows ==
  ASSUME Underway, NEW op, NEW kind, Code(op), Schedule(kind)
  PROVE  Goes(Asking(Now, kind))
<1>1. UNCHANGED <<eventVars, patchVars, outcome, observed, control, endVars, thrown, iterVars>>
  BY DEF Code, Schedule, Proceed
<1>2. ReadCount' = ReadCount
  BY <1>1 DEF ReadCount, iterVars
<1>3. Now' = Asking(Now, kind)
  BY <1>1, <1>2, NowIs DEF Schedule, Proceed, Now, Asking, eventVars, patchVars
<1> QED BY <1>1, <1>3 DEF Goes, Underway, endVars

\* A wait for an external event, in each of its three endings.
LEMMA WaitFollows ==
  ASSUME Underway, WaitFindsEvent \/ WaitTimesOutAtOnce \/ WaitForExternalEvent
  PROVE  Goes(Awaiting(Now))
<1>1. Code("waitForExternalEvent") /\ ~isComplete /\ control \in {"loop", "user"}
  BY DEF WaitFindsEvent, WaitTimesOutAtOnce, WaitForExternalEvent, Underway
<1>2. UNCHANGED <<thrown, iterVars>>
  BY <1>1 DEF Code
<1>3. ReadCount' = ReadCount
  BY <1>2 DEF ReadCount, iterVars
<1>4. Buffered(Now) = BufferedEvent(program[pc].name)
  BY NowIs, Zenon DEF Buffered, BufferedEvent, SelectInSeq
<1> DEFINE i == Buffered(Now)
<1> HIDE DEF i
<1>5. CASE WaitFindsEvent
  <2>1. i # 0
    BY <1>4, <1>5 DEF WaitFindsEvent, i
  <2>2. CASE unprocessedEvents[i].val = BadPayload
    <3>1. isComplete'
      BY <1>1, <1>4, <1>5, <2>2, CodeThrowsFollow DEF WaitFindsEvent, i, CodeThrows
    <3>2. Awaiting(Now) = Turned(Now, "over")
      BY <2>1, <2>2, NowIs DEF Awaiting, i
    <3> QED BY <3>1, <3>2 DEF Goes, Turned, Snap
  <2>3. CASE unprocessedEvents[i].val # BadPayload
    <3>1. /\ outcome' = [outcome EXCEPT ![pc] = Result(unprocessedEvents[i].val)]
          /\ unprocessedEvents' = RemoveAt(unprocessedEvents, i)
          /\ sequenceNumber' = sequenceNumber + 1 /\ Proceed
          /\ UNCHANGED <<pendingActions, openTasks, outstandingEvents, patchVars, observed>>
      BY <1>4, <1>5, <2>3 DEF WaitFindsEvent, i
    <3>2. Now' = Awaiting(Now)
      BY <1>2, <1>3, <2>1, <2>3, <3>1, NowIs DEF Awaiting, i, Now, Proceed, patchVars
    <3> QED BY <1>1, <3>1, <3>2 DEF Goes, Proceed, endVars
  <2> QED BY <2>2, <2>3
<1>6. CASE WaitTimesOutAtOnce
  <2>1. i = 0 /\ program[pc].timeout = ZeroTimeout
    BY <1>4, <1>6 DEF WaitTimesOutAtOnce, i
  <2>2. /\ outcome' = [outcome EXCEPT ![pc] = Canceled]
        /\ sequenceNumber' = sequenceNumber + 1 /\ Proceed
        /\ UNCHANGED <<pendingActions, openTasks, eventVars, patchVars, observed>>
    BY <1>6 DEF WaitTimesOutAtOnce
  <2>3. Now' = Awaiting(Now)
    BY <1>2, <1>3, <2>1, <2>2, NowIs DEF Awaiting, i, Now, Proceed, patchVars, eventVars
  <2> QED BY <1>1, <2>2, <2>3 DEF Goes, Proceed, endVars
<1>7. CASE WaitForExternalEvent
  <2> DEFINE id == sequenceNumber + 1
             kind == IF program[pc].timeout = Indefinite THEN "optionalTimer" ELSE "eventTimer"
  <2>1. i = 0 /\ program[pc].timeout # ZeroTimeout
    BY <1>4, <1>7 DEF WaitForExternalEvent, i
  <2>2. /\ outstandingEvents' = [outstandingEvents EXCEPT ![program[pc].name] = Append(@, pc)]
        /\ pendingActions' = Put(pendingActions, id, Action(kind, pc))
        /\ openTasks' = Put(openTasks, id, pc)
        /\ sequenceNumber' = sequenceNumber + 2
        /\ Proceed /\ UNCHANGED <<unprocessedEvents, patchVars, outcome, observed>>
    BY <1>7 DEF WaitForExternalEvent, Underway, Calm
  <2>3. Now' = Awaiting(Now)
    BY <1>2, <1>3, <2>1, <2>2, NowIs DEF Awaiting, i, Now, Proceed, patchVars
  <2> QED BY <1>1, <2>2, <2>3 DEF Goes, Proceed, endVars
<1> QED BY <1>5, <1>6, <1>7

\* A question for a patch.
LEMMA PatchFollows ==
  ASSUME Underway, IsPatched
  PROVE  Goes(Patching(Now)) /\ (encounteredPatch)' = TRUE
<1>1. CheckPatch = "yes" /\ patchDeployed
  BY DEF Underway, Answered, IsPatched, Code, Calm
<1>2. UNCHANGED <<control, endVars, taskVars, eventVars, outcome, thrown, iterVars>>
  BY DEF IsPatched, Code
<1>3. /\ appliedPatch' = "yes" /\ encounteredPatch' = TRUE /\ pc' = pc + 1
      /\ observed' = Put(observed, pc, [s \in {pc} |-> Result(1)])
  <2> DEFINE answer == CheckPatch
  <2>1. /\ appliedPatch' = answer /\ encounteredPatch' = (encounteredPatch \/ answer = "yes")
        /\ observed' = Put(observed, pc, [s \in {pc} |-> Result(IF answer = "yes" THEN 1 ELSE 0)])
        /\ pc' = IF answer = "yes" THEN pc + 1 ELSE pc + 1 + program[pc].skip
    BY <1>1, Zenon DEF IsPatched
  <2> QED BY <1>1, <2>1
<1>4. ReadCount' = ReadCount
  BY <1>2 DEF ReadCount, iterVars
<1>5. Now' = Patching(Now)
  BY <1>2, <1>3, <1>4, NowIs DEF Patching, Now, taskVars, eventVars
<1> QED BY <1>2, <1>3, <1>5 DEF Goes, Underway, endVars

\* An await that is over.
LEMMA AwaitFollows ==
  ASSUME Underway, Await
  PROVE  Goes(Continuing(Now))
<1>1. ~isComplete /\ control \in {"loop", "user"}
  BY DEF Underway
<1>2. UNCHANGED <<openTasks, eventVars, patchVars, outcome, thrown, iterVars>>
  BY DEF Await, Code
<1>3. ReadCount' = ReadCount
  BY <1>2 DEF ReadCount, iterVars
<1>4. Handed(Now) = Awaited
  BY NowIs, Zenon DEF Handed, Awaited, SelectInSeq, Done, DoneIn
<1> DEFINE given == Awaited
           throws == \E s \in DOMAIN given : given[s].kind \in {"failed", "canceled"}
<1>5. /\ observed' = Put(observed, pc, given)
      /\ \/ /\ ~throws \/ program[pc].catch
            /\ Proceed
            /\ UNCHANGED <<pendingActions, sequenceNumber>>
         \/ /\ throws /\ ~program[pc].catch
            /\ FailExecution(pendingActions, sequenceNumber)
  BY DEF Await
<1>6. Continuing(Now) =
        IF throws /\ ~program[pc].catch THEN Turned(Now, "over")
        ELSE Snap(ReadCount, pendingActions, openTasks, sequenceNumber, outstandingEvents,
                  unprocessedEvents, appliedPatch, control, pc + 1, outcome,
                  Put(observed, pc, given), thrown)
  BY <1>4, NowIs, Zenon DEF Continuing
<1> HIDE DEF throws, given
<1>7. CASE throws /\ ~program[pc].catch
  BY <1>1, <1>5, <1>6, <1>7, CodeThrowsFollow DEF Goes, Turned, Snap
<1>8. CASE ~throws \/ program[pc].catch
  <2>1. Now' = Continuing(Now)
    BY <1>2, <1>3, <1>5, <1>6, <1>8 DEF Now, Proceed, eventVars, patchVars
  <2> QED BY <1>1, <1>5, <1>8, <2>1 DEF Goes, Proceed, endVars
<1> QED BY <1>7, <1>8

\* Every call of the code does what the function says.
LEMMA CodeFollows ==
  ASSUME Underway, CodeStep
  PROVE  ~Pumps(Now) /\ Goes(After(Now, Given))
<1>1. ~draining /\ ~isComplete /\ control \in {"loop", "user"}
  BY DEF Underway, Calm
<1>2. CASE Return
  <2>1. control = "user" /\ pc \notin DOMAIN program /\ control' = "loop"
        /\ UNCHANGED <<taskVars, eventVars, patchVars, endVars, codeVars, thrown, iterVars>>
    BY <1>2 DEF Return
  <2>2. ~Pumps(Now)
    BY <2>1, NowIs DEF Pumps, CodeAt
  <2>3. After(Now, Given) = Turned(Now, "loop")
    BY <2>1, <2>2, NowIs DEF After
  <2>4. ReadCount' = ReadCount
    BY <2>1 DEF ReadCount, iterVars
  <2>5. Now' = Turned(Now, "loop")
    BY <2>1, <2>4, NowIs DEF Now, Turned, taskVars, eventVars, patchVars, codeVars
  <2> QED BY <1>1, <2>1, <2>2, <2>3, <2>5 DEF Goes, endVars
<1>3. ASSUME NEW op, Code(op), op = "await" => AwaitOver
      PROVE  /\ ~Pumps(Now) /\ control = "user" /\ pc \in DOMAIN program /\ program[pc].op = op
             /\ After(Now, Given) = Calling(Now)
  <2>1. control = "user" /\ pc \in DOMAIN program /\ program[pc].op = op
    BY <1>3 DEF Code, Running
  <2>2. ~Pumps(Now)
    BY <1>1, <1>3, <2>1, NowIs, NowRuns DEF Pumps, CodeAt
  <2> QED BY <2>1, <2>2, NowIs DEF After
<1>4. CASE CallActivity
  BY <1>3, <1>4, NowIs, ScheduleFollows DEF CallActivity, Calling
<1>5. CASE CallSubOrchestrator
  BY <1>3, <1>5, NowIs, ScheduleFollows DEF CallSubOrchestrator, Calling
<1>6. CASE CreateTimer
  BY <1>3, <1>6, NowIs, ScheduleFollows DEF CreateTimer, Calling
<1>7. CASE SendEvent
  <2>1. ~Pumps(Now) /\ After(Now, Given) = Sending(Now)
    BY <1>3, <1>7, NowIs DEF SendEvent, Calling
  <2>2. UNCHANGED <<openTasks, eventVars, patchVars, outcome, observed, control, endVars, thrown,
                    iterVars>>
    BY <1>7 DEF SendEvent, Code, Proceed
  <2>3. ReadCount' = ReadCount
    BY <2>2 DEF ReadCount, iterVars
  <2>4. Now' = Sending(Now)
    BY <1>7, <2>2, <2>3, NowIs DEF SendEvent, Proceed, Now, Sending, eventVars, patchVars
  <2> QED BY <1>1, <2>1, <2>2, <2>4 DEF Goes, endVars
<1>8. CASE WaitFindsEvent \/ WaitTimesOutAtOnce \/ WaitForExternalEvent
  <2>1. Code("waitForExternalEvent")
    BY <1>8 DEF WaitFindsEvent, WaitTimesOutAtOnce, WaitForExternalEvent
  <2>2. ~Pumps(Now) /\ After(Now, Given) = Awaiting(Now)
    BY <1>3, <2>1, NowIs DEF Calling
  <2> QED BY <1>8, <2>2, WaitFollows
<1>9. CASE IsPatched
  <2>1. ~Pumps(Now) /\ After(Now, Given) = Patching(Now)
    BY <1>3, <1>9, NowIs DEF IsPatched, Calling
  <2> QED BY <1>9, <2>1, PatchFollows
<1>10. CASE Await
  <2>1. ~Pumps(Now) /\ After(Now, Given) = Continuing(Now)
    BY <1>3, <1>10, NowIs DEF Await, Calling
  <2> QED BY <1>10, <2>1, AwaitFollows
<1>11. CASE Complete \/ ContinueAsNew
  <2>1. ~Pumps(Now) /\ After(Now, Given) = Turned(Now, "over")
    BY <1>3, <1>11, NowIs DEF Complete, ContinueAsNew, Calling
  <2>2. isComplete'
    BY <1>11 DEF Complete, ContinueAsNew, CompleteInternal
  <2> QED BY <2>1, <2>2 DEF Goes, Turned, Snap
<1>12. ~CallWhenComplete
  BY <1>1 DEF CallWhenComplete
<1> QED BY <1>2, <1>4, <1>5, <1>6, <1>7, <1>8, <1>9, <1>10, <1>11, <1>12 DEF CodeStep

\* A step follows the function, or ends an execution that has read all it was given.
Stops ==
  /\ ~HasNext /\ control' \in {"done", "crash"}
  /\ \/ isComplete'
     \/ control' = "done" /\ UNCHANGED endVars /\ Now' = Turned(Now, "done")
  /\ UNCHANGED <<observed, pc, thrown, iterVars>>

\* A step of the executor is a step of the function, or stops the turn where it waits for events.
LEMMA ExecutorFollows ==
  ASSUME Underway, ExecutorStep
  PROVE  Goes(After(Now, Given)) \/ (Pumps(Now) /\ Stops)
<1>1. ~draining /\ ~isComplete /\ control \in {"loop", "user"}
  BY DEF Underway, Calm
<1>2. CASE HandleEvent
  BY <1>2, HandleEventFollows, NowIs DEF After
<1>3. CASE CodeStep
  BY <1>3, CodeFollows
<1>4. CASE Yield
  <2>1. ~HasNext /\ Running("await") /\ ~AwaitOver /\ control' = "done"
        /\ UNCHANGED <<taskVars, eventVars, patchVars, endVars, codeVars, thrown, iterVars>>
    BY <1>4 DEF Yield
  <2>2. Pumps(Now)
    BY <1>1, <2>1, NowRuns DEF Pumps
  <2>3. Now' = Turned(Now, "done")
    <3>1. ReadCount' = ReadCount
      BY <2>1 DEF ReadCount, iterVars
    <3> QED BY <2>1, <3>1, NowIs DEF Now, Turned, taskVars, eventVars, patchVars, codeVars
  <2> QED BY <2>1, <2>2, <2>3 DEF Stops, codeVars
<1>5. CASE EndOfHistory
  <2>1. ~HasNext /\ control = "loop"
        /\ UNCHANGED <<openTasks, eventVars, patchVars, codeVars, thrown, iterVars>>
    BY <1>5 DEF EndOfHistory
  <2>2. Pumps(Now)
    BY <2>1, NowIs DEF Pumps
  <2>3. CASE NothingLeft
    BY <1>1, <1>5, <2>1, <2>2, <2>3 DEF EndOfHistory, Stops, CompleteInternal, codeVars
  <2>4. CASE ~NothingLeft
    <3>1. control' = "done" /\ UNCHANGED <<pendingActions, sequenceNumber, endVars>>
      BY <1>5, <2>4 DEF EndOfHistory
    <3>2. ReadCount' = ReadCount
      BY <2>1 DEF ReadCount, iterVars
    <3>3. Now' = Turned(Now, "done")
      BY <2>1, <3>1, <3>2, NowIs DEF Now, Turned, eventVars, patchVars, codeVars
    <3> QED BY <2>1, <2>2, <3>1, <3>3 DEF Stops, codeVars
  <2> QED BY <2>3, <2>4
<1> QED BY <1>2, <1>3, <1>4, <1>5 DEF ExecutorStep

-----------------------------------------------------------------------------
(* The function and its list *)

\* G goes on where H ends; the patches of a turn may be recorded with its WorkflowStarted later.
GoesOn(H, G) ==
  \A i \in DOMAIN H :
    /\ i \in DOMAIN G
    /\ G[i] = H[i] \/ (G[i].type = "WorkflowStarted" /\ H[i].type = "WorkflowStarted")

\* The function reads the next event only, and of a WorkflowStarted nothing.
LEMMA AfterSame ==
  ASSUME NEW x, NEW H, NEW G, GoesOn(H, G), After(x, H).ctl # "read"
  PROVE  After(x, G) = After(x, H)
<1>1. Turned(x, "read").ctl = "read"
  BY DEF Turned, Snap
<1>2. CASE Pumps(x)
  <2>1. x.idx + 1 \in DOMAIN H
    BY <1>1, <1>2 DEF After
  <2>2. Handling(x, G[x.idx + 1]) = Handling(x, H[x.idx + 1])
    <3>1. CASE G[x.idx + 1] = H[x.idx + 1]
      BY <3>1
    <3>2. CASE /\ G[x.idx + 1].type = "WorkflowStarted"
               /\ H[x.idx + 1].type = "WorkflowStarted"
      BY <3>2 DEF Handling
    <3> QED BY <2>1, <3>1, <3>2 DEF GoesOn
  <2> QED BY <1>2, <2>1, <2>2 DEF After, GoesOn
<1>3. CASE ~Pumps(x)
  BY <1>3 DEF After
<1> QED BY <1>2, <1>3

\* The states tr[1 .. n] of a turn over the events of H, from its beginning.
Run(tr, n, H) ==
  /\ n \in Nat \ {0} /\ tr[1] = Begin
  /\ \A k \in 1 .. n : tr[k].ctl \in {"loop", "user"}
  /\ \A k \in 1 .. n - 1 : tr[k + 1] = After(tr[k], H)

\* A turn over a history is the beginning of a turn over a longer one.
LEMMA RunSame ==
  ASSUME NEW tr, NEW n, NEW H, NEW G, GoesOn(H, G), Run(tr, n, H)
  PROVE  Run(tr, n, G)
<1>1. ASSUME NEW k \in 1 .. n - 1
      PROVE  tr[k + 1] = After(tr[k], G)
  <2>1. tr[k + 1] = After(tr[k], H) /\ k + 1 \in 1 .. n
    BY DEF Run
  <2>2. After(tr[k], H).ctl \in {"loop", "user"}
    BY <2>1 DEF Run
  <2>3. After(tr[k], H).ctl # "read"
    BY <2>2
  <2> QED BY <2>1, <2>3, AfterSame
<1> QED BY <1>1 DEF Run

\* One state more.
LEMMA RunLonger ==
  ASSUME NEW tr, NEW n, NEW H, Run(tr, n, H), NEW y, y = After(tr[n], H),
         y.ctl \in {"loop", "user"}
  PROVE  LET longer == [k \in 1 .. n + 1 |-> IF k = n + 1 THEN y ELSE tr[k]]
         IN Run(longer, n + 1, H)
<1> DEFINE longer == [k \in 1 .. n + 1 |-> IF k = n + 1 THEN y ELSE tr[k]]
<1>1. n \in Nat \ {0}
  BY DEF Run
<1>2. /\ n + 1 \in Nat \ {0} /\ longer[n + 1] = y
      /\ \A k \in 1 .. n : longer[k] = tr[k]
  BY <1>1
<1> HIDE DEF longer
<1>3. longer[1] = Begin
  BY <1>1, <1>2 DEF Run
<1>4. ASSUME NEW k \in 1 .. n + 1
      PROVE  longer[k].ctl \in {"loop", "user"}
  <2>1. k = n + 1 \/ k \in 1 .. n
    BY <1>1
  <2> QED BY <1>2, <2>1 DEF Run
<1>5. ASSUME NEW k \in 1 .. (n + 1) - 1
      PROVE  longer[k + 1] = After(longer[k], H)
  <2>1. k \in 1 .. n /\ (k = n \/ (k \in 1 .. n - 1 /\ k + 1 \in 1 .. n))
    BY <1>1
  <2> QED BY <1>2, <2>1 DEF Run
<1>6. Run(longer, n + 1, H)
  BY <1>2, <1>3, <1>4, <1>5 DEF Run
<1> QED BY <1>6 DEF longer

\* The function depends on the program, and on nothing else that changes.
LEMMA AfterStays ==
  ASSUME program' = program, NEW x, NEW H
  PROVE  /\ After(x, H)' = After(x, H) /\ Pumps(x)' = Pumps(x)
         /\ \A op : CodeAt(x, op)' = CodeAt(x, op)
<1>1. \A op : CodeAt(x, op)' = CodeAt(x, op)
  BY Zenon DEF CodeAt
<1>2. Satisfied(x)' = Satisfied(x)
  BY Zenon DEF Satisfied, DoneIn
<1>3. Pumps(x)' = Pumps(x)
  BY <1>1, <1>2, Zenon DEF Pumps
<1>4. \A id, result : Closing(x, id, result)' = Closing(x, id, result)
  BY DEF Closing, IsWait, Passing, Snap, DoneIn
<1>5. ASSUME NEW e
      PROVE  Handling(x, e)' = Handling(x, e)
  <2>1. \A kinds : Confirming(x, e, kinds)' = Confirming(x, e, kinds)
    BY DEF Confirming, Throwing, Snap
  <2>2. \A acts, open, seq, exception :
          Throwing(x, exception, acts, open, seq)' = Throwing(x, exception, acts, open, seq)
    BY DEF Throwing, Snap
  <2>3. /\ Raising(x, e)' = Raising(x, e) /\ Turned(x, "over")' = Turned(x, "over")
        /\ \A ctl : Passing(x, ctl)' = Passing(x, ctl)
    BY DEF Raising, Turned, Passing, Snap, Deserialize
  <2>4. Deserialize(e.val)' = Deserialize(e.val) /\ Failed' = Failed /\ Result(0)' = Result(0)
    BY DEF Deserialize, Failed, Result
  <2> QED BY <1>4, <2>1, <2>2, <2>3, <2>4 DEF Handling
<1>6. Awaiting(x)' = Awaiting(x)
  <2>1. Buffered(x)' = Buffered(x)
    BY DEF Buffered, SelectInSeq
  <2> QED BY <2>1 DEF Awaiting, Turned, Snap
<1>7. Continuing(x)' = Continuing(x)
  <2>1. Handed(x)' = Handed(x)
    BY DEF Handed, DoneIn, SelectInSeq
  <2> QED BY <2>1 DEF Continuing, Turned, Snap
<1>8. Calling(x)' = Calling(x)
  BY <1>6, <1>7, Zenon DEF Calling, Asking, Sending, Patching, Turned, Snap
<1>9. After(x, H)' = After(x, H)
  BY <1>3, <1>5, <1>8, Zenon DEF After, Turned, Snap
<1> QED BY <1>1, <1>3, <1>9

\* The function depends on the program alone.
LEMMA RunStays ==
  ASSUME program' = program, NEW tr, NEW n, NEW H, Run(tr, n, H)
  PROVE  Run(tr, n, H)'
<1>1. Begin' = Begin
  BY Zenon DEF Begin, Snap
<1>2. \A k \in 1 .. n - 1 : After(tr[k], H)' = After(tr[k], H)
  BY AfterStays
<1> QED BY <1>1, <1>2, Zenon DEF Run

-----------------------------------------------------------------------------
(* How the code gets on *)

\* An action of the result was there before, or ends the workflow, or is that of the call the
\* code has just made.
Called(a) ==
  /\ ~isComplete /\ control = "user" /\ control' = "user"
  /\ pc \in DOMAIN program /\ pc' = pc + 1
  /\ a.slot = pc /\ a.kind # "completeWorkflow"
  /\ a.kind = "sendEvent" <=> program[pc].op = "sendEvent"
Ending == Action("completeWorkflow", 0)

\* No action of the result changes its kind or its slot.
LEMMA ActionsGrow ==
  ASSUME ExecutorTypeOK, IdsAreFresh, OneCompletion, ExecutorStep
  PROVE  \A id \in DOMAIN pendingActions' :
           LET a == pendingActions'[id]
           IN (\E j \in DOMAIN pendingActions : a = pendingActions[j]) \/ a = Ending \/ Called(a)
<1> DEFINE Same(a) == \E j \in DOMAIN pendingActions : a = pendingActions[j]
           Good(a) == Same(a) \/ a = Ending \/ Called(a)
<1> SUFFICES \A id \in DOMAIN pendingActions' : Good(pendingActions'[id])
  OBVIOUS
<1>1. TaskTypeOK /\ EndTypeOK /\ IdsAreFresh /\ OneCompletion /\ sequenceNumber \in Int
      /\ isComplete \in BOOLEAN
  BY DEF ExecutorTypeOK, TaskTypeOK, EndTypeOK
<1>2. CASE UNCHANGED pendingActions
  BY <1>2
<1>3. ASSUME NEW id, NEW kind, NEW op, Code(op), ~isComplete,
             kind \in ActionKinds \ {"completeWorkflow"},
             kind = "sendEvent" <=> op = "sendEvent",
             pendingActions' = Put(pendingActions, id, Action(kind, pc)), Proceed
      PROVE  \A i \in DOMAIN pendingActions' : Good(pendingActions'[i])
  <2>1. Called(Action(kind, pc))
    BY <1>3 DEF Called, Code, Running, Proceed, Action
  <2>2. \A i \in DOMAIN pendingActions' :
          pendingActions'[i] = Action(kind, pc) \/ Same(pendingActions'[i])
    BY <1>3 DEF Put
  <2> QED BY <2>1, <2>2
<1>4. CASE CallActivity \/ CallSubOrchestrator \/ CreateTimer
  BY <1>3, <1>4
     DEF CallActivity, CallSubOrchestrator, CreateTimer, Schedule, ActionKinds, TimerKinds
<1>5. CASE SendEvent
  BY <1>3, <1>5 DEF SendEvent, ActionKinds
<1>6. CASE WaitForExternalEvent
  <2>1. CASE UNCHANGED pendingActions
    BY <1>2, <2>1
  <2>2. CASE ~UNCHANGED pendingActions
    <3> DEFINE id == sequenceNumber + 1
               kind == IF program[pc].timeout = Indefinite THEN "optionalTimer" ELSE "eventTimer"
    <3>1. pendingActions' = Put(pendingActions, id, Action(kind, pc))
      BY <1>6, <2>2 DEF WaitForExternalEvent
    <3>2. Code("waitForExternalEvent") /\ ~isComplete /\ Proceed
      BY <1>6 DEF WaitForExternalEvent
    <3>3. kind \in ActionKinds \ {"completeWorkflow"} /\ kind # "sendEvent"
      BY DEF ActionKinds, TimerKinds
    <3> QED BY <1>3, <3>1, <3>2, <3>3
  <2> QED BY <2>1, <2>2
\* The other steps add no more than the end of the workflow.
<1>7. CASE isComplete' # isComplete \/ isComplete \/ sequenceNumber' <= sequenceNumber
  <2>1. CASE Remaining(pendingActions', sequenceNumber')
    BY <1>1, <2>1, RemainingGood
  <2>2. CASE \E actions, seq :
               /\ Remaining(actions, seq)
               /\ pendingActions' = Put(actions, seq, Action("completeWorkflow", 0))
    <3>1. PICK actions, seq :
            /\ Remaining(actions, seq)
            /\ pendingActions' = Put(actions, seq, Ending)
      BY <2>2 DEF Ending
    <3>2. \A id \in DOMAIN actions : Same(actions[id])
      BY <1>1, <3>1, RemainingGood
    <3>3. \A id \in DOMAIN pendingActions' :
            pendingActions'[id] = Ending \/ (id \in DOMAIN actions /\ pendingActions'[id] = actions[id])
      BY <3>1 DEF Put
    <3> QED BY <3>2, <3>3
  <2>3. \/ Remaining(pendingActions', sequenceNumber')
        \/ \E actions, seq :
             /\ Remaining(actions, seq)
             /\ pendingActions' = Put(actions, seq, Action("completeWorkflow", 0))
    <3>1. ActionsStep
      BY <1>1, TaskStep
    <3>2. ASSUME ~isComplete, isComplete' = isComplete,
                 NEW id \in {sequenceNumber, sequenceNumber + 1}, sequenceNumber' = id + 1
          PROVE  FALSE
      BY <1>1, <1>7, <3>2
    <3> QED BY <3>1, <3>2 DEF ActionsStep
  <2> QED BY <2>1, <2>2, <2>3
<1>8. ASSUME NEW acts, NEW seq, FailExecution(acts, seq)
      PROVE  isComplete' # isComplete \/ isComplete
  BY <1>1, <1>8 DEF FailExecution, CompleteInternal
<1>9. CASE HandleTaskScheduled \/ HandleSubOrchestrationCreated \/ HandleTimerCreated
  <2>1. PICK kinds : Confirm(kinds)
    BY <1>9 DEF HandleTaskScheduled, HandleSubOrchestrationCreated, HandleTimerCreated
  <2>2. PICK seq \in {sequenceNumber, sequenceNumber - 1} :
          \/ sequenceNumber' = seq
          \/ \E acts : Throws("NonDeterministicOrchestratorException", acts, seq)
    BY <2>1 DEF Confirm
  <2>3. sequenceNumber' = seq \/ isComplete' # isComplete \/ isComplete
    BY <1>8, <2>2 DEF Throws
  <2> QED BY <1>1, <1>7, <2>2, <2>3
<1>10. CASE HandleUnknown \/ HandleExecutionTerminated
  <2>1. \/ Throws("IllegalStateException", pendingActions, sequenceNumber)
        \/ ~isComplete /\ isComplete'
    BY <1>10 DEF HandleUnknown, HandleExecutionTerminated, CompleteInternal
  <2>2. sequenceNumber' = sequenceNumber \/ isComplete' # isComplete \/ isComplete
    BY <1>8, <2>1 DEF Throws
  <2> QED BY <1>1, <1>7, <2>2
<1>11. CASE \/ HandleTaskCompleted \/ HandleTaskFailed \/ HandleTimerFired
            \/ HandleSubOrchestrationCompleted \/ HandleSubOrchestrationFailed
            \/ HandleInfrastructureTimer \/ HandleEventRaised \/ HandleWorkflowStarted
            \/ HandleExecutionStarted \/ HandleEventWhileSuspended \/ HandleExecutionSuspended
            \/ HandleExecutionResumed
  <2>1. UNCHANGED pendingActions
    BY <1>11
       DEF HandleTaskCompleted, HandleTaskFailed, HandleTimerFired,
           HandleSubOrchestrationCompleted, HandleSubOrchestrationFailed, CloseTask,
           HandleInfrastructureTimer, HandleEventRaised, HandleWorkflowStarted,
           HandleExecutionStarted, HandleEventWhileSuspended, HandleExecutionSuspended,
           HandleExecutionResumed, taskVars
  <2> QED BY <1>2, <2>1
<1>12. CASE WaitFindsEvent \/ WaitTimesOutAtOnce \/ IsPatched \/ Return \/ Yield
  <2>1. UNCHANGED pendingActions \/ isComplete' # isComplete \/ isComplete
    BY <1>8, <1>12
       DEF WaitFindsEvent, WaitTimesOutAtOnce, IsPatched, Return, Yield, taskVars, CodeThrows
  <2> QED BY <1>2, <1>7, <2>1
<1>13. CASE Await \/ Complete \/ ContinueAsNew \/ CallWhenComplete \/ EndOfHistory
  <2>1. UNCHANGED pendingActions \/ isComplete' # isComplete \/ isComplete
    BY <1>8, <1>13
       DEF Await, Complete, ContinueAsNew, CallWhenComplete, EndOfHistory, CompleteInternal
  <2> QED BY <1>2, <1>7, <2>1
<1> QED BY <1>4, <1>5, <1>6, <1>9, <1>10, <1>11, <1>12, <1>13
        DEF ExecutorStep, HandleEvent, CodeStep

\* The program counter goes forward; what was observed stays, and more is observed where the
\* counter stands.
LEMMA CodeGoesOn ==
  ASSUME ExecutorTypeOK, Answered, patchDeployed, ExecutorStep
  PROVE  /\ \/ UNCHANGED <<pc, observed>>
            \/ control = "user" /\ pc \in DOMAIN program /\ pc' = pc + 1
            \/ control' \notin {"loop", "user"} /\ pc' = pc
         /\ observed' = observed \/ \E v : control = "user" /\ observed' = Put(observed, pc, v)
         /\ pc' # pc /\ ~isComplete' /\ ~isComplete
              => program[pc].op \notin {"complete", "continueAsNew"}
         /\ control' = "loop" => control = "loop" \/ Return
         /\ control' = "user" /\ control # "user" => UNCHANGED <<pc, observed, pendingActions>>
<1>1. ASSUME NEW acts, NEW seq, FailExecution(acts, seq)
      PROVE  control' \notin {"loop", "user"}
  BY <1>1 DEF FailExecution
<1>2. CASE HandleEvent
  <2>1. UNCHANGED <<pc, observed>>
    BY <1>2, EventIsRead DEF Read
  <2>2. CASE control' = control
    BY <2>1, <2>2
  <2>3. CASE HandleTaskScheduled \/ HandleSubOrchestrationCreated \/ HandleTimerCreated
    <3>1. PICK kinds : Confirm(kinds)
      BY <2>3 DEF HandleTaskScheduled, HandleSubOrchestrationCreated, HandleTimerCreated
    <3>2. \/ Returns
          \/ \E actions, seq : Throws("NonDeterministicOrchestratorException", actions, seq)
      BY <3>1 DEF Confirm
    <3> QED BY <1>1, <2>1, <3>2 DEF Returns, Throws
  <2>4. CASE HandleUnknown \/ HandleExecutionTerminated
    BY <1>1, <2>1, <2>4 DEF HandleUnknown, HandleExecutionTerminated, Throws
  <2>5. CASE HandleExecutionStarted
    BY <2>1, <2>5 DEF HandleExecutionStarted, taskVars
  <2>6. CASE \/ HandleTaskCompleted \/ HandleTaskFailed \/ HandleTimerFired
             \/ HandleSubOrchestrationCompleted \/ HandleSubOrchestrationFailed
             \/ HandleInfrastructureTimer \/ HandleEventRaised \/ HandleWorkflowStarted
             \/ HandleEventWhileSuspended \/ HandleExecutionSuspended \/ HandleExecutionResumed
    BY <2>2, <2>6
       DEF HandleTaskCompleted, HandleTaskFailed, HandleTimerFired,
           HandleSubOrchestrationCompleted, HandleSubOrchestrationFailed, CloseTask,
           HandleInfrastructureTimer, HandleEventRaised, HandleWorkflowStarted, Returns,
           HandleEventWhileSuspended, HandleExecutionSuspended, HandleExecutionResumed
  <2> QED BY <1>2, <2>3, <2>4, <2>5, <2>6 DEF HandleEvent
<1>3. CASE \/ CallActivity \/ CallSubOrchestrator \/ CreateTimer \/ SendEvent
           \/ WaitTimesOutAtOnce \/ WaitForExternalEvent
  BY <1>3
     DEF CallActivity, CallSubOrchestrator, CreateTimer, SendEvent, WaitTimesOutAtOnce,
         WaitForExternalEvent, Schedule, Proceed, Code, Running
<1>4. CASE WaitFindsEvent \/ CallWhenComplete
  BY <1>1, <1>4 DEF WaitFindsEvent, CallWhenComplete, CodeThrows, codeVars, Proceed, Code, Running
<1>5. CASE IsPatched
  <2>1. CheckPatch = "yes"
    BY <1>5 DEF IsPatched, Code, Answered
  <2> DEFINE answer == CheckPatch
             seen == [s \in {pc} |-> Result(IF answer = "yes" THEN 1 ELSE 0)]
  <2>2. /\ observed' = Put(observed, pc, seen)
        /\ pc' = IF answer = "yes" THEN pc + 1 ELSE pc + 1 + program[pc].skip
        /\ control' = control /\ Running("isPatched")
    BY <1>5, Zenon DEF IsPatched, Code
  <2>3. pc' = pc + 1
    BY <2>1, <2>2
  <2> QED BY <2>2, <2>3 DEF Running
<1>6. CASE Await
  BY <1>1, <1>6 DEF Await, Code, Running, Proceed
<1>7. CASE Complete \/ ContinueAsNew
  BY <1>7 DEF Complete, ContinueAsNew, Code, Running, CompleteInternal, codeVars
<1>8. CASE Return \/ Yield \/ EndOfHistory
  BY <1>8 DEF Return, Yield, EndOfHistory, codeVars
<1> QED BY <1>2, <1>3, <1>4, <1>5, <1>6, <1>7, <1>8 DEF ExecutorStep, CodeStep

-----------------------------------------------------------------------------
(* What every turn keeps, whether it is replaying or live *)

\* Every sender of events ends explicitly: no EventSent is read by execute's own loop.
SendersComplete(p) ==
  (\E s \in DOMAIN p : p[s].op = "sendEvent") =>
    \A s \in DOMAIN p : s + 1 \in DOMAIN p \/ p[s].op \in {"complete", "continueAsNew"}

NatInv == DOMAIN pendingActions \subseteq Nat /\ sequenceNumber \in Nat
ActsInv ==
  \A id \in DOMAIN pendingActions :
    LET a == pendingActions[id]
    IN \/ a = Ending
       \/ /\ a.slot \in DOMAIN program /\ a.slot < pc /\ a.kind # "completeWorkflow"
          /\ a.kind = "sendEvent" <=> program[a.slot].op = "sendEvent"
SeenInv == control \in {"loop", "user"} => \A s \in DOMAIN observed : s \in Nat /\ s < pc
PcInv ==
  ~isComplete /\ control \in {"loop", "user"} =>
    pc = 1 \/ (pc - 1 \in DOMAIN program
               /\ program[pc - 1].op \notin {"complete", "continueAsNew"})
SilentInv ==
  ~isComplete /\ control = "loop" =>
    \A id \in DOMAIN pendingActions : pendingActions[id].kind # "sendEvent"
PatchInv ==
  /\ appliedPatch \in {"unset", "yes"}
  /\ \A j \in 1 .. ReadCount :
       Given[j].type = "WorkflowStarted" /\ Given[j].val = 1 => historyPatched
CodeInv == NatInv /\ ActsInv /\ SeenInv /\ PcInv /\ SilentInv /\ PatchInv

\* Ids are numbers.
LEMMA NatKept ==
  ASSUME ExecutorTypeOK, IdsAreFresh, NatInv, ExecutorStep
  PROVE  NatInv'
<1>1. ActionsStep
  BY TaskStep DEF ExecutorTypeOK
<1>2. ASSUME NEW actions, NEW seq, Remaining(actions, seq)
      PROVE  DOMAIN actions \subseteq Nat /\ seq \in Nat
  <2>1. CASE Part(actions, pendingActions) /\ seq \in {sequenceNumber, sequenceNumber + 1}
    BY <2>1 DEF Part, NatInv
  <2>2. ASSUME NEW id \in DOMAIN pendingActions,
               Part(actions, ShiftDown(pendingActions, id)), seq = sequenceNumber - 1
        PROVE  DOMAIN actions \subseteq Nat /\ seq \in Nat
    <3>1. id \in Nat /\ id < sequenceNumber /\ sequenceNumber \in Nat
          /\ DOMAIN pendingActions \subseteq Nat
      BY DEF NatInv, IdsAreFresh
    <3>2. \A i \in DOMAIN ShiftDown(pendingActions, id) : i \in Nat
      BY <3>1 DEF ShiftDown
    <3> QED BY <2>2, <3>1, <3>2 DEF Part
  <2> QED BY <1>2, <2>1, <2>2 DEF Remaining
<1>3. CASE Remaining(pendingActions', sequenceNumber')
  BY <1>2, <1>3 DEF NatInv
<1>4. CASE \E actions, seq :
             /\ Remaining(actions, seq)
             /\ pendingActions' = Put(actions, seq, Action("completeWorkflow", 0))
             /\ sequenceNumber' = seq + 1
  BY <1>2, <1>4 DEF NatInv, Put
<1>5. CASE \E id \in {sequenceNumber, sequenceNumber + 1},
              kind \in ActionKinds \ {"completeWorkflow"} :
             /\ pendingActions' = Put(pendingActions, id, Action(kind, pc))
             /\ sequenceNumber' = id + 1
  BY <1>5 DEF NatInv, Put
<1> QED BY <1>1, <1>3, <1>4, <1>5 DEF ActionsStep

\* Each action is that of a call the code has behind it.
LEMMA ActsKept ==
  ASSUME ExecutorTypeOK, IdsAreFresh, OneCompletion, Answered, patchDeployed, ActsInv, ExecutorStep
  PROVE  ActsInv'
<1>1. program' = program /\ pc \in Nat
  BY ControlStep DEF deployVars, ExecutorTypeOK, CodeTypeOK
<1>2. pc' >= pc
  BY <1>1, CodeGoesOn
<1>3. ASSUME NEW id \in DOMAIN pendingActions',
             \/ \E j \in DOMAIN pendingActions : pendingActions'[id] = pendingActions[j]
             \/ pendingActions'[id] = Ending
             \/ Called(pendingActions'[id])
      PROVE  LET a == pendingActions'[id]
             IN \/ a = Ending
                \/ /\ a.slot \in DOMAIN program /\ a.slot < pc' /\ a.kind # "completeWorkflow"
                   /\ a.kind = "sendEvent" <=> program[a.slot].op = "sendEvent"
  <2> DEFINE a == pendingActions'[id]
  <2>1. CASE \E j \in DOMAIN pendingActions : a = pendingActions[j]
    <3>1. PICK j \in DOMAIN pendingActions : a = pendingActions[j]
      BY <2>1
    <3>2. CASE a = Ending
      BY <3>2
    <3>3. CASE /\ a.slot \in DOMAIN program /\ a.slot < pc /\ a.kind # "completeWorkflow"
               /\ a.kind = "sendEvent" <=> program[a.slot].op = "sendEvent"
      <4>1. a.slot \in Nat
        BY <3>3 DEF ExecutorTypeOK, DeployTypeOK, WellFormed
      <4> QED BY <1>1, <1>2, <3>3, <4>1, PcKept DEF ExecutorTypeOK
    <3> QED BY <3>1, <3>2, <3>3 DEF ActsInv
  <2>2. CASE Called(a)
    BY <1>1, <2>2 DEF Called
  <2> QED BY <1>3, <2>1, <2>2
<1> QED BY <1>1, <1>3, ActionsGrow DEF ActsInv

\* What the code has observed it has behind it.
LEMMA SeenKept ==
  ASSUME ExecutorTypeOK, Answered, patchDeployed, SeenInv, ExecutorStep
  PROVE  SeenInv'
<1> SUFFICES ASSUME control' \in {"loop", "user"}, NEW s \in DOMAIN observed'
             PROVE  s \in Nat /\ s < pc'
  BY DEF SeenInv
<1>1. control \in {"loop", "user"} /\ pc \in Nat
  BY ControlStep DEF ExecutorTypeOK, CodeTypeOK
<1>2. CASE UNCHANGED <<pc, observed>>
  BY <1>1, <1>2 DEF SeenInv
<1>3. CASE pc' = pc + 1
  <2>1. s \in DOMAIN observed \/ s = pc
    BY CodeGoesOn DEF Put
  <2>2. CASE s \in DOMAIN observed
    <3>1. s \in Nat /\ s < pc
      BY <1>1, <2>2 DEF SeenInv
    <3> QED BY <1>1, <1>3, <3>1
  <2> QED BY <1>1, <1>3, <2>1, <2>2
<1> QED BY <1>2, <1>3, CodeGoesOn

\* The code goes past no call that ends it.
LEMMA PcInvKept ==
  ASSUME ExecutorTypeOK, Answered, patchDeployed, PcInv, DoneInv, ExecutorStep
  PROVE  PcInv'
<1> SUFFICES ASSUME ~isComplete', control' \in {"loop", "user"}
             PROVE  (\/ pc = 1
                     \/ /\ pc - 1 \in DOMAIN program
                        /\ program[pc - 1].op \notin {"complete", "continueAsNew"})'
  BY DEF PcInv
<1>1. control \in {"loop", "user"} /\ pc \in Nat /\ program' = program
  BY ControlStep DEF deployVars, ExecutorTypeOK, CodeTypeOK
<1>2. ~isComplete
  BY EndHow DEF ContinueAsNew, CompleteInternal
<1>3. CASE pc' = pc
  BY <1>1, <1>2, <1>3 DEF PcInv
<1>4. CASE pc' = pc + 1 /\ pc \in DOMAIN program
  <2>1. program[pc].op \notin {"complete", "continueAsNew"}
    BY <1>1, <1>2, <1>4, CodeGoesOn
  <2>2. pc' - 1 = pc
    BY <1>1, <1>4
  <2> QED BY <1>1, <1>4, <2>1, <2>2
<1> QED BY <1>3, <1>4, CodeGoesOn

\* When the code has returned without completing, it has sent no events.
LEMMA SilentKept ==
  ASSUME ExecutorTypeOK, IdsAreFresh, OneCompletion, Answered, patchDeployed,
         SendersComplete(program), ActsInv, PcInv, SilentInv, ExecutorStep
  PROVE  SilentInv'
<1> SUFFICES ASSUME ~isComplete', control' = "loop", NEW id \in DOMAIN pendingActions'
             PROVE  pendingActions'[id].kind # "sendEvent"
  BY DEF SilentInv
<1>1. ~isComplete
  BY EndHow DEF ContinueAsNew, CompleteInternal
<1>2. CASE control = "loop"
  <2>1. \/ \E j \in DOMAIN pendingActions : pendingActions'[id] = pendingActions[j]
        \/ pendingActions'[id] = Ending
    BY <1>2, ActionsGrow DEF Called
  <2> QED BY <1>1, <1>2, <2>1 DEF SilentInv, Ending, Action
<1>3. CASE Return
  <2>1. pendingActions' = pendingActions /\ control = "user" /\ pc \notin DOMAIN program
    BY <1>3 DEF Return, taskVars
  <2>2. ASSUME pendingActions[id].kind = "sendEvent"
        PROVE  FALSE
    <3> DEFINE s == pendingActions[id].slot
    <3>1. s \in DOMAIN program /\ s < pc /\ program[s].op = "sendEvent"
      <4>1. pendingActions[id] # Ending
        BY <2>2 DEF Ending, Action
      <4> QED BY <2>1, <2>2, <4>1 DEF ActsInv
    <3>2. s \in Nat \ {0} /\ pc \in Nat
      BY <3>1 DEF ExecutorTypeOK, DeployTypeOK, WellFormed, CodeTypeOK
    <3>3. /\ pc - 1 \in DOMAIN program
          /\ program[pc - 1].op \notin {"complete", "continueAsNew"}
      BY <1>1, <2>1, <3>1, <3>2 DEF PcInv
    <3>4. (pc - 1) + 1 = pc
      BY <3>2
    <3> QED BY <2>1, <3>1, <3>3, <3>4 DEF SendersComplete
  <2> QED BY <2>1, <2>2
<1> QED BY <1>2, <1>3, CodeGoesOn

\* A recorded patch that was read is known, and no answer was "no".
LEMMA PatchInvKept ==
  ASSUME ExecutorTypeOK, IterInv, Calm, Answered, PatchInv, ExecutorStep
  PROVE  PatchInv'
<1>1. /\ IterTypeOK /\ ~draining /\ ~isSuspended /\ eventsWhileSuspended = <<>>
      /\ ReadCount \in Nat /\ Given' = Given
  BY GivenType, ControlStep DEF ExecutorTypeOK, Calm, Given
<1>2. CASE HandleEvent
  <2>1. PICK type \in EventTypes : Read(type)
    BY <1>2, EventIsRead
  <2>2. NextEvent = Given[ReadCount + 1] /\ NextEvent.type = type /\ ReadCount' = ReadCount + 1
    BY <1>1, <2>1, ReadIsNext DEF IsNext, Read
  <2>3. CASE HandleWorkflowStarted
    <3>1. /\ historyPatched' = (historyPatched \/ NextEvent.val = 1)
          /\ appliedPatch' = appliedPatch
      BY <2>3 DEF HandleWorkflowStarted
    <3>2. ASSUME NEW j \in 1 .. ReadCount',
                 Given[j].type = "WorkflowStarted" /\ Given[j].val = 1
          PROVE  historyPatched'
      <4>1. j \in 1 .. ReadCount \/ j = ReadCount + 1
        BY <1>1, <2>2
      <4>2. CASE j \in 1 .. ReadCount
        <5>1. historyPatched
          BY <3>2, <4>2 DEF PatchInv
        <5> QED BY <3>1, <5>1
      <4>3. CASE j = ReadCount + 1
        <5>1. NextEvent.val = 1
          BY <2>2, <3>2, <4>3
        <5> QED BY <3>1, <5>1
      <4> QED BY <4>1, <4>2, <4>3
    <3> QED BY <1>1, <3>1, <3>2 DEF PatchInv
  <2>4. CASE UNCHANGED patchVars /\ type # "WorkflowStarted"
    BY <1>1, <2>2, <2>4 DEF PatchInv, patchVars
  <2>5. ASSUME ~HandleWorkflowStarted
        PROVE  UNCHANGED patchVars
    <3>1. CASE HandleTaskScheduled \/ HandleSubOrchestrationCreated \/ HandleTimerCreated
      BY <3>1 DEF HandleTaskScheduled, HandleSubOrchestrationCreated, HandleTimerCreated, Confirm
    <3>2. CASE \/ HandleTaskCompleted \/ HandleTaskFailed \/ HandleTimerFired
               \/ HandleSubOrchestrationCompleted \/ HandleSubOrchestrationFailed
               \/ HandleInfrastructureTimer \/ HandleEventRaised
      BY <3>2 DEF HandleTaskCompleted, HandleTaskFailed, HandleTimerFired,
                  HandleSubOrchestrationCompleted, HandleSubOrchestrationFailed, CloseTask,
                  HandleInfrastructureTimer, HandleEventRaised
    <3>3. CASE \/ HandleUnknown \/ HandleExecutionStarted \/ HandleExecutionSuspended
               \/ HandleEventWhileSuspended \/ HandleExecutionResumed
               \/ HandleExecutionTerminated
      BY <3>3 DEF HandleUnknown, HandleExecutionStarted, HandleExecutionSuspended,
                  HandleEventWhileSuspended, HandleExecutionResumed, HandleExecutionTerminated
    <3> QED BY <1>2, <2>5, <3>1, <3>2, <3>3 DEF HandleEvent
  <2>6. ASSUME ~HandleWorkflowStarted
        PROVE  NextEvent.type # "WorkflowStarted"
    BY <1>1, <1>2, <2>6
       DEF HandleEvent, Handle, Read, HandleTaskScheduled, HandleTaskCompleted,
           HandleTaskFailed, HandleTimerCreated, HandleInfrastructureTimer, HandleTimerFired,
           HandleSubOrchestrationCreated, HandleSubOrchestrationCompleted,
           HandleSubOrchestrationFailed, HandleEventRaised, HandleUnknown,
           HandleExecutionStarted, HandleEventWhileSuspended,
           HandleExecutionSuspended, HandleExecutionResumed, HandleExecutionTerminated
  <2> QED BY <2>2, <2>3, <2>4, <2>5, <2>6
<1>3. CASE CodeStep \/ Yield \/ EndOfHistory
  <2>1. ReadCount' = ReadCount
    BY <1>3, NothingIsRead DEF ReadCount, iterVars
  <2>2. CASE IsPatched
    <3> DEFINE answer == CheckPatch
    <3>1. answer = "yes" /\ patchDeployed
      BY <2>2 DEF IsPatched, Code, Answered, Calm
    <3>2. appliedPatch' = answer /\ historyPatched' = historyPatched
      BY <2>2, <3>1, Zenon DEF IsPatched
    <3> QED BY <1>1, <2>1, <3>1, <3>2 DEF PatchInv
  <2>3. ASSUME ~IsPatched
        PROVE  UNCHANGED patchVars
    BY <1>3, <2>3
       DEF CodeStep, CallActivity, CallSubOrchestrator, CreateTimer, Schedule, SendEvent,
           WaitFindsEvent, WaitTimesOutAtOnce, WaitForExternalEvent, Await, Complete,
           ContinueAsNew, CallWhenComplete, CodeThrows, Return, Yield, EndOfHistory
  <2> QED BY <1>1, <2>1, <2>2, <2>3 DEF PatchInv, patchVars
<1> QED BY <1>2, <1>3 DEF ExecutorStep

\* All of these together.
LEMMA CodeInvKept ==
  ASSUME FullInv, IterInv, DoneInv, Calm, Answered, SendersComplete(program), CodeInv, ExecutorStep
  PROVE  CodeInv'
<1>1. ExecutorTypeOK /\ IdsAreFresh /\ OneCompletion /\ patchDeployed
  BY DEF FullInv, ExecutorInv, Calm
<1>2. NatInv' /\ ActsInv' /\ SeenInv'
  BY <1>1, NatKept, ActsKept, SeenKept DEF CodeInv
<1>3. PcInv' /\ SilentInv' /\ PatchInv'
  BY <1>1, PcInvKept, SilentKept, PatchInvKept DEF CodeInv
<1> QED BY <1>2, <1>3 DEF CodeInv

-----------------------------------------------------------------------------
(* An instance nobody suspends, upgrades or terminates by surprise *)

AllOf(q, types) == \A i \in DOMAIN q : q[i].type \in types

\* What arrives in such an instance, behind the WorkflowStarted of the turn.
LiveTypes ==
  {"WorkflowStarted", "ExecutionStarted", "TaskCompleted", "TaskFailed", "TimerFired",
   "ChildWorkflowInstanceCompleted", "ChildWorkflowInstanceFailed", "EventRaised",
   "ExecutionTerminated"}
PastTypes == EventTypes \ Suspending

StayInv ==
  /\ Calm /\ SendersComplete(program)
  /\ "suspend" \notin requested /\ "suspend" \notin scenario.requests
  /\ AllOf(history, PastTypes) /\ AllOf(inbox, LiveTypes) /\ AllOf(newEvents, LiveTypes)
  /\ control # "idle" => status = "RUNNING"

\* The types of the events of two sequences put together.
LEMMA AllOfConcat ==
  ASSUME NEW q \in Seq(EventRecords), NEW r \in Seq(EventRecords), NEW types,
         AllOf(q, types), AllOf(r, types)
  PROVE  AllOf(q \o r, types)
<1> SUFFICES ASSUME NEW i \in DOMAIN (q \o r) PROVE (q \o r)[i].type \in types
  BY DEF AllOf
<1>1. /\ i \in 1 .. Len(q) + Len(r) /\ Len(q) \in Nat /\ Len(r) \in Nat
      /\ DOMAIN q = 1 .. Len(q) /\ DOMAIN r = 1 .. Len(r)
  BY ConcatProperties
<1>2. CASE i <= Len(q)
  BY <1>1, <1>2, ConcatProperties DEF AllOf
<1>3. CASE i > Len(q)
  <2>1. (q \o r)[i] = r[i - Len(q)] /\ i - Len(q) \in DOMAIN r
    BY <1>1, <1>3
  <2> QED BY <2>1 DEF AllOf
<1> QED BY <1>1, <1>2, <1>3

\* The type of the only event of a sequence.
LEMMA AllOfOne ==
  ASSUME NEW e \in EventRecords, NEW types, e.type \in types
  PROVE  <<e>> \in Seq(EventRecords) /\ AllOf(<<e>>, types)
BY DEF AllOf

\* What arrives may be found in a history.
LEMMA LiveIsPast == LiveTypes \subseteq PastTypes
BY DEF LiveTypes, PastTypes, Suspending, EventTypes

\* No turn is given a suspension.
LEMMA GivenIsPast ==
  ASSUME InstanceInv, StayInv
  PROVE  NeverSuspended
<1>1. /\ pastEvents \in Seq(EventRecords) /\ newEvents \in Seq(EventRecords)
      /\ control # "idle" => pastEvents = history
      /\ control = "idle" => pastEvents = <<>> /\ newEvents = <<>>
  BY DEF InstanceInv, FullInv, ExecutorInv, ExecutorTypeOK, IterTypeOK, TurnInv
<1>2. AllOf(newEvents, PastTypes)
  BY LiveIsPast DEF StayInv, AllOf
<1>3. AllOf(pastEvents, PastTypes)
  BY <1>1 DEF StayInv, AllOf
<1>4. AllOf(Given, PastTypes)
  BY <1>1, <1>2, <1>3, AllOfConcat DEF Given
<1> QED BY <1>4 DEF AllOf, NeverSuspended, PastTypes

\* The steps of such an instance.
LEMMA CalmSteps ==
  ASSUME Calm, [Next]_vars
  PROVE  \/ Arrival \/ Dispatch \/ Execution \/ CommitTurn \/ CommitEnd
         \/ CommitContinueAsNew \/ Abandon \/ UNCHANGED vars
BY DEF Calm, Next, Backend, Rest, Arrival, UpgradeSdk, DeployPatch

\* What arrives is neither a suspension nor a resumption.
LEMMA LiveArrives ==
  ASSUME InstanceInv, StayInv, Arrival
  PROVE  \E e \in EventRecords :
           /\ Arrive(e) /\ e.type \in LiveTypes /\ requested' \subseteq requested \union {"terminate"}
           /\ e.type = "ExecutionTerminated" => "terminate" \in scenario.requests
<1>1. CASE RaiseEvent
  <2>1. PICK n \in EventNames : Arrive(Event("EventRaised", 0, n, raised + 1))
    BY <1>1 DEF RaiseEvent
  <2>2. /\ Event("EventRaised", 0, n, raised + 1) \in EventRecords
        /\ Event("EventRaised", 0, n, raised + 1).type = "EventRaised"
    <3>1. raised + 1 \in Nat
      BY DEF InstanceInv, BackendTypeOK
    <3>2. Event("EventRaised", 0, n, raised + 1) \in EventRecords
      BY <3>1, RaisedEvent
    <3> QED BY <3>2 DEF Event
  <2>3. requested' = requested
    BY <1>1 DEF RaiseEvent
  <2> QED BY <2>1, <2>2, <2>3 DEF LiveTypes
<1>2. CASE \E w \in work : FinishWork(w) \/ FinishWorkTwice(w)
  <2>1. PICK w \in work : FinishWork(w) \/ FinishWorkTwice(w)
    BY <1>2
  <2>2. PICK e \in Endings(w) : Arrive(e)
    BY <2>1 DEF FinishWork, FinishWorkTwice
  <2>3. e \in EventRecords
    BY EndingsType
  <2>4. PICK type, val :
          /\ e = Event(type, w.id, "", val)
          /\ type \in {"TaskCompleted", "TaskFailed", "TimerFired",
                       "ChildWorkflowInstanceCompleted", "ChildWorkflowInstanceFailed"}
    <3>1. w.kind \in WorkKinds
      BY DEF InstanceInv, BackendTypeOK
    <3>2. CASE w.kind = "scheduleTask"
      BY <3>2 DEF Endings
    <3>3. CASE w.kind = "createChildWorkflow"
      BY <3>3 DEF Endings
    <3>4. CASE w.kind \in TimerKinds
      BY <3>4 DEF Endings, TimerKinds
    <3> QED BY <3>1, <3>2, <3>3, <3>4 DEF WorkKinds, TimerKinds
  <2>5. e.type = type
    BY <2>4 DEF Event
  <2>6. requested' = requested
    BY <2>1 DEF FinishWork, FinishWorkTwice
  <2>7. e.type \in LiveTypes
    BY <2>4, <2>5 DEF LiveTypes
  <2>8. e.type # "ExecutionTerminated"
    BY <2>4, <2>5
  <2> QED BY <2>2, <2>3, <2>6, <2>7, <2>8
<1>3. CASE TerminateInstance
  <2>1. /\ Arrive(Event("ExecutionTerminated", 0, "", 0))
        /\ requested' = requested \union {"terminate"} /\ "terminate" \in scenario.requests
    BY <1>3 DEF TerminateInstance, Request
  <2>2. /\ Event("ExecutionTerminated", 0, "", 0) \in EventRecords
        /\ Event("ExecutionTerminated", 0, "", 0).type = "ExecutionTerminated"
    <3>1. "ExecutionTerminated" \in EventTypes \ {"EventRaised"} /\ 0 \in Int /\ 0 \in Nat
      BY DEF EventTypes
    <3>2. Event("ExecutionTerminated", 0, "", 0) \in EventRecords
      BY <3>1, PlainEvent
    <3> QED BY <3>2 DEF Event
  <2> QED BY <2>1, <2>2 DEF LiveTypes
<1>4. ~SuspendInstance /\ ~ResumeInstance
  BY DEF StayInv, SuspendInstance, ResumeInstance
<1> QED BY <1>1, <1>2, <1>3, <1>4 DEF Arrival

\* No handler of the events of such an instance defers anything.
LEMMA CalmKept ==
  ASSUME Calm, NeverSuspended, IterTypeOK, IterInv, ExecutorStep
  PROVE  Calm'
<1>1. UNCHANGED <<sdkEmitsOptionalTimer, patchDeployed>>
  BY ControlStep DEF deployVars
<1>2. CASE HandleEvent
  <2>1. PICK type \in EventTypes : Read(type)
    BY <1>2, EventIsRead
  <2>2. NextEvent.type \notin Suspending
    BY <2>1, ReadIsNext DEF Calm, IsNext, NeverSuspended
  <2>3. ASSUME NEW t, Handle(t)
        PROVE  ~isSuspended' /\ eventsWhileSuspended' = <<>>
    BY <2>3 DEF Handle, Calm
  <2>4. ASSUME NEW exception, NEW acts, NEW seq, Throws(exception, acts, seq)
        PROVE  ~draining'
    BY <2>4 DEF Throws
  <2>5. Returns => ~draining'
    BY DEF Returns, Calm
  <2>6. CASE HandleTaskScheduled \/ HandleSubOrchestrationCreated \/ HandleTimerCreated
    <3>1. PICK kinds, t : Handle(t) /\ Confirm(kinds)
      BY <2>6 DEF HandleTaskScheduled, HandleSubOrchestrationCreated, HandleTimerCreated
    <3>2. ~draining'
      BY <2>4, <2>5, <3>1 DEF Confirm
    <3> QED BY <1>1, <2>3, <3>1, <3>2 DEF Calm
  <2>7. CASE \/ HandleTaskCompleted \/ HandleTaskFailed \/ HandleTimerFired
             \/ HandleSubOrchestrationCompleted \/ HandleSubOrchestrationFailed
             \/ HandleInfrastructureTimer \/ HandleEventRaised \/ HandleWorkflowStarted
    <3>1. Returns /\ \E t : Handle(t)
      BY <2>7 DEF HandleTaskCompleted, HandleTaskFailed, HandleTimerFired,
                  HandleSubOrchestrationCompleted, HandleSubOrchestrationFailed, CloseTask,
                  HandleInfrastructureTimer, HandleEventRaised, HandleWorkflowStarted
    <3> QED BY <1>1, <2>3, <2>5, <3>1 DEF Calm
  <2>8. CASE HandleUnknown \/ HandleExecutionStarted
    BY <1>1, <2>3, <2>4, <2>8 DEF HandleUnknown, HandleExecutionStarted, Calm
  <2>9. CASE HandleExecutionTerminated
    BY <1>1, <2>4, <2>9 DEF HandleExecutionTerminated, Calm
  <2>10. ~(HandleEventWhileSuspended \/ HandleExecutionSuspended \/ HandleExecutionResumed)
    BY <2>2 DEF HandleEventWhileSuspended, HandleExecutionSuspended, HandleExecutionResumed,
                Suspending, Read, Calm
  <2> QED BY <1>2, <2>6, <2>7, <2>8, <2>9, <2>10 DEF HandleEvent
<1>3. CASE CodeStep \/ Yield \/ EndOfHistory
  BY <1>1, <1>3, NothingIsRead DEF suspendVars, Calm
<1> QED BY <1>2, <1>3 DEF ExecutorStep

\* The second generation ends explicitly where the first one did.
LEMMA SendersNext ==
  ASSUME WellFormed(program), SendersComplete(program)
  PROVE  SendersComplete(NextGeneration(program))
<1> DEFINE p == NextGeneration(program)
<1>1. /\ DOMAIN p = DOMAIN program
      /\ \A s \in DOMAIN program :
           p[s] = IF program[s].op = "continueAsNew" THEN complete ELSE program[s]
  BY DEF NextGeneration
<1>2. complete.op = "complete"
  BY DEF complete
<1> HIDE DEF p
<1>3. ASSUME NEW s \in DOMAIN p, p[s].op = "sendEvent"
      PROVE  program[s].op = "sendEvent"
  BY <1>1, <1>2, <1>3
<1>4. ASSUME NEW s \in DOMAIN p, program[s].op \in {"complete", "continueAsNew"}
      PROVE  p[s].op = "complete"
  BY <1>1, <1>2, <1>4
<1>5. SendersComplete(p)
  BY <1>1, <1>3, <1>4 DEF SendersComplete
<1> QED BY <1>5 DEF p

\* The types of the events at rest and on their way.
TypesInv(P, L) == AllOf(history, P) /\ AllOf(inbox, L) /\ AllOf(newEvents, L)
ConfirmationTypes == {"TaskScheduled", "ChildWorkflowInstanceCreated", "EventSent", "TimerCreated"}
OpeningTypes == {"WorkflowStarted", "ExecutionStarted", "EventRaised"}

\* A turn records what it was given, and confirmations.
LEMMA RecordedTypes ==
  ASSUME InstanceInv, control = "done", NEW P, NEW L, L \subseteq P, TypesInv(P, L),
         ConfirmationTypes \subseteq P, OpeningTypes \subseteq L
  PROVE  AllOf(Recorded, P)
<1> DEFINE ws == WorkflowStarted(encounteredPatch)
           wf == WorkflowStarted(FALSE)
           kinds == ActionKinds \ {"completeWorkflow"}
<1>1. /\ ws \in EventRecords /\ ws.type = "WorkflowStarted"
      /\ Tail(newEvents) \in Seq(EventRecords) /\ Confirmations \in Seq(EventRecords)
      /\ newEvents = <<wf>> \o Tail(newEvents) /\ history \in Seq(EventRecords)
  BY RecordedParts DEF InstanceInv, BackendTypeOK
<1>2. wf \in EventRecords
  BY WorkflowStartedType
<1>3. Recorded = history \o <<ws>> \o Tail(newEvents) \o Confirmations
  BY DEF Recorded
<1>4. ASSUME NEW i \in DOMAIN Confirmations
      PROVE  Confirmations[i].type \in P
  <2>1. i \in DOMAIN Ids(kinds) /\ Confirmations[i] = Confirmation(Ids(kinds)[i])
    BY <1>4 DEF Confirmations
  <2>2. PICK id : id = Ids(kinds)[i]
    OBVIOUS
  <2>3. pendingActions[id].kind \in kinds
    BY <2>1, <2>2, IdsOfKinds
  <2>4. PICK type, name :
          Confirmation(id) = Event(type, id, name, 0) /\ type \in ConfirmationTypes
    <3> DEFINE kind == pendingActions[id].kind
    <3>1. kind \in {"scheduleTask", "createChildWorkflow", "sendEvent"} \union TimerKinds
      BY <2>3 DEF ActionKinds
    <3>2. CASE kind = "scheduleTask"
      BY <3>2 DEF Confirmation, TimerKinds, ConfirmationTypes
    <3>3. CASE kind = "createChildWorkflow"
      BY <3>3 DEF Confirmation, TimerKinds, ConfirmationTypes
    <3>4. CASE kind = "sendEvent"
      BY <3>4 DEF Confirmation, TimerKinds, ConfirmationTypes
    <3>5. CASE kind \in TimerKinds
      BY <3>5 DEF Confirmation, TimerKinds, ConfirmationTypes
    <3> QED BY <3>1, <3>2, <3>3, <3>4, <3>5
  <2>5. Confirmation(id).type = type
    BY <2>4 DEF Event
  <2>6. Confirmations[i].type = type
    BY <2>1, <2>2, <2>5
  <2> QED BY <2>4, <2>6
<1> HIDE DEF ws, wf, kinds
<1>5. AllOf(<<ws>>, P) /\ <<ws>> \in Seq(EventRecords)
  BY <1>1, AllOfOne DEF OpeningTypes
<1>6. AllOf(Tail(newEvents), P)
  <2>1. \A i \in DOMAIN Tail(newEvents) :
          i + 1 \in DOMAIN newEvents /\ newEvents[i + 1] = Tail(newEvents)[i]
    BY <1>1, <1>2, BehindFront
  <2> QED BY <2>1 DEF TypesInv, AllOf
<1>7. AllOf(Confirmations, P)
  BY <1>4 DEF AllOf
<1>8. /\ history \o <<ws>> \in Seq(EventRecords) /\ AllOf(history \o <<ws>>, P)
  BY <1>1, <1>5, AllOfConcat, ConcatProperties DEF TypesInv
<1>9. /\ history \o <<ws>> \o Tail(newEvents) \in Seq(EventRecords)
      /\ AllOf(history \o <<ws>> \o Tail(newEvents), P)
  BY <1>1, <1>6, <1>8, AllOfConcat, ConcatProperties
<1> QED BY <1>1, <1>3, <1>7, <1>9, AllOfConcat

\* The types outlive the end of a turn.
LEMMA TypesCommit ==
  ASSUME InstanceInv, FlowInv, NEW P, NEW L, L \subseteq P, TypesInv(P, L),
         ConfirmationTypes \subseteq P, OpeningTypes \subseteq L,
         CommitTurn \/ CommitEnd \/ CommitContinueAsNew \/ Abandon
  PROVE  TypesInv(P, L)'
<1>1. newEvents' = <<>>
  BY DEF CommitTurn, CommitEnd, CommitContinueAsNew, Commit, Abandon, Release, NewContext
<1>2. AllOf(newEvents', L)
  BY <1>1 DEF AllOf
<1>3. CASE CommitTurn \/ CommitEnd
  <2>1. control = "done" /\ history' = Recorded /\ inbox' = inbox
    BY <1>3 DEF CommitTurn, CommitEnd, Commit
  <2> QED BY <1>2, <2>1, RecordedTypes DEF TypesInv, AllOf
<1>4. CASE CommitContinueAsNew
  <2> DEFINE es == ExecutionStarted
  <2>1. PICK carried \in SetToSeqs(carryoverEvents) :
          /\ inbox' = <<es>> \o carried /\ carried \in Seq(EventRecords)
          /\ \A i \in DOMAIN carried : carried[i] \in carryoverEvents
          /\ es \in EventRecords /\ es.type = "ExecutionStarted"
    BY <1>4, ContinuesWith
  <2>2. history' = <<>>
    BY <1>4 DEF CommitContinueAsNew
  <2>3. \A e \in carryoverEvents : e.type = "EventRaised"
    BY DEF FlowInv, LocalInv, CarryInv, ReadEvents, RaisedIn
  <2>4. AllOf(carried, L)
    BY <2>1, <2>3 DEF AllOf, OpeningTypes
  <2> HIDE DEF es
  <2>5. AllOf(<<es>>, L) /\ <<es>> \in Seq(EventRecords)
    BY <2>1, AllOfOne DEF OpeningTypes
  <2>6. AllOf(inbox', L)
    BY <2>1, <2>4, <2>5, AllOfConcat
  <2>7. AllOf(history', P)
    BY <2>2 DEF AllOf
  <2> QED BY <1>2, <2>6, <2>7 DEF TypesInv, AllOf
<1>5. CASE Abandon
  <2> DEFINE wf == WorkflowStarted(FALSE)
  <2>1. inbox' \in Seq(EventRecords) /\ newEvents = <<wf>> \o inbox' /\ history' = history
    BY <1>5, AbandonsWith
  <2>2. wf \in EventRecords
    BY WorkflowStartedType
  <2> HIDE DEF wf
  <2>3. \A i \in DOMAIN inbox' : i + 1 \in DOMAIN newEvents /\ newEvents[i + 1] = inbox'[i]
    BY <2>1, <2>2, BehindFront
  <2>4. AllOf(inbox', L)
    BY <2>3 DEF TypesInv, AllOf
  <2> QED BY <1>2, <2>1, <2>4 DEF TypesInv, AllOf
<1> QED BY <1>3, <1>4, <1>5

\* They outlive an arrival of their own, and the dispatch of what has arrived.
LEMMA TypesArrive ==
  ASSUME InstanceInv, NEW P, NEW L, TypesInv(P, L),
         NEW e \in EventRecords, e.type \in L, Arrive(e)
  PROVE  TypesInv(P, L)'
<1>1. /\ UNCHANGED <<newEvents, history>> /\ inbox' = Append(inbox, e) /\ inbox \in Seq(EventRecords)
  BY DEF Arrive, execVars, iterVars, InstanceInv, BackendTypeOK
<1>2. <<e>> \in Seq(EventRecords) /\ AllOf(<<e>>, L)
  BY AllOfOne
<1>3. inbox' = inbox \o <<e>>
  BY <1>1
<1>4. AllOf(inbox', L)
  BY <1>1, <1>2, <1>3, AllOfConcat DEF TypesInv
<1> QED BY <1>1, <1>4 DEF TypesInv, AllOf

LEMMA TypesDispatch ==
  ASSUME InstanceInv, NEW P, NEW L, TypesInv(P, L), OpeningTypes \subseteq L, Dispatch
  PROVE  TypesInv(P, L)'
<1> DEFINE wf == WorkflowStarted(FALSE)
<1>1. newEvents' = <<wf>> \o inbox /\ inbox' = <<>> /\ history' = history
  BY DEF Dispatch, Execute, NewContext
<1>2. wf \in EventRecords /\ wf.type = "WorkflowStarted" /\ inbox \in Seq(EventRecords)
  BY WorkflowStartedType DEF InstanceInv, BackendTypeOK
<1> HIDE DEF wf
<1>3. <<wf>> \in Seq(EventRecords) /\ AllOf(<<wf>>, L)
  BY <1>2, AllOfOne DEF OpeningTypes
<1>4. AllOf(newEvents', L)
  BY <1>1, <1>2, <1>3, AllOfConcat DEF TypesInv
<1> QED BY <1>1, <1>4 DEF TypesInv, AllOf

\* The calm outlives the end of a turn.
LEMMA StayCommit ==
  ASSUME InstanceInv, FlowInv, StayInv, CommitTurn \/ CommitEnd \/ CommitContinueAsNew \/ Abandon
  PROVE  StayInv'
<1>1. /\ Release /\ UNCHANGED <<sdkEmitsOptionalTimer, patchDeployed, requested, scenario>>
      /\ control' = "idle" /\ ~isSuspended' /\ ~draining' /\ eventsWhileSuspended' = <<>>
  BY DEF CommitTurn, CommitEnd, CommitContinueAsNew, Commit, Abandon, Release, NewContext,
         deployVars
<1>2. Calm'
  BY <1>1 DEF StayInv, Calm
<1>3. ConfirmationTypes \subseteq PastTypes /\ OpeningTypes \subseteq LiveTypes
  BY DEF ConfirmationTypes, OpeningTypes, LiveTypes, PastTypes, EventTypes, Suspending
<1>4. TypesInv(PastTypes, LiveTypes)'
  BY <1>3, TypesCommit, LiveIsPast DEF StayInv, TypesInv
<1>5. SendersComplete(program')
  <2>1. CASE CommitTurn \/ CommitEnd \/ Abandon
    BY <2>1 DEF CommitTurn, CommitEnd, Abandon, deployVars, StayInv
  <2>2. CASE CommitContinueAsNew
    BY <2>2, SendersNext
       DEF CommitContinueAsNew, StayInv, InstanceInv, FullInv, ExecutorInv, ExecutorTypeOK,
           DeployTypeOK
  <2> QED BY <2>1, <2>2
<1> QED BY <1>1, <1>2, <1>4, <1>5 DEF StayInv, SendersComplete, TypesInv, AllOf

\* The calm outlives every step.
LEMMA StayStep ==
  ASSUME InstanceInv, FlowInv, StayInv, [Next]_vars
  PROVE  StayInv'
<1>1. CASE Arrival
  <2>1. PICK e \in EventRecords :
          Arrive(e) /\ e.type \in LiveTypes /\ requested' \subseteq requested \union {"terminate"}
    BY <1>1, LiveArrives
  <2>2. UNCHANGED <<sdkEmitsOptionalTimer, patchDeployed, program, isSuspended, draining,
                    eventsWhileSuspended, control, scenario, status>>
    BY <2>1 DEF Arrive, execVars, deployVars, suspendVars
  <2>3. TypesInv(PastTypes, LiveTypes)'
    BY <2>1, TypesArrive DEF StayInv, TypesInv
  <2> QED BY <2>1, <2>2, <2>3 DEF StayInv, Calm, SendersComplete, TypesInv, AllOf
<1>2. CASE Dispatch
  <2>1. /\ status = "RUNNING" /\ ~isSuspended' /\ ~draining' /\ eventsWhileSuspended' = <<>>
        /\ UNCHANGED <<sdkEmitsOptionalTimer, patchDeployed, program, scenario, status, requested>>
    BY <1>2 DEF Dispatch, Execute, NewContext, deployVars
  <2>2. OpeningTypes \subseteq LiveTypes
    BY DEF OpeningTypes, LiveTypes
  <2>3. TypesInv(PastTypes, LiveTypes)'
    BY <1>2, <2>2, TypesDispatch DEF StayInv, TypesInv
  <2> QED BY <2>1, <2>3 DEF StayInv, Calm, SendersComplete, TypesInv, AllOf
<1>3. CASE Execution
  <2>1. Calm'
    BY <1>3, CalmKept, GivenIsPast
       DEF Execution, StayInv, InstanceInv, FullInv, ExecutorInv, ExecutorTypeOK, FlowInv, LocalInv
  <2>2. UNCHANGED <<program, newEvents, history, inbox, scenario, status, requested>>
    BY <1>3, ControlStep DEF Execution, backendVars, deployVars
  <2>3. control # "idle"
    BY <1>3, ControlStep DEF Execution
  <2> QED BY <2>1, <2>2, <2>3 DEF StayInv, SendersComplete, AllOf
<1>4. CASE CommitTurn \/ CommitEnd \/ CommitContinueAsNew \/ Abandon
  BY <1>4, StayCommit
<1>5. CASE UNCHANGED vars
  BY <1>5 DEF vars, execVars, backendVars, deployVars, suspendVars, iterVars, StayInv, Calm,
              SendersComplete, AllOf
<1> QED BY <1>1, <1>2, <1>3, <1>4, <1>5, CalmSteps DEF StayInv

-----------------------------------------------------------------------------
(* What the history remembers, and how far a turn has come *)

NonDeterministic == "NonDeterministicOrchestratorException"

\* The backend starts something for the slot, or nothing: it does not count sent events.
Worked(s) == ~(s \in DOMAIN program /\ program[s].op = "sendEvent")

\* Code at isPatched has behind it a turn that recorded the patch.
PatchSeen(x, H) ==
  CodeAt(x, "isPatched") =>
    \E j \in 1 .. x.idx : j \in DOMAIN H /\ H[j].type = "WorkflowStarted" /\ H[j].val = 1

\* Where replay ends: the code has observed what it had, and waits.
Recalls(x) ==
  /\ Pumps(x) /\ x.seen = committed /\ x.idx = Len(history)
  /\ \A id \in DOMAIN x.acts : x.acts[id].kind = "sendEvent"
  /\ \A s \in Slots : Worked(s) /\ started[s] = 1 => s < x.at

\* The history takes a turn through these states, to where the last turn had ended.
Memory(tr, n) ==
  /\ Run(tr, n, history)
  /\ \A k \in 1 .. n : NonDeterministic \notin tr[k].thrown /\ PatchSeen(tr[k], history)
  /\ Recalls(tr[n])

\* The turn has gone through these states; the patches it met live will be recorded.
Live(tr, n) ==
  /\ Run(tr, n, Given)
  /\ \A k \in 1 .. n :
       /\ NonDeterministic \notin tr[k].thrown
       /\ \/ PatchSeen(tr[k], Given)
          \/ /\ tr[k].idx \in Nat /\ tr[k].idx > Len(pastEvents)
             /\ k # n => encounteredPatch

\* Replay is behind the turn.
Settled ==
  /\ ReadCount > Len(pastEvents)
  /\ \A s \in DOMAIN committed : s \in DOMAIN observed /\ observed[s] = committed[s]
  /\ NonDeterministic \notin thrown
  /\ \A id \in DOMAIN pendingActions :
       LET s == pendingActions[id].slot IN s \in Slots /\ Worked(s) => started[s] = 0
  /\ \A s \in Slots : Worked(s) /\ started[s] = 1 => s < pc

Replaying ==
  /\ ~isComplete /\ control \in {"loop", "user"}
  /\ \E tr, n : Memory(tr, n) /\ \E k \in 1 .. n : Now = tr[k]
GoingOn ==
  /\ ~isComplete /\ control \in {"loop", "user"} /\ Settled
  /\ \E tr, n : Live(tr, n) /\ Now = tr[n]
Stopped ==
  /\ ~isComplete /\ control = "done" /\ Settled
  /\ \E tr, n :
       /\ Live(tr, n) /\ Pumps(tr[n]) /\ Now = Turned(tr[n], "done")
       /\ tr[n].ctl = "loop" =>
            \A id \in DOMAIN pendingActions : pendingActions[id].kind # "sendEvent"
Over == isComplete /\ Settled

PhaseInv == control # "idle" => Replaying \/ GoingOn \/ Stopped \/ Over

\* Which patches were seen depends on the program alone.
LEMMA PatchSeenStays ==
  ASSUME program' = program, NEW x, NEW H
  PROVE  PatchSeen(x, H)' = PatchSeen(x, H)
<1>1. CodeAt(x, "isPatched")' = CodeAt(x, "isPatched")
  BY AfterStays
<1> QED BY <1>1, Zenon DEF PatchSeen

\* A history that stays is remembered.
LEMMA MemoryStays ==
  ASSUME UNCHANGED <<program, history, committed, started>>, NEW tr, NEW n, Memory(tr, n)
  PROVE  Memory(tr, n)'
<1>1. Run(tr, n, history)'
  <2>1. PICK H : H = history
    OBVIOUS
  <2>2. Run(tr, n, H)'
    BY <2>1, RunStays DEF Memory
  <2> QED BY <2>1, <2>2, Zenon
<1>2. Pumps(tr[n])' = Pumps(tr[n]) /\ \A s : Worked(s)' = Worked(s)
  BY AfterStays DEF Worked
<1>3. Recalls(tr[n])'
  BY <1>2 DEF Memory, Recalls
<1>4. \A k : PatchSeen(tr[k], history)' = PatchSeen(tr[k], history)
  BY DEF PatchSeen, CodeAt
<1> QED BY <1>1, <1>3, <1>4 DEF Memory

\* Patches once met stay met, and code at isPatched meets it.
LEMMA PatchesStay ==
  ASSUME ExecutorStep, encounteredPatch
  PROVE  encounteredPatch'
<1>1. CASE HandleEvent
  <2>1. CASE HandleTaskScheduled \/ HandleSubOrchestrationCreated \/ HandleTimerCreated
    BY <2>1 DEF HandleTaskScheduled, HandleSubOrchestrationCreated, HandleTimerCreated, Confirm,
                patchVars
  <2>2. CASE \/ HandleTaskCompleted \/ HandleTaskFailed \/ HandleTimerFired
             \/ HandleSubOrchestrationCompleted \/ HandleSubOrchestrationFailed
             \/ HandleInfrastructureTimer \/ HandleEventRaised \/ HandleWorkflowStarted
    BY <2>2 DEF HandleTaskCompleted, HandleTaskFailed, HandleTimerFired,
                HandleSubOrchestrationCompleted, HandleSubOrchestrationFailed, CloseTask,
                HandleInfrastructureTimer, HandleEventRaised, HandleWorkflowStarted, patchVars
  <2>3. CASE \/ HandleUnknown \/ HandleExecutionStarted \/ HandleExecutionSuspended
             \/ HandleEventWhileSuspended \/ HandleExecutionResumed
             \/ HandleExecutionTerminated
    BY <2>3 DEF HandleUnknown, HandleExecutionStarted, HandleExecutionSuspended,
                HandleEventWhileSuspended, HandleExecutionResumed, HandleExecutionTerminated,
                patchVars
  <2> QED BY <1>1, <2>1, <2>2, <2>3 DEF HandleEvent
<1>2. CASE IsPatched
  <2> DEFINE answer == CheckPatch
  <2>1. \/ encounteredPatch' = (encounteredPatch \/ answer = "yes")
        \/ UNCHANGED patchVars
    BY <1>2, Zenon DEF IsPatched
  <2> QED BY <2>1 DEF patchVars
<1>3. CASE CodeStep /\ ~IsPatched
  BY <1>3
     DEF CodeStep, CallActivity, CallSubOrchestrator, CreateTimer, Schedule, SendEvent,
         WaitFindsEvent, WaitTimesOutAtOnce, WaitForExternalEvent, Await, Complete,
         ContinueAsNew, CallWhenComplete, CodeThrows, Return, patchVars
<1>4. CASE Yield \/ EndOfHistory
  BY <1>4 DEF Yield, EndOfHistory, patchVars
<1> QED BY <1>1, <1>2, <1>3, <1>4 DEF ExecutorStep

\* A question for a patch meets it.
LEMMA PatchIsMet ==
  ASSUME Underway, CodeAt(Now, "isPatched"), ExecutorStep
  PROVE  encounteredPatch'
<1>1. Running("isPatched") /\ ~isComplete
  BY NowRuns DEF Underway, Calm
<1>2. ~HandleEvent
  BY <1>1, EventIsRead DEF Read, Pumping, Running
<1>3. ~Yield /\ ~EndOfHistory
  BY <1>1 DEF Yield, EndOfHistory, Running
<1>4. \A op : Code(op) => op = "isPatched"
  BY <1>1 DEF Code, Running
<1>5. IsPatched
  BY <1>1, <1>2, <1>3, <1>4
     DEF ExecutorStep, CodeStep, CallActivity, CallSubOrchestrator, CreateTimer, SendEvent,
         WaitFindsEvent, WaitTimesOutAtOnce, WaitForExternalEvent, Await, Complete,
         ContinueAsNew, CallWhenComplete, Return, Running
<1> QED BY <1>5, PatchFollows

\* Events that arrive do not make the code look non-deterministic.
LEMMA ThrownLive ==
  ASSUME IterTypeOK, IterInv, Calm, AllOf(newEvents, LiveTypes), ReadCount >= Len(pastEvents),
         ExecutorStep, NonDeterministic \notin thrown
  PROVE  NonDeterministic \notin thrown'
<1>1. CASE HandleEvent
  <2>1. PICK type \in EventTypes : Read(type)
    BY <1>1, EventIsRead
  <2>2. /\ ReadCount + 1 \in DOMAIN Given /\ NextEvent = Given[ReadCount + 1]
    BY <2>1, ReadIsNext DEF Calm, IsNext
  <2>3. NextEvent.type \in LiveTypes
    <3>1. /\ Len(pastEvents) \in Nat /\ Len(newEvents) \in Nat /\ ReadCount \in Nat
          /\ DOMAIN Given = 1 .. Len(pastEvents) + Len(newEvents)
          /\ DOMAIN newEvents = 1 .. Len(newEvents)
          /\ \A i \in 1 .. Len(newEvents) : Given[Len(pastEvents) + i] = newEvents[i]
      BY GivenType DEF IterTypeOK
    <3> DEFINE i == ReadCount + 1 - Len(pastEvents)
    <3>2. i \in 1 .. Len(newEvents) /\ Len(pastEvents) + i = ReadCount + 1
      BY <2>2, <3>1
    <3> HIDE DEF i
    <3>3. NextEvent = newEvents[i] /\ i \in DOMAIN newEvents
      BY <2>2, <3>1, <3>2
    <3> QED BY <3>3 DEF AllOf
  <2>4. ~(\/ HandleTaskScheduled \/ HandleSubOrchestrationCreated \/ HandleTimerCreated
          \/ HandleInfrastructureTimer \/ HandleUnknown)
    BY <2>3 DEF LiveTypes, HandleTaskScheduled, HandleSubOrchestrationCreated,
                HandleTimerCreated, HandleInfrastructureTimer, HandleUnknown, Handle, Read
  <2>5. CASE HandleExecutionTerminated
    <3>1. thrown' = thrown \/ thrown' = thrown \union {"IllegalStateException"}
      BY <2>5 DEF HandleExecutionTerminated, Throws
    <3> QED BY <3>1 DEF NonDeterministic
  <2>6. CASE \/ HandleTaskCompleted \/ HandleTaskFailed \/ HandleTimerFired
             \/ HandleSubOrchestrationCompleted \/ HandleSubOrchestrationFailed
             \/ HandleEventRaised \/ HandleWorkflowStarted
             \/ HandleExecutionStarted \/ HandleExecutionSuspended
             \/ HandleEventWhileSuspended \/ HandleExecutionResumed
    BY <2>6 DEF HandleTaskCompleted, HandleTaskFailed, HandleTimerFired,
                HandleSubOrchestrationCompleted, HandleSubOrchestrationFailed, CloseTask,
                HandleEventRaised, HandleWorkflowStarted,
                HandleExecutionStarted, HandleExecutionSuspended,
                HandleEventWhileSuspended, HandleExecutionResumed
  <2> QED BY <1>1, <2>4, <2>5, <2>6 DEF HandleEvent
<1>2. CASE CodeStep \/ Yield \/ EndOfHistory
  BY <1>2, NothingIsRead
<1> QED BY <1>1, <1>2 DEF ExecutorStep

\* The history goes on in what the turn is given.
LEMMA HistoryGoesOn ==
  ASSUME InstanceInv, control # "idle"
  PROVE  /\ GoesOn(history, Given) /\ Len(history) = Len(pastEvents)
         /\ \A j \in DOMAIN history : j \in DOMAIN Given /\ Given[j] = history[j]
         /\ Len(Given) > Len(history) /\ Len(history) + 1 \in DOMAIN Given
         /\ Given[Len(history) + 1] = WorkflowStarted(FALSE)
<1>1. /\ pastEvents = history /\ newEvents # <<>> /\ Head(newEvents) = WorkflowStarted(FALSE)
      /\ IterTypeOK
  BY DEF InstanceInv, TurnInv, FullInv, ExecutorInv, ExecutorTypeOK
<1>2. /\ Given \in Seq(EventRecords) /\ Len(Given) = Len(pastEvents) + Len(newEvents)
      /\ \A i \in 1 .. Len(pastEvents) : Given[i] = pastEvents[i]
      /\ \A i \in 1 .. Len(newEvents) : Given[Len(pastEvents) + i] = newEvents[i]
      /\ Len(pastEvents) \in Nat /\ Len(newEvents) \in Nat
      /\ DOMAIN Given = 1 .. Len(Given) /\ DOMAIN pastEvents = 1 .. Len(pastEvents)
  BY <1>1, GivenType DEF IterTypeOK
<1>3. Len(newEvents) > 0 /\ newEvents[1] = Head(newEvents)
  BY <1>1 DEF IterTypeOK
<1>4. \A j \in DOMAIN history : j \in DOMAIN Given /\ Given[j] = history[j]
  BY <1>1, <1>2
<1>5. GoesOn(history, Given)
  BY <1>4 DEF GoesOn
<1>6. 1 \in 1 .. Len(newEvents)
  BY <1>2, <1>3
<1>7. Given[Len(history) + 1] = newEvents[1]
  BY <1>1, <1>2, <1>6
<1>8. Len(history) + 1 \in DOMAIN Given /\ Len(Given) > Len(history)
  BY <1>1, <1>2, <1>3
<1> QED BY <1>1, <1>3, <1>4, <1>5, <1>7, <1>8

\* In every phase isPatched says yes.
LEMMA PhaseAnswered ==
  ASSUME InstanceInv, FlowInv, StayInv, PatchInv, PhaseInv, control # "idle"
  PROVE  Answered
<1> SUFFICES ASSUME Running("isPatched") PROVE CheckPatch = "yes"
  BY DEF Answered
<1>1. /\ appliedPatch \in {"unset", "yes"} /\ control = "user" /\ ~draining
      /\ IterTypeOK /\ IterInv /\ currentHistoryIndex \in Nat
  BY DEF PatchInv, Running, StayInv, Calm, InstanceInv, FullInv, ExecutorInv, ExecutorTypeOK,
         IterTypeOK, FlowInv, LocalInv
<1>2. CASE Settled
  <2>1. ~isReplaying
    BY <1>1, <1>2 DEF Settled, ReadCount, IterInv, IterTypeOK
  <2> QED BY <1>1, <2>1 DEF CheckPatch
<1>3. CASE Replaying
  <2>1. PICK tr, n : Memory(tr, n) /\ \E k \in 1 .. n : Now = tr[k]
    BY <1>3 DEF Replaying
  <2>2. PICK k \in 1 .. n : Now = tr[k]
    BY <2>1
  <2>3. PatchSeen(Now, history)
    BY <2>1, <2>2 DEF Memory
  <2>4. CodeAt(Now, "isPatched")
    BY <1>1, NowRuns
  <2>5. PICK j \in 1 .. ReadCount :
          j \in DOMAIN history /\ history[j].type = "WorkflowStarted" /\ history[j].val = 1
    BY <2>3, <2>4, NowIs DEF PatchSeen
  <2>6. Given[j] = history[j]
    BY <2>5, HistoryGoesOn
  <2>7. historyPatched
    BY <2>5, <2>6 DEF PatchInv
  <2> QED BY <1>1, <2>7 DEF CheckPatch
<1> QED BY <1>2, <1>3 DEF PhaseInv, GoingOn, Stopped, Over

-----------------------------------------------------------------------------
(* A step of a turn *)

\* The backend has started what the code asked for once, or not yet.
AskedInv == \A s \in Slots : Worked(s) => started[s] \in {0, 1}

\* A step reads one event or none.
LEMMA CountGoesUp ==
  ASSUME IterTypeOK, IterInv, ~draining, ExecutorStep
  PROVE  ReadCount' \in {ReadCount, ReadCount + 1} /\ Given' = Given
<1>1. CASE HandleEvent
  BY <1>1, EventIsRead, ReadIsNext DEF IsNext
<1>2. CASE CodeStep \/ Yield \/ EndOfHistory
  BY <1>2, NothingIsRead DEF ReadCount, Given, iterVars
<1> QED BY <1>1, <1>2 DEF ExecutorStep

\* Once replay is behind the turn, it stays so: nothing live names what was asked for before.
LEMMA SettledKept ==
  ASSUME InstanceInv, FlowInv, StayInv, CodeInv, AskedInv, Answered, Settled, Execution
  PROVE  Settled'
<1>1. /\ ExecutorStep /\ UNCHANGED <<program, pastEvents, newEvents, history, committed, started>>
      /\ control \in {"loop", "user"}
      /\ ExecutorTypeOK /\ IdsAreFresh /\ OneCompletion /\ IterTypeOK /\ IterInv
      /\ Calm /\ ~draining /\ patchDeployed /\ AllOf(newEvents, LiveTypes)
  BY ControlStep
     DEF Execution, backendVars, deployVars, InstanceInv, FullInv, ExecutorInv, ExecutorTypeOK,
         FlowInv, LocalInv, StayInv, Calm
<1>2. /\ pc \in Nat /\ Slots \subseteq Nat /\ ReadCount \in Nat /\ Len(pastEvents) \in Nat
      /\ DOMAIN program \subseteq Slots
  BY <1>1, SlotsNat, GivenType DEF ExecutorTypeOK, CodeTypeOK, DeployTypeOK
<1>3. ReadCount' \in {ReadCount, ReadCount + 1}
  BY <1>1, CountGoesUp
<1>4. ReadCount' > Len(pastEvents)
  BY <1>2, <1>3 DEF Settled
<1>5. NonDeterministic \notin thrown'
  BY <1>1, <1>2, ThrownLive DEF Settled
<1>6. ASSUME NEW s \in DOMAIN committed
      PROVE  s \in DOMAIN observed' /\ observed'[s] = committed[s]
  <2>1. s \in DOMAIN observed /\ observed[s] = committed[s]
    BY DEF Settled
  <2>2. s # pc
    BY <1>1, <1>2, <2>1 DEF CodeInv, SeenInv
  <2>3. observed' = observed \/ \E v : observed' = Put(observed, pc, v)
    BY <1>1, CodeGoesOn
  <2> QED BY <2>1, <2>2, <2>3 DEF Put
<1>7. pc' \in {pc, pc + 1}
  BY <1>1, CodeGoesOn
<1>8. ASSUME NEW s \in Slots, Worked(s), started[s] = 1
      PROVE  s < pc'
  BY <1>2, <1>7, <1>8 DEF Settled
<1>9. ASSUME NEW id \in DOMAIN pendingActions', NEW s, s = pendingActions'[id].slot, s \in Slots,
             Worked(s)
      PROVE  started[s] = 0
  <2> DEFINE a == pendingActions'[id]
  <2>1. CASE \E j \in DOMAIN pendingActions : a = pendingActions[j]
    BY <1>9, <2>1 DEF Settled
  <2>2. CASE a = Ending
    <3>1. s = 0
      BY <1>9, <2>2 DEF Ending, Action
    <3>2. 0 \notin Slots
      BY ProgramsAssumption DEF Slots, WellFormed
    <3> QED BY <1>9, <3>1, <3>2
  <2>3. CASE Called(a)
    <3>1. s = pc
      BY <1>9, <2>3 DEF Called
    <3>2. started[s] # 1
      BY <1>2, <1>9, <3>1 DEF Settled
    <3> QED BY <1>9, <3>2 DEF AskedInv
  <2> QED BY <1>1, <1>9, <2>1, <2>2, <2>3, ActionsGrow
<1>10. \A s : Worked(s)' = Worked(s)
  BY <1>1 DEF Worked
<1> QED BY <1>1, <1>4, <1>5, <1>6, <1>8, <1>9, <1>10 DEF Settled

\* A run and the state after it.
LEMMA OneLonger ==
  ASSUME NEW tr, NEW n, NEW H, Run(tr, n, H), NEW y, y = After(tr[n], H),
         y.ctl \in {"loop", "user"}
  PROVE  \E longer :
           /\ Run(longer, n + 1, H)
           /\ longer[n + 1] = y /\ \A k \in 1 .. n : longer[k] = tr[k]
<1> DEFINE longer == [k \in 1 .. n + 1 |-> IF k = n + 1 THEN y ELSE tr[k]]
<1>1. Run(longer, n + 1, H)
  BY RunLonger
<1>2. longer[n + 1] = y /\ \A k \in 1 .. n : longer[k] = tr[k]
  BY DEF Run
<1> QED BY <1>1, <1>2

\* What holds of a running turn.
LEMMA TurnUnderway ==
  ASSUME InstanceInv, FlowInv, StayInv, CodeInv, PhaseInv, Execution, ~isComplete
  PROVE  /\ Underway /\ ExecutorStep /\ Given' = Given
         /\ UNCHANGED <<program, pastEvents, history, committed, started>>
<1>1. control \in {"loop", "user"} /\ ExecutorStep
      /\ UNCHANGED <<program, pastEvents, history, committed, started>>
  BY ControlStep DEF Execution, backendVars, deployVars
<1>2. Answered /\ NeverSuspended
  BY <1>1, PhaseAnswered, GivenIsPast DEF CodeInv
<1>3. Calm /\ FullInv /\ IterInv /\ IterTypeOK /\ ~draining
  BY DEF StayInv, Calm, InstanceInv, FullInv, ExecutorInv, ExecutorTypeOK, FlowInv, LocalInv
<1>4. Given' = Given
  BY <1>1, <1>3, CountGoesUp
<1> QED BY <1>1, <1>2, <1>3, <1>4 DEF Underway

\* A turn that has something to read does not stop.
LEMMA ReadsOn ==
  ASSUME Underway, ExecutorStep, newEvents # <<>>, ReadCount + 1 \in DOMAIN Given
  PROVE  Goes(After(Now, Given))
<1>1. ~Stops
  <2> SUFFICES ASSUME Stops PROVE FALSE
    OBVIOUS
  <2>1. IterTypeOK /\ IterInv /\ ~draining
    BY DEF Underway, FullInv, ExecutorInv, ExecutorTypeOK, Calm
  <2>2. ReadCount \in Nat /\ DOMAIN Given = 1 .. Len(Given) /\ Len(Given) \in Nat
    BY <2>1, GivenType DEF IterTypeOK
  <2>3. ReadCount = Len(Given)
    BY <2>1, AllRead DEF Stops
  <2> QED BY <2>2, <2>3
<1> QED BY <1>1, ExecutorFollows

\* Replay takes the next step of the memory.
LEMMA ReplayGoesOn ==
  ASSUME InstanceInv, FlowInv, StayInv, CodeInv, PhaseInv, Execution, ~isComplete,
         NEW tr, NEW n, Memory(tr, n), NEW k \in 1 .. n - 1, Now = tr[k]
  PROVE  Replaying'
<1>1. /\ Underway /\ ExecutorStep
      /\ UNCHANGED <<program, pastEvents, history, committed, started>>
  BY TurnUnderway
<1>2. control # "idle"
  BY <1>1 DEF Underway
<1>3. n \in Nat /\ k \in 1 .. n /\ k + 1 \in 1 .. n
  BY DEF Memory, Run
<1>4. tr[k + 1] = After(tr[k], history) /\ tr[k + 1].ctl \in {"loop", "user"}
  BY <1>3 DEF Memory, Run
<1>5. After(Now, history).ctl # "read"
  BY <1>4
<1>6. After(Now, Given) = tr[k + 1]
  BY <1>2, <1>4, <1>5, HistoryGoesOn, AfterSame
<1>7. Goes(tr[k + 1])
  <2>1. CASE Pumps(Now)
    <3>1. Turned(Now, "read").ctl = "read"
      BY DEF Turned, Snap
    <3>2. ReadCount + 1 \in DOMAIN history
      BY <1>5, <2>1, <3>1, NowIs DEF After
    <3>3. ReadCount + 1 \in DOMAIN Given
      BY <1>2, <3>2, HistoryGoesOn
    <3> QED BY <1>1, <1>2, <1>6, <3>3, ReadsOn DEF InstanceInv, TurnInv
  <2>2. CASE ~Pumps(Now)
    BY <1>1, <1>6, <2>2, ExecutorFollows
  <2> QED BY <2>1, <2>2
<1>8. ~isComplete' /\ control' \in {"loop", "user"} /\ Now' = tr[k + 1]
  BY <1>4, <1>7 DEF Goes
<1>9. Memory(tr, n)'
  BY <1>1, MemoryStays
<1> QED BY <1>3, <1>8, <1>9 DEF Replaying

\* At the end of the memory the turn reads its WorkflowStarted, and is live.
LEMMA ReplayEnds ==
  ASSUME InstanceInv, FlowInv, StayInv, CodeInv, PhaseInv, Execution, ~isComplete,
         NEW tr, NEW n, Memory(tr, n), Now = tr[n]
  PROVE  GoingOn'
<1>1. /\ Underway /\ ExecutorStep /\ Given' = Given
      /\ UNCHANGED <<program, pastEvents, history, committed, started>>
  BY TurnUnderway
<1>2. control \in {"loop", "user"} /\ control # "idle"
  BY <1>1 DEF Underway
<1>3. n \in Nat /\ n \in 1 .. n /\ Recalls(Now)
  BY DEF Memory, Run
<1>4. Pumps(Now) /\ ReadCount = Len(history) /\ observed = committed
  BY <1>3, NowIs DEF Recalls
<1>5. /\ ReadCount + 1 \in DOMAIN Given /\ Given[ReadCount + 1] = WorkflowStarted(FALSE)
      /\ Len(history) = Len(pastEvents) /\ GoesOn(history, Given)
      /\ \A j \in DOMAIN history : j \in DOMAIN Given /\ Given[j] = history[j]
  BY <1>2, <1>4, HistoryGoesOn
<1> DEFINE y == Passing(Now, control)
<1>6. After(Now, Given) = y
  <2>1. Given[ReadCount + 1].type = "WorkflowStarted"
    BY <1>5, WorkflowStartedType
  <2> QED BY <1>4, <1>5, <2>1, NowIs DEF After, Handling
<1>7. y.ctl = control /\ y.thrown = thrown /\ y.idx = ReadCount + 1 /\ y.acts = pendingActions
      /\ y.seen = observed /\ y.at = pc
  BY NowIs DEF Passing, Snap
<1> HIDE DEF y
<1>8. ~isComplete' /\ control' \in {"loop", "user"} /\ Now' = y
  <2>1. Goes(y)
    BY <1>1, <1>2, <1>5, <1>6, ReadsOn DEF InstanceInv, TurnInv
  <2> QED BY <1>2, <1>7, <2>1 DEF Goes
<1>9. /\ thrown' = thrown /\ ReadCount' = ReadCount + 1 /\ pendingActions' = pendingActions
      /\ observed' = observed /\ pc' = pc
  <2>1. /\ Now'.idx = ReadCount' /\ Now'.acts = pendingActions' /\ Now'.at = pc'
        /\ Now'.seen = observed' /\ Now'.thrown = thrown'
    BY DEF Now, Snap
  <2> QED BY <1>7, <1>8, <2>1
<1>10. Settled'
  <2>1. ReadCount \in Nat /\ ReadCount' > Len(pastEvents')
    <3>1. ReadCount \in Nat
      BY GivenType DEF InstanceInv, FullInv, ExecutorInv, ExecutorTypeOK, FlowInv, LocalInv
    <3> QED BY <1>1, <1>4, <1>5, <1>9, <3>1
  <2>2. NonDeterministic \notin thrown'
    BY <1>3, <1>9, NowIs DEF Memory
  <2>3. \A s \in DOMAIN committed' : s \in DOMAIN observed' /\ observed'[s] = committed'[s]
    BY <1>1, <1>4, <1>9
  <2>4. ASSUME NEW id \in DOMAIN pendingActions
        PROVE  ~Worked(pendingActions[id].slot)
    <3>1. pendingActions[id].kind = "sendEvent"
      BY <1>3, NowIs DEF Recalls
    <3>2. pendingActions[id] # Ending
      BY <3>1 DEF Ending, Action
    <3> QED BY <3>1, <3>2 DEF CodeInv, ActsInv, Worked
  <2>5. \A s \in Slots : Worked(s) /\ started[s] = 1 => s < pc
    BY <1>3, NowIs DEF Recalls
  <2>6. \A s : Worked(s)' = Worked(s)
    BY <1>1 DEF Worked
  <2> QED BY <1>1, <1>9, <2>1, <2>2, <2>3, <2>4, <2>5, <2>6 DEF Settled
<1>11. \E longer, m : Live(longer, m)' /\ Now' = longer[m]
  <2>1. Run(tr, n, Given)
    BY <1>5, RunSame DEF Memory
  <2>2. PICK longer :
          /\ Run(longer, n + 1, Given)
          /\ longer[n + 1] = y /\ \A k \in 1 .. n : longer[k] = tr[k]
    BY <1>2, <1>3, <1>6, <1>7, <2>1, OneLonger
  <2>3. longer[n + 1] = y /\ \A k \in 1 .. n : longer[k] = tr[k]
    BY <2>2
  <2>4. Run(longer, n + 1, Given)'
    <3>1. PICK H : H = Given
      OBVIOUS
    <3>2. Run(longer, n + 1, H)'
      BY <1>1, <2>2, <3>1, RunStays
    <3> QED BY <1>1, <3>1, <3>2, Zenon
  <2>5. ASSUME NEW k \in 1 .. n
        PROVE  PatchSeen(longer[k], Given)' /\ NonDeterministic \notin longer[k].thrown
    <3>1. PatchSeen(tr[k], history) /\ NonDeterministic \notin longer[k].thrown
      BY <2>3 DEF Memory
    <3>2. PatchSeen(longer[k], Given)
      BY <1>5, <2>3, <3>1 DEF PatchSeen
    <3>3. PICK H : H = Given
      OBVIOUS
    <3>4. PatchSeen(longer[k], H)' = PatchSeen(longer[k], H)
      BY <1>1, PatchSeenStays
    <3> QED BY <1>1, <3>1, <3>2, <3>3, <3>4, Zenon DEF PatchSeen
  <2>6. /\ longer[n + 1].idx \in Nat /\ longer[n + 1].idx > Len(pastEvents')
        /\ NonDeterministic \notin longer[n + 1].thrown
    <3>1. ReadCount \in Nat
      BY GivenType DEF InstanceInv, FullInv, ExecutorInv, ExecutorTypeOK, FlowInv, LocalInv
    <3>2. NonDeterministic \notin thrown
      BY <1>3, NowIs DEF Memory
    <3> QED BY <1>1, <1>4, <1>5, <1>7, <2>3, <3>1, <3>2
  <2>7. \A k \in 1 .. n + 1 : k = n + 1 \/ k \in 1 .. n
    BY <1>3
  <2>8. Live(longer, n + 1)'
    BY <2>4, <2>5, <2>6, <2>7 DEF Live
  <2> QED BY <1>8, <2>3, <2>8
<1> QED BY <1>8, <1>10, <1>11 DEF GoingOn

\* A live turn goes on, stops, or is over.
LEMMA LiveGoesOn ==
  ASSUME InstanceInv, FlowInv, StayInv, CodeInv, AskedInv, PhaseInv, Execution, GoingOn
  PROVE  GoingOn' \/ Stopped' \/ Over'
<1>1. /\ Underway /\ ExecutorStep /\ Given' = Given /\ ~isComplete
      /\ UNCHANGED <<program, pastEvents, history, committed, started>>
  BY TurnUnderway DEF GoingOn
<1>2. Settled'
  BY <1>1, SettledKept DEF GoingOn, Underway
<1>3. PICK tr, n : Live(tr, n) /\ Now = tr[n]
  BY DEF GoingOn
<1>4. n \in Nat \ {0}
  BY <1>3 DEF Live, Run
<1>5. PICK H : H = Given
  OBVIOUS
<1>6. \A k \in 1 .. n : PatchSeen(tr[k], Given)' <=> PatchSeen(tr[k], Given)
  <2>1. \A k : PatchSeen(tr[k], H)' = PatchSeen(tr[k], H)
    BY <1>1, PatchSeenStays
  <2> QED BY <1>1, <1>5, <2>1, Zenon DEF PatchSeen
<1>7. CASE Goes(After(Now, Given))
  <2> DEFINE y == After(Now, Given)
  <2>1. CASE isComplete'
    BY <1>2, <2>1 DEF Over
  <2>2. CASE ~isComplete'
    <3>1. control' \in {"loop", "user"} /\ Now' = y
      BY <1>7, <2>2 DEF Goes
    <3>2. /\ y.ctl \in {"loop", "user"} /\ y.idx = ReadCount' /\ ReadCount' \in Nat
          /\ y.thrown = thrown'
      <4>1. Now'.ctl = control' /\ Now'.idx = ReadCount' /\ Now'.thrown = thrown'
        BY DEF Now, Snap
      <4>2. IterTypeOK /\ IterInv /\ ~draining
        BY <1>1 DEF Underway, FullInv, ExecutorInv, ExecutorTypeOK, Calm
      <4>3. ReadCount \in Nat /\ ReadCount' \in {ReadCount, ReadCount + 1}
        BY <1>1, <4>2, GivenType, CountGoesUp
      <4> QED BY <3>1, <4>1, <4>3
    <3>3. PICK longer :
            /\ Run(longer, n + 1, Given)
            /\ longer[n + 1] = y /\ \A k \in 1 .. n : longer[k] = tr[k]
      BY <1>3, <3>2, OneLonger DEF Live
    <3>4. longer[n + 1] = y /\ \A k \in 1 .. n : longer[k] = tr[k]
      BY <3>3
    <3> HIDE DEF y
    <3>5. Run(longer, n + 1, Given)'
      <4>1. Run(longer, n + 1, H)'
        BY <1>1, <1>5, <3>3, RunStays
      <4> QED BY <1>1, <1>5, <4>1, Zenon
    <3>6. ASSUME NEW k \in 1 .. n
          PROVE  /\ NonDeterministic \notin longer[k].thrown
                 /\ \/ PatchSeen(longer[k], Given)'
                    \/ /\ longer[k].idx \in Nat /\ longer[k].idx > Len(pastEvents')
                       /\ encounteredPatch'
      <4>1. /\ longer[k] = tr[k] /\ pastEvents' = pastEvents
            /\ NonDeterministic \notin longer[k].thrown
        BY <1>1, <1>3, <3>4 DEF Live
      <4>2. CASE PatchSeen(tr[k], Given)
        BY <1>6, <4>1, <4>2
      <4>3. CASE ~PatchSeen(tr[k], Given)
        <5>1. /\ tr[k].idx \in Nat /\ tr[k].idx > Len(pastEvents)
              /\ k # n => encounteredPatch
          BY <1>3, <4>3 DEF Live
        <5>2. k = n => CodeAt(Now, "isPatched")
          BY <1>3, <4>3 DEF PatchSeen
        <5> QED BY <1>1, <4>1, <5>1, <5>2, PatchesStay, PatchIsMet
      <4> QED BY <4>2, <4>3
    <3>7. /\ longer[n + 1].idx \in Nat /\ longer[n + 1].idx > Len(pastEvents')
          /\ NonDeterministic \notin longer[n + 1].thrown
      BY <1>2, <3>2, <3>4 DEF Settled
    <3>8. \A k \in 1 .. n + 1 : k = n + 1 \/ k \in 1 .. n
      BY <1>4
    <3>9. Live(longer, n + 1)'
      BY <3>5, <3>6, <3>7, <3>8 DEF Live
    <3>10. Now' = longer[n + 1]
      BY <3>1, <3>4
    <3> QED BY <1>2, <2>2, <3>1, <3>9, <3>10 DEF GoingOn
  <2> QED BY <2>1, <2>2
<1>8. CASE Pumps(Now) /\ Stops
  <2>1. CASE isComplete'
    BY <1>2, <2>1 DEF Over
  <2>2. CASE ~isComplete'
    <3>1. control' = "done" /\ Now' = Turned(Now, "done")
      BY <1>8, <2>2 DEF Stops
    <3>2. Run(tr, n, Given)'
      <4>1. Run(tr, n, H)'
        BY <1>1, <1>3, <1>5, RunStays DEF Live
      <4> QED BY <1>1, <1>5, <4>1, Zenon
    <3>3. Live(tr, n)'
      BY <1>1, <1>3, <1>6, <3>2, PatchesStay DEF Live
    <3>4. Pumps(tr[n])'
      BY <1>1, <1>3, <1>8, AfterStays
    <3>5. tr[n].ctl = "loop" =>
            \A id \in DOMAIN pendingActions' : pendingActions'[id].kind # "sendEvent"
      <4>1. pendingActions' = pendingActions /\ tr[n].ctl = control
        <5>1. Now'.acts = pendingActions' /\ Turned(Now, "done").acts = pendingActions
          BY NowIs DEF Now, Snap, Turned
        <5> QED BY <1>3, <3>1, <5>1, NowIs
      <4> QED BY <1>1, <4>1 DEF CodeInv, SilentInv
    <3>6. Turned(Now, "done") = Turned(tr[n], "done")
      BY <1>3
    <3>7. Now' = Turned(tr[n], "done")'
      BY <3>1, <3>6, Zenon DEF Turned, Snap
    <3> QED BY <1>2, <2>2, <3>1, <3>3, <3>4, <3>5, <3>7 DEF Stopped
  <2> QED BY <2>1, <2>2
<1> QED BY <1>1, <1>7, <1>8, ExecutorFollows

\* Every step of a turn leaves it in a phase.
LEMMA PhaseKept ==
  ASSUME InstanceInv, FlowInv, StayInv, CodeInv, AskedInv, PhaseInv, Execution
  PROVE  PhaseInv'
<1>1. ExecutorStep /\ control \in {"loop", "user"} /\ control # "idle"
  BY ControlStep DEF Execution
<1>2. CASE Replaying
  <2>1. PICK tr, n : Memory(tr, n) /\ \E k \in 1 .. n : Now = tr[k]
    BY <1>2 DEF Replaying
  <2>2. PICK k \in 1 .. n : Now = tr[k]
    BY <2>1
  <2>3. n \in Nat /\ (k = n \/ k \in 1 .. n - 1)
    <3>1. n \in Nat
      BY <2>1 DEF Memory, Run
    <3> QED BY <2>2, <3>1
  <2>4. CASE k = n
    BY <1>2, <2>1, <2>2, <2>4, ReplayEnds DEF PhaseInv, Replaying
  <2>5. CASE k \in 1 .. n - 1
    BY <1>2, <2>1, <2>2, <2>5, ReplayGoesOn DEF PhaseInv, Replaying
  <2> QED BY <2>3, <2>4, <2>5
<1>3. CASE GoingOn
  BY <1>3, LiveGoesOn DEF PhaseInv
<1>4. CASE Stopped
  BY <1>1, <1>4 DEF Stopped
<1>5. CASE Over
  <2>1. Answered
    BY <1>1, PhaseAnswered DEF CodeInv
  <2>2. Settled'
    BY <1>5, <2>1, SettledKept DEF Over
  <2>3. isComplete'
    BY <1>1, <1>5, EndHow DEF Over, ContinueAsNew, CompleteInternal
  <2> QED BY <2>2, <2>3 DEF Over, PhaseInv
<1> QED BY <1>1, <1>2, <1>3, <1>4, <1>5 DEF PhaseInv

-----------------------------------------------------------------------------
(* The confirmations of a turn, read by the next one *)

\* What is pending after the first j of the ids c have been confirmed: sent events stay.
LeftOver(x, c, j) ==
  {id \in DOMAIN x.acts : x.acts[id].kind = "sendEvent" \/ id \notin {c[i] : i \in 1 .. j}}
LeftActs(x, c, j) ==
  IF LeftOver(x, c, j) = DOMAIN x.acts THEN x.acts ELSE Restrict(x.acts, LeftOver(x, c, j))
AllThrown(x, c, j) ==
  IF \E k \in 1 .. j : x.acts[c[k]].kind = "sendEvent"
  THEN x.thrown \union {"IllegalStateException"} ELSE x.thrown
Confirmed(x, c, j) ==
  Snap(x.idx + j, LeftActs(x, c, j), x.open, x.seq, x.queues, x.buffer, x.patch, x.ctl, x.at,
       x.out, x.seen, AllThrown(x, c, j))

\* z is x after the first j confirmations.
Reached(z, x, c, j) ==
  /\ z.idx = x.idx + j /\ z.acts = LeftActs(x, c, j) /\ z.open = x.open /\ z.seq = x.seq
  /\ z.queues = x.queues /\ z.buffer = x.buffer /\ z.patch = x.patch /\ z.ctl = x.ctl
  /\ z.at = x.at /\ z.out = x.out /\ z.seen = x.seen /\ z.thrown = AllThrown(x, c, j)

\* Confirmed is such a state.
LEMMA ConfirmedReached ==
  ASSUME NEW x, NEW c, NEW j
  PROVE  Reached(Confirmed(x, c, j), x, c, j)
BY Zenon DEF Reached, Confirmed, Snap

\* The actions that are left.
LEMMA LeftActsAre ==
  ASSUME NEW x, NEW c, NEW j
  PROVE  /\ DOMAIN LeftActs(x, c, j) = LeftOver(x, c, j)
         /\ \A id \in LeftOver(x, c, j) : LeftActs(x, c, j)[id] = x.acts[id]
<1> DEFINE left == LeftOver(x, c, j)
<1>1. LeftActs(x, c, j) = IF left = DOMAIN x.acts THEN x.acts ELSE Restrict(x.acts, left)
  BY DEF LeftActs
<1> HIDE DEF left
<1>2. /\ DOMAIN LeftActs(x, c, j) = left
      /\ \A id \in left : LeftActs(x, c, j)[id] = x.acts[id]
  BY <1>1 DEF Restrict
<1> QED BY <1>2 DEF left

\* Before the first confirmation.
LEMMA ReachedFirst ==
  ASSUME NEW x, x.idx \in Nat, NEW c
  PROVE  Reached(x, x, c, 0)
<1>1. LeftOver(x, c, 0) = DOMAIN x.acts
  BY DEF LeftOver
<1>2. LeftActs(x, c, 0) = x.acts
  BY <1>1 DEF LeftActs
<1>3. AllThrown(x, c, 0) = x.thrown
  BY DEF AllThrown
<1> QED BY <1>2, <1>3 DEF Reached

\* Whatever waits for events waits on.
LEMMA StillPumps ==
  ASSUME NEW x, NEW c, NEW j, NEW z, Reached(z, x, c, j)
  PROVE  Pumps(z) <=> Pumps(x)
<1>1. z.ctl = x.ctl /\ z.at = x.at /\ z.out = x.out
  BY DEF Reached
<1> QED BY <1>1, Zenon DEF Pumps, CodeAt, Satisfied, DoneIn

\* One confirmation more.
LEMMA NextConfirmed ==
  ASSUME NEW x, x.idx \in Nat, Pumps(x), NEW c, NEW j \in Nat \ {0}, NEW z,
         Reached(z, x, c, j - 1), NEW H, NEW e, x.idx + j \in DOMAIN H, H[x.idx + j] = e,
         c[j] \in DOMAIN x.acts, c[j] # InfrastructureTimer,
         \A i \in 1 .. j - 1 : c[i] # c[j],
         e.id = c[j],
         LET kind == x.acts[c[j]].kind
         IN \/ kind = "scheduleTask" /\ e.type = "TaskScheduled"
            \/ kind = "createChildWorkflow" /\ e.type = "ChildWorkflowInstanceCreated"
            \/ kind = "sendEvent" /\ e.type = "EventSent" /\ x.ctl # "loop"
            \/ kind \in TimerKinds /\ e.type = "TimerCreated" /\ e.name = kind
  PROVE  After(z, H) = Confirmed(x, c, j)
<1> DEFINE id == c[j]
           kind == x.acts[id].kind
           before == LeftOver(x, c, j - 1)
           left == LeftOver(x, c, j)
<1>1. /\ z.idx = x.idx + (j - 1) /\ z.open = x.open /\ z.seq = x.seq
      /\ z.queues = x.queues /\ z.buffer = x.buffer /\ z.patch = x.patch
      /\ z.ctl = x.ctl /\ z.at = x.at /\ z.out = x.out /\ z.seen = x.seen
      /\ DOMAIN z.acts = before /\ \A i \in before : z.acts[i] = x.acts[i]
  BY LeftActsAre DEF Reached
<1>2. z.idx + 1 = x.idx + j
  BY <1>1
<1>3. id \in before /\ z.acts[id] = x.acts[id]
  BY <1>1 DEF LeftOver
<1>4. After(z, H) = Handling(z, e)
  BY <1>2, StillPumps DEF After
<1>5. 1 .. j = (1 .. j - 1) \union {j}
  OBVIOUS
<1>6. CASE kind # "sendEvent"
  <2>1. left = before \ {id} /\ left # DOMAIN x.acts
    BY <1>5, <1>6 DEF LeftOver
  <2>3. Restrict(z.acts, DOMAIN z.acts \ {id}) = Restrict(x.acts, left)
    BY <1>1, <2>1 DEF Restrict
  <2>4. PICK kinds : kind \in kinds /\ Handling(z, e) = Confirming(z, e, kinds)
    <3>1. CASE kind = "scheduleTask" /\ e.type = "TaskScheduled"
      BY <3>1 DEF Handling
    <3>2. CASE kind = "createChildWorkflow" /\ e.type = "ChildWorkflowInstanceCreated"
      BY <3>2 DEF Handling
    <3>3. CASE kind \in TimerKinds /\ e.type = "TimerCreated"
      BY <3>3 DEF Handling
    <3> QED BY <1>6, <3>1, <3>2, <3>3
  <2>5. ~(e.id \in DOMAIN z.acts /\ z.acts[e.id].kind = "optionalTimer" /\ e.name # "optionalTimer")
    BY <1>3, <1>6 DEF TimerKinds
  <2>6. e.id = id /\ id \in DOMAIN z.acts /\ z.acts[id].kind \in kinds
    BY <1>1, <1>3, <2>4
  <2>7. Confirming(z, e, kinds) =
          Snap(z.idx + 1, Restrict(z.acts, DOMAIN z.acts \ {id}), z.open, z.seq, z.queues,
               z.buffer, z.patch, z.ctl, z.at, z.out, z.seen, z.thrown)
    BY <2>5, <2>6, Zenon DEF Confirming
  <2>8. z.thrown = AllThrown(x, c, j)
    <3>1. z.thrown = AllThrown(x, c, j - 1)
      BY DEF Reached
    <3> QED BY <1>5, <1>6, <3>1 DEF AllThrown
  <2>9. Confirmed(x, c, j) =
          Snap(x.idx + j, Restrict(x.acts, left), x.open, x.seq, x.queues, x.buffer, x.patch,
               x.ctl, x.at, x.out, x.seen, z.thrown)
    BY <2>1, <2>8 DEF Confirmed, LeftActs
  <2> QED BY <1>1, <1>2, <1>4, <2>3, <2>4, <2>7, <2>9
<1>7. CASE kind = "sendEvent"
  <2>1. left = before
    BY <1>5, <1>7 DEF LeftOver
  <2>2. e.type = "EventSent" /\ z.ctl # "loop"
    BY <1>1, <1>7 DEF TimerKinds
  <2>3. z.acts = LeftActs(x, c, j)
    <3>1. z.acts = LeftActs(x, c, j - 1)
      BY DEF Reached
    <3> QED BY <2>1, <3>1, Zenon DEF LeftActs
  <2>4. z.thrown \union {"IllegalStateException"} = AllThrown(x, c, j)
    <3>1. z.thrown = AllThrown(x, c, j - 1)
      BY DEF Reached
    <3>2. j \in 1 .. j
      OBVIOUS
    <3>3. AllThrown(x, c, j) = x.thrown \union {"IllegalStateException"}
      BY <1>7, <3>2 DEF AllThrown
    <3>4. z.thrown = x.thrown \/ z.thrown = x.thrown \union {"IllegalStateException"}
      BY <3>1 DEF AllThrown
    <3> QED BY <3>3, <3>4
  <2>5. Handling(z, e) = Throwing(z, "IllegalStateException", z.acts, z.open, z.seq)
    BY <2>2 DEF Handling
  <2>6. Throwing(z, "IllegalStateException", z.acts, z.open, z.seq) =
          Snap(z.idx + 1, z.acts, z.open, z.seq, z.queues, z.buffer, z.patch, z.ctl, z.at, z.out,
               z.seen, z.thrown \union {"IllegalStateException"})
    BY <2>2 DEF Throwing
  <2> QED BY <1>1, <1>2, <1>4, <2>3, <2>4, <2>5, <2>6 DEF Confirmed
<1> QED BY <1>6, <1>7

\* What a turn leaves in the history, event by event.
LEMMA RecordedIs ==
  ASSUME InstanceInv, control = "done"
  PROVE  /\ GoesOn(Given, Recorded)
         /\ \A i \in DOMAIN Given : i # Len(history) + 1 => Recorded[i] = Given[i]
         /\ Recorded[Len(history) + 1] = WorkflowStarted(encounteredPatch)
         /\ Len(Recorded) = Len(Given) + Len(Confirmations)
         /\ \A j \in 1 .. Len(Confirmations) :
              /\ Len(Given) + j \in DOMAIN Recorded
              /\ Recorded[Len(Given) + j] = Confirmations[j]
<1> DEFINE h == history
           w == <<WorkflowStarted(encounteredPatch)>>
           wf == WorkflowStarted(FALSE)
           t == Tail(newEvents)
           c == Confirmations
<1>1. /\ w \in Seq(EventRecords) /\ t \in Seq(EventRecords) /\ c \in Seq(EventRecords)
      /\ h \in Seq(EventRecords) /\ newEvents = <<wf>> \o t /\ Len(w) = 1
      /\ w[1] = WorkflowStarted(encounteredPatch) /\ w[1].type = "WorkflowStarted"
  <2> DEFINE ws == WorkflowStarted(encounteredPatch)
  <2>1. /\ ws \in EventRecords /\ ws.type = "WorkflowStarted"
        /\ t \in Seq(EventRecords) /\ c \in Seq(EventRecords)
        /\ h \in Seq(EventRecords) /\ newEvents = <<wf>> \o t
    BY RecordedParts DEF InstanceInv, BackendTypeOK
  <2> HIDE DEF ws
  <2>2. <<ws>> \in Seq(EventRecords) /\ Len(<<ws>>) = 1 /\ <<ws>>[1] = ws
    BY <2>1
  <2> QED BY <2>1, <2>2 DEF ws
<1>2. Recorded = ((h \o w) \o t) \o c /\ wf \in EventRecords /\ wf.type = "WorkflowStarted"
  BY WorkflowStartedType DEF Recorded
<1>3. Given = h \o (<<wf>> \o t)
  BY <1>1 DEF Given, InstanceInv, TurnInv
<1>4. wf = Given[Len(h) + 1] /\ Len(h) + 1 \in DOMAIN Given
  BY HistoryGoesOn
<1> HIDE DEF h, w, wf, t, c
<1> DEFINE a == h \o w
           b == a \o t
<1>5. /\ a \in Seq(EventRecords) /\ Len(a) = Len(h) + 1
      /\ \A i \in 1 .. Len(h) + 1 : a[i] = IF i <= Len(h) THEN h[i] ELSE w[i - Len(h)]
  <2>1. /\ h \o w \in Seq(EventRecords) /\ Len(h \o w) = Len(h) + Len(w)
        /\ \A i \in 1 .. Len(h) + Len(w) :
             (h \o w)[i] = IF i <= Len(h) THEN h[i] ELSE w[i - Len(h)]
    BY <1>1, ConcatProperties
  <2> HIDE DEF a
  <2> QED BY <1>1, <2>1 DEF a
<1> HIDE DEF a
<1>6. /\ b \in Seq(EventRecords) /\ Len(b) = Len(a) + Len(t)
      /\ \A i \in 1 .. Len(a) + Len(t) : b[i] = IF i <= Len(a) THEN a[i] ELSE t[i - Len(a)]
  <2>1. /\ a \o t \in Seq(EventRecords) /\ Len(a \o t) = Len(a) + Len(t)
        /\ \A i \in 1 .. Len(a) + Len(t) :
             (a \o t)[i] = IF i <= Len(a) THEN a[i] ELSE t[i - Len(a)]
    <3>1. a \in Seq(EventRecords) /\ t \in Seq(EventRecords)
      BY <1>1, <1>5
    <3> QED BY <3>1, ConcatProperties, Zenon
  <2> QED BY <2>1, Zenon DEF b
<1> HIDE DEF b
<1>7. /\ Recorded \in Seq(EventRecords) /\ Len(Recorded) = Len(b) + Len(c)
      /\ \A i \in 1 .. Len(b) + Len(c) : Recorded[i] = IF i <= Len(b) THEN b[i] ELSE c[i - Len(b)]
  <2>1. Recorded = b \o c
    BY <1>2 DEF b, a
  <2> QED BY <1>1, <1>6, <2>1, ConcatProperties
<1> DEFINE v == <<wf>> \o t
<1>8. /\ v \in Seq(EventRecords) /\ Len(v) = 1 + Len(t)
      /\ \A i \in 1 .. 1 + Len(t) : v[i] = IF i <= 1 THEN wf ELSE t[i - 1]
  <2>1. <<wf>> \in Seq(EventRecords) /\ Len(<<wf>>) = 1 /\ <<wf>>[1] = wf
    BY <1>2
  <2> HIDE DEF wf
  <2> QED BY <1>1, <2>1, ConcatProperties
<1> HIDE DEF v
<1>9. /\ Given \in Seq(EventRecords) /\ Len(Given) = Len(h) + Len(v)
      /\ \A i \in 1 .. Len(h) + Len(v) : Given[i] = IF i <= Len(h) THEN h[i] ELSE v[i - Len(h)]
  <2>1. Given = h \o v
    BY <1>3 DEF v
  <2> QED BY <1>1, <1>8, <2>1, ConcatProperties
<1>10. /\ Len(h) \in Nat /\ Len(t) \in Nat /\ Len(c) \in Nat /\ Len(b) = Len(Given)
       /\ DOMAIN Given = 1 .. Len(Given) /\ DOMAIN Recorded = 1 .. Len(Recorded)
       /\ Len(Given) \in Nat
  BY <1>1, <1>5, <1>6, <1>7, <1>8, <1>9
<1>11. ASSUME NEW i \in DOMAIN Given, i # Len(h) + 1
       PROVE  Recorded[i] = Given[i]
  <2>1. i \in 1 .. Len(b) /\ i \in 1 .. Len(b) + Len(c)
    BY <1>10
  <2>2. Recorded[i] = b[i]
    BY <1>7, <2>1
  <2>3. CASE i <= Len(h)
    <3>1. b[i] = a[i] /\ a[i] = h[i] /\ Given[i] = h[i]
      BY <1>5, <1>6, <1>9, <1>10, <2>1, <2>3
    <3> QED BY <2>2, <3>1
  <2>4. CASE i > Len(h) + 1
    <3>1. b[i] = t[i - Len(a)] /\ Given[i] = v[i - Len(h)]
      BY <1>5, <1>6, <1>9, <1>10, <2>1, <2>4
    <3>2. v[i - Len(h)] = t[(i - Len(h)) - 1] /\ (i - Len(h)) - 1 = i - Len(a)
      BY <1>5, <1>8, <1>9, <1>10, <2>1, <2>4
    <3> QED BY <2>2, <3>1, <3>2
  <2> QED BY <1>10, <1>11, <2>1, <2>3, <2>4
<1>12. Recorded[Len(h) + 1] = WorkflowStarted(encounteredPatch)
  <2>1. Len(h) + 1 \in 1 .. Len(b) /\ Len(h) + 1 \in 1 .. Len(b) + Len(c)
    BY <1>4, <1>10
  <2>2. Recorded[Len(h) + 1] = a[Len(h) + 1]
    BY <1>5, <1>6, <1>7, <1>10, <2>1
  <2>3. a[Len(h) + 1] = w[1]
    BY <1>5, <1>10
  <2> QED BY <1>1, <2>2, <2>3
<1>13. ASSUME NEW j \in 1 .. Len(c)
       PROVE  Len(Given) + j \in DOMAIN Recorded /\ Recorded[Len(Given) + j] = c[j]
  <2>1. /\ Len(Given) + j \in 1 .. Len(b) + Len(c) /\ ~(Len(Given) + j <= Len(b))
        /\ (Len(Given) + j) - Len(b) = j
    BY <1>10
  <2> QED BY <1>7, <1>10, <2>1
<1>14. GoesOn(Given, Recorded)
  <2> SUFFICES ASSUME NEW i \in DOMAIN Given
               PROVE  /\ i \in DOMAIN Recorded
                      /\ \/ Recorded[i] = Given[i]
                         \/ Recorded[i].type = "WorkflowStarted" /\ Given[i].type = "WorkflowStarted"
    BY DEF GoesOn
  <2>1. i \in DOMAIN Recorded
    BY <1>7, <1>10
  <2>2. CASE i = Len(h) + 1
    BY <1>1, <1>2, <1>4, <1>12, <2>1, <2>2
  <2> QED BY <1>11, <2>1, <2>2
<1>15. Len(Recorded) = Len(Given) + Len(c)
  BY <1>7, <1>10
<1> QED BY <1>11, <1>12, <1>13, <1>14, <1>15 DEF h, c

\* The ids of the result are different, and all of their kinds are there.
LEMMA IdsAre ==
  ASSUME InstanceInv, NEW kinds
  PROVE  LET ids == {id \in DOMAIN pendingActions : pendingActions[id].kind \in kinds}
         IN /\ Cardinality(ids) \in Nat /\ DOMAIN Ids(kinds) = 1 .. Cardinality(ids)
            /\ \A n \in 1 .. Cardinality(ids) : Ids(kinds)[n] \in ids
            /\ \A k, n \in 1 .. Cardinality(ids) : Ids(kinds)[k] = Ids(kinds)[n] => k = n
            /\ \A id \in ids : \E n \in 1 .. Cardinality(ids) : Ids(kinds)[n] = id
<1> DEFINE ids == {id \in DOMAIN pendingActions : pendingActions[id].kind \in kinds}
           m == Cardinality(ids)
           c == Ids(kinds)
           UpTo(x) == {i \in ids : i <= x}
<1>1. ids \in SUBSET DOMAIN pendingActions
  OBVIOUS
<1>2. ids \in SUBSET Int /\ IsFiniteSet(ids)
  BY <1>1, FS_Subset
     DEF InstanceInv, BackendTypeOK, FullInv, ExecutorInv, ExecutorTypeOK, TaskTypeOK
<1>3. c = [n \in 1 .. m |-> CHOOSE id \in ids : Cardinality(UpTo(id)) = n]
  BY DEF Ids
<1> HIDE DEF ids, c
<1>4. ASSUME NEW n \in 1 .. m
      PROVE  c[n] \in ids /\ Cardinality(UpTo(c[n])) = n
  <2>1. \E id \in ids : Cardinality(UpTo(id)) = n
    BY <1>2, RankExists
  <2> QED BY <1>3, <2>1
<1>5. m \in Nat
  BY <1>2, FS_CardinalityType
<1> HIDE DEF UpTo, m
<1>6. \A k, n \in 1 .. m : c[k] = c[n] => k = n
  BY <1>4
<1>7. c \in [1 .. m -> ids]
  BY <1>3, <1>4
<1>8. c \in Injection(1 .. m, ids)
  BY <1>6, <1>7, Fun_IsInj
<1>9. Cardinality(1 .. m) = Cardinality(ids)
  BY <1>5, FS_Interval DEF m
<1>10. c \in Surjection(1 .. m, ids)
  BY <1>2, <1>8, <1>9, FS_Injection
<1>11. \A id \in ids : \E n \in 1 .. m : c[n] = id
  BY <1>10 DEF Surjection
<1> QED BY <1>4, <1>5, <1>6, <1>7, <1>11 DEF ids, m, c

Confirmable == ActionKinds \ {"completeWorkflow"}

\* What a commit of a turn that goes on finds.
LEMMA StoppedAtCommit ==
  ASSUME InstanceInv, FlowInv, PhaseInv, control = "done"
  PROVE  Settled /\ (completion = "none" => Stopped /\ ReadCount = Len(Given))
<1>1. Stopped \/ Over
  BY DEF PhaseInv, Replaying, GoingOn
<1>2. completion = "none" => ~isComplete /\ ReadCount = Len(Given)
  BY DEF FlowInv, LocalInv, DoneInv
<1> QED BY <1>1, <1>2 DEF Stopped, Over

\* Each piece of work is asked for once.
LEMMA AskedForOnce ==
  ASSUME InstanceInv, Settled, AskedInv,
         started' = [s \in Slots |-> started[s] + IF Asked(s) THEN 1 ELSE 0],
         NEW s \in Slots, Worked(s)
  PROVE  \/ started'[s] = started[s]
         \/ started[s] = 0 /\ started'[s] = 1 /\ Asked(s)
<1>1. started[s] \in {0, 1}
  BY DEF AskedInv
<1>2. Asked(s) => started[s] = 0
  BY DEF Asked, Settled
<1> QED BY <1>1, <1>2

\* The confirmation of a pending action, as the next turn reads it.
LEMMA ConfirmationIs ==
  ASSUME NEW id, pendingActions[id].kind \in Confirmable
  PROVE  LET kind == pendingActions[id].kind
             e == Confirmation(id)
         IN /\ e.id = id
            /\ \/ kind = "scheduleTask" /\ e.type = "TaskScheduled"
               \/ kind = "createChildWorkflow" /\ e.type = "ChildWorkflowInstanceCreated"
               \/ kind = "sendEvent" /\ e.type = "EventSent"
               \/ kind \in TimerKinds /\ e.type = "TimerCreated" /\ e.name = kind
<1> DEFINE kind == pendingActions[id].kind
           e == Confirmation(id)
<1>1. kind \in {"scheduleTask", "createChildWorkflow", "sendEvent"} \union TimerKinds
  BY DEF ActionKinds, Confirmable
<1>6. \A type, name :
        LET f == Event(type, id, name, 0)
        IN f.id = id /\ f.type = type /\ f.name = name
  BY DEF Event
<1>2. CASE kind = "scheduleTask"
  <2>1. e = Event("TaskScheduled", id, "", 0)
    BY <1>2 DEF Confirmation, TimerKinds
  <2>2. e.id = id /\ e.type = "TaskScheduled"
    BY <1>6, <2>1, Zenon
  <2> QED BY <1>2, <2>2
<1>3. CASE kind = "createChildWorkflow"
  <2>1. e = Event("ChildWorkflowInstanceCreated", id, "", 0)
    BY <1>3 DEF Confirmation, TimerKinds
  <2>2. e.id = id /\ e.type = "ChildWorkflowInstanceCreated"
    BY <1>6, <2>1, Zenon
  <2> QED BY <1>3, <2>2
<1>4. CASE kind = "sendEvent"
  <2>1. e = Event("EventSent", id, "", 0)
    BY <1>4 DEF Confirmation, TimerKinds
  <2>2. e.id = id /\ e.type = "EventSent"
    BY <1>6, <2>1, Zenon
  <2> QED BY <1>4, <2>2
<1>5. CASE kind \in TimerKinds
  <2>1. e = Event("TimerCreated", id, kind, 0)
    BY <1>5 DEF Confirmation, TimerKinds
  <2>2. e.id = id /\ e.type = "TimerCreated" /\ e.name = kind
    BY <2>1 DEF Event
  <2> QED BY <1>5, <2>2
<1> QED BY <1>1, <1>2, <1>3, <1>4, <1>5

\* Where a stopped turn stands.
AtStop(x) ==
  /\ Pumps(x) /\ x.ctl \in {"loop", "user"} /\ x.idx = Len(Given) /\ x.idx \in Nat
  /\ x.acts = pendingActions /\ x.seen = observed /\ x.at = pc
  /\ NonDeterministic \notin x.thrown
  /\ x.ctl = "loop" =>
       \A id \in DOMAIN pendingActions : pendingActions[id].kind # "sendEvent"

\* A turn that is committed has stopped at the end of a live run.
LEMMA StopIs ==
  ASSUME InstanceInv, FlowInv, PhaseInv, control = "done", completion = "none"
  PROVE  \E tr, n : Live(tr, n) /\ AtStop(tr[n])
<1>1. Stopped /\ ReadCount = Len(Given) /\ Settled
  BY StoppedAtCommit
<1>2. PICK tr, n :
        /\ Live(tr, n) /\ Pumps(tr[n]) /\ Now = Turned(tr[n], "done")
        /\ tr[n].ctl = "loop" =>
             \A id \in DOMAIN pendingActions : pendingActions[id].kind # "sendEvent"
  BY <1>1 DEF Stopped
<1>3. n \in 1 .. n
  BY <1>2 DEF Live, Run
<1>4. /\ Now.idx = tr[n].idx /\ Now.acts = tr[n].acts /\ Now.seen = tr[n].seen
      /\ Now.at = tr[n].at /\ Now.thrown = tr[n].thrown
  BY <1>2 DEF Turned, Snap
<1>5. tr[n].ctl \in {"loop", "user"}
  BY <1>2, <1>3 DEF Live, Run
<1>6. Len(Given) \in Nat
  BY GivenType DEF InstanceInv, FullInv, ExecutorInv, ExecutorTypeOK, FlowInv, LocalInv, IterTypeOK
<1>7. AtStop(tr[n])
  BY <1>1, <1>2, <1>4, <1>5, <1>6, NowIs DEF AtStop, Settled
<1> QED BY <1>2, <1>7

\* What the next turn reads behind the point where this one stopped.
Confirms(x, c, m, H) ==
  /\ m \in Nat /\ Len(H) = x.idx + m
  /\ \A j \in 1 .. m :
       /\ x.idx + j \in DOMAIN H
       /\ c[j] \in DOMAIN x.acts /\ c[j] # InfrastructureTimer
       /\ \A i \in 1 .. j - 1 : c[i] # c[j]
       /\ H[x.idx + j].id = c[j]
       /\ LET kind == x.acts[c[j]].kind
              e == H[x.idx + j]
          IN \/ kind = "scheduleTask" /\ e.type = "TaskScheduled"
             \/ kind = "createChildWorkflow" /\ e.type = "ChildWorkflowInstanceCreated"
             \/ kind = "sendEvent" /\ e.type = "EventSent" /\ x.ctl # "loop"
             \/ kind \in TimerKinds /\ e.type = "TimerCreated" /\ e.name = kind
  /\ \A id \in DOMAIN x.acts : \E j \in 1 .. m : c[j] = id

\* What it leaves in the history confirms what it asked for, in order.
LEMMA StopIsConfirmed ==
  ASSUME InstanceInv, FlowInv, CodeInv, control = "done", completion = "none", NEW x, AtStop(x)
  PROVE  \E c, m : Confirms(x, c, m, Recorded)
<1> DEFINE ids == {id \in DOMAIN pendingActions : pendingActions[id].kind \in Confirmable}
           m == Cardinality(ids)
           c == Ids(Confirmable)
           H == Recorded
<1>1. /\ m \in Nat /\ DOMAIN c = 1 .. m
      /\ \A n \in 1 .. m : c[n] \in ids
      /\ \A k, n \in 1 .. m : c[k] = c[n] => k = n
      /\ \A id \in ids : \E n \in 1 .. m : c[n] = id
  BY IdsAre, Zenon
<1>2. Confirmations = [i \in 1 .. m |-> Confirmation(c[i])]
  BY <1>1 DEF Confirmations, Confirmable
<1>3. Len(Confirmations) = m /\ \A i \in 1 .. m : Confirmations[i] = Confirmation(c[i])
  <2> HIDE DEF m, c
  <2> QED BY <1>1, <1>2
<1>4. /\ Len(H) = x.idx + m
      /\ \A j \in 1 .. m : x.idx + j \in DOMAIN H /\ H[x.idx + j] = Confirmation(c[j])
  <2> HIDE DEF m, c
  <2> QED BY <1>3, RecordedIs DEF AtStop
<1>5. ids = DOMAIN x.acts /\ x.acts = pendingActions
  <2>1. ASSUME NEW id \in DOMAIN pendingActions
        PROVE  pendingActions[id].kind \in Confirmable
    <3>1. pendingActions[id].kind \in ActionKinds
      BY DEF InstanceInv, FullInv, ExecutorInv, ExecutorTypeOK, TaskTypeOK, Actions
    <3>2. ~isComplete
      BY DEF FlowInv, LocalInv, DoneInv
    <3>3. pendingActions[id].kind # "completeWorkflow"
      BY <3>2 DEF InstanceInv, FullInv, ExecutorInv, OneCompletion, Completions
    <3> QED BY <3>1, <3>3 DEF Confirmable
  <2> QED BY <2>1 DEF AtStop
<1> HIDE DEF ids, m, c, H
<1>6. ASSUME NEW j \in 1 .. m
      PROVE  /\ x.idx + j \in DOMAIN H
             /\ c[j] \in DOMAIN x.acts /\ c[j] # InfrastructureTimer
             /\ \A i \in 1 .. j - 1 : c[i] # c[j]
             /\ H[x.idx + j].id = c[j]
             /\ LET kind == x.acts[c[j]].kind
                    e == H[x.idx + j]
                IN \/ kind = "scheduleTask" /\ e.type = "TaskScheduled"
                   \/ kind = "createChildWorkflow" /\ e.type = "ChildWorkflowInstanceCreated"
                   \/ kind = "sendEvent" /\ e.type = "EventSent" /\ x.ctl # "loop"
                   \/ kind \in TimerKinds /\ e.type = "TimerCreated" /\ e.name = kind
  <2>1. c[j] \in ids /\ c[j] \in DOMAIN x.acts
    BY <1>1, <1>5
  <2>2. c[j] # InfrastructureTimer
    BY <1>5, <2>1 DEF CodeInv, NatInv, InfrastructureTimer
  <2>3. \A i \in 1 .. j - 1 : c[i] # c[j]
    <3>1. ASSUME NEW i \in 1 .. j - 1 PROVE c[i] # c[j]
      <4>1. i \in 1 .. m /\ i # j
        BY <1>1
      <4> QED BY <1>1, <4>1
    <3> QED BY <3>1
  <2>4. pendingActions[c[j]].kind \in Confirmable
    BY <2>1 DEF ids
  <2>5. x.idx + j \in DOMAIN H /\ H[x.idx + j] = Confirmation(c[j])
    BY <1>4
  <2>6. pendingActions[c[j]].kind = "sendEvent" => x.ctl # "loop"
    BY <1>5, <2>1 DEF AtStop
  <2>7. PICK id : id = c[j]
    OBVIOUS
  <2>8. LET kind == pendingActions[id].kind
            e == Confirmation(id)
        IN /\ e.id = id
           /\ \/ kind = "scheduleTask" /\ e.type = "TaskScheduled"
              \/ kind = "createChildWorkflow" /\ e.type = "ChildWorkflowInstanceCreated"
              \/ kind = "sendEvent" /\ e.type = "EventSent"
              \/ kind \in TimerKinds /\ e.type = "TimerCreated" /\ e.name = kind
    BY <2>4, <2>7, ConfirmationIs
  <2> QED BY <1>5, <2>1, <2>2, <2>3, <2>5, <2>6, <2>7, <2>8
<1>7. \A id \in DOMAIN x.acts : \E j \in 1 .. m : c[j] = id
  BY <1>1, <1>5
<1>8. Confirms(x, c, m, H)
  BY <1>1, <1>4, <1>6, <1>7 DEF Confirms
<1> QED BY <1>8 DEF H

\* The turn and its confirmations, as states of the next turn.
LEMMA RunThroughConfirmations ==
  ASSUME NEW tr, NEW n, NEW H, NEW c, NEW m, Run(tr, n, H), tr[n].idx \in Nat, Pumps(tr[n]),
         Confirms(tr[n], c, m, H)
  PROVE  \E longer :
           /\ Run(longer, n + m, H)
           /\ \A k \in 1 .. n : longer[k] = tr[k]
           /\ \A j \in 0 .. m : Reached(longer[n + j], tr[n], c, j)
<1> DEFINE x == tr[n]
           longer == [k \in 1 .. n + m |-> IF k <= n THEN tr[k] ELSE Confirmed(x, c, k - n)]
<1>1. n \in Nat \ {0} /\ m \in Nat /\ x.idx \in Nat /\ Pumps(x) /\ Confirms(x, c, m, H)
  BY DEF Run, Confirms
<1>2. /\ \A k \in 1 .. n : longer[k] = tr[k]
      /\ \A j \in 1 .. m : longer[n + j] = Confirmed(x, c, j)
  <2>1. ASSUME NEW k \in 1 .. n PROVE longer[k] = tr[k]
    BY <1>1
  <2>2. ASSUME NEW j \in 1 .. m PROVE longer[n + j] = Confirmed(x, c, j)
    <3>1. n + j \in 1 .. n + m /\ ~(n + j <= n) /\ (n + j) - n = j
      BY <1>1
    <3> HIDE DEF x
    <3> QED BY <3>1
  <2> QED BY <2>1, <2>2
<1> HIDE DEF longer
<1>3. ASSUME NEW j \in 0 .. m
      PROVE  Reached(longer[n + j], x, c, j)
  <2>1. CASE j = 0
    <3>1. longer[n + j] = x
      BY <1>1, <1>2, <2>1
    <3> QED BY <1>1, <2>1, <3>1, ReachedFirst
  <2>2. CASE j # 0
    <3>1. longer[n + j] = Confirmed(x, c, j)
      BY <1>1, <1>2, <2>2
    <3> QED BY <3>1, ConfirmedReached
  <2> QED BY <2>1, <2>2
<1>4. ASSUME NEW j \in 1 .. m
      PROVE  After(longer[n + (j - 1)], H) = longer[n + j]
  <2>1. j - 1 \in 0 .. m /\ j \in Nat \ {0}
    BY <1>1
  <2>2. Reached(longer[n + (j - 1)], x, c, j - 1)
    BY <1>3, <2>1
  <2>3. PICK z : z = longer[n + (j - 1)]
    OBVIOUS
  <2>4. PICK e : e = H[x.idx + j]
    OBVIOUS
  <2> HIDE DEF x
  <2>5. /\ x.idx + j \in DOMAIN H
        /\ c[j] \in DOMAIN x.acts /\ c[j] # InfrastructureTimer
        /\ \A i \in 1 .. j - 1 : c[i] # c[j]
        /\ H[x.idx + j].id = c[j]
        /\ LET kind == x.acts[c[j]].kind
               f == H[x.idx + j]
           IN \/ kind = "scheduleTask" /\ f.type = "TaskScheduled"
              \/ kind = "createChildWorkflow" /\ f.type = "ChildWorkflowInstanceCreated"
              \/ kind = "sendEvent" /\ f.type = "EventSent" /\ x.ctl # "loop"
              \/ kind \in TimerKinds /\ f.type = "TimerCreated" /\ f.name = kind
    BY <1>1, Zenon DEF Confirms
  <2>6. Reached(z, x, c, j - 1)
    BY <2>2, <2>3
  <2>7. After(z, H) = Confirmed(x, c, j)
    BY <1>1, <2>1, <2>4, <2>5, <2>6, NextConfirmed
  <2> QED BY <1>2, <2>3, <2>7
<1>5. longer[1] = Begin
  BY <1>1, <1>2 DEF Run
<1>6. ASSUME NEW k \in 1 .. n + m
      PROVE  longer[k].ctl \in {"loop", "user"}
  <2>1. CASE k <= n
    BY <1>1, <1>2, <2>1 DEF Run
  <2>2. CASE k > n
    <3>1. k - n \in 0 .. m /\ n + (k - n) = k
      BY <1>1, <2>2
    <3>2. Reached(longer[k], x, c, k - n)
      BY <1>3, <3>1
    <3>3. longer[k].ctl = x.ctl
      BY <3>2 DEF Reached
    <3>4. n \in 1 .. n
      BY <1>1
    <3> QED BY <3>3, <3>4 DEF Run
  <2> QED BY <1>1, <2>1, <2>2
<1>7. ASSUME NEW k \in 1 .. (n + m) - 1
      PROVE  longer[k + 1] = After(longer[k], H)
  <2>1. CASE k < n
    <3>1. k \in 1 .. n - 1 /\ k \in 1 .. n /\ k + 1 \in 1 .. n
      BY <1>1, <2>1
    <3> QED BY <1>2, <3>1 DEF Run
  <2>2. CASE k >= n
    <3> DEFINE j == (k + 1) - n
    <3>1. j \in 1 .. m /\ n + (j - 1) = k /\ n + j = k + 1
      BY <1>1, <2>2
    <3> HIDE DEF j
    <3> QED BY <1>4, <3>1
  <2> QED BY <1>1, <2>1, <2>2
<1>8. Run(longer, n + m, H)
  BY <1>1, <1>5, <1>6, <1>7 DEF Run
<1> QED BY <1>2, <1>3, <1>8

\* A turn that is committed is remembered.
LEMMA TurnRemembered ==
  ASSUME InstanceInv, FlowInv, StayInv, CodeInv, AskedInv, PhaseInv, CommitTurn
  PROVE  \E tr, n : Memory(tr, n)'
<1>1. /\ control = "done" /\ completion = "none" /\ program' = program
      /\ history' = Recorded /\ committed' = observed
      /\ started' = [s \in Slots |-> started[s] + IF Asked(s) THEN 1 ELSE 0]
  BY DEF CommitTurn, Commit
<1>2. PICK tr, n : Live(tr, n) /\ AtStop(tr[n])
  BY <1>1, StopIs
<1>3. PICK x : x = tr[n]
  OBVIOUS
<1>4. AtStop(x) /\ Settled
  BY <1>1, <1>2, <1>3, StoppedAtCommit
<1>5. PICK H : H = Recorded
  OBVIOUS
<1>6. PICK c, m : Confirms(x, c, m, H)
  BY <1>1, <1>4, <1>5, StopIsConfirmed
<1>7. /\ Run(tr, n, H) /\ x.idx \in Nat /\ Pumps(x) /\ n \in Nat \ {0} /\ m \in Nat
  <2>1. GoesOn(Given, H)
    BY <1>1, <1>5, RecordedIs
  <2>2. Run(tr, n, H)
    BY <1>2, <2>1, RunSame DEF Live
  <2> QED BY <1>4, <1>6, <2>2 DEF AtStop, Run, Confirms
<1>8. PICK longer :
        /\ Run(longer, n + m, H)
        /\ \A k \in 1 .. n : longer[k] = tr[k]
        /\ \A j \in 0 .. m : Reached(longer[n + j], x, c, j)
  BY <1>3, <1>6, <1>7, RunThroughConfirmations
<1>9. Run(longer, n + m, H)'
  BY <1>1, <1>8, RunStays
<1>10. ASSUME NEW z, Pumps(z)
       PROVE  PatchSeen(z, H)
  BY <1>10 DEF Pumps, PatchSeen, CodeAt
<1>11. ASSUME NEW k \in 1 .. n + m
       PROVE  NonDeterministic \notin longer[k].thrown /\ PatchSeen(longer[k], H)
  <2>1. CASE k < n
    <3>1. k \in 1 .. n /\ k # n
      BY <1>7, <2>1
    <3>2. longer[k] = tr[k] /\ NonDeterministic \notin longer[k].thrown
      BY <1>2, <1>8, <3>1 DEF Live
    <3>3. PICK y : y = tr[k]
      OBVIOUS
    <3>4. \/ PatchSeen(y, Given)
          \/ y.idx \in Nat /\ y.idx > Len(pastEvents) /\ encounteredPatch
      BY <1>2, <3>1, <3>3 DEF Live
    <3>5. /\ Len(history) = Len(pastEvents) /\ Len(history) + 1 \in DOMAIN Given
          /\ Given[Len(history) + 1] = WorkflowStarted(FALSE) /\ Len(history) \in Nat
      <4>1. Len(history) \in Nat
        BY DEF InstanceInv, BackendTypeOK
      <4> QED BY <1>1, <4>1, HistoryGoesOn
    <3>6. CASE PatchSeen(y, Given)
      <4> SUFFICES ASSUME CodeAt(y, "isPatched")
                   PROVE  \E j \in 1 .. y.idx :
                            j \in DOMAIN H /\ H[j].type = "WorkflowStarted" /\ H[j].val = 1
        BY <3>2, <3>3 DEF PatchSeen
      <4>1. PICK j \in 1 .. y.idx :
              j \in DOMAIN Given /\ Given[j].type = "WorkflowStarted" /\ Given[j].val = 1
        BY <3>6 DEF PatchSeen
      <4>2. WorkflowStarted(FALSE).val = 0
        BY DEF WorkflowStarted, Event
      <4>3. j # Len(history) + 1
        <5> SUFFICES ASSUME j = Len(history) + 1 PROVE FALSE
          OBVIOUS
        <5>1. Given[j] = WorkflowStarted(FALSE)
          BY <3>5
        <5>2. 0 # 1
          OBVIOUS
        <5> QED BY <4>1, <4>2, <5>1, <5>2, Zenon
      <4>4. j \in DOMAIN H /\ H[j] = Given[j]
        BY <1>1, <1>5, <4>1, <4>3, RecordedIs DEF GoesOn
      <4> QED BY <4>1, <4>4
    <3>7. CASE y.idx \in Nat /\ y.idx > Len(pastEvents) /\ encounteredPatch
      <4> DEFINE j == Len(history) + 1
      <4>1. j \in 1 .. y.idx
        BY <3>5, <3>7
      <4>2. j \in DOMAIN H /\ H[j] = WorkflowStarted(TRUE)
        <5>1. encounteredPatch = TRUE
          BY <3>7 DEF InstanceInv, FullInv, ExecutorInv, ExecutorTypeOK, PatchTypeOK
        <5> QED BY <1>1, <1>5, <3>5, <5>1, RecordedIs DEF GoesOn
      <4>3. WorkflowStarted(TRUE).type = "WorkflowStarted" /\ WorkflowStarted(TRUE).val = 1
        BY DEF WorkflowStarted, Event
      <4> HIDE DEF j
      <4>4. PatchSeen(y, H)
        BY <4>1, <4>2, <4>3 DEF PatchSeen
      <4> QED BY <3>2, <3>3, <4>4
    <3> QED BY <3>4, <3>6, <3>7
  <2>2. CASE k >= n
    <3>1. k - n \in 0 .. m /\ n + (k - n) = k
      BY <1>7, <2>2
    <3>2. Reached(longer[k], x, c, k - n)
      BY <1>8, <3>1
    <3>3. PatchSeen(longer[k], H)
      BY <1>7, <1>10, <3>2, StillPumps
    <3>4. NonDeterministic \notin longer[k].thrown
      BY <1>4, <3>2 DEF Reached, AllThrown, AtStop, NonDeterministic
    <3> QED BY <3>3, <3>4
  <2> QED BY <1>7, <2>1, <2>2
<1>12. PICK y : y = longer[n + m]
  OBVIOUS
<1>13. Reached(y, x, c, m)
  <2>1. m \in 0 .. m
    BY <1>7
  <2> QED BY <1>8, <1>12, <2>1
<1>14. Recalls(y)'
  <2>1. Pumps(y)'
    <3>1. Pumps(y)
      BY <1>7, <1>13, StillPumps
    <3> QED BY <1>1, <3>1, AfterStays
  <2>2. y.seen = committed' /\ y.idx = Len(history')
    BY <1>1, <1>4, <1>5, <1>6, <1>13 DEF Reached, AtStop, Confirms
  <2>3. ASSUME NEW id \in DOMAIN y.acts
        PROVE  y.acts[id].kind = "sendEvent"
    <3>1. id \in LeftOver(x, c, m) /\ y.acts[id] = x.acts[id]
      BY <1>13, LeftActsAre DEF Reached
    <3>2. id \in DOMAIN x.acts
      BY <3>1 DEF LeftOver
    <3>3. \E j \in 1 .. m : c[j] = id
      BY <1>6, <3>2 DEF Confirms
    <3> QED BY <3>1, <3>3 DEF LeftOver
  <2>4. ASSUME NEW s \in Slots, Worked(s), started'[s] = 1
        PROVE  s < y.at
    <3>1. y.at = pc
      BY <1>4, <1>13 DEF Reached, AtStop
    <3>2. CASE started[s] = 1
      BY <1>4, <2>4, <3>1, <3>2 DEF Settled
    <3>3. CASE Asked(s)
      <4>1. PICK id \in DOMAIN pendingActions : pendingActions[id].slot = s
        BY <3>3 DEF Asked
      <4>2. 0 \notin Slots
        BY ProgramsAssumption DEF Slots, WellFormed
      <4>3. pendingActions[id] # Ending
        BY <4>1, <4>2 DEF Ending, Action
      <4> QED BY <3>1, <4>1, <4>3 DEF CodeInv, ActsInv
    <3> QED BY <1>1, <1>4, <2>4, <3>2, <3>3, AskedForOnce
  <2>5. \A s : Worked(s)' = Worked(s)
    BY <1>1 DEF Worked
  <2> QED BY <2>1, <2>2, <2>3, <2>4, <2>5 DEF Recalls
<1>15. \A k \in 1 .. n + m : PatchSeen(longer[k], H)'
  <2>1. \A k : PatchSeen(longer[k], H)' = PatchSeen(longer[k], H)
    BY <1>1, PatchSeenStays
  <2> QED BY <1>11, <2>1
<1>16. Memory(longer, n + m)'
  <2>1. history' = H
    BY <1>1, <1>5
  <2>2. Run(longer, n + m, history)'
    BY <1>9, <2>1, Zenon
  <2>3. \A k \in 1 .. n + m : PatchSeen(longer[k], history)'
    BY <1>15, <2>1, Zenon DEF PatchSeen
  <2>4. Recalls(longer[n + m])'
    BY <1>12, <1>14, Zenon
  <2> QED BY <1>11, <2>2, <2>3, <2>4 DEF Memory
<1> QED BY <1>16

-----------------------------------------------------------------------------
(* The invariant of replay *)

\* A scenario without new releases and without suspension, whose senders of events end explicitly.
\* Each premise is needed by one of the theorems:
\* - a release that asks for other actions shifts the ids, and isPatched may answer "no";
\* - a suspended turn defers the confirmations of the one before and asks again;
\* - an EventSent that execute's own loop reads fails the workflow with its result half done, and
\*   the work that was confirmed behind it is asked for again.
Steady(sc) ==
  /\ ~sc.oldSdk /\ ~sc.oldCode /\ "suspend" \notin sc.requests
  /\ SendersComplete(sc.program)

HistInv == status = "RUNNING" => \E tr, n : Memory(tr, n)
QuietInv == control = "idle" => thrown = {}
ReplayInv == StayInv /\ CodeInv /\ AskedInv /\ PhaseInv /\ HistInv /\ QuietInv

\* A context in which nothing has happened, to the last variable.
Fresh ==
  /\ Empty /\ pendingActions = NoTasks /\ openTasks = NoTasks /\ sequenceNumber = 0
  /\ observed = NoTasks /\ pc = 1 /\ appliedPatch = "unset" /\ thrown = {}

\* Nothing is read.
LEMMA FreshCount == Fresh => ReadCount = 0
BY DEF Fresh, Empty, ReadCount

\* A fresh context keeps the invariants of the code.
LEMMA FreshCode == Fresh => CodeInv
<1> SUFFICES ASSUME Fresh PROVE CodeInv
  OBVIOUS
<1>1. DOMAIN pendingActions = {} /\ DOMAIN observed = {} /\ ReadCount = 0 /\ pc = 1
  BY FreshCount DEF Fresh, NoTasks
<1>2. PatchInv
  BY <1>1 DEF Fresh, PatchInv
<1> QED BY <1>1, <1>2 DEF Fresh, CodeInv, NatInv, ActsInv, SeenInv, PcInv, SilentInv

\* A turn begins in a fresh context.
LEMMA FreshBegin == Fresh /\ control = "loop" => Now = Begin
<1> SUFFICES ASSUME Fresh, control = "loop" PROVE Now = Begin
  OBVIOUS
<1>1. /\ ReadCount = 0 /\ pendingActions = NoTasks /\ openTasks = NoTasks /\ sequenceNumber = 0
      /\ outstandingEvents = [n \in EventNames |-> <<>>] /\ unprocessedEvents = <<>>
      /\ appliedPatch = "unset" /\ pc = 1 /\ outcome = [s \in Slots |-> Pending]
      /\ observed = NoTasks /\ thrown = {}
  BY FreshCount DEF Fresh, Empty
<1> QED BY <1>1 DEF Now, Begin

\* A new context is fresh.
LEMMA NewFresh ==
  ASSUME NEW past, NEW new, NewContext(past, new), control' \in {"idle", "loop"}, FullInv'
  PROVE  Fresh'
BY DEF NewContext, Fresh, Empty, FullInv, ExecutorInv, ExecutorTypeOK, DeployTypeOK, Waits

\* FreshCode for the state after a step.
LEMMA FreshCodeNext == ASSUME Fresh' PROVE CodeInv'
BY FreshCode, PTL

\* FreshBegin for the state after a step.
LEMMA FreshBeginNext == ASSUME Fresh', control' = "loop" PROVE Now' = Begin
<1>1. (Fresh /\ control = "loop")' => (Now = Begin)'
  BY FreshBegin, PTL
<1> QED BY <1>1 DEF Begin

\* A history of nothing is remembered.
Unwritten == history = <<>> /\ committed = NoTasks /\ started = NotStarted

LEMMA NothingRemembered == Unwritten => HistInv
<1> SUFFICES ASSUME Unwritten PROVE \E tr, n : Memory(tr, n)
  BY DEF HistInv
<1> DEFINE tr == [k \in 1 .. 1 |-> Begin]
<1>1. tr[1] = Begin /\ 1 .. 1 = {1}
  OBVIOUS
<1> HIDE DEF tr
<1>2. /\ Begin.idx = 0 /\ Begin.ctl = "loop" /\ Begin.acts = NoTasks /\ Begin.seen = NoTasks
      /\ Begin.thrown = {}
  BY DEF Begin, Snap
<1>3. Run(tr, 1, history)
  BY <1>1, <1>2 DEF Run
<1>4. NonDeterministic \notin Begin.thrown /\ PatchSeen(Begin, history)
  BY <1>2 DEF PatchSeen, CodeAt
<1>5. Recalls(Begin)
  BY <1>2 DEF Recalls, Pumps, Unwritten, NotStarted, NoTasks
<1>6. Memory(tr, 1)
  BY <1>1, <1>3, <1>4, <1>5 DEF Memory
<1> QED BY <1>6

\* The invariant holds to begin with.
LEMMA InitReplay == Init /\ Steady(scenario) => ReplayInv
<1> SUFFICES ASSUME Init, Steady(scenario) PROVE ReplayInv
  OBVIOUS
<1>1. InstanceInv
  BY InitInstance
<1>2. Fresh
  BY <1>1 DEF Init, NoContext, Fresh, Empty, InstanceInv, FullInv, ExecutorInv, ExecutorTypeOK,
              DeployTypeOK, Waits
<1>3. HistInv
  BY NothingRemembered DEF Init, Unwritten
<1>4. AskedInv
  BY DEF Init, NotStarted, AskedInv
<1>5. StayInv
  <2>1. ExecutionStarted.type \in LiveTypes /\ ExecutionStarted \in EventRecords
    <3>1. "ExecutionStarted" \in EventTypes \ {"EventRaised"} /\ 0 \in Int /\ 0 \in Nat
      BY DEF EventTypes
    <3> QED BY <3>1, PlainEvent DEF ExecutionStarted, Event, LiveTypes
  <2>2. AllOf(inbox, LiveTypes)
    BY <2>1, AllOfOne DEF Init
  <2>3. scenario \in Scenarios /\ scenario.oldSdk \in BOOLEAN /\ scenario.oldCode \in BOOLEAN
    <3>1. scenario \in Scenarios
      BY DEF Init
    <3> QED BY <3>1, ScenariosAssumption
  <2>4. Calm
    BY <2>3 DEF Init, NoContext, Steady, Calm
  <2>5. SendersComplete(program) /\ "suspend" \notin requested /\ "suspend" \notin scenario.requests
    BY DEF Init, Steady
  <2>6. AllOf(history, PastTypes) /\ AllOf(newEvents, LiveTypes) /\ control = "idle"
    BY DEF Init, NoContext, AllOf
  <2> QED BY <2>2, <2>4, <2>5, <2>6 DEF StayInv
<1>6. PhaseInv /\ QuietInv
  BY DEF Init, NoContext, PhaseInv, QuietInv
<1> QED BY <1>2, <1>3, <1>4, <1>5, <1>6, FreshCode DEF ReplayInv

\* The context is released.
LEMMA ReleaseReplays ==
  ASSUME FullInv', Release
  PROVE  CodeInv' /\ PhaseInv' /\ QuietInv'
<1>1. control' = "idle"
  BY DEF Release
<1>2. Fresh'
  BY NewFresh DEF Release
<1> QED BY <1>1, <1>2, FreshCodeNext DEF Fresh, PhaseInv, QuietInv

\* What the backend remembers stays.
LEMMA HistStays ==
  ASSUME HistInv, UNCHANGED <<program, history, committed, started, status>>
  PROVE  HistInv' /\ AskedInv' = AskedInv
<1>1. AskedInv' = AskedInv
  BY DEF AskedInv, Worked
<1>2. ASSUME status' = "RUNNING" PROVE \E tr, n : Memory(tr, n)'
  <2>1. PICK tr, n : Memory(tr, n)
    BY <1>2 DEF HistInv
  <2>2. Memory(tr, n)'
    BY <2>1, MemoryStays
  <2> QED BY <2>2
<1> QED BY <1>1, <1>2 DEF HistInv

\* The end of a turn: what was done is remembered, or over, or forgotten.
LEMMA CommitReplays ==
  ASSUME InstanceInv, FlowInv, ReplayInv, FullInv', CommitTurn \/ CommitEnd \/ CommitContinueAsNew
  PROVE  CodeInv' /\ PhaseInv' /\ QuietInv' /\ HistInv' /\ AskedInv'
<1>1. Release /\ control = "done"
  BY DEF CommitTurn, CommitEnd, CommitContinueAsNew, Commit
<1>2. CodeInv' /\ PhaseInv' /\ QuietInv'
  BY <1>1, ReleaseReplays
<1>3. Settled
  BY <1>1, StoppedAtCommit DEF ReplayInv
<1>4. CASE CommitTurn \/ CommitEnd
  <2>1. /\ program' = program
        /\ started' = [s \in Slots |-> started[s] + IF Asked(s) THEN 1 ELSE 0]
    BY <1>4 DEF CommitTurn, CommitEnd
  <2>2. ASSUME NEW s \in Slots, Worked(s)
        PROVE  started'[s] \in {0, 1}
    BY <1>3, <2>1, <2>2, AskedForOnce DEF ReplayInv, AskedInv
  <2>3. AskedInv'
    BY <2>1, <2>2 DEF AskedInv, Worked
  <2>4. CASE CommitTurn
    BY <1>2, <2>3, <2>4, TurnRemembered DEF ReplayInv, HistInv
  <2>5. CASE CommitEnd
    BY <1>2, <2>3, <2>5 DEF CommitEnd, Statuses, HistInv
  <2> QED BY <1>4, <2>4, <2>5
<1>5. CASE CommitContinueAsNew
  <2>1. Unwritten' /\ started' = NotStarted
    BY <1>5 DEF CommitContinueAsNew, Unwritten, NotStarted
  <2>2. HistInv'
    BY <2>1, NothingRemembered, PTL
  <2>3. AskedInv'
    BY <2>1 DEF AskedInv, NotStarted
  <2> QED BY <1>2, <2>2, <2>3
<1> QED BY <1>4, <1>5

\* Nothing happens to the turn.
LEMMA PhaseStutters ==
  ASSUME PhaseInv, UNCHANGED vars
  PROVE  PhaseInv'
<1>1. /\ UNCHANGED <<program, history, committed, started, control, isComplete, pastEvents, newEvents,
                     currentHistoryIndex, isReplaying, pendingActions, openTasks, sequenceNumber,
                     outstandingEvents, unprocessedEvents, appliedPatch, encounteredPatch, pc,
                     outcome, observed, thrown>>
  BY DEF vars, backendVars, execVars, deployVars, iterVars, taskVars, eventVars, patchVars, endVars,
         codeVars
<1>2. ReadCount' = ReadCount /\ Given' = Given /\ Now' = Now
  BY <1>1 DEF ReadCount, Given, Now
<1>3. Settled' = Settled
  BY <1>1, <1>2 DEF Settled, Worked
<1>4. Replaying => Replaying'
  <2> SUFFICES ASSUME Replaying PROVE Replaying'
    OBVIOUS
  <2>1. PICK tr, n : Memory(tr, n) /\ \E k \in 1 .. n : Now = tr[k]
    BY DEF Replaying
  <2>2. Memory(tr, n)'
    BY <1>1, <2>1, MemoryStays
  <2> QED BY <1>1, <1>2, <2>1, <2>2 DEF Replaying
<1>5. ASSUME NEW tr, NEW n, Live(tr, n)
      PROVE  Live(tr, n)' /\ Pumps(tr[n])' = Pumps(tr[n])
  <2>1. PICK H : H = Given
    OBVIOUS
  <2>2. Run(tr, n, H)'
    BY <1>1, <1>5, <2>1, RunStays DEF Live
  <2>3. Run(tr, n, Given)'
    BY <1>2, <2>1, <2>2, Zenon
  <2>4. \A k : PatchSeen(tr[k], Given)' = PatchSeen(tr[k], Given)
    BY <1>1, <1>2 DEF PatchSeen, CodeAt
  <2>5. Pumps(tr[n])' = Pumps(tr[n])
    BY <1>1, AfterStays
  <2> QED BY <1>1, <1>5, <2>3, <2>4, <2>5 DEF Live
<1>6. GoingOn => GoingOn'
  BY <1>1, <1>2, <1>3, <1>5 DEF GoingOn
<1>7. Stopped => Stopped'
  <2> SUFFICES ASSUME Stopped PROVE Stopped'
    OBVIOUS
  <2>1. PICK tr, n :
          /\ Live(tr, n) /\ Pumps(tr[n]) /\ Now = Turned(tr[n], "done")
          /\ tr[n].ctl = "loop" =>
               \A id \in DOMAIN pendingActions : pendingActions[id].kind # "sendEvent"
    BY DEF Stopped
  <2>2. Live(tr, n)' /\ Pumps(tr[n])'
    BY <1>5, <2>1
  <2> QED BY <1>1, <1>2, <1>3, <2>1, <2>2 DEF Stopped
<1>8. Over => Over'
  BY <1>1, <1>3 DEF Over
<1> QED BY <1>1, <1>4, <1>6, <1>7, <1>8 DEF PhaseInv

\* Every step keeps the invariant.
LEMMA ReplayStep ==
  ASSUME InstanceInv, FlowInv, ReplayInv, [Next]_vars
  PROVE  ReplayInv'
<1>1. StayInv'
  BY StayStep DEF ReplayInv
<1>2. FullInv'
  BY InstanceStep DEF InstanceInv
<1>3. HistInv /\ AskedInv
  BY DEF ReplayInv
<1>4. CASE Arrival
  <2>1. UNCHANGED execVars /\ UNCHANGED <<history, status, started, committed>> /\ control = "idle"
    BY <1>4, Arrivals DEF Arrive, Arrival, BetweenTurns
  <2>2. UNCHANGED <<program, pendingActions, sequenceNumber, control, observed, pc, isComplete,
                    appliedPatch, historyPatched, pastEvents, newEvents, currentHistoryIndex,
                    isReplaying, thrown>>
    BY <2>1 DEF execVars, deployVars, iterVars, taskVars, patchVars, endVars, codeVars
  <2>3. HistInv' /\ AskedInv'
    BY <1>3, <2>1, <2>2, HistStays
  <2>4. CodeInv'
    BY <2>2 DEF ReplayInv, CodeInv, NatInv, ActsInv, SeenInv, PcInv, SilentInv, PatchInv, ReadCount,
                Given
  <2> QED BY <1>1, <2>1, <2>2, <2>3, <2>4 DEF ReplayInv, PhaseInv, QuietInv
<1>5. CASE Dispatch
  <2>1. /\ NewContext(history, <<WorkflowStarted(FALSE)>> \o inbox) /\ control' = "loop"
        /\ UNCHANGED <<program, history, status, started, committed>> /\ status = "RUNNING"
    BY <1>5 DEF Dispatch, Execute, deployVars
  <2>2. Fresh' /\ isComplete' = FALSE
    BY <1>2, <2>1, NewFresh DEF NewContext
  <2>3. CodeInv' /\ Now' = Begin
    BY <2>1, <2>2, FreshCodeNext, FreshBeginNext
  <2>4. HistInv' /\ AskedInv'
    BY <1>3, <2>1, HistStays
  <2>5. PICK tr, n : Memory(tr, n)
    BY <1>3, <2>1 DEF HistInv
  <2>6. Memory(tr, n)'
    BY <2>1, <2>5, MemoryStays
  <2>7. 1 \in 1 .. n /\ tr[1] = Begin
    BY <2>5 DEF Memory, Run
  <2>8. Replaying'
    BY <2>1, <2>2, <2>3, <2>6, <2>7 DEF Replaying
  <2> QED BY <1>1, <2>1, <2>3, <2>4, <2>8 DEF ReplayInv, PhaseInv, QuietInv
<1>6. CASE Execution
  <2>1. /\ ExecutorStep /\ control # "idle" /\ control' # "idle"
        /\ UNCHANGED <<program, history, status, started, committed>>
    BY <1>6, ControlStep DEF Execution, backendVars, deployVars
  <2>2. PhaseInv'
    BY <1>6, PhaseKept DEF ReplayInv
  <2>3. Answered
    BY <2>1, PhaseAnswered DEF ReplayInv, CodeInv
  <2>4. CodeInv'
    BY <2>1, <2>3, CodeInvKept DEF ReplayInv, StayInv, InstanceInv, FlowInv, LocalInv
  <2>5. HistInv' /\ AskedInv'
    BY <1>3, <2>1, HistStays
  <2> QED BY <1>1, <2>1, <2>2, <2>4, <2>5 DEF ReplayInv, QuietInv
<1>7. CASE CommitTurn \/ CommitEnd \/ CommitContinueAsNew
  BY <1>1, <1>2, <1>7, CommitReplays DEF ReplayInv
<1>8. CASE Abandon
  <2>1. Release /\ UNCHANGED <<program, history, status, started, committed>>
    BY <1>8 DEF Abandon, deployVars
  <2> QED BY <1>1, <1>2, <1>3, <2>1, ReleaseReplays, HistStays DEF ReplayInv
<1>9. CASE UNCHANGED vars
  <2>1. UNCHANGED <<program, pendingActions, sequenceNumber, control, observed, pc, isComplete,
                    appliedPatch, historyPatched, pastEvents, newEvents, currentHistoryIndex,
                    isReplaying, thrown, history, status, started, committed>>
    BY <1>9 DEF vars, backendVars, execVars, deployVars, iterVars, taskVars, patchVars, endVars,
                codeVars
  <2>2. HistInv' /\ AskedInv'
    BY <1>3, <2>1, HistStays
  <2>3. CodeInv'
    BY <2>1 DEF ReplayInv, CodeInv, NatInv, ActsInv, SeenInv, PcInv, SilentInv, PatchInv, ReadCount,
                Given
  <2>4. QuietInv'
    BY <2>1 DEF ReplayInv, QuietInv
  <2>5. PhaseInv'
    BY <1>9, PhaseStutters DEF ReplayInv
  <2> QED BY <1>1, <2>2, <2>3, <2>4, <2>5 DEF ReplayInv
<1> QED BY <1>4, <1>5, <1>6, <1>7, <1>8, <1>9, CalmSteps DEF ReplayInv, StayInv

-----------------------------------------------------------------------------
(* The turns as one durable execution *)

AskedFor == [s \in Slots |-> IF s \in DOMAIN program /\ program[s].op = "sendEvent" THEN 0
                             ELSE started[s]]

\* The initial states.
LEMMA BeginsOnce == Init => Durable!Init
<1> SUFFICES ASSUME Init PROVE Durable!Init
  OBVIOUS
<1>1. AskedFor = [s \in Slots |-> 0]
  BY DEF Init, NotStarted, AskedFor
<1>2. committed = [s \in {} |-> 0] /\ (status # "RUNNING") = FALSE
  BY DEF Init, NoTasks
<1> QED BY <1>1, <1>2 DEF Durable!Init, AskedFor

\* The steps that show nothing outside.
LEMMA Unseen ==
  ASSUME UNCHANGED <<program, started, committed, status>>
  PROVE  UNCHANGED Durable!vars
<1>1. AskedFor' = AskedFor
  BY DEF AskedFor
<1> QED BY <1>1 DEF Durable!vars, AskedFor

\* A committed turn advances the workflow.
LEMMA AdvancesOnce ==
  ASSUME InstanceInv, FlowInv, ReplayInv, CommitTurn \/ CommitEnd
  PROVE  Durable!Advance
<1>1. /\ control = "done" /\ program' = program /\ committed' = observed
      /\ started' = [s \in Slots |-> started[s] + IF Asked(s) THEN 1 ELSE 0]
  BY DEF CommitTurn, CommitEnd, Commit
<1>2. Settled /\ status = "RUNNING"
  BY <1>1, StoppedAtCommit DEF ReplayInv, StayInv
<1>3. ASSUME NEW s \in Slots
      PROVE  AskedFor'[s] \in {AskedFor[s], 1}
  <2>1. CASE Worked(s)
    <3>1. started'[s] \in {started[s], 1}
      BY <1>1, <1>2, <2>1, AskedForOnce DEF ReplayInv
    <3> QED BY <1>1, <2>1, <3>1 DEF AskedFor, Worked
  <2>2. CASE ~Worked(s)
    BY <1>1, <2>2 DEF AskedFor, Worked
  <2> QED BY <2>1, <2>2
<1>4. Durable!Extends(committed', committed)
  BY <1>1, <1>2 DEF Durable!Extends, Settled
<1> QED BY <1>2, <1>3, <1>4 DEF Durable!Advance, AskedFor

\* continueAsNew starts it over.
LEMMA StartsOver ==
  ASSUME InstanceInv, FlowInv, ReplayInv, CommitContinueAsNew
  PROVE  Durable!StartOver
<1>1. /\ control = "done" /\ committed' = NoTasks /\ started' = NotStarted /\ status' = status
  BY DEF CommitContinueAsNew, Commit
<1>2. status = "RUNNING"
  BY <1>1 DEF ReplayInv, StayInv
<1>3. AskedFor' = [s \in Slots |-> 0]
  BY <1>1 DEF AskedFor, NotStarted
<1> QED BY <1>1, <1>2, <1>3 DEF Durable!StartOver, NoTasks, AskedFor

\* Every step is one of the durable execution, or shows nothing.
LEMMA OnceStep ==
  ASSUME InstanceInv, FlowInv, ReplayInv, [Next]_vars
  PROVE  [Durable!Next]_(Durable!vars)
<1>1. CASE CommitTurn \/ CommitEnd
  BY <1>1, AdvancesOnce DEF Durable!Next
<1>2. CASE CommitContinueAsNew
  BY <1>2, StartsOver DEF Durable!Next
<1>3. CASE Arrival
  <2>1. UNCHANGED execVars /\ UNCHANGED <<started, committed, status>>
    BY <1>3, Arrivals DEF Arrive, Arrival
  <2> QED BY <2>1, Unseen DEF execVars, deployVars
<1>4. CASE Dispatch
  BY <1>4, Unseen DEF Dispatch, Execute, deployVars
<1>5. CASE Execution
  BY <1>5, ControlStep, Unseen DEF Execution, backendVars, deployVars
<1>6. CASE Abandon
  BY <1>6, Unseen DEF Abandon, deployVars
<1>7. CASE UNCHANGED vars
  BY <1>7, Unseen DEF vars, execVars, backendVars, deployVars
<1> QED BY <1>1, <1>2, <1>3, <1>4, <1>5, <1>6, <1>7, CalmSteps DEF ReplayInv, StayInv

-----------------------------------------------------------------------------
(* Theorems *)

\* A scenario is for life.
LEMMA ScenarioStays ==
  ASSUME InstanceInv, [Next]_vars
  PROVE  scenario' = scenario
<1>1. CASE Arrival
  BY <1>1, Arrivals DEF Arrive, Arrival
<1>2. CASE Dispatch \/ CommitTurn \/ CommitEnd \/ CommitContinueAsNew \/ Abandon
  BY <1>2 DEF Dispatch, CommitTurn, CommitEnd, CommitContinueAsNew, Commit, Abandon
<1>3. CASE Execution \/ Deploys \/ UNCHANGED vars
  BY <1>3 DEF Execution, Deploys, backendVars, vars
<1> QED BY <1>1, <1>2, <1>3, Steps

Replays == InstanceInv /\ FlowInv /\ (Steady(scenario) => ReplayInv)

\* The invariant with the premise, to begin with.
LEMMA ReplaysInit == Init => Replays
BY InitInstance, InitFlow, InitReplay DEF Replays

\* The invariant with the premise, step by step.
LEMMA ReplaysStep ==
  ASSUME Replays, [Next]_vars
  PROVE  Replays'
<1>1. InstanceInv' /\ FlowInv'
  BY InstanceStep, FlowStep DEF Replays
<1>2. Steady(scenario)' = Steady(scenario)
  BY ScenarioStays DEF Replays, Steady, SendersComplete
<1>3. Steady(scenario) => ReplayInv'
  BY ReplayStep DEF Replays
<1> QED BY <1>1, <1>2, <1>3 DEF Replays

\* In a steady scenario every turn repeats the committed ones and then goes on, for any programs,
\* names, payloads and bounds.
THEOREM ReplayInvariant == Spec => []Replays
<1> QED BY ReplaysInit, ReplaysStep, PTL DEF Spec

\* Whatever the code observed in the committed turns (results, winners of anyOf, answers of
\* isPatched) it observes again at the end of every later turn.
THEOREM ReplayAgrees == Spec => [](Steady(scenario) => ReplaysAgree)
<1>1. Replays => (Steady(scenario) => ReplaysAgree)
  <2> SUFFICES ASSUME Replays, Steady(scenario), control = "done"
               PROVE  \A s \in DOMAIN committed : s \in DOMAIN observed /\ observed[s] = committed[s]
    BY DEF ReplaysAgree, TurnOver
  <2>1. Settled
    BY StoppedAtCommit DEF Replays, ReplayInv
  <2> QED BY <2>1 DEF Settled
<1> QED BY <1>1, ReplayInvariant, PTL

\* Replay never takes unchanged code for a non-deterministic orchestrator.
THEOREM NeverMistaken == Spec => [](Steady(scenario) => NoFalseAlarm)
<1>1. Replays => (Steady(scenario) => NoFalseAlarm)
  <2> SUFFICES ASSUME Replays, Steady(scenario) PROVE NonDeterministic \notin thrown
    BY DEF NoFalseAlarm, NonDeterministic
  <2>1. CASE control = "idle"
    BY <2>1 DEF Replays, ReplayInv, QuietInv
  <2>2. CASE Replaying
    <3>1. PICK tr, n : Memory(tr, n) /\ \E k \in 1 .. n : Now = tr[k]
      BY <2>2 DEF Replaying
    <3>2. PICK k \in 1 .. n : Now = tr[k]
      BY <3>1
    <3>3. NonDeterministic \notin Now.thrown
      BY <3>1, <3>2 DEF Memory
    <3> QED BY <3>3, NowIs
  <2>3. CASE GoingOn \/ Stopped \/ Over
    BY <2>3 DEF GoingOn, Stopped, Over, Settled
  <2> QED BY <2>1, <2>2, <2>3 DEF Replays, ReplayInv, PhaseInv
<1> QED BY <1>1, ReplayInvariant, PTL

\* The backend is asked for each activity, child workflow and timer once, over all the turns,
\* lost ones and repeated deliveries included.
THEOREM WorkIsAskedForOnce == Spec => [](Steady(scenario) => AskedOnce)
<1>1. Replays => (Steady(scenario) => AskedOnce)
  <2> SUFFICES ASSUME Replays, Steady(scenario), NEW s \in DOMAIN program,
                      program[s].op # "sendEvent"
               PROVE  started[s] <= 1
    BY DEF AskedOnce
  <2>1. s \in Slots
    BY DEF Replays, InstanceInv, FullInv, ExecutorInv, ExecutorTypeOK, DeployTypeOK
  <2>2. started[s] \in {0, 1}
    BY <2>1 DEF Replays, ReplayInv, AskedInv, Worked
  <2> QED BY <2>2
<1> QED BY <1>1, ReplayInvariant, PTL

\* The turns implement a workflow that runs once: every step of worker and backend is a step of
\* DurableWorkflow or shows nothing outside.
THEOREM ExecutionIsDurable == Spec /\ Steady(scenario) => RunsOnce
<1> DEFINE Inv == InstanceInv /\ FlowInv /\ ReplayInv
<1>1. Init /\ Steady(scenario) => Inv
  BY InitInstance, InitFlow, InitReplay
<1>2. Inv /\ [Next]_vars => Inv'
  BY InstanceStep, FlowStep, ReplayStep
<1>3. Inv /\ [Next]_vars => [Durable!Next]_(Durable!vars)
  BY OnceStep
<1> QED BY <1>1, <1>2, <1>3, BeginsOnce, PTL DEF Spec, RunsOnce, Durable!Spec

\* What continueAsNew carries over, whenever a turn continues as new and no handler threw.
THEOREM CarriedOver == Spec => [](Steady(scenario) /\ thrown = {} => CarriesTheUnreceived)
<1>1. Replays => (Steady(scenario) => ~TurnOver \/ ~isReplaying)
  <2> SUFFICES ASSUME Replays, Steady(scenario), control = "done" PROVE ~isReplaying
    BY DEF TurnOver
  <2>1. Settled
    BY StoppedAtCommit DEF Replays, ReplayInv
  <2>2. /\ isReplaying => currentHistoryIndex <= Len(pastEvents)
        /\ currentHistoryIndex \in Nat /\ Len(pastEvents) \in Nat
    BY DEF Replays, FlowInv, LocalInv, IterInv, InstanceInv, FullInv, ExecutorInv, ExecutorTypeOK,
           IterTypeOK
  <2> QED BY <2>1, <2>2 DEF Settled, ReadCount
<1>2. ~TurnOver => CarriesTheUnreceived
  BY DEF CarriesTheUnreceived
<1> QED BY <1>1, <1>2, ReplayInvariant, CarriesWhatNobodyGot, PTL

-----------------------------------------------------------------------------
(* Every turn is answered *)

\* The code does nothing after it has completed.
EndsLast(p) ==
  \A s \in DOMAIN p : p[s].op \in {"complete", "continueAsNew"} => s + 1 \notin DOMAIN p

Unterminated(types) == types \ {"ExecutionTerminated"}

\* Code that has completed is at its end, and its completion is among the actions.
FinishedInv ==
  isComplete /\ control \in {"loop", "user"} =>
    /\ pc \notin DOMAIN program
    /\ \E id \in DOMAIN pendingActions : pendingActions[id].kind = "completeWorkflow"

AnswerInv ==
  /\ AlwaysAnswers /\ FinishedInv /\ EndsLast(program) /\ "terminate" \notin scenario.requests
  /\ TypesInv(Unterminated(PastTypes), Unterminated(LiveTypes))

\* The second generation ends where the first one did.
LEMMA EndsNext ==
  ASSUME EndsLast(program)
  PROVE  EndsLast(NextGeneration(program))
<1> DEFINE p == NextGeneration(program)
<1>1. /\ DOMAIN p = DOMAIN program
      /\ \A s \in DOMAIN program :
           p[s] = IF program[s].op = "continueAsNew" THEN complete ELSE program[s]
  BY DEF NextGeneration
<1> HIDE DEF p
<1>2. ASSUME NEW s \in DOMAIN p, p[s].op \in {"complete", "continueAsNew"}
      PROVE  program[s].op \in {"complete", "continueAsNew"}
  BY <1>1, <1>2
<1>3. EndsLast(p)
  BY <1>1, <1>2 DEF EndsLast
<1> QED BY <1>3 DEF p

\* Behind replay the next event is one that arrived.
LEMMA NextArrived ==
  ASSUME IterTypeOK, IterInv, ~draining, ReadCount >= Len(pastEvents), NEW type, Read(type),
         NEW types, AllOf(newEvents, types)
  PROVE  NextEvent.type \in types
<1>1. ReadCount + 1 \in DOMAIN Given /\ NextEvent = Given[ReadCount + 1]
  BY ReadIsNext DEF IsNext
<1>2. /\ Len(pastEvents) \in Nat /\ Len(newEvents) \in Nat /\ ReadCount \in Nat
      /\ DOMAIN Given = 1 .. Len(pastEvents) + Len(newEvents)
      /\ DOMAIN newEvents = 1 .. Len(newEvents)
      /\ \A i \in 1 .. Len(newEvents) : Given[Len(pastEvents) + i] = newEvents[i]
  BY GivenType DEF IterTypeOK
<1> DEFINE i == ReadCount + 1 - Len(pastEvents)
<1>3. i \in 1 .. Len(newEvents) /\ Len(pastEvents) + i = ReadCount + 1
  BY <1>1, <1>2
<1> HIDE DEF i
<1>4. NextEvent = newEvents[i] /\ i \in DOMAIN newEvents
  BY <1>1, <1>2, <1>3
<1> QED BY <1>4 DEF AllOf

\* No turn is given a termination nobody asked for.
LEMMA NeverTerminated ==
  ASSUME InstanceInv, FlowInv, StayInv, AnswerInv, NEW type, Read(type)
  PROVE  NextEvent.type # "ExecutionTerminated"
<1> DEFINE types == Unterminated(PastTypes)
<1>1. /\ pastEvents \in Seq(EventRecords) /\ newEvents \in Seq(EventRecords)
      /\ control # "idle" => pastEvents = history
      /\ control = "idle" => pastEvents = <<>> /\ newEvents = <<>>
      /\ IterTypeOK /\ IterInv /\ ~draining
  BY DEF InstanceInv, FullInv, ExecutorInv, ExecutorTypeOK, IterTypeOK, TurnInv, FlowInv, LocalInv,
         StayInv, Calm
<1>2. AllOf(newEvents, types)
  BY LiveIsPast DEF AnswerInv, TypesInv, AllOf, Unterminated
<1>3. AllOf(pastEvents, types)
  BY <1>1 DEF AnswerInv, TypesInv, AllOf
<1>4. AllOf(Given, types)
  BY <1>1, <1>2, <1>3, AllOfConcat DEF Given
<1>5. ReadCount + 1 \in DOMAIN Given /\ NextEvent = Given[ReadCount + 1]
  BY <1>1, ReadIsNext DEF IsNext
<1> QED BY <1>4, <1>5 DEF AllOf, Unterminated

\* While the workflow is not complete, nothing makes execute throw, and the code that completes
\* it is over.
LEMMA AnswersBefore ==
  ASSUME InstanceInv, FlowInv, StayInv, AnswerInv, Execution, ~isComplete
  PROVE  (AlwaysAnswers /\ FinishedInv)'
<1>1. /\ ExecutorStep /\ control \in {"loop", "user"} /\ ExecutorTypeOK
      /\ program' = program /\ EndsLast(program)
  BY ControlStep DEF Execution, InstanceInv, FullInv, ExecutorInv, AnswerInv, deployVars
<1>2. ASSUME ~isComplete', control' # "crash"
      PROVE  (AlwaysAnswers /\ FinishedInv)'
  BY <1>2 DEF AlwaysAnswers, FinishedInv
<1>3. ASSUME control' = "done"
      PROVE  (AlwaysAnswers /\ FinishedInv)'
  BY <1>3 DEF AlwaysAnswers, FinishedInv
<1>4. ASSUME NEW actions, NEW seq, FailExecution(actions, seq)
      PROVE  control' = "done"
  BY <1>4 DEF FailExecution
<1>5. ASSUME NEW exception, NEW actions, NEW seq, Throws(exception, actions, seq)
      PROVE  (AlwaysAnswers /\ FinishedInv)'
  <2>1. control' = "done" \/ (control' = control /\ isComplete' = isComplete)
    BY <1>4, <1>5 DEF Throws, endVars
  <2> QED BY <1>1, <1>2, <1>3, <2>1
<1>6. ASSUME Returns
      PROVE  (AlwaysAnswers /\ FinishedInv)'
  BY <1>1, <1>2, <1>6 DEF Returns, endVars
<1>7. CASE HandleEvent
  <2>1. ~HandleExecutionTerminated
    BY NeverTerminated DEF HandleExecutionTerminated, Read
  <2>2. CASE HandleTaskScheduled \/ HandleSubOrchestrationCreated \/ HandleTimerCreated
    <3>1. PICK kinds : Confirm(kinds)
      BY <2>2 DEF HandleTaskScheduled, HandleSubOrchestrationCreated, HandleTimerCreated
    <3>2. \/ Returns
          \/ \E actions, seq : Throws("NonDeterministicOrchestratorException", actions, seq)
      BY <3>1 DEF Confirm
    <3> QED BY <1>5, <1>6, <3>2
  <2>3. CASE HandleUnknown
    BY <1>5, <2>3 DEF HandleUnknown
  <2>4. CASE HandleExecutionStarted \/ HandleEventWhileSuspended \/ HandleExecutionSuspended
             \/ HandleExecutionResumed
    <3>1. control' # "crash" /\ isComplete' = isComplete
      BY <1>1, <2>4 DEF HandleExecutionStarted, HandleEventWhileSuspended,
                        HandleExecutionSuspended, HandleExecutionResumed, endVars
    <3> QED BY <1>2, <3>1
  <2>5. CASE \/ HandleTaskCompleted \/ HandleTaskFailed \/ HandleTimerFired
             \/ HandleSubOrchestrationCompleted \/ HandleSubOrchestrationFailed
             \/ HandleInfrastructureTimer \/ HandleEventRaised \/ HandleWorkflowStarted
    <3>1. Returns
      BY <2>5 DEF HandleTaskCompleted, HandleTaskFailed, HandleTimerFired, CloseTask,
                  HandleSubOrchestrationCompleted, HandleSubOrchestrationFailed,
                  HandleInfrastructureTimer, HandleEventRaised, HandleWorkflowStarted
    <3> QED BY <1>6, <3>1
  <2> QED BY <1>7, <2>1, <2>2, <2>3, <2>4, <2>5 DEF HandleEvent
<1>8. CASE CodeStep
  <2>1. ASSUME NEW actions, NEW seq, CodeThrows(actions, seq)
        PROVE  (AlwaysAnswers /\ FinishedInv)'
    BY <1>3, <1>4, <2>1 DEF CodeThrows
  <2>2. ASSUME Proceed
        PROVE  (AlwaysAnswers /\ FinishedInv)'
    BY <1>1, <1>2, <2>2 DEF Proceed, endVars
  <2>3. CASE CallActivity \/ CallSubOrchestrator \/ CreateTimer \/ SendEvent
             \/ WaitTimesOutAtOnce \/ WaitForExternalEvent
    BY <2>2, <2>3 DEF CallActivity, CallSubOrchestrator, CreateTimer, SendEvent, Schedule,
                      WaitTimesOutAtOnce, WaitForExternalEvent
  <2>4. CASE WaitFindsEvent
    BY <2>1, <2>2, <2>4 DEF WaitFindsEvent
  <2>5. CASE IsPatched
    BY <1>1, <1>2, <2>5 DEF IsPatched, endVars
  <2>6. CASE Await
    BY <1>3, <1>4, <2>2, <2>6 DEF Await
  <2>7. CASE Complete
    <3>1. /\ program[pc].op = "complete" /\ pc \in DOMAIN program /\ pc' = pc + 1
          /\ pendingActions' = Put(pendingActions, sequenceNumber, Action("completeWorkflow", 0))
          /\ control' = control
      BY <2>7 DEF Complete, Code, Running, CompleteInternal
    <3>2. pc' \notin DOMAIN program'
      BY <1>1, <3>1 DEF EndsLast
    <3>3. sequenceNumber \in DOMAIN pendingActions'
          /\ pendingActions'[sequenceNumber].kind = "completeWorkflow"
      BY <3>1 DEF Put, Action
    <3> QED BY <1>1, <3>1, <3>2, <3>3 DEF AlwaysAnswers, FinishedInv
  <2>8. CASE ContinueAsNew
    BY <1>3, <2>8 DEF ContinueAsNew
  <2>9. CASE CallWhenComplete
    BY <2>9 DEF CallWhenComplete
  <2>10. CASE Return
    BY <1>2, <2>10 DEF Return, endVars
  <2> QED BY <1>8, <2>3, <2>4, <2>5, <2>6, <2>7, <2>8, <2>9, <2>10 DEF CodeStep
<1>9. CASE Yield \/ EndOfHistory
  BY <1>3, <1>9 DEF Yield, EndOfHistory
<1> QED BY <1>1, <1>7, <1>8, <1>9 DEF ExecutorStep

\* Once it is complete, replay is over and the events that still come are harmless.
LEMMA AnswersAfter ==
  ASSUME InstanceInv, FlowInv, StayInv, PhaseInv, AnswerInv, Execution, isComplete
  PROVE  (AlwaysAnswers /\ FinishedInv)'
<1>1. /\ ExecutorStep /\ control \in {"loop", "user"} /\ ExecutorTypeOK /\ IterTypeOK /\ IterInv
      /\ program' = program /\ pc \notin DOMAIN program /\ ~draining /\ ~isSuspended
      /\ AllOf(newEvents, Unterminated(LiveTypes))
  BY ControlStep DEF Execution, InstanceInv, FullInv, ExecutorInv, ExecutorTypeOK, AnswerInv,
                     FinishedInv, deployVars, FlowInv, LocalInv, StayInv, Calm, TypesInv
<1>2. PICK id \in DOMAIN pendingActions : pendingActions[id].kind = "completeWorkflow"
  BY <1>1 DEF AnswerInv, FinishedInv
<1>3. ReadCount >= Len(pastEvents)
  <2>1. ReadCount > Len(pastEvents)
    BY <1>1 DEF PhaseInv, Replaying, GoingOn, Stopped, Over, Settled
  <2>2. ReadCount \in Nat /\ Len(pastEvents) \in Nat
    BY <1>1, GivenType DEF IterTypeOK
  <2> QED BY <2>1, <2>2
<1>4. ASSUME control' # "crash", UNCHANGED <<pc, pendingActions>>
      PROVE  (AlwaysAnswers /\ FinishedInv)'
  BY <1>1, <1>2, <1>4 DEF AlwaysAnswers, FinishedInv
<1>5. CASE HandleEvent
  <2>1. PICK type \in EventTypes : Read(type)
    BY <1>5, EventIsRead
  <2>2. NextEvent.type \in Unterminated(LiveTypes) /\ UNCHANGED pc
    BY <1>1, <1>3, <2>1, NextArrived DEF Read
  <2>3. ~(\/ HandleTaskScheduled \/ HandleSubOrchestrationCreated \/ HandleTimerCreated
          \/ HandleInfrastructureTimer \/ HandleUnknown \/ HandleExecutionTerminated
          \/ HandleExecutionSuspended \/ HandleExecutionResumed \/ HandleEventWhileSuspended)
    BY <1>1, <2>2 DEF LiveTypes, Unterminated, HandleTaskScheduled, HandleSubOrchestrationCreated,
                HandleTimerCreated, HandleInfrastructureTimer, HandleUnknown, Handle, Read,
                HandleExecutionTerminated, HandleExecutionSuspended, HandleExecutionResumed,
                HandleEventWhileSuspended
  <2>4. CASE HandleExecutionStarted
    BY <1>4, <2>2, <2>4 DEF HandleExecutionStarted, taskVars
  <2>5. CASE \/ HandleTaskCompleted \/ HandleTaskFailed \/ HandleTimerFired
             \/ HandleSubOrchestrationCompleted \/ HandleSubOrchestrationFailed
             \/ HandleEventRaised \/ HandleWorkflowStarted
    <3>1. Returns /\ UNCHANGED pendingActions
      BY <2>5 DEF HandleTaskCompleted, HandleTaskFailed, HandleTimerFired, CloseTask,
                  HandleSubOrchestrationCompleted, HandleSubOrchestrationFailed,
                  HandleEventRaised, HandleWorkflowStarted, taskVars
    <3> QED BY <1>1, <1>4, <2>2, <3>1 DEF Returns
  <2> QED BY <1>5, <2>3, <2>4, <2>5 DEF HandleEvent
<1>6. CASE CodeStep
  <2>1. \A op : ~Running(op)
    BY <1>1 DEF Running
  <2>2. Return
    BY <1>6, <2>1 DEF CodeStep, CallActivity, CallSubOrchestrator, CreateTimer, SendEvent, Code,
                      WaitFindsEvent, WaitTimesOutAtOnce, WaitForExternalEvent, IsPatched, Await,
                      Complete, ContinueAsNew, CallWhenComplete
  <2> QED BY <1>4, <2>2 DEF Return, taskVars, codeVars
<1>7. CASE Yield
  BY <1>1, <1>7 DEF Yield, Running
<1>8. CASE EndOfHistory
  <2>1. ~NothingLeft
    BY <1>2 DEF NothingLeft
  <2>2. control' = "done" /\ UNCHANGED <<pc, pendingActions>>
    BY <1>8, <2>1 DEF EndOfHistory, codeVars
  <2> QED BY <1>4, <2>2
<1> QED BY <1>1, <1>5, <1>6, <1>7, <1>8 DEF ExecutorStep

\* Every step keeps it.
LEMMA AnswerStep ==
  ASSUME InstanceInv, FlowInv, ReplayInv, AnswerInv, [Next]_vars
  PROVE  AnswerInv'
<1> DEFINE P == Unterminated(PastTypes)
           L == Unterminated(LiveTypes)
<1>1. /\ L \subseteq P /\ ConfirmationTypes \subseteq P /\ OpeningTypes \subseteq L
      /\ TypesInv(P, L)
  BY LiveIsPast DEF Unterminated, ConfirmationTypes, OpeningTypes, LiveTypes, PastTypes,
                    EventTypes, Suspending, AnswerInv
<1>2. UNCHANGED scenario
  BY ScenarioStays
<1>3. ASSUME program' = program \/ program' = NextGeneration(program)
      PROVE  EndsLast(program')
  <2>1. CASE program' = program
    BY <2>1 DEF AnswerInv, EndsLast
  <2>2. CASE program' = NextGeneration(program)
    BY <2>2, EndsNext DEF AnswerInv
  <2> QED BY <1>3, <2>1, <2>2
<1>4. ASSUME isComplete' = FALSE, control' # "crash"
      PROVE  (AlwaysAnswers /\ FinishedInv)'
  BY <1>4 DEF AlwaysAnswers, FinishedInv
<1> HIDE DEF P, L
<1>5. ASSUME TypesInv(P, L)', EndsLast(program'), (AlwaysAnswers /\ FinishedInv)'
      PROVE  AnswerInv'
  BY <1>2, <1>5 DEF AnswerInv, P, L, EndsLast, TypesInv, AllOf
<1>6. CASE Arrival
  <2>1. PICK e \in EventRecords :
          /\ Arrive(e) /\ e.type \in LiveTypes
          /\ e.type = "ExecutionTerminated" => "terminate" \in scenario.requests
    BY <1>6, LiveArrives DEF ReplayInv
  <2>2. TypesInv(P, L)'
    BY <1>1, <2>1, TypesArrive DEF AnswerInv, L, Unterminated
  <2>3. UNCHANGED <<program, control, isComplete, pc, pendingActions>>
    BY <2>1 DEF Arrive, execVars, deployVars, endVars, codeVars, taskVars
  <2>4. (AlwaysAnswers /\ FinishedInv)'
    BY <2>3 DEF AnswerInv, AlwaysAnswers, FinishedInv
  <2> QED BY <1>3, <1>5, <2>2, <2>3, <2>4
<1>7. CASE Dispatch
  <2>1. TypesInv(P, L)'
    BY <1>1, <1>7, TypesDispatch
  <2>2. control' = "loop" /\ isComplete' = FALSE /\ program' = program
    BY <1>7 DEF Dispatch, Execute, NewContext, deployVars
  <2> QED BY <1>3, <1>4, <1>5, <2>1, <2>2
<1>8. CASE Execution
  <2>1. UNCHANGED <<program, newEvents, history, inbox>>
    BY <1>8, ControlStep DEF Execution, backendVars, deployVars
  <2>2. TypesInv(P, L)'
    BY <1>1, <2>1 DEF TypesInv, AllOf
  <2>3. (AlwaysAnswers /\ FinishedInv)'
    BY <1>8, AnswersBefore, AnswersAfter DEF ReplayInv
  <2> QED BY <1>3, <1>5, <2>1, <2>2, <2>3
<1>9. CASE CommitTurn \/ CommitEnd \/ CommitContinueAsNew \/ Abandon
  <2>1. TypesInv(P, L)'
    BY <1>1, <1>9, TypesCommit
  <2>2. /\ control' = "idle" /\ isComplete' = FALSE
        /\ program' = program \/ program' = NextGeneration(program)
    BY <1>9 DEF CommitTurn, CommitEnd, CommitContinueAsNew, Commit, Abandon, Release, NewContext,
                deployVars
  <2> QED BY <1>3, <1>4, <1>5, <2>1, <2>2
<1>10. CASE UNCHANGED vars
  BY <1>10, <1>2 DEF vars, execVars, backendVars, deployVars, endVars, codeVars, taskVars, iterVars,
              AnswerInv, AlwaysAnswers, FinishedInv, TypesInv, AllOf, EndsLast
<1> QED BY <1>6, <1>7, <1>8, <1>9, <1>10, CalmSteps DEF ReplayInv, StayInv

\* The instances no client may terminate, with code that does nothing after completing.
Undisturbed(sc) == Steady(sc) /\ "terminate" \notin sc.requests /\ EndsLast(sc.program)

\* In an undisturbed scenario execute() always returns a result: no exception escapes it, of a
\* handler, of the code, or of what arrives after the code has completed.
THEOREM EveryTurnIsAnswered == Spec => [](Undisturbed(scenario) => AlwaysAnswers)
<1> DEFINE Inv == Replays /\ (Undisturbed(scenario) => AnswerInv)
<1>1. Init => Inv
  <2> SUFFICES ASSUME Init, Undisturbed(scenario) PROVE AnswerInv
    BY ReplaysInit
  <2>1. /\ history = <<>> /\ inbox = <<ExecutionStarted>> /\ newEvents = <<>>
        /\ control = "idle" /\ program = scenario.program
    BY DEF Init, NoContext
  <2>2. ExecutionStarted.type = "ExecutionStarted"
    BY DEF ExecutionStarted, Event
  <2>3. TypesInv(Unterminated(PastTypes), Unterminated(LiveTypes))
    BY <2>1, <2>2 DEF TypesInv, AllOf, Unterminated, LiveTypes
  <2> QED BY <2>1, <2>3 DEF AnswerInv, Undisturbed, AlwaysAnswers, FinishedInv
<1>2. Inv /\ [Next]_vars => Inv'
  <2> SUFFICES ASSUME Inv, [Next]_vars PROVE Inv'
    OBVIOUS
  <2>1. Replays'
    BY ReplaysStep
  <2>2. scenario' = scenario
    BY ScenarioStays DEF Replays
  <2>3. Undisturbed(scenario)' = Undisturbed(scenario)
    BY <2>2 DEF Undisturbed, Steady, SendersComplete, EndsLast
  <2>4. Undisturbed(scenario) => AnswerInv'
    BY AnswerStep DEF Undisturbed, Replays
  <2> QED BY <2>1, <2>3, <2>4
<1>3. Inv => (Undisturbed(scenario) => AlwaysAnswers)
  BY DEF AnswerInv
<1> QED BY <1>1, <1>2, <1>3, PTL DEF Spec
=============================================================================
