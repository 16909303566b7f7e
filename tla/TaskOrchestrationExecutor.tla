----------------------- MODULE TaskOrchestrationExecutor -----------------------
(***************************************************************************)
(* One execution ("turn") of a workflow by TaskOrchestrationExecutor: the  *)
(* history is replayed event by event, the user's workflow code runs        *)
(* inside the handler of ExecutionStarted, and every await of the code      *)
(* pumps further events.  The result of a turn is the map pendingActions.   *)
(*                                                                         *)
(* The workflow code is a straight-line program: a sequence of              *)
(* instructions, each of them one call of the TaskOrchestrationContext API. *)
(* A task is named by the position ("slot") of the instruction that made it.*)
(*                                                                         *)
(* Left out: payloads beyond one number, retries and timer chains, custom   *)
(* status, names, routing between applications, logging.                    *)
(***************************************************************************)
EXTENDS Integers, FiniteSets, Functions, SequencesExt

CONSTANTS
  Programs,     \* the workflow programs considered
  EventNames,   \* names of external events, as they are spelled
  CaseFold,     \* [EventNames -> ...]: equal for names equalsIgnoreCase equates
  BadPayload    \* a payload the data converter cannot deserialize

(***************************************************************************)
(* Instructions of a program.                                              *)
(***************************************************************************)
Indefinite == "indefinite"
ZeroTimeout == "zero"
FiniteTimeout == "finite"

callActivity == [op |-> "callActivity", mayFail |-> FALSE]
riskyActivity == [op |-> "callActivity", mayFail |-> TRUE]
callSubOrchestrator == [op |-> "callSubOrchestrator", mayFail |-> TRUE]
createTimer == [op |-> "createTimer"]
sendEvent == [op |-> "sendEvent"]
waitForExternalEvent(name, timeout) ==
  [op |-> "waitForExternalEvent", name |-> name, timeout |-> timeout]
await(slot) == [op |-> "await", on |-> <<slot>>, any |-> FALSE, catch |-> FALSE]
tryAwait(slot) == [op |-> "await", on |-> <<slot>>, any |-> FALSE, catch |-> TRUE]
allOf(slots) == [op |-> "await", on |-> slots, any |-> FALSE, catch |-> FALSE]
anyOf(slots) == [op |-> "await", on |-> slots, any |-> TRUE, catch |-> FALSE]
isPatched(skip) == [op |-> "isPatched", skip |-> skip]
complete == [op |-> "complete"]
continueAsNew(preserve) == [op |-> "continueAsNew", preserve |-> preserve]

Slots == UNION {DOMAIN p : p \in Programs}

\* A program waits for known names, jumps forward, and awaits tasks it has made.
WellFormed(p) ==
  /\ DOMAIN p \subseteq Nat \ {0}
  /\ \A s \in DOMAIN p :
       /\ p[s].op = "waitForExternalEvent" => p[s].name \in EventNames
       /\ p[s].op = "isPatched" => p[s].skip \in Nat
       /\ p[s].op = "await" => p[s].on \in Seq(1 .. s - 1)

ASSUME ProgramsAssumption == \A p \in Programs : WellFormed(p)

(***************************************************************************)
(* History events and pending actions.                                     *)
(***************************************************************************)
InfrastructureTimer == -100

EventTypes == {"WorkflowStarted", "ExecutionStarted", "TaskScheduled", "TaskCompleted",
               "TaskFailed", "TimerCreated", "TimerFired", "ChildWorkflowInstanceCreated",
               "ChildWorkflowInstanceCompleted", "ChildWorkflowInstanceFailed", "EventRaised",
               "ExecutionSuspended", "ExecutionResumed", "ExecutionTerminated", "EventSent"}

Event(type, id, name, val) == [type |-> type, id |-> id, name |-> name, val |-> val]

\* Kinds of WorkflowAction; the three timers are told apart by origin and fire time.
TimerKinds == {"createTimer", "eventTimer", "optionalTimer"}
ActionKinds == TimerKinds \union
  {"scheduleTask", "createChildWorkflow", "sendEvent", "completeWorkflow"}
Action(kind, slot) == [kind |-> kind, slot |-> slot]

Statuses == {"COMPLETED", "FAILED", "TERMINATED", "CONTINUED_AS_NEW"}

\* What a task has come to.
Pending == [kind |-> "pending", val |-> 0]
Canceled == [kind |-> "canceled", val |-> 0]
Failed == [kind |-> "failed", val |-> 0]
Result(val) == [kind |-> "ok", val |-> val]
Deserialize(val) == IF val = BadPayload THEN Failed ELSE Result(val)

VARIABLES
  program,               \* the workflow code
  sdkEmitsOptionalTimer, \* FALSE: the SDK release before indefinite waits emitted a timer
  patchDeployed,         \* FALSE: the workflow code before isPatched was added to it
  pastEvents, newEvents, \* the work item
  currentHistoryIndex,   \* events read from the current list
  isReplaying,           \* the current list is pastEvents
  draining,              \* inside the loop of handleExecutionResumed
  eventsWhileSuspended, isSuspended,
  pendingActions,        \* id -> action; LinkedHashMap order is the order of the ids
  openTasks,             \* id -> slot
  sequenceNumber,
  outstandingEvents,     \* name -> queue of waiting slots (<<>>: no entry in the map)
  unprocessedEvents,
  historyPatched, appliedPatch, encounteredPatch,
  isComplete, completion, carryoverEvents,
  control,               \* who runs: nobody, execute's loop, the code, or how execute ended
  pc,                    \* the code's next instruction
  outcome,               \* slot -> what its task has come to
  observed,              \* what the code was handed at each slot it got past
  thrown                 \* the exceptions thrown by event handlers

deployVars == <<program, sdkEmitsOptionalTimer, patchDeployed>>
iterVars == <<pastEvents, newEvents, currentHistoryIndex, isReplaying>>
suspendVars == <<draining, eventsWhileSuspended, isSuspended>>
taskVars == <<pendingActions, openTasks, sequenceNumber>>
eventVars == <<outstandingEvents, unprocessedEvents>>
patchVars == <<historyPatched, appliedPatch, encounteredPatch>>
endVars == <<isComplete, completion, carryoverEvents>>
codeVars == <<pc, outcome, observed>>
execVars == <<deployVars, iterVars, suspendVars, taskVars, eventVars, patchVars, endVars,
              control, codeVars, thrown>>

NoTasks == [id \in {} |-> 0]

\* Map.put
Put(f, key, value) == [k \in DOMAIN f \union {key} |-> IF k = key THEN value ELSE f[k]]

\* The fields of a new ContextImplTask over a work item; execute() enters its loop.
NewContext(past, new) ==
  /\ pastEvents' = past /\ newEvents' = new
  /\ currentHistoryIndex' = 0 /\ isReplaying' = TRUE
  /\ draining' = FALSE /\ eventsWhileSuspended' = <<>> /\ isSuspended' = FALSE
  /\ pendingActions' = NoTasks /\ openTasks' = NoTasks /\ sequenceNumber' = 0
  /\ outstandingEvents' = [n \in EventNames |-> <<>>] /\ unprocessedEvents' = <<>>
  /\ historyPatched' = FALSE /\ appliedPatch' = "unset" /\ encounteredPatch' = FALSE
  /\ isComplete' = FALSE /\ completion' = "none" /\ carryoverEvents' = {}
  /\ pc' = 1 /\ outcome' = [s \in Slots |-> Pending] /\ observed' = NoTasks
  /\ thrown' = {}

Execute(past, new) ==
  /\ control = "idle" /\ control' = "loop"
  /\ NewContext(past, new)
  /\ UNCHANGED deployVars

\* The result is handed over and the context is garbage.
Release ==
  /\ control' = "idle"
  /\ NewContext(<<>>, <<>>)

NoContext(emits, patched) ==
  /\ sdkEmitsOptionalTimer = emits /\ patchDeployed = patched
  /\ pastEvents = <<>> /\ newEvents = <<>> /\ currentHistoryIndex = 0 /\ isReplaying = TRUE
  /\ draining = FALSE /\ eventsWhileSuspended = <<>> /\ isSuspended = FALSE
  /\ pendingActions = NoTasks /\ openTasks = NoTasks /\ sequenceNumber = 0
  /\ outstandingEvents = [n \in EventNames |-> <<>>] /\ unprocessedEvents = <<>>
  /\ historyPatched = FALSE /\ appliedPatch = "unset" /\ encounteredPatch = FALSE
  /\ isComplete = FALSE /\ completion = "none" /\ carryoverEvents = {}
  /\ control = "idle"
  /\ pc = 1 /\ outcome = [s \in Slots |-> Pending] /\ observed = NoTasks
  /\ thrown = {}

-----------------------------------------------------------------------------
(* OrchestrationHistoryIterator.moveNext *)

\* The past events are exhausted: reading goes on in the new ones, live.
Switching == isReplaying /\ currentHistoryIndex >= Len(pastEvents)
CurrentList == IF isReplaying /\ ~Switching THEN pastEvents ELSE newEvents
\* A mistake the runs must notice: the index is not reset at the switch.
CurrentIndexNotReset == currentHistoryIndex
CurrentIndex == IF Switching THEN 0 ELSE currentHistoryIndex
HasNext == CurrentIndex < Len(CurrentList)

NextEvent == IF draining THEN Head(eventsWhileSuspended) ELSE CurrentList[CurrentIndex + 1]

Running(op) == control = "user" /\ pc \in DOMAIN program /\ program[pc].op = op

Done(slot) == outcome[slot].kind # "pending"
AwaitOver ==
  LET on == ToSet(program[pc].on)
  IN IF program[pc].any THEN \E s \in on : Done(s) ELSE \A s \in on : Done(s)

\* processNextEvent is called by execute's loop or by an await that is not over.
Pumping ==
  \/ control = "loop"
  \/ Running("await") /\ (draining \/ ~AwaitOver)

\* The next event is of this type: it is read, from the drain queue or the history.
Read(type) ==
  /\ Pumping
  /\ draining \/ HasNext
  /\ NextEvent.type = type
  /\ IF draining
     THEN UNCHANGED <<currentHistoryIndex, isReplaying>>
     ELSE /\ currentHistoryIndex' = CurrentIndex + 1
          /\ isReplaying' = (isReplaying /\ ~Switching)
  /\ UNCHANGED <<deployVars, pastEvents, newEvents, pc, observed>>

\* A mistake the runs must notice: suspension is ignored.
HandleThoughSuspended(type) ==
  /\ Read(type)
  /\ eventsWhileSuspended' = IF draining THEN Tail(eventsWhileSuspended)
                             ELSE eventsWhileSuspended
  /\ UNCHANGED isSuspended

\* processEvent hands the event to its handler; a drained event leaves the queue.
Handle(type) ==
  /\ ~isSuspended
  /\ Read(type)
  /\ eventsWhileSuspended' = IF draining THEN Tail(eventsWhileSuspended)
                             ELSE eventsWhileSuspended
  /\ UNCHANGED isSuspended

\* A mistake the runs must notice: resuming handles one deferred event only.
ReturnsFromDrain == draining' = FALSE /\ UNCHANGED <<control, endVars>>

\* The handler returns: the drain loop goes on while its queue is not empty.
Returns ==
  /\ draining' = (draining /\ Len(eventsWhileSuspended) > 1)
  /\ UNCHANGED <<control, endVars>>

-----------------------------------------------------------------------------
(* complete, fail, completeInternal, and exceptions *)

\* completeInternal, on top of the actions and the sequence number given.
CompleteInternal(actions, seq, status, events) ==
  /\ pendingActions' = Put(actions, seq, Action("completeWorkflow", 0))
  /\ sequenceNumber' = seq + 1
  /\ isComplete' = TRUE
  /\ completion' = status
  /\ carryoverEvents' = events

\* A mistake the runs must notice: fail() does not look whether the workflow is complete.
FailAnyway(actions, seq) ==
  control' = "done" /\ CompleteInternal(actions, seq, "FAILED", {})

\* An exception reaches execute: it fails the workflow, and fail() itself throws,
\* out of execute, when the workflow was complete already.
FailExecution(actions, seq) ==
  \/ /\ isComplete
     /\ control' = "crash"
     /\ pendingActions' = actions /\ sequenceNumber' = seq
     /\ UNCHANGED endVars
  \/ /\ ~isComplete
     /\ control' = "done"
     /\ CompleteInternal(actions, seq, "FAILED", {})

\* A handler throws.  An await ignores the exception and pumps on; the loop does not.
\* Either way it leaves the loop of handleExecutionResumed.
Throws(exception, actions, seq) ==
  /\ draining' = FALSE
  /\ thrown' = thrown \union {exception}
  /\ \/ /\ control = "user"
        /\ pendingActions' = actions /\ sequenceNumber' = seq
        /\ UNCHANGED <<control, endVars>>
     \/ /\ control = "loop"
        /\ FailExecution(actions, seq)

-----------------------------------------------------------------------------
(* Confirmations of actions: TaskScheduled, TimerCreated, ChildWorkflowInstanceCreated *)

\* A mistake the runs must notice: what follows the dropped timer stays where it is.
DropWithoutShift(f, id) == Restrict(f, DOMAIN f \ {id})

\* dropOptionalExternalEventTimerAt: id is taken out, what follows moves down by one.
ShiftDown(f, id) ==
  [i \in {j \in DOMAIN f : j < id} \union {j - 1 : j \in {k \in DOMAIN f : k > id}} |->
     IF i < id THEN f[i] ELSE f[i + 1]]

\* A mistake the runs must notice: histories from before the optional timer get no tolerance.
NeverSuperfluous(e) == FALSE

\* The action at the event's id is an optional timer, the history's is not.
Superfluous(e) ==
  /\ e.id \in DOMAIN pendingActions
  /\ pendingActions[e.id].kind = "optionalTimer"
  /\ e.name # "optionalTimer"

\* A confirmed action is no longer pending.  An optional timer which the history lacks
\* is dropped first; when the action is still not found, the code is not deterministic.
Confirm(kinds) ==
  LET id == NextEvent.id
      drop == Superfluous(NextEvent)
      actions == IF drop THEN ShiftDown(pendingActions, id) ELSE pendingActions
      seq == IF drop THEN sequenceNumber - 1 ELSE sequenceNumber
      others == Restrict(actions, DOMAIN actions \ {id})
      found == id \in DOMAIN actions /\ actions[id].kind \in kinds
      \* handleTimerCreated removes whatever the id names, the others only what matches
      kept == IF kinds = TimerKinds THEN others ELSE actions
  IN /\ openTasks' = IF drop THEN ShiftDown(openTasks, id) ELSE openTasks
     /\ \/ /\ found
           /\ pendingActions' = others /\ sequenceNumber' = seq
           /\ Returns
           /\ UNCHANGED thrown
        \/ /\ ~found
           /\ Throws("NonDeterministicOrchestratorException", kept, seq)
     /\ UNCHANGED <<eventVars, patchVars, outcome>>

\* A mistake the runs must notice: a confirmed activity stays pending.
TaskScheduledKeepsAction ==
  /\ Handle("TaskScheduled") /\ Returns
  /\ UNCHANGED <<taskVars, eventVars, patchVars, outcome, thrown>>

HandleTaskScheduled == Handle("TaskScheduled") /\ Confirm({"scheduleTask"})

HandleSubOrchestrationCreated ==
  Handle("ChildWorkflowInstanceCreated") /\ Confirm({"createChildWorkflow"})

HandleTimerCreated ==
  /\ Handle("TimerCreated")
  /\ NextEvent.id # InfrastructureTimer
  /\ Confirm(TimerKinds)

HandleInfrastructureTimer ==
  /\ Handle("TimerCreated")
  /\ NextEvent.id = InfrastructureTimer
  /\ Returns
  /\ UNCHANGED <<taskVars, eventVars, patchVars, outcome, thrown>>

\* The switch of processEvent has no case for EventSent.
HandleUnknown ==
  /\ Handle("EventSent")
  /\ Throws("IllegalStateException", pendingActions, sequenceNumber)
  /\ UNCHANGED <<openTasks, eventVars, patchVars, outcome>>

-----------------------------------------------------------------------------
(* Completions of open tasks *)

\* A mistake the runs must notice: the timer that guards a wait completes it like any task.
IsWaitNever(slot) == FALSE
IsWait(slot) == program[slot].op = "waitForExternalEvent"

\* The task of an open id is closed with this outcome; nothing if the id is not open.
\* The timer that guards an event wait cancels the wait instead (onTimerFired).
CloseTask(id, result) ==
  /\ \/ /\ id \notin DOMAIN openTasks
        /\ UNCHANGED <<openTasks, outcome, outstandingEvents>>
     \/ /\ id \in DOMAIN openTasks
        /\ openTasks' = Restrict(openTasks, DOMAIN openTasks \ {id})
        /\ LET slot == openTasks[id]
           IN \/ /\ ~IsWait(slot)
                 /\ outcome' = [outcome EXCEPT ![slot] = result]
                 /\ UNCHANGED outstandingEvents
              \/ /\ IsWait(slot) /\ ~Done(slot) /\ result.kind = "ok"
                 /\ outcome' = [outcome EXCEPT ![slot] = Canceled]
                 /\ outstandingEvents' =
                      [outstandingEvents EXCEPT ![program[slot].name] = RemoveFirst(@, slot)]
              \/ /\ IsWait(slot) /\ (Done(slot) \/ result.kind # "ok")
                 /\ UNCHANGED <<outcome, outstandingEvents>>
  /\ Returns
  /\ UNCHANGED <<pendingActions, sequenceNumber, unprocessedEvents, patchVars, thrown>>

\* A mistake the runs must notice: a completed activity stays open.
TaskCompletedStaysOpen ==
  /\ Handle("TaskCompleted") /\ Returns
  /\ outcome' = [s \in Slots |->
                   IF NextEvent.id \in DOMAIN openTasks /\ openTasks[NextEvent.id] = s
                   THEN Deserialize(NextEvent.val) ELSE outcome[s]]
  /\ UNCHANGED <<taskVars, eventVars, patchVars, thrown>>

HandleTaskCompleted ==
  Handle("TaskCompleted") /\ CloseTask(NextEvent.id, Deserialize(NextEvent.val))

HandleTaskFailed == Handle("TaskFailed") /\ CloseTask(NextEvent.id, Failed)

HandleTimerFired == Handle("TimerFired") /\ CloseTask(NextEvent.id, Result(0))

HandleSubOrchestrationCompleted ==
  Handle("ChildWorkflowInstanceCompleted")
    /\ CloseTask(NextEvent.id, Deserialize(NextEvent.val))

HandleSubOrchestrationFailed ==
  Handle("ChildWorkflowInstanceFailed") /\ CloseTask(NextEvent.id, Failed)

\* A mistake the runs must notice: events are buffered only when the code is not replayed.
EventBufferedLiveOnly ==
  /\ Handle("EventRaised")
  /\ LET waiters == outstandingEvents[NextEvent.name]
     IN \/ /\ waiters = <<>>
           /\ unprocessedEvents' = IF isReplaying' THEN unprocessedEvents
                                   ELSE Append(unprocessedEvents, NextEvent)
           /\ UNCHANGED <<outstandingEvents, outcome>>
        \/ /\ waiters # <<>>
           /\ outstandingEvents' = [outstandingEvents EXCEPT ![NextEvent.name] = Tail(@)]
           /\ outcome' = [outcome EXCEPT ![Head(waiters)] = Deserialize(NextEvent.val)]
           /\ UNCHANGED unprocessedEvents
  /\ Returns
  /\ UNCHANGED <<taskVars, patchVars, thrown>>

\* The first waiter of exactly this name gets the event, which is buffered if there is none.
HandleEventRaised ==
  /\ Handle("EventRaised")
  /\ LET waiters == outstandingEvents[NextEvent.name]
     IN \/ /\ waiters = <<>>
           /\ unprocessedEvents' = Append(unprocessedEvents, NextEvent)
           /\ UNCHANGED <<outstandingEvents, outcome>>
        \/ /\ waiters # <<>>
           /\ outstandingEvents' = [outstandingEvents EXCEPT ![NextEvent.name] = Tail(@)]
           /\ outcome' = [outcome EXCEPT ![Head(waiters)] = Deserialize(NextEvent.val)]
           /\ UNCHANGED unprocessedEvents
  /\ Returns
  /\ UNCHANGED <<taskVars, patchVars, thrown>>

-----------------------------------------------------------------------------
(* Life-cycle events *)

\* A mistake the runs must notice: the patches of a turn are not kept.
PatchesForgotten ==
  /\ Handle("WorkflowStarted") /\ Returns
  /\ UNCHANGED <<taskVars, eventVars, patchVars, outcome, thrown>>

\* The patch names recorded with a turn: val = 1 if the patch is among them.
HandleWorkflowStarted ==
  /\ Handle("WorkflowStarted")
  /\ historyPatched' = (historyPatched \/ NextEvent.val = 1)
  /\ Returns
  /\ UNCHANGED <<taskVars, eventVars, appliedPatch, encounteredPatch, outcome, thrown>>

\* orchestrator.run(this): the code starts inside the handler.
HandleExecutionStarted ==
  /\ Handle("ExecutionStarted") /\ control = "loop" /\ ~draining
  /\ control' = "user"
  /\ UNCHANGED <<draining, taskVars, eventVars, patchVars, endVars, outcome, thrown>>

\* A mistake the runs must notice: only a resume overrides suspension.
OnlyResumeOverrides == {"ExecutionResumed"}

\* The event types that override suspension.
OverrideSuspension == {"ExecutionResumed", "ExecutionTerminated"}

\* A mistake the runs must notice: events raised while suspended are dropped.
DropEventsWhileSuspended ==
  /\ isSuspended
  /\ \E type \in EventTypes \ {"ExecutionResumed", "ExecutionTerminated"} :
       /\ Read(type)
       /\ eventsWhileSuspended' = IF type \in {"ExecutionSuspended", "EventRaised"}
                                  THEN eventsWhileSuspended
                                  ELSE Append(eventsWhileSuspended, NextEvent)
  /\ UNCHANGED <<isSuspended, draining, control, taskVars, eventVars, patchVars, endVars,
                 outcome, thrown>>

\* A suspended workflow keeps its events for later, except another request to suspend.
HandleEventWhileSuspended ==
  /\ isSuspended
  /\ \E type \in EventTypes \ OverrideSuspension :
       /\ Read(type)
       /\ eventsWhileSuspended' = IF type = "ExecutionSuspended" THEN eventsWhileSuspended
                                  ELSE Append(eventsWhileSuspended, NextEvent)
  /\ UNCHANGED <<isSuspended, draining, control, taskVars, eventVars, patchVars, endVars,
                 outcome, thrown>>

HandleExecutionSuspended ==
  /\ ~isSuspended
  /\ Read("ExecutionSuspended")
  /\ isSuspended' = TRUE
  /\ UNCHANGED <<draining, eventsWhileSuspended, control, taskVars, eventVars, patchVars,
                 endVars, outcome, thrown>>

\* A mistake the runs must notice: deferred events are handled only when the resume is not replayed.
ResumeLiveOnly ==
  /\ Read("ExecutionResumed")
  /\ isSuspended' = FALSE
  /\ draining' = (eventsWhileSuspended # <<>> /\ ~isReplaying')
  /\ UNCHANGED <<eventsWhileSuspended, control, taskVars, eventVars, patchVars, endVars,
                 outcome, thrown>>

\* A mistake the runs must notice: the queue is polled without a look whether it is empty.
DrainUnchecked ==
  /\ Read("ExecutionResumed")
  /\ isSuspended' = FALSE
  /\ draining' = TRUE
  /\ UNCHANGED <<eventsWhileSuspended, control, taskVars, eventVars, patchVars, endVars,
                 outcome, thrown>>

HandleExecutionResumed ==
  /\ Read("ExecutionResumed")
  /\ isSuspended' = FALSE
  /\ draining' = (eventsWhileSuspended # <<>>)
  /\ UNCHANGED <<eventsWhileSuspended, control, taskVars, eventVars, patchVars, endVars,
                 outcome, thrown>>

\* completeInternal throws when the workflow is complete already.
HandleExecutionTerminated ==
  /\ Read("ExecutionTerminated")
  /\ UNCHANGED <<isSuspended, eventsWhileSuspended>>
  /\ \/ /\ ~isComplete
        /\ CompleteInternal(pendingActions, sequenceNumber, "TERMINATED", {})
        /\ UNCHANGED <<draining, control, thrown>>
     \/ /\ isComplete
        /\ Throws("IllegalStateException", pendingActions, sequenceNumber)
  /\ UNCHANGED <<openTasks, eventVars, patchVars, outcome>>

-----------------------------------------------------------------------------
(* Calls of the workflow code *)

\* The code is at an instruction of this operation (and not inside an await's pump).
Code(op) ==
  /\ Running(op) /\ ~draining
  /\ UNCHANGED <<deployVars, iterVars, suspendVars, thrown>>

\* An exception leaves the code: run() ends and execute fails the workflow.
CodeThrows(actions, seq) ==
  /\ FailExecution(actions, seq)
  /\ UNCHANGED <<openTasks, eventVars, patchVars, codeVars>>

\* Every call starts with throwIfOrchestratorComplete.
CallWhenComplete ==
  /\ isComplete
  /\ \E op \in {"callActivity", "callSubOrchestrator", "createTimer", "sendEvent",
                "waitForExternalEvent", "complete", "continueAsNew"} : Code(op)
  /\ CodeThrows(pendingActions, sequenceNumber)

Proceed == pc' = pc + 1 /\ UNCHANGED <<control, endVars>>

\* A mistake the runs must notice: a call does not look whether the workflow is complete.
ScheduleAnyway(kind) ==
  /\ pendingActions' = Put(pendingActions, sequenceNumber, Action(kind, pc))
  /\ openTasks' = Put(openTasks, sequenceNumber, pc)
  /\ sequenceNumber' = sequenceNumber + 1
  /\ Proceed
  /\ UNCHANGED <<eventVars, patchVars, outcome, observed>>

Schedule(kind) ==
  /\ ~isComplete
  /\ pendingActions' = Put(pendingActions, sequenceNumber, Action(kind, pc))
  /\ openTasks' = Put(openTasks, sequenceNumber, pc)
  /\ sequenceNumber' = sequenceNumber + 1
  /\ Proceed
  /\ UNCHANGED <<eventVars, patchVars, outcome, observed>>

CallActivity == Code("callActivity") /\ Schedule("scheduleTask")
CallSubOrchestrator == Code("callSubOrchestrator") /\ Schedule("createChildWorkflow")
CreateTimer == Code("createTimer") /\ Schedule("createTimer")

\* A sent event has no task: nobody waits for it.
SendEvent ==
  /\ Code("sendEvent") /\ ~isComplete
  /\ pendingActions' = Put(pendingActions, sequenceNumber, Action("sendEvent", pc))
  /\ sequenceNumber' = sequenceNumber + 1
  /\ Proceed
  /\ UNCHANGED <<openTasks, eventVars, patchVars, outcome, observed>>

\* A mistake the runs must notice: the latest buffered event is taken; no event is looked for.
LastBufferedEvent(name) ==
  SelectLastInSeq(unprocessedEvents, LAMBDA e : CaseFold[e.name] = CaseFold[name])
NoBufferedEvent(name) == 0

\* The first buffered event of the same name, in any case (0: none).
BufferedEvent(name) ==
  SelectInSeq(unprocessedEvents, LAMBDA e : CaseFold[e.name] = CaseFold[name])

\* waitForExternalEvent finds the event in the buffer.  A payload it cannot deserialize
\* makes the call throw, before the event is taken out of the buffer.
WaitFindsEvent ==
  /\ Code("waitForExternalEvent") /\ ~isComplete
  /\ LET i == BufferedEvent(program[pc].name)
     IN /\ i # 0
        /\ \/ /\ unprocessedEvents[i].val # BadPayload
              /\ outcome' = [outcome EXCEPT ![pc] = Result(unprocessedEvents[i].val)]
              /\ unprocessedEvents' = RemoveAt(unprocessedEvents, i)
              /\ sequenceNumber' = sequenceNumber + 1
              /\ Proceed
              /\ UNCHANGED <<pendingActions, openTasks, outstandingEvents, patchVars, observed>>
           \/ /\ unprocessedEvents[i].val = BadPayload
              /\ CodeThrows(pendingActions, sequenceNumber + 1)

WaitTimesOutAtOnce ==
  /\ Code("waitForExternalEvent") /\ ~isComplete
  /\ program[pc].timeout = ZeroTimeout
  /\ BufferedEvent(program[pc].name) = 0
  /\ outcome' = [outcome EXCEPT ![pc] = Canceled]
  /\ sequenceNumber' = sequenceNumber + 1
  /\ Proceed
  /\ UNCHANGED <<pendingActions, openTasks, eventVars, patchVars, observed>>

\* The wait takes one id for itself and one for the timer that guards it: a timer that
\* cancels it, or, for an indefinite wait, the optional timer which never fires.
WaitForExternalEvent ==
  /\ Code("waitForExternalEvent") /\ ~isComplete
  /\ program[pc].timeout # ZeroTimeout
  /\ BufferedEvent(program[pc].name) = 0
  /\ outstandingEvents' = [outstandingEvents EXCEPT ![program[pc].name] = Append(@, pc)]
  /\ LET indefinite == program[pc].timeout = Indefinite
         id == sequenceNumber + 1
         kind == IF indefinite THEN "optionalTimer" ELSE "eventTimer"
     IN \/ /\ indefinite => sdkEmitsOptionalTimer
           /\ pendingActions' = Put(pendingActions, id, Action(kind, pc))
           /\ openTasks' = Put(openTasks, id, pc)
           /\ sequenceNumber' = sequenceNumber + 2
        \/ /\ indefinite /\ ~sdkEmitsOptionalTimer
           /\ sequenceNumber' = sequenceNumber + 1
           /\ UNCHANGED <<pendingActions, openTasks>>
  /\ Proceed
  /\ UNCHANGED <<unprocessedEvents, patchVars, outcome, observed>>

\* What an earlier call said; else yes if the history has the patch or the code runs live.
CheckPatch ==
  IF appliedPatch # "unset" THEN appliedPatch
  ELSE IF historyPatched \/ ~isReplaying THEN "yes" ELSE "no"

\* The answer skips the guarded instructions or not.  Code from before the patch has
\* neither the call nor what it guards.
IsPatched ==
  /\ Code("isPatched")
  /\ LET answer == CheckPatch
         skipped == pc + 1 + program[pc].skip
     IN \/ /\ patchDeployed
           /\ appliedPatch' = answer
           /\ encounteredPatch' = (encounteredPatch \/ answer = "yes")
           /\ observed' = Put(observed, pc, [s \in {pc} |->
                                         Result(IF answer = "yes" THEN 1 ELSE 0)])
           /\ pc' = IF answer = "yes" THEN pc + 1 ELSE skipped
           /\ UNCHANGED historyPatched
        \/ /\ ~patchDeployed
           /\ pc' = skipped
           /\ UNCHANGED <<patchVars, observed>>
  /\ UNCHANGED <<control, endVars, taskVars, eventVars, outcome>>

\* What an await hands to the code: the outcomes of its tasks, or of the first one, in the
\* order of the list, that is done.
Awaited ==
  LET on == program[pc].on
  IN IF program[pc].any THEN Restrict(outcome, {on[SelectInSeq(on, Done)]})
     ELSE Restrict(outcome, ToSet(on))

\* The await returns, or rethrows what its tasks threw, which the code may catch.
Await ==
  /\ Code("await") /\ AwaitOver
  /\ observed' = Put(observed, pc, Awaited)
  /\ LET throws == \E s \in DOMAIN Awaited : Awaited[s].kind \in {"failed", "canceled"}
     IN \/ /\ ~throws \/ program[pc].catch
           /\ Proceed
           /\ UNCHANGED <<pendingActions, sequenceNumber>>
        \/ /\ throws /\ ~program[pc].catch
           /\ FailExecution(pendingActions, sequenceNumber)
           /\ UNCHANGED pc
  /\ UNCHANGED <<openTasks, eventVars, patchVars, outcome>>

Complete ==
  /\ Code("complete") /\ ~isComplete
  /\ CompleteInternal(pendingActions, sequenceNumber, "COMPLETED", {})
  /\ pc' = pc + 1
  /\ UNCHANGED <<control, openTasks, eventVars, patchVars, outcome, observed>>

\* A mistake the runs must notice: the first event not read is left out.
CarryoverOffByOne ==
  ToSet(unprocessedEvents) \union
    {newEvents[i] : i \in {j \in DOMAIN newEvents :
                             j > currentHistoryIndex + 1 /\ newEvents[j].type = "EventRaised"}}

\* The buffered events, and those of the new events that have not been read.
Carryover ==
  ToSet(unprocessedEvents) \union
    {newEvents[i] : i \in {j \in DOMAIN newEvents :
                             j > currentHistoryIndex /\ newEvents[j].type = "EventRaised"}}

\* ContinueAsNewInterruption goes straight to execute, which completes the workflow.
ContinueAsNew ==
  /\ Code("continueAsNew") /\ ~isComplete
  /\ CompleteInternal(pendingActions, sequenceNumber, "CONTINUED_AS_NEW",
                      IF program[pc].preserve THEN Carryover ELSE {})
  /\ control' = "done"
  /\ UNCHANGED <<openTasks, eventVars, patchVars, codeVars>>

\* run() returns to the handler of ExecutionStarted and so to execute's loop.
Return ==
  /\ control = "user" /\ pc \notin DOMAIN program
  /\ control' = "loop"
  /\ UNCHANGED <<deployVars, iterVars, suspendVars, taskVars, eventVars, patchVars, endVars,
                 codeVars, thrown>>

-----------------------------------------------------------------------------
(* The end of execute *)

\* OrchestratorBlockedException: an await is not over and the history is at its end.
Yield ==
  /\ Running("await") /\ ~draining /\ ~AwaitOver /\ ~HasNext
  /\ control' = "done"
  /\ UNCHANGED <<deployVars, iterVars, suspendVars, taskVars, eventVars, patchVars, endVars,
                 codeVars, thrown>>

\* A mistake the runs must notice: implicit completion looks at the waits only, or waits for every
\* pending action.
NoWaitLeft == \A n \in EventNames : outstandingEvents[n] = <<>>
NoActionLeft == pendingActions = NoTasks

\* Implicit completion: the code is over and nothing is left that it asked for.
NothingLeft ==
  /\ \A id \in DOMAIN pendingActions :
       pendingActions[id].kind \in {"eventTimer", "optionalTimer"}
  /\ \A n \in EventNames : outstandingEvents[n] = <<>>

EndOfHistory ==
  /\ control = "loop" /\ ~draining /\ ~HasNext
  /\ \/ /\ NothingLeft /\ ~isComplete
        /\ control' = "done"
        /\ CompleteInternal(pendingActions, sequenceNumber, "COMPLETED", {})
     \/ /\ NothingLeft /\ isComplete
        /\ control' = "crash"
        /\ UNCHANGED <<pendingActions, sequenceNumber, endVars>>
     \/ /\ ~NothingLeft
        /\ control' = "done"
        /\ UNCHANGED <<pendingActions, sequenceNumber, endVars>>
  /\ UNCHANGED <<deployVars, iterVars, suspendVars, openTasks, eventVars, patchVars, codeVars,
                 thrown>>

-----------------------------------------------------------------------------
HandleEvent ==
  \/ HandleTaskScheduled \/ HandleTaskCompleted \/ HandleTaskFailed
  \/ HandleTimerCreated \/ HandleInfrastructureTimer \/ HandleTimerFired
  \/ HandleSubOrchestrationCreated \/ HandleSubOrchestrationCompleted
  \/ HandleSubOrchestrationFailed \/ HandleEventRaised \/ HandleUnknown
  \/ HandleWorkflowStarted \/ HandleExecutionStarted \/ HandleEventWhileSuspended
  \/ HandleExecutionSuspended \/ HandleExecutionResumed \/ HandleExecutionTerminated

CodeStep ==
  \/ CallActivity \/ CallSubOrchestrator \/ CreateTimer \/ SendEvent
  \/ WaitFindsEvent \/ WaitTimesOutAtOnce \/ WaitForExternalEvent
  \/ IsPatched \/ Await \/ Complete \/ ContinueAsNew \/ CallWhenComplete \/ Return

ExecutorStep == HandleEvent \/ CodeStep \/ Yield \/ EndOfHistory

-----------------------------------------------------------------------------
EventRecords ==
  {e \in [type : EventTypes, id : Int, name : EventNames \union TimerKinds \union {""},
          val : Nat] :
     e.type = "EventRaised" => e.name \in EventNames}
Actions == [kind : ActionKinds, slot : Nat]
Outcomes == [kind : {"pending", "canceled", "failed", "ok"}, val : Nat]

DeployTypeOK ==
  /\ WellFormed(program) /\ DOMAIN program \subseteq Slots
  /\ sdkEmitsOptionalTimer \in BOOLEAN /\ patchDeployed \in BOOLEAN
IterTypeOK ==
  /\ pastEvents \in Seq(EventRecords) /\ newEvents \in Seq(EventRecords)
  /\ currentHistoryIndex \in Nat /\ isReplaying \in BOOLEAN
SuspendTypeOK ==
  /\ draining \in BOOLEAN /\ isSuspended \in BOOLEAN
  /\ eventsWhileSuspended \in Seq(EventRecords)
  /\ draining => eventsWhileSuspended # <<>>
TaskTypeOK ==
  /\ DOMAIN pendingActions \subseteq Int /\ DOMAIN openTasks \subseteq Int
  /\ \A id \in DOMAIN pendingActions : pendingActions[id] \in Actions
  /\ \A id \in DOMAIN openTasks : openTasks[id] \in Slots
  /\ sequenceNumber \in Int
EventTypeOK ==
  /\ outstandingEvents \in [EventNames -> Seq(Slots)]
  /\ unprocessedEvents \in Seq(EventRecords)
PatchTypeOK ==
  /\ historyPatched \in BOOLEAN /\ appliedPatch \in {"unset", "yes", "no"}
  /\ encounteredPatch \in BOOLEAN
EndTypeOK ==
  /\ isComplete \in BOOLEAN /\ completion \in Statuses \union {"none"}
  /\ carryoverEvents \subseteq EventRecords
CodeTypeOK ==
  /\ control \in {"idle", "loop", "user", "done", "crash"}
  /\ pc \in Nat
  /\ outcome \in [Slots -> Outcomes]
  /\ thrown \subseteq {"NonDeterministicOrchestratorException", "IllegalStateException"}

\* The type invariant of the executor.
ExecutorTypeOK ==
  /\ DeployTypeOK /\ IterTypeOK /\ SuspendTypeOK /\ TaskTypeOK /\ EventTypeOK
  /\ PatchTypeOK /\ EndTypeOK /\ CodeTypeOK

\* An id is handed out once: every pending action and open task has an id below the sequence
\* number, also after dropOptionalExternalEventTimerAt has moved ids down, so that no later
\* call of the code overwrites an action or a task.
IdsAreFresh ==
  \A id \in DOMAIN pendingActions \union DOMAIN openTasks : id < sequenceNumber

Completions == {id \in DOMAIN pendingActions : pendingActions[id].kind = "completeWorkflow"}

\* However a turn goes (the code completes, fails, continues as new, is terminated, or all of
\* these in one batch), its result holds at most one completion.
OneCompletion ==
  /\ \A i, j \in Completions : i = j
  /\ Completions # {} => isComplete

\* A task that is done is neither open nor in a queue of waiters, and no wait is in two places
\* of a queue: a late completion or event finds nothing to complete.
NobodyWaitsForTheDone ==
  /\ \A id \in DOMAIN openTasks : ~IsWait(openTasks[id]) => ~Done(openTasks[id])
  /\ \A i, j \in DOMAIN openTasks : openTasks[i] = openTasks[j] => i = j
  /\ \A n \in EventNames : \A i, j \in DOMAIN outstandingEvents[n] :
       /\ ~Done(outstandingEvents[n][i])
       /\ outstandingEvents[n][i] = outstandingEvents[n][j] => i = j

\* A resumed workflow has caught up by the end of a turn, unless a deferred event made its
\* handler throw.
ResumedCatchesUp ==
  control = "done" /\ ~isSuspended /\ thrown = {} => eventsWhileSuspended = <<>>
=============================================================================
