----------------------------- MODULE MCAnyHistory -----------------------------
(* Instances of AnyHistory for TLC: short histories of events that need not fit. *)
EXTENDS AnyHistory

\* Two spellings of one name.
Names == {"go", "GO"}
Fold == [n \in Names |-> "go"]

AnyPrograms ==
  {<<waitForExternalEvent("go", Indefinite), callActivity, tryAwait(2), complete, tryAwait(1),
     callActivity>>,
   <<callSubOrchestrator, waitForExternalEvent("go", FiniteTimeout), await(1), tryAwait(2)>>,
   <<waitForExternalEvent("go", ZeroTimeout), sendEvent, isPatched(1), createTimer, await(1)>>,
   <<waitForExternalEvent("go", Indefinite), tryAwait(1), continueAsNew(TRUE)>>}

Opening == <<Event("WorkflowStarted", 0, "", 1), Event("ExecutionStarted", 0, "", 0)>>

AnyEvents ==
  {Event("TaskScheduled", 1, "", 0), Event("TaskScheduled", 2, "", 0),
   Event("TaskCompleted", 2, "", 3), Event("TaskCompleted", 2, "", 9),
   Event("TaskFailed", 2, "", 0),
   Event("TimerCreated", 1, "optionalTimer", 0), Event("TimerCreated", 1, "createTimer", 0),
   Event("TimerCreated", 3, "createTimer", 0),
   Event("TimerCreated", InfrastructureTimer, "createTimer", 0), Event("TimerFired", 1, "", 0),
   Event("TimerFired", 2, "", 0), Event("ChildWorkflowInstanceCreated", 0, "", 0),
   Event("ChildWorkflowInstanceCompleted", 0, "", 4),
   Event("ChildWorkflowInstanceFailed", 0, "", 0), Event("EventRaised", 0, "go", 5),
   Event("EventRaised", 0, "go", 9), Event("EventRaised", 0, "GO", 5),
   Event("ExecutionSuspended", 0, "", 0),
   Event("ExecutionResumed", 0, "", 0), Event("ExecutionTerminated", 0, "", 0),
   Event("EventSent", 1, "", 0)}

AnyWorkItems ==
  {[past |-> Opening \o p, new |-> n] :
     p \in BoundedSeq(AnyEvents, 1), n \in BoundedSeq(AnyEvents, 2)}
  \union {[past |-> <<>>, new |-> Opening \o n] : n \in BoundedSeq(AnyEvents, 2)}
  \union {[past |-> Opening \o <<Event("ExecutionSuspended", 0, "", 0), d>>,
           new |-> <<e, Event("ExecutionResumed", 0, "", 0)>>] : d, e \in AnyEvents}
=============================================================================
