------------------------------ MODULE AnyHistory ------------------------------
(***************************************************************************)
(* TaskOrchestrationExecutor on work items of any content: histories that   *)
(* do not fit the code, repeat or miss events, or come from another release.*)
(* What holds here holds whatever the sidecar sends.                        *)
(***************************************************************************)
EXTENDS TaskOrchestrationExecutor

CONSTANT WorkItems  \* the work items: [past, new], two sequences of events

\* ExecutionStarted is the second event of a workflow's history, and only that.
ASSUME WorkItemsAssumption ==
  \A w \in WorkItems :
    /\ w.past \in Seq(EventRecords) /\ w.new \in Seq(EventRecords)
    /\ \A i \in 1 .. Len(w.past \o w.new) :
         (w.past \o w.new)[i].type = "ExecutionStarted" <=> i = 2

VARIABLES served    \* bound of the runs: one work item is executed

vars == <<execVars, served>>

Init ==
  /\ program \in Programs
  /\ \E emits, patched \in BOOLEAN : NoContext(emits, patched)
  /\ served = FALSE

Start ==
  /\ ~served
  /\ \E w \in WorkItems : Execute(w.past, w.new)
  /\ served' = TRUE

Step == ExecutorStep /\ UNCHANGED served

Finish ==
  /\ control \in {"done", "crash"}
  /\ Release
  /\ UNCHANGED <<deployVars, served>>

\* Nothing more to serve.
Rest == served /\ control = "idle" /\ UNCHANGED vars

Next == Start \/ Step \/ Finish \/ Rest

Spec == Init /\ [][Next]_vars

-----------------------------------------------------------------------------
(* Properties *)

\* Once the workflow is complete no call of the code adds an action to the result.
NothingAfterCompletion ==
  [][isComplete /\ isComplete' =>
       \A i \in DOMAIN pendingActions' :
         \E j \in DOMAIN pendingActions : pendingActions'[i] = pendingActions[j]]_vars

\* A task completes at most once in a turn: its outcome, once set, stays, whatever duplicate
\* or foreign completions, timers or events follow.
OutcomesAreFinal ==
  [][control # "idle" /\ control' # "idle" =>
       \A s \in Slots : Done(s) => outcome'[s] = outcome[s]]_vars

\* While the workflow is suspended its code does not move and none of its tasks completes.
SuspendedIsFrozen ==
  [][isSuspended /\ isSuspended' => UNCHANGED <<pc, outcome, openTasks, outstandingEvents>>]_vars
=============================================================================
