----------------------------- MODULE WorkflowTurns -----------------------------
(***************************************************************************)
(* One workflow instance executed turn by turn: the backend (the Dapr       *)
(* sidecar) keeps the history and an inbox, dispatches a work item to the   *)
(* worker, and records the actions of the result, as TaskOrchestration-     *)
(* Executor expects to see them in the next turn's history.                 *)
(*                                                                         *)
(* The backend is not in this repository: its actions are what the code     *)
(* and the tests of the SDK assume of it.                                   *)
(*                                                                         *)
(* What arrives during a turn waits in the inbox and does not touch the     *)
(* turn, so arrivals are explored between turns only.                       *)
(***************************************************************************)
EXTENDS TaskOrchestrationExecutor

\* A scenario is a program with its surroundings and the bounds of its run:
\*   raises      external events raised
\*   duplicates  completions delivered twice
\*   abandons    turns lost with their worker and dispatched again
\*   turns       turns committed (a suspended workflow may never stop)
\*   requests    what clients may ask for, once each: "suspend", "terminate"
\*   oldSdk, oldCode  TRUE: the instance starts under the older SDK, the older code
CONSTANT Scenarios

ASSUME ScenariosAssumption ==
  Scenarios \subseteq
    [program : Programs, raises : Nat, duplicates : Nat, abandons : Nat, turns : Nat,
     requests : SUBSET {"suspend", "terminate"}, oldSdk : BOOLEAN, oldCode : BOOLEAN]

VARIABLES
  scenario,    \* the scenario, which never changes
  status,      \* "RUNNING", or how the workflow ended
  history,     \* the committed history
  inbox,       \* events that wait for the next turn
  work,        \* started activities, children and timers: [id, kind, slot]
  raised, duplicates, abandons, turns,  \* counters against the bounds
  requested,   \* requests made, "resume" included
  generation,  \* 1, and 2 after continueAsNew
  started,     \* slot -> how often the backend was asked for what it asks
  committed    \* what the code had observed in the last committed turn

backendVars == <<scenario, status, history, inbox, work, raised, duplicates, abandons, turns,
                 requested, generation, started, committed>>
vars == <<execVars, backendVars>>

BetweenTurns == control = "idle" /\ status = "RUNNING"

NotStarted == [s \in Slots |-> 0]
ExecutionStarted == Event("ExecutionStarted", 0, "", 0)

Init ==
  /\ scenario \in Scenarios
  /\ program = scenario.program
  /\ NoContext(~scenario.oldSdk, ~scenario.oldCode)
  /\ status = "RUNNING" /\ history = <<>> /\ inbox = <<ExecutionStarted>> /\ work = {}
  /\ raised = 0 /\ duplicates = 0 /\ abandons = 0 /\ turns = 0 /\ requested = {}
  /\ generation = 1 /\ started = NotStarted /\ committed = NoTasks

-----------------------------------------------------------------------------
(* Arrivals *)

Arrive(e) ==
  /\ BetweenTurns
  /\ inbox' = Append(inbox, e)
  /\ UNCHANGED <<execVars, scenario, status, history, abandons, turns, generation, started,
                 committed>>

RaiseEvent ==
  /\ raised < scenario.raises
  /\ raised' = raised + 1
  /\ \E n \in EventNames : Arrive(Event("EventRaised", 0, n, raised + 1))
  /\ UNCHANGED <<work, duplicates, requested>>

\* How a piece of work may end; a second delivery carries another result.
Endings(w) ==
  LET completed(type) == Event(type, w.id, "", duplicates + 1)
      failures(type) == IF program[w.slot].mayFail THEN {Event(type, w.id, "", 0)} ELSE {}
  IN CASE w.kind = "scheduleTask" -> {completed("TaskCompleted")} \union failures("TaskFailed")
       [] w.kind = "createChildWorkflow" ->
            {completed("ChildWorkflowInstanceCompleted")}
              \union failures("ChildWorkflowInstanceFailed")
       [] w.kind \in TimerKinds -> {Event("TimerFired", w.id, "", 0)}

FinishWork(w) ==
  /\ \E e \in Endings(w) : Arrive(e)
  /\ work' = work \ {w}
  /\ UNCHANGED <<raised, duplicates, requested>>

\* Delivered once now and once more later.
FinishWorkTwice(w) ==
  /\ duplicates < scenario.duplicates
  /\ duplicates' = duplicates + 1
  /\ \E e \in Endings(w) : Arrive(e)
  /\ UNCHANGED <<work, raised, requested>>

Request(what, type) ==
  /\ what \notin requested
  /\ requested' = requested \union {what}
  /\ Arrive(Event(type, 0, "", 0))
  /\ UNCHANGED <<work, raised, duplicates>>

SuspendInstance == "suspend" \in scenario.requests /\ Request("suspend", "ExecutionSuspended")
ResumeInstance == "suspend" \in requested /\ Request("resume", "ExecutionResumed")
TerminateInstance ==
  "terminate" \in scenario.requests /\ Request("terminate", "ExecutionTerminated")

\* New releases are deployed between turns.
UpgradeSdk ==
  /\ BetweenTurns /\ ~sdkEmitsOptionalTimer
  /\ sdkEmitsOptionalTimer' = TRUE
  /\ UNCHANGED <<program, patchDeployed, iterVars, suspendVars, taskVars, eventVars, patchVars,
                 endVars, control, codeVars, thrown, backendVars>>

DeployPatch ==
  /\ BetweenTurns /\ ~patchDeployed
  /\ patchDeployed' = TRUE
  /\ UNCHANGED <<program, sdkEmitsOptionalTimer, iterVars, suspendVars, taskVars, eventVars,
                 patchVars, endVars, control, codeVars, thrown, backendVars>>

-----------------------------------------------------------------------------
(* Turns *)

WorkflowStarted(patched) == Event("WorkflowStarted", 0, "", IF patched THEN 1 ELSE 0)

\* All that waits is dispatched, after a WorkflowStarted that opens the turn.
Dispatch ==
  /\ status = "RUNNING" /\ inbox # <<>> /\ turns < scenario.turns
  /\ Execute(history, <<WorkflowStarted(FALSE)>> \o inbox)
  /\ inbox' = <<>>
  /\ UNCHANGED <<scenario, status, history, work, raised, duplicates, abandons, turns, requested,
                 generation, started, committed>>

Execution == ExecutorStep /\ UNCHANGED backendVars

\* The ids of the pending actions of these kinds, in the order of the result.
Ids(kinds) ==
  LET ids == {id \in DOMAIN pendingActions : pendingActions[id].kind \in kinds}
  IN [n \in 1 .. Cardinality(ids) |->
        CHOOSE id \in ids : Cardinality({i \in ids : i <= id}) = n]

Confirmation(id) ==
  LET kind == pendingActions[id].kind
  IN CASE kind = "scheduleTask" -> Event("TaskScheduled", id, "", 0)
       [] kind = "createChildWorkflow" -> Event("ChildWorkflowInstanceCreated", id, "", 0)
       [] kind = "sendEvent" -> Event("EventSent", id, "", 0)
       [] kind \in TimerKinds -> Event("TimerCreated", id, kind, 0)

Confirmations ==
  LET ids == Ids(ActionKinds \ {"completeWorkflow"})
  IN [i \in DOMAIN ids |-> Confirmation(ids[i])]

\* The turn goes to the history, the patches it met with its WorkflowStarted.
Recorded ==
  history \o <<WorkflowStarted(encounteredPatch)>> \o Tail(newEvents) \o Confirmations

\* Optional timers never fire.
NewWork ==
  {[id |-> id, kind |-> pendingActions[id].kind, slot |-> pendingActions[id].slot] :
     id \in {i \in DOMAIN pendingActions :
               pendingActions[i].kind \in
                 {"scheduleTask", "createChildWorkflow", "createTimer", "eventTimer"}}}

\* The slots whose action is in the result.
Asked(s) == \E id \in DOMAIN pendingActions : pendingActions[id].slot = s

Commit ==
  /\ control = "done"
  /\ Release
  /\ turns' = turns + 1
  /\ UNCHANGED <<sdkEmitsOptionalTimer, patchDeployed, scenario, raised, duplicates, abandons,
                 requested>>

CommitTurn ==
  /\ completion = "none"
  /\ Commit
  /\ history' = Recorded
  /\ work' = work \union NewWork
  /\ started' = [s \in Slots |-> started[s] + IF Asked(s) THEN 1 ELSE 0]
  /\ committed' = observed
  /\ UNCHANGED <<program, status, inbox, generation>>

CommitEnd ==
  /\ completion \in Statuses \ {"CONTINUED_AS_NEW"}
  /\ Commit
  /\ status' = completion
  /\ history' = Recorded
  /\ work' = {}
  /\ started' = [s \in Slots |-> started[s] + IF Asked(s) THEN 1 ELSE 0]
  /\ committed' = observed
  /\ UNCHANGED <<program, inbox, generation>>

\* The second generation runs the same code on an input that makes it complete
\* where the first continued as new.
NextGeneration(p) ==
  [i \in DOMAIN p |-> IF p[i].op = "continueAsNew" THEN complete ELSE p[i]]

\* A new history; the events carried over come in the order of a HashSet: any.
CommitContinueAsNew ==
  /\ completion = "CONTINUED_AS_NEW"
  /\ Commit
  /\ \E carried \in SetToSeqs(carryoverEvents) :
       inbox' = <<ExecutionStarted>> \o carried \o inbox
  /\ program' = NextGeneration(program)
  /\ generation' = generation + 1
  /\ history' = <<>> /\ work' = {} /\ started' = NotStarted /\ committed' = NoTasks
  /\ UNCHANGED status

\* The worker is lost before it answers; the same events are dispatched again.
Abandon ==
  /\ control # "idle" /\ abandons < scenario.abandons
  /\ abandons' = abandons + 1
  /\ Release
  /\ inbox' = Tail(newEvents) \o inbox
  /\ UNCHANGED <<deployVars, scenario, status, history, work, raised, duplicates, turns, requested,
                 generation, started, committed>>

\* Between turns, or with a turn nobody will answer, the instance may stay as it is.
Rest == control \in {"idle", "crash"} /\ UNCHANGED vars

Backend ==
  \/ RaiseEvent \/ (\E w \in work : FinishWork(w) \/ FinishWorkTwice(w))
  \/ SuspendInstance \/ ResumeInstance \/ TerminateInstance
  \/ UpgradeSdk \/ DeployPatch
  \/ Dispatch \/ CommitTurn \/ CommitEnd \/ CommitContinueAsNew \/ Abandon

Next == Backend \/ Execution \/ Rest

\* The worker runs, the sidecar dispatches, records and finishes what was started, and the
\* clients raise their events.
Fairness ==
  /\ WF_vars(Execution) /\ WF_vars(Dispatch)
  /\ WF_vars(CommitTurn) /\ WF_vars(CommitEnd) /\ WF_vars(CommitContinueAsNew)
  /\ WF_vars(\E w \in work : FinishWork(w))
  /\ WF_vars(RaiseEvent)

Spec == Init /\ [][Next]_vars
FairSpec == Spec /\ Fairness

-----------------------------------------------------------------------------
(* Properties *)

TurnOver == control = "done"

\* Replay gives the code what it got before: whatever the code observed in the committed
\* turns (results, winners of anyOf, answers of isPatched) it observes again.
ReplaysAgree ==
  TurnOver => \A s \in DOMAIN committed : s \in DOMAIN observed /\ observed[s] = committed[s]

\* Code that has not changed is never taken for a non-deterministic orchestrator, nor is
\* code that changed behind isPatched.  A workflow that was suspended may be: its confirmations
\* are deferred, so that each of its turns asks for its actions again.
NoFalseAlarm ==
  "suspend" \notin requested => "NonDeterministicOrchestratorException" \notin thrown

\* The backend is asked for each activity, child workflow and timer of the code once, however
\* often the code is replayed, unless it was suspended; sent events apart.
AskedOnce ==
  "suspend" \notin requested =>
    \A s \in DOMAIN program : program[s].op # "sendEvent" => started[s] <= 1

RaisedEvents == {e \in ToSet(pastEvents \o newEvents) : e.type = "EventRaised"}
Waits == {s \in DOMAIN program : IsWait(s)}
Receivers(e) == {s \in Waits : outcome[s] = Deserialize(e.val)}
Kept(e) == {i \in DOMAIN unprocessedEvents : unprocessedEvents[i] = e}
Deferred(e) == {i \in DOMAIN eventsWhileSuspended : eventsWhileSuspended[i] = e}

\* Each external event completes just one wait, or is kept for a later one: at the end of a
\* turn none is lost and none is in two places.
EachEventOnce ==
  TurnOver /\ completion = "none" =>
    \A e \in RaisedEvents :
      Cardinality(Receivers(e)) + Cardinality(Kept(e)) + Cardinality(Deferred(e)) = 1

\* continueAsNew with preserveUnprocessedEvents carries over exactly the events no wait got,
\* those behind the point of the history the code had reached included.
CarriesTheUnreceived ==
  TurnOver /\ completion = "CONTINUED_AS_NEW" /\ program[pc].preserve =>
    carryoverEvents = {e \in RaisedEvents : Receivers(e) = {}}

\* Waits for the same name are served in the order they were made, with events in the order
\* they were raised, through buffering, suspension and replay (before a continueAsNew).
ServedInOrder ==
  generation = 1 =>
    \A s, t \in Waits :
      /\ s < t /\ program[s].name = program[t].name
      /\ outcome[s].kind = "ok" /\ outcome[t].kind = "ok"
      => outcome[s].val < outcome[t].val

\* No event sits in the buffer while a wait of its name is outstanding (one that spells it in
\* another case may be: the outstanding waits are looked up by the exact name).
NoWaitStarves ==
  \A i \in DOMAIN unprocessedEvents : outstandingEvents[unprocessedEvents[i].name] = <<>>

\* execute() returns a result: no exception escapes it and leaves the work item unanswered.
AlwaysAnswers == control # "crash"

\* A request to terminate is never used up without ending the workflow: while the workflow
\* runs, the request still waits for a turn.
TerminateIsHonoured ==
  BetweenTurns /\ "terminate" \in requested =>
    \E i \in DOMAIN inbox : inbox[i].type = "ExecutionTerminated"

\* Under fairness the workflow ends.
Ends == <>(status # "RUNNING")

\* The turns implement a workflow that runs once: replay, lost turns and repeated deliveries
\* are invisible in what is asked of the backend and in what the code has observed.
Durable == INSTANCE DurableWorkflow
             WITH asked <- [s \in Slots |-> IF s \in DOMAIN program /\ program[s].op = "sendEvent"
                                            THEN 0 ELSE started[s]],
                  known <- committed,
                  ended <- status # "RUNNING"
RunsOnce == Durable!Spec
=============================================================================
