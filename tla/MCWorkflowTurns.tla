---------------------------- MODULE MCWorkflowTurns ----------------------------
(* Instances of WorkflowTurns for TLC: names, programs, scenarios. *)
EXTENDS WorkflowTurns

OneName == {"go"}
OneFold == [n \in OneName |-> n]

\* Sequences, fan-out, races of tasks and timers, children, waits; implicit and explicit
\* completion.  Every one ends when its work is done and its event, if it needs one, raised.
TaskPrograms ==
  {<<riskyActivity, tryAwait(1), callActivity, createTimer, allOf(<<3, 4>>), complete>>,
   <<callActivity, createTimer, anyOf(<<1, 2>>), callSubOrchestrator, await(4)>>,
   <<riskyActivity, riskyActivity, allOf(<<1, 2>>), complete>>,
   <<sendEvent, callActivity, await(2), complete>>,
   <<callActivity, waitForExternalEvent("go", FiniteTimeout), await(1), tryAwait(2)>>,
   <<waitForExternalEvent("go", Indefinite), await(1)>>}

\* Waits: served from the buffer, by a waiting queue, cancelled by a timer, given up at once;
\* and eternal workflows, whose first generation takes one event and continues as new.
EventPrograms ==
  {<<waitForExternalEvent("go", FiniteTimeout), callActivity, tryAwait(1), await(2),
     waitForExternalEvent("go", ZeroTimeout), waitForExternalEvent("go", Indefinite),
     tryAwait(5), await(6)>>,
   <<waitForExternalEvent("go", ZeroTimeout), tryAwait(1),
     waitForExternalEvent("go", Indefinite), waitForExternalEvent("go", FiniteTimeout),
     tryAwait(4), await(3), complete>>,
   <<waitForExternalEvent("go", Indefinite), await(1), continueAsNew(TRUE)>>,
   <<waitForExternalEvent("go", FiniteTimeout), callActivity, tryAwait(1), await(2),
     continueAsNew(TRUE)>>,
   <<waitForExternalEvent("go", Indefinite), await(1), continueAsNew(FALSE)>>}

\* Workflows that are suspended, resumed and terminated on the way.
ControlPrograms ==
  {<<callActivity, waitForExternalEvent("go", FiniteTimeout), await(1), tryAwait(2), complete>>,
   <<waitForExternalEvent("go", Indefinite), await(1), callActivity, await(3)>>}

\* Workflows that wait for an event when the SDK is upgraded under them, and workflows whose
\* code is changed, guarded by isPatched, before or after the instance started.
UpgradePrograms ==
  {<<callActivity, await(1), waitForExternalEvent("go", Indefinite), await(3),
     callActivity, await(5), complete>>,
   <<waitForExternalEvent("go", Indefinite), callSubOrchestrator, tryAwait(2), createTimer,
     allOf(<<1, 4>>)>>,
   <<isPatched(2), callActivity, await(2), createTimer, await(4), complete>>,
   <<callActivity, await(1), isPatched(1), callActivity, createTimer, await(5), complete>>}

-----------------------------------------------------------------------------
\* Nobody suspends, terminates or upgrades anything.
Scenario(p, r, d, a, t) ==
  [program |-> p, raises |-> r, duplicates |-> d, abandons |-> a, turns |-> t,
   requests |-> {}, oldSdk |-> FALSE, oldCode |-> FALSE]

TaskScenarios == {Scenario(p, 1, 1, 1, 10) : p \in TaskPrograms}
EventScenarios == {Scenario(p, 3, 0, 1, 10) : p \in EventPrograms}
UpgradeScenarios ==
  {[Scenario(p, 1, 1, 1, 10) EXCEPT !.oldSdk = TRUE, !.oldCode = TRUE] : p \in UpgradePrograms}
ControlScenarios ==
  {[Scenario(p, 1, 0, 0, 4) EXCEPT !.requests = {"suspend", "terminate"}] : p \in ControlPrograms}

LifePrograms == EventPrograms \union UpgradePrograms \union ControlPrograms
LifeScenarios == EventScenarios \union UpgradeScenarios \union ControlScenarios

TerminateScenarios ==
  {[Scenario(p, 1, 0, 1, 10) EXCEPT !.requests = {"terminate"}] : p \in ControlPrograms}
=============================================================================
