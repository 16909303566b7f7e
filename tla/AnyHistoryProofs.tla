--------------------------- MODULE AnyHistoryProofs ---------------------------
(***************************************************************************)
(* What holds of the executor for every set of programs and whatever work   *)
(* items the sidecar sends.                                                *)
(***************************************************************************)
EXTENDS AnyHistory, ExecutorProofs

LEMMA InitFull == Init => FullInv
BY NoContextFull DEF Init

LEMMA NextFull == FullInv /\ [Next]_vars => FullInv'
<1> SUFFICES ASSUME FullInv, [Next]_vars PROVE FullInv'
  OBVIOUS
<1>1. DeployTypeOK
  BY DEF FullInv, ExecutorInv, ExecutorTypeOK
<1>2. CASE Start
  <2>1. PICK w \in WorkItems : Execute(w.past, w.new)
    BY <1>2 DEF Start
  <2>2. w.past \in Seq(EventRecords) /\ w.new \in Seq(EventRecords)
    BY WorkItemsAssumption
  <2>3. NewContext(w.past, w.new) /\ control' \in {"idle", "loop"} /\ UNCHANGED deployVars
    BY <2>1 DEF Execute
  <2> QED BY <1>1, <2>2, <2>3, DeployUnchanged, NewContextFull
<1>3. CASE Step
  BY <1>3, StepFull DEF Step
<1>4. CASE Finish
  <2>1. NewContext(<<>>, <<>>) /\ control' \in {"idle", "loop"} /\ UNCHANGED deployVars
    BY <1>4 DEF Finish, Release
  <2>2. <<>> \in Seq(EventRecords)
    OBVIOUS
  <2> QED BY <1>1, <2>1, <2>2, DeployUnchanged, NewContextFull
<1>5. CASE UNCHANGED vars
  BY <1>5, StutterFull DEF vars
<1> QED BY <1>2, <1>3, <1>4, <1>5 DEF Next, Rest

LEMMA FullInvariant == Spec => []FullInv
BY InitFull, NextFull, PTL DEF Spec

\* The executor's state is well typed: an await finds a task in every slot it names, a drained
\* queue is never polled empty, and no handler meets a value it does not know.
THEOREM TypeCorrect == Spec => []ExecutorTypeOK
<1>1. FullInv => ExecutorTypeOK
  BY DEF FullInv, ExecutorInv
<1> QED BY <1>1, FullInvariant, PTL

\* No id is handed out twice, whatever dropOptionalExternalEventTimerAt moves down.
THEOREM FreshIds == Spec => []IdsAreFresh
<1>1. FullInv => IdsAreFresh
  BY DEF FullInv, ExecutorInv
<1> QED BY <1>1, FullInvariant, PTL

\* A result never holds two completions, and completeInternal is not entered twice.
THEOREM SingleCompletion == Spec => []OneCompletion
<1>1. FullInv => OneCompletion
  BY DEF FullInv, ExecutorInv
<1> QED BY <1>1, FullInvariant, PTL

\* A workflow that completed, failed or was terminated asks for nothing more.
THEOREM NothingAfter == Spec => NothingAfterCompletion
<1> DEFINE A == isComplete /\ isComplete' =>
                  \A i \in DOMAIN pendingActions' :
                    \E j \in DOMAIN pendingActions : pendingActions'[i] = pendingActions[j]
<1>1. FullInv /\ [Next]_vars => [A]_vars
  <2> SUFFICES ASSUME FullInv, Next, isComplete, isComplete'
               PROVE  \A i \in DOMAIN pendingActions' :
                        \E j \in DOMAIN pendingActions : pendingActions'[i] = pendingActions[j]
    OBVIOUS
  <2>1. CASE Step
    BY <2>1, NothingAdded DEF Step, FullInv, ExecutorInv
  <2>2. CASE Start \/ Finish
    BY <2>2 DEF Start, Finish, Execute, Release, NewContext
  <2>3. CASE Rest
    BY <2>3 DEF Rest, vars, execVars, taskVars
  <2> QED BY <2>1, <2>2, <2>3 DEF Next
<1> QED BY <1>1, FullInvariant, PTL DEF Spec, NothingAfterCompletion

\* No completed activity, child, timer or wait is still open or queued, and none is open or
\* queued twice: duplicates of completions and late events find nothing to complete.
THEOREM NobodyWaits == Spec => []NobodyWaitsForTheDone
<1>1. FullInv => NobodyWaitsForTheDone
  BY DEF FullInv, WaitInv
<1> QED BY <1>1, FullInvariant, PTL

\* A resumed workflow has handled all it deferred by the end of the turn, or else one of its
\* handlers threw.
THEOREM CaughtUp == Spec => []ResumedCatchesUp
<1>1. FullInv => ResumedCatchesUp
  BY DEF FullInv, FrozenInv, ResumedCatchesUp
<1> QED BY <1>1, FullInvariant, PTL

\* The first completion of a task decides, whatever comes after it.
THEOREM FinalOutcomes == Spec => OutcomesAreFinal
<1> DEFINE A == control # "idle" /\ control' # "idle" => OutcomesStay
<1>1. FullInv /\ [Next]_vars => [A]_vars
  <2> SUFFICES ASSUME FullInv, Next, control # "idle", control' # "idle"
               PROVE  OutcomesStay
    OBVIOUS
  <2>1. CASE Step
    BY <2>1, WaitKept DEF Step, FullInv, ExecutorInv
  <2>2. CASE Start \/ Finish
    BY <2>2 DEF Start, Finish, Execute, Release
  <2>3. CASE Rest
    BY <2>3 DEF Rest
  <2> QED BY <2>1, <2>2, <2>3 DEF Next
<1> QED BY <1>1, FullInvariant, PTL DEF Spec, OutcomesAreFinal, OutcomesStay

\* From ExecutionSuspended to ExecutionResumed the code stands still in its await and no task
\* or wait of it moves, whatever events come in between and whether it is replayed or live.
THEOREM Frozen == Spec => SuspendedIsFrozen
<1> DEFINE A == isSuspended /\ isSuspended' =>
                  UNCHANGED <<pc, outcome, openTasks, outstandingEvents>>
<1>1. FullInv /\ [Next]_vars => [A]_vars
  <2> SUFFICES ASSUME FullInv, Next, isSuspended, isSuspended'
               PROVE  UNCHANGED <<pc, outcome, openTasks, outstandingEvents>>
    OBVIOUS
  <2>1. CASE Step
    BY <2>1, SuspendedStep DEF Step, FullInv
  <2>2. CASE Start \/ Finish
    BY <2>2 DEF Start, Finish, Execute, Release, NewContext
  <2>3. CASE Rest
    BY <2>3 DEF Rest, vars, execVars, taskVars, eventVars, codeVars
  <2> QED BY <2>1, <2>2, <2>3 DEF Next
<1> QED BY <1>1, FullInvariant, PTL DEF Spec, SuspendedIsFrozen
=============================================================================
