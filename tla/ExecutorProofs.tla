---------------------------- MODULE ExecutorProofs ----------------------------
(***************************************************************************)
(* What every step of TaskOrchestrationExecutor preserves, whatever the     *)
(* programs, the event names and the history: types, ids and the completion *)
(* (ExecutorInv), who is still waited for (WaitInv), and that a suspended    *)
(* workflow waits (FrozenInv).  Modules that compose the executor with a     *)
(* source of work items build their theorems on these lemmas.               *)
(***************************************************************************)
EXTENDS TaskOrchestrationExecutor, SequenceTheorems, WellFoundedInduction, TLAPS

-----------------------------------------------------------------------------
(* Sequences and minima *)

\* A non-empty set of naturals holds its minimum.
LEMMA MinInSet ==
  ASSUME NEW S \in SUBSET Nat, S # {}
  PROVE  Min(S) \in S /\ \A y \in S : Min(S) <= y
<1>1. PICK x \in S : \A y \in S : ~ (<<y, x>> \in OpToRel(<, Nat))
  BY NatLessThanWellFounded, WFMin
<1>2. \A y \in S : ~ (y < x)
  BY <1>1, Zenon DEF OpToRel
<1>3. \A y \in S : x <= y
  BY <1>2
<1> QED BY <1>3 DEF Min

\* RemoveAt takes one element out.
LEMMA RemoveAtSeq ==
  ASSUME NEW S, NEW s \in Seq(S), NEW i \in 1 .. Len(s)
  PROVE  /\ RemoveAt(s, i) \in Seq(S)
         /\ Len(RemoveAt(s, i)) = Len(s) - 1
         /\ \A j \in 1 .. Len(s) - 1 : RemoveAt(s, i)[j] = IF j < i THEN s[j] ELSE s[j + 1]
<1> DEFINE front == SubSeq(s, 1, i - 1)
           back == SubSeq(s, i + 1, Len(s))
<1>1. front \in Seq(S) /\ Len(front) = i - 1 /\ back \in Seq(S) /\ Len(back) = Len(s) - i
  OBVIOUS
<1>2. \A j \in 1 .. i - 1 : front[j] = s[j]
  OBVIOUS
<1>3. \A j \in 1 .. Len(s) - i : back[j] = s[i + j]
  OBVIOUS
<1>4. RemoveAt(s, i) = front \o back
  BY DEF RemoveAt
<1> HIDE DEF front, back
<1>5. /\ front \o back \in Seq(S)
      /\ Len(front \o back) = Len(s) - 1
      /\ \A j \in 1 .. Len(s) - 1 :
           (front \o back)[j] = IF j < i THEN front[j] ELSE back[j - (i - 1)]
  <2>1. /\ front \o back \in Seq(S)
        /\ Len(front \o back) = Len(front) + Len(back)
        /\ \A j \in 1 .. Len(front) + Len(back) : (front \o back)[j] =
             IF j <= Len(front) THEN front[j] ELSE back[j - Len(front)]
    BY <1>1, ConcatProperties, Zenon
  <2>2. Len(s) \in Nat /\ Len(front) + Len(back) = Len(s) - 1
    BY <1>1
  <2> QED BY <2>1, <2>2, <1>1
<1>6. ASSUME NEW j \in 1 .. Len(s) - 1
      PROVE  RemoveAt(s, i)[j] = IF j < i THEN s[j] ELSE s[j + 1]
  <2>1. CASE j < i
    BY <2>1, <1>2, <1>4, <1>5
  <2>2. CASE i <= j
    <3>1. j - (i - 1) \in 1 .. Len(s) - i /\ i + (j - (i - 1)) = j + 1
      BY <2>2
    <3>2. back[j - (i - 1)] = s[j + 1]
      BY <3>1, <1>3
    <3> QED BY <2>2, <3>2, <1>4, <1>5
  <2> QED BY <2>1, <2>2
<1> QED BY <1>4, <1>5, <1>6

\* RemoveFirst takes one occurrence out, or nothing.
LEMMA RemoveFirstSeq ==
  ASSUME NEW S, NEW s \in Seq(S), NEW e
  PROVE  /\ RemoveFirst(s, e) \in Seq(S)
         /\ \/ /\ \A j \in 1 .. Len(s) : s[j] # e
               /\ RemoveFirst(s, e) = s
            \/ \E i \in 1 .. Len(s) : s[i] = e /\ RemoveFirst(s, e) = RemoveAt(s, i)
<1> DEFINE I == {i \in 1 .. Len(s) : s[i] = e}
<1> I \in SUBSET Nat
  OBVIOUS
<1>1. CASE I = {}
  BY <1>1 DEF RemoveFirst
<1>2. CASE I # {}
  <2>1. Min(I) \in I
    <3> HIDE DEF I
    <3> QED BY <1>2, MinInSet
  <2>2. RemoveFirst(s, e) = RemoveAt(s, Min(I))
    BY <1>2 DEF RemoveFirst, SelectInSeq
  <2>3. RemoveFirst(s, e) \in Seq(S)
    BY <2>1, <2>2, RemoveAtSeq
  <2> QED BY <2>1, <2>2, <2>3
<1> QED BY <1>1, <1>2

\* A buffered event is found by its index.
LEMMA BufferedEventIndex ==
  ASSUME EventTypeOK, NEW name
  PROVE  BufferedEvent(name) \in 0 .. Len(unprocessedEvents)
<1> DEFINE I == {i \in 1 .. Len(unprocessedEvents) :
                   CaseFold[unprocessedEvents[i].name] = CaseFold[name]}
<1>1. BufferedEvent(name) = IF I # {} THEN Min(I) ELSE 0
  BY DEF BufferedEvent, SelectInSeq
<1>2. I # {} => Min(I) \in I
  <2> I \in SUBSET Nat
    OBVIOUS
  <2> HIDE DEF I
  <2> QED BY MinInSet
<1> QED BY <1>1, <1>2 DEF EventTypeOK

-----------------------------------------------------------------------------
(* The next event, and what reading it does *)

LEMMA NextEventType ==
  ASSUME IterTypeOK, SuspendTypeOK, draining \/ HasNext
  PROVE  NextEvent \in EventRecords
<1>1. CASE draining
  BY <1>1, HeadTailProperties DEF SuspendTypeOK, NextEvent
<1>2. CASE ~draining
  <2>1. CurrentIndex \in Nat /\ CurrentList \in Seq(EventRecords)
    BY DEF IterTypeOK, CurrentIndex, CurrentList
  <2>2. CurrentIndex + 1 \in 1 .. Len(CurrentList)
    BY <1>2, <2>1, LenProperties DEF HasNext
  <2> QED BY <1>2, <2>1, <2>2, ElementOfSeq DEF NextEvent
<1> QED BY <1>1, <1>2

LEMMA ReadType ==
  ASSUME IterTypeOK, SuspendTypeOK, DeployTypeOK, NEW type, Read(type)
  PROVE  IterTypeOK' /\ DeployTypeOK' /\ NextEvent \in EventRecords
<1>1. NextEvent \in EventRecords
  BY NextEventType DEF Read
<1>2. CurrentIndex \in Nat
  BY DEF IterTypeOK, CurrentIndex
<1>3. IterTypeOK'
  <2>1. pastEvents' = pastEvents /\ newEvents' = newEvents
    BY DEF Read
  <2>2. currentHistoryIndex' \in Nat /\ isReplaying' \in BOOLEAN
    <3>1. CASE draining
      BY <3>1 DEF IterTypeOK, Read
    <3>2. CASE ~draining
      <4>1. /\ currentHistoryIndex' = CurrentIndex + 1
            /\ isReplaying' = (isReplaying /\ ~Switching)
        BY <3>2, Zenon DEF Read
      <4> QED BY <4>1, <1>2
    <3> QED BY <3>1, <3>2
  <2> QED BY <2>1, <2>2 DEF IterTypeOK
<1>4. DeployTypeOK'
  BY DEF DeployTypeOK, Read, deployVars, WellFormed
<1> QED BY <1>1, <1>3, <1>4

LEMMA HandleType ==
  ASSUME SuspendTypeOK, NEW type, Handle(type)
  PROVE  /\ isSuspended' = FALSE
         /\ eventsWhileSuspended' \in Seq(EventRecords)
         /\ draining /\ Len(eventsWhileSuspended) > 1 => eventsWhileSuspended' # <<>>
<1>1. isSuspended' = FALSE
  BY DEF Handle, SuspendTypeOK
<1>2. CASE draining
  <2>1. eventsWhileSuspended' = Tail(eventsWhileSuspended)
    BY <1>2 DEF Handle
  <2>2. eventsWhileSuspended \in Seq(EventRecords) /\ eventsWhileSuspended # <<>>
    BY <1>2 DEF SuspendTypeOK
  <2>3. /\ Tail(eventsWhileSuspended) \in Seq(EventRecords)
        /\ Len(Tail(eventsWhileSuspended)) = Len(eventsWhileSuspended) - 1
    BY <2>2, HeadTailProperties
  <2>4. Len(eventsWhileSuspended) > 1 => Tail(eventsWhileSuspended) # <<>>
    <3> DEFINE tail == Tail(eventsWhileSuspended)
               n == Len(eventsWhileSuspended)
    <3>1. Len(<<>>) = 0 /\ n \in Nat /\ Len(tail) = n - 1
      BY <2>2, <2>3
    <3> HIDE DEF tail, n
    <3>2. n > 1 => tail # <<>>
      BY <3>1
    <3> QED BY <3>2 DEF tail, n
  <2> QED BY <1>1, <2>1, <2>3, <2>4
<1>3. CASE ~draining
  BY <1>1, <1>3 DEF Handle, SuspendTypeOK
<1> QED BY <1>2, <1>3 DEF SuspendTypeOK

-----------------------------------------------------------------------------
(* How a step changes the pending actions and the open tasks *)

Part(f, g) == DOMAIN f \subseteq DOMAIN g /\ \A x \in DOMAIN f : f[x] = g[x]

\* What an event or an exception leaves of the pending actions, and the sequence number.
Remaining(actions, seq) ==
  \/ Part(actions, pendingActions) /\ seq \in {sequenceNumber, sequenceNumber + 1}
  \/ \E id \in DOMAIN pendingActions :
       Part(actions, ShiftDown(pendingActions, id)) /\ seq = sequenceNumber - 1

\* Some remain, the workflow completes, or its code adds one.
ActionsStep ==
  \/ Remaining(pendingActions', sequenceNumber') /\ isComplete' = isComplete
  \/ /\ ~isComplete /\ isComplete'
     /\ \E actions, seq :
          /\ Remaining(actions, seq)
          /\ pendingActions' = Put(actions, seq, Action("completeWorkflow", 0))
          /\ sequenceNumber' = seq + 1
  \/ /\ ~isComplete /\ isComplete' = isComplete
     /\ \E id \in {sequenceNumber, sequenceNumber + 1},
           kind \in ActionKinds \ {"completeWorkflow"} :
          /\ pendingActions' = Put(pendingActions, id, Action(kind, pc))
          /\ sequenceNumber' = id + 1

\* Some stay open, all move down with the actions, or the code opens one.
OpenStep ==
  \/ Part(openTasks', openTasks) /\ sequenceNumber' >= sequenceNumber
  \/ \E id \in DOMAIN pendingActions :
       openTasks' = ShiftDown(openTasks, id) /\ sequenceNumber' >= sequenceNumber - 1
  \/ \E id \in {sequenceNumber, sequenceNumber + 1} :
       /\ openTasks' = Put(openTasks, id, pc) /\ sequenceNumber' = id + 1
       /\ control = "user" /\ pc \in DOMAIN program /\ pc' = pc + 1

LEMMA PartRefl == ASSUME NEW f PROVE Part(f, f)
  BY DEF Part

LEMMA FailExecutionStep ==
  ASSUME TaskTypeOK, EndTypeOK, NEW actions, NEW seq, Remaining(actions, seq),
         FailExecution(actions, seq)
  PROVE  ActionsStep /\ sequenceNumber' \in {seq, seq + 1}
<1>1. CASE isComplete
  BY <1>1 DEF FailExecution, ActionsStep, endVars, Remaining, TaskTypeOK
<1>2. CASE ~isComplete
  BY <1>2 DEF FailExecution, ActionsStep, CompleteInternal
<1> QED BY <1>1, <1>2 DEF EndTypeOK

LEMMA ThrowsStep ==
  ASSUME TaskTypeOK, EndTypeOK, NEW exception, NEW actions, NEW seq, Remaining(actions, seq),
         Throws(exception, actions, seq)
  PROVE  ActionsStep /\ sequenceNumber' \in {seq, seq + 1}
<1>1. CASE control = "user"
  BY <1>1 DEF Throws, ActionsStep, endVars
<1>2. CASE control = "loop"
  BY <1>2, FailExecutionStep DEF Throws
<1> QED BY <1>1, <1>2 DEF Throws

\* A confirmation takes away at most the action it names, and an optional timer before it.
LEMMA ConfirmStep ==
  ASSUME TaskTypeOK, EndTypeOK, NEW kinds, Confirm(kinds)
  PROVE  ActionsStep /\ OpenStep
<1> DEFINE id == NextEvent.id
           drop == Superfluous(NextEvent)
           actions == IF drop THEN ShiftDown(pendingActions, id) ELSE pendingActions
           seq == IF drop THEN sequenceNumber - 1 ELSE sequenceNumber
           others == Restrict(actions, DOMAIN actions \ {id})
           found == id \in DOMAIN actions /\ actions[id].kind \in kinds
           kept == IF kinds = TimerKinds THEN others ELSE actions
<1>1. drop => id \in DOMAIN pendingActions
  BY DEF Superfluous
<1>2. Part(actions, actions) /\ Part(others, actions)
  BY DEF Part, Restrict
<1>3. ASSUME NEW f, Part(f, actions)
      PROVE  Remaining(f, seq)
  BY <1>1, <1>3 DEF Remaining
<1>4. seq \in Int /\ (drop => seq >= sequenceNumber - 1) /\ (~drop => seq = sequenceNumber)
  BY DEF TaskTypeOK
<1>5. /\ openTasks' = IF drop THEN ShiftDown(openTasks, id) ELSE openTasks
      /\ \/ found /\ pendingActions' = others /\ sequenceNumber' = seq /\ Returns
         \/ ~found /\ Throws("NonDeterministicOrchestratorException", kept, seq)
  BY DEF Confirm
<1> HIDE DEF id, drop, actions, seq, others, found, kept
<1>6. ActionsStep /\ sequenceNumber' \in {seq, seq + 1}
  <2>1. CASE found /\ pendingActions' = others /\ sequenceNumber' = seq /\ Returns
    BY <2>1, <1>2, <1>3 DEF ActionsStep, Returns, endVars
  <2>2. CASE Throws("NonDeterministicOrchestratorException", kept, seq)
    <3>1. Remaining(kept, seq)
      BY <1>2, <1>3 DEF kept
    <3> QED BY <3>1, <2>2, ThrowsStep
  <2> QED BY <2>1, <2>2, <1>5
<1>7. CASE drop
  BY <1>7, <1>1, <1>4, <1>5, <1>6 DEF OpenStep, TaskTypeOK
<1>8. CASE ~drop
  BY <1>8, <1>4, <1>5, <1>6, PartRefl DEF OpenStep, TaskTypeOK
<1> QED BY <1>6, <1>7, <1>8

\* A step that leaves the pending actions, the open tasks and the sequence number alone.
LEMMA QuietStep ==
  ASSUME TaskTypeOK, UNCHANGED taskVars, isComplete' = isComplete
  PROVE  ActionsStep /\ OpenStep
BY PartRefl DEF ActionsStep, OpenStep, Remaining, taskVars, TaskTypeOK

LEMMA CloseTaskStep ==
  ASSUME TaskTypeOK, NEW id, NEW result, CloseTask(id, result)
  PROVE  ActionsStep /\ OpenStep
<1>1. Part(openTasks', openTasks)
  BY DEF CloseTask, Part, Restrict
<1> QED BY <1>1, PartRefl
        DEF CloseTask, Returns, endVars, ActionsStep, OpenStep, Remaining, TaskTypeOK

LEMMA CodeThrowsStep ==
  ASSUME TaskTypeOK, EndTypeOK, NEW seq \in {sequenceNumber, sequenceNumber + 1},
         CodeThrows(pendingActions, seq)
  PROVE  ActionsStep /\ OpenStep
<1>1. Remaining(pendingActions, seq)
  BY PartRefl DEF Remaining
<1>2. ActionsStep /\ sequenceNumber' \in {seq, seq + 1}
  BY <1>1, FailExecutionStep DEF CodeThrows
<1>3. OpenStep
  BY <1>2, PartRefl DEF CodeThrows, OpenStep, TaskTypeOK
<1> QED BY <1>2, <1>3

\* The workflow completes with what is pending.
LEMMA CompleteStep ==
  ASSUME TaskTypeOK, ~isComplete, UNCHANGED openTasks, NEW status, NEW events,
         CompleteInternal(pendingActions, sequenceNumber, status, events)
  PROVE  ActionsStep /\ OpenStep
<1>1. Remaining(pendingActions, sequenceNumber)
  BY PartRefl DEF Remaining
<1>2. ActionsStep
  BY <1>1 DEF CompleteInternal, ActionsStep
<1>3. OpenStep
  BY PartRefl DEF CompleteInternal, OpenStep, TaskTypeOK
<1> QED BY <1>2, <1>3

LEMMA ScheduleStep ==
  ASSUME TaskTypeOK, EndTypeOK, NEW op, Code(op),
         NEW kind \in ActionKinds \ {"completeWorkflow"}, Schedule(kind)
  PROVE  ActionsStep /\ OpenStep
<1>1. /\ ~isComplete /\ isComplete' = isComplete
      /\ pendingActions' = Put(pendingActions, sequenceNumber, Action(kind, pc))
      /\ openTasks' = Put(openTasks, sequenceNumber, pc)
      /\ sequenceNumber' = sequenceNumber + 1
      /\ control = "user" /\ pc \in DOMAIN program /\ pc' = pc + 1
  BY DEF Schedule, Proceed, endVars, Code, Running
<1> QED BY <1>1 DEF ActionsStep, OpenStep

\* Every step changes the actions and the open tasks in one of these ways.
LEMMA TaskStep ==
  ASSUME TaskTypeOK, EndTypeOK, ExecutorStep
  PROVE  ActionsStep /\ OpenStep
<1>1. CASE HandleTaskScheduled \/ HandleSubOrchestrationCreated \/ HandleTimerCreated
  BY <1>1, ConfirmStep
     DEF HandleTaskScheduled, HandleSubOrchestrationCreated, HandleTimerCreated
<1>2. CASE \/ HandleTaskCompleted \/ HandleTaskFailed \/ HandleTimerFired
           \/ HandleSubOrchestrationCompleted \/ HandleSubOrchestrationFailed
  BY <1>2, CloseTaskStep
     DEF HandleTaskCompleted, HandleTaskFailed, HandleTimerFired,
         HandleSubOrchestrationCompleted, HandleSubOrchestrationFailed
<1>3. CASE HandleInfrastructureTimer \/ HandleEventRaised \/ HandleWorkflowStarted
  BY <1>3, QuietStep
     DEF HandleInfrastructureTimer, HandleEventRaised, HandleWorkflowStarted, Returns, endVars
<1>4. CASE \/ HandleExecutionStarted \/ HandleEventWhileSuspended
           \/ HandleExecutionSuspended \/ HandleExecutionResumed
  BY <1>4, QuietStep
     DEF HandleExecutionStarted, HandleEventWhileSuspended, HandleExecutionSuspended,
         HandleExecutionResumed, endVars
<1>5. CASE HandleUnknown
  <2>1. Remaining(pendingActions, sequenceNumber)
    BY PartRefl DEF Remaining
  <2>2. ActionsStep /\ sequenceNumber' \in {sequenceNumber, sequenceNumber + 1}
    BY <1>5, <2>1, ThrowsStep DEF HandleUnknown
  <2> QED BY <1>5, <2>2, PartRefl DEF HandleUnknown, OpenStep, TaskTypeOK
<1>6. CASE HandleExecutionTerminated
  <2>1. CASE ~isComplete
    BY <1>6, <2>1, CompleteStep DEF HandleExecutionTerminated
  <2>2. CASE isComplete
    <3>1. Remaining(pendingActions, sequenceNumber)
      BY PartRefl DEF Remaining
    <3>2. ActionsStep /\ sequenceNumber' \in {sequenceNumber, sequenceNumber + 1}
      BY <1>6, <2>2, <3>1, ThrowsStep DEF HandleExecutionTerminated
    <3> QED BY <1>6, <3>2, PartRefl DEF HandleExecutionTerminated, OpenStep, TaskTypeOK
  <2> QED BY <2>1, <2>2
<1>7. CASE CallActivity \/ CallSubOrchestrator \/ CreateTimer
  BY <1>7, ScheduleStep
     DEF CallActivity, CallSubOrchestrator, CreateTimer, ActionKinds, TimerKinds
<1>8. CASE SendEvent
  BY <1>8, PartRefl
     DEF SendEvent, Proceed, endVars, ActionKinds, ActionsStep, OpenStep, TaskTypeOK
<1>9. CASE WaitFindsEvent
  <2>1. CASE CodeThrows(pendingActions, sequenceNumber + 1)
    BY <2>1, CodeThrowsStep
  <2>2. CASE /\ sequenceNumber' = sequenceNumber + 1 /\ UNCHANGED isComplete
             /\ UNCHANGED <<pendingActions, openTasks>>
    BY <2>2, PartRefl DEF ActionsStep, OpenStep, Remaining, TaskTypeOK
  <2> QED BY <1>9, <2>1, <2>2 DEF WaitFindsEvent, Proceed, endVars
<1>10. CASE WaitTimesOutAtOnce
  BY <1>10, PartRefl
     DEF WaitTimesOutAtOnce, Proceed, endVars, ActionsStep, OpenStep, Remaining, TaskTypeOK
<1>11. CASE WaitForExternalEvent
  <2> DEFINE indefinite == program[pc].timeout = Indefinite
             id == sequenceNumber + 1
             kind == IF indefinite THEN "optionalTimer" ELSE "eventTimer"
  <2>1. /\ ~isComplete /\ isComplete' = isComplete
        /\ control = "user" /\ pc \in DOMAIN program /\ pc' = pc + 1
        /\ \/ /\ pendingActions' = Put(pendingActions, id, Action(kind, pc))
              /\ openTasks' = Put(openTasks, id, pc)
              /\ sequenceNumber' = sequenceNumber + 2
           \/ /\ sequenceNumber' = sequenceNumber + 1
              /\ UNCHANGED <<pendingActions, openTasks>>
    BY <1>11 DEF WaitForExternalEvent, Proceed, endVars, Code, Running
  <2>2. kind \in ActionKinds \ {"completeWorkflow"}
    BY DEF ActionKinds, TimerKinds
  <2>3. CASE /\ pendingActions' = Put(pendingActions, id, Action(kind, pc))
             /\ openTasks' = Put(openTasks, id, pc)
             /\ sequenceNumber' = sequenceNumber + 2
    <3> sequenceNumber' = id + 1
      BY <2>3 DEF TaskTypeOK
    <3> HIDE DEF kind
    <3> QED BY <2>1, <2>2, <2>3 DEF ActionsStep, OpenStep
  <2>4. CASE /\ sequenceNumber' = sequenceNumber + 1
             /\ UNCHANGED <<pendingActions, openTasks>>
    BY <2>1, <2>4, PartRefl DEF ActionsStep, OpenStep, Remaining, TaskTypeOK
  <2> QED BY <2>1, <2>3, <2>4
<1>12. CASE IsPatched
  BY <1>12, QuietStep DEF IsPatched, endVars
<1>13. CASE Await
  <2>1. CASE UNCHANGED <<pendingActions, sequenceNumber, isComplete>>
    BY <1>13, <2>1, QuietStep DEF Await, taskVars
  <2>2. CASE FailExecution(pendingActions, sequenceNumber)
    <3>1. Remaining(pendingActions, sequenceNumber)
      BY PartRefl DEF Remaining
    <3>2. ActionsStep /\ sequenceNumber' \in {sequenceNumber, sequenceNumber + 1}
      BY <2>2, <3>1, FailExecutionStep
    <3> QED BY <1>13, <3>2, PartRefl DEF Await, OpenStep, TaskTypeOK
  <2> QED BY <1>13, <2>1, <2>2 DEF Await, Proceed, endVars
<1>14. CASE Complete
  BY <1>14, CompleteStep DEF Complete
<1>15. CASE ContinueAsNew
  BY <1>15, CompleteStep DEF ContinueAsNew
<1>16. CASE CallWhenComplete
  BY <1>16, CodeThrowsStep DEF CallWhenComplete
<1>17. CASE Return \/ Yield
  BY <1>17, QuietStep DEF Return, Yield, endVars
<1>18. CASE EndOfHistory
  <2>1. CASE /\ ~isComplete /\ UNCHANGED openTasks
             /\ CompleteInternal(pendingActions, sequenceNumber, "COMPLETED", {})
    BY <2>1, CompleteStep
  <2>2. CASE UNCHANGED <<pendingActions, sequenceNumber, openTasks, endVars>>
    BY <2>2, QuietStep DEF taskVars, endVars
  <2> QED BY <1>18, <2>1, <2>2 DEF EndOfHistory
<1> QED BY <1>1, <1>2, <1>3, <1>4, <1>5, <1>6, <1>7, <1>8, <1>9, <1>10, <1>11, <1>12, <1>13,
           <1>14, <1>15, <1>16, <1>17, <1>18
        DEF ExecutorStep, HandleEvent, CodeStep

-----------------------------------------------------------------------------
(* What follows for the tasks of the executor *)

\* Actions that remain are typed and fresh, and one of them at most is the completion.
LEMMA RemainingGood ==
  ASSUME TaskTypeOK, IdsAreFresh, OneCompletion, NEW actions, NEW seq, Remaining(actions, seq)
  PROVE  /\ DOMAIN actions \subseteq Int /\ seq \in Int
         /\ \A id \in DOMAIN actions :
              /\ id < seq
              /\ actions[id] \in Actions
              /\ \E j \in DOMAIN pendingActions : actions[id] = pendingActions[j]
         /\ \A i, j \in DOMAIN actions :
              actions[i].kind = "completeWorkflow" /\ actions[j].kind = "completeWorkflow"
              => i = j
<1>1. CASE Part(actions, pendingActions) /\ seq \in {sequenceNumber, sequenceNumber + 1}
  BY <1>1 DEF Part, TaskTypeOK, IdsAreFresh, OneCompletion, Completions
<1>2. CASE \E id \in DOMAIN pendingActions :
             Part(actions, ShiftDown(pendingActions, id)) /\ seq = sequenceNumber - 1
  <2>1. PICK id \in DOMAIN pendingActions :
               Part(actions, ShiftDown(pendingActions, id)) /\ seq = sequenceNumber - 1
    BY <1>2
  <2>2. ASSUME NEW i \in DOMAIN actions
        PROVE  /\ i \in Int /\ i < seq
               /\ \/ i < id /\ i \in DOMAIN pendingActions /\ actions[i] = pendingActions[i]
                  \/ /\ i >= id /\ i + 1 \in DOMAIN pendingActions
                     /\ actions[i] = pendingActions[i + 1]
    <3> DEFINE below == {j \in DOMAIN pendingActions : j < id}
               above == {k \in DOMAIN pendingActions : k > id}
    <3>1. /\ DOMAIN pendingActions \subseteq Int /\ sequenceNumber \in Int
          /\ \A k \in DOMAIN pendingActions : k < sequenceNumber
      BY DEF TaskTypeOK, IdsAreFresh
    <3>2. /\ i \in below \union {j - 1 : j \in above}
          /\ actions[i] = IF i < id THEN pendingActions[i] ELSE pendingActions[i + 1]
      BY <2>1, <2>2 DEF Part, ShiftDown
    <3>3. CASE i \in below
      BY <3>1, <3>2, <3>3, <2>1
    <3>4. CASE i \in {j - 1 : j \in above}
      <4>1. PICK k \in above : i = k - 1
        BY <3>4
      <4>2. i \in Int /\ i >= id /\ i + 1 = k /\ i < seq
        BY <4>1, <3>1, <2>1
      <4> QED BY <4>1, <4>2, <3>1, <3>2, <2>1
    <3> QED BY <3>2, <3>3, <3>4
  <2>3. \A i \in DOMAIN actions : /\ actions[i] \in Actions
                                 /\ \E j \in DOMAIN pendingActions :
                                      actions[i] = pendingActions[j]
    BY <2>2 DEF TaskTypeOK
  <2>4. ASSUME NEW i \in DOMAIN actions, NEW j \in DOMAIN actions,
               actions[i].kind = "completeWorkflow", actions[j].kind = "completeWorkflow"
        PROVE  i = j
    <3>1. PICK k \in {i, i + 1} : k \in Completions /\ (k = i <=> i < id)
      BY <2>1, <2>2, <2>4 DEF Completions, TaskTypeOK
    <3>2. PICK l \in {j, j + 1} : l \in Completions /\ (l = j <=> j < id)
      BY <2>1, <2>2, <2>4 DEF Completions, TaskTypeOK
    <3>3. k = l
      BY <3>1, <3>2 DEF OneCompletion
    <3> QED BY <2>1, <2>2, <3>1, <3>2, <3>3 DEF TaskTypeOK
  <2> QED BY <2>1, <2>2, <2>3, <2>4 DEF TaskTypeOK
<1> QED BY <1>1, <1>2 DEF Remaining

\* A step keeps the ids fresh and the completion single.
LEMMA TasksKept ==
  ASSUME ExecutorTypeOK, IdsAreFresh, OneCompletion, ExecutorStep
  PROVE  TaskTypeOK' /\ IdsAreFresh' /\ OneCompletion'
<1> USE DEF ExecutorTypeOK
<1>1. ActionsStep /\ OpenStep
  BY TaskStep
<1>2. pc \in Nat /\ DOMAIN program \subseteq Slots
  BY DEF CodeTypeOK, DeployTypeOK
<1>3. /\ DOMAIN pendingActions' \subseteq Int /\ sequenceNumber' \in Int
      /\ \A id \in DOMAIN pendingActions' :
           id < sequenceNumber' /\ pendingActions'[id] \in Actions
      /\ OneCompletion'
  <2>1. CASE Remaining(pendingActions', sequenceNumber') /\ isComplete' = isComplete
    BY <2>1, RemainingGood DEF OneCompletion, Completions
  <2>2. CASE /\ ~isComplete /\ isComplete'
             /\ \E actions, seq :
                  /\ Remaining(actions, seq)
                  /\ pendingActions' = Put(actions, seq, Action("completeWorkflow", 0))
                  /\ sequenceNumber' = seq + 1
    <3>1. PICK actions, seq :
            /\ Remaining(actions, seq)
            /\ pendingActions' = Put(actions, seq, Action("completeWorkflow", 0))
            /\ sequenceNumber' = seq + 1
      BY <2>2
    <3>2. /\ DOMAIN actions \subseteq Int /\ seq \in Int
          /\ \A id \in DOMAIN actions :
               id < seq /\ actions[id] \in Actions /\ actions[id].kind # "completeWorkflow"
      BY <2>2, <3>1, RemainingGood DEF OneCompletion, Completions
    <3>3. Action("completeWorkflow", 0) \in Actions
      BY DEF Action, Actions, ActionKinds
    <3>4. /\ DOMAIN pendingActions' = DOMAIN actions \union {seq}
          /\ pendingActions'[seq] = Action("completeWorkflow", 0)
          /\ \A id \in DOMAIN actions : pendingActions'[id] = actions[id]
      <4>1. \A id \in DOMAIN actions : id # seq
        BY <3>2
      <4>2. /\ DOMAIN Put(actions, seq, Action("completeWorkflow", 0)) = DOMAIN actions \union {seq}
            /\ Put(actions, seq, Action("completeWorkflow", 0))[seq] = Action("completeWorkflow", 0)
            /\ \A i \in DOMAIN actions : Put(actions, seq, Action("completeWorkflow", 0))[i] = actions[i]
        BY <4>1 DEF Put
      <4> QED BY <3>1, <4>2
    <3>5. OneCompletion'
      BY <2>2, <3>2, <3>4 DEF OneCompletion, Completions, Action
    <3> QED BY <3>1, <3>2, <3>3, <3>4, <3>5
  <2>3. CASE /\ ~isComplete /\ isComplete' = isComplete
             /\ \E id \in {sequenceNumber, sequenceNumber + 1},
                   kind \in ActionKinds \ {"completeWorkflow"} :
                  /\ pendingActions' = Put(pendingActions, id, Action(kind, pc))
                  /\ sequenceNumber' = id + 1
    <3>1. PICK id \in {sequenceNumber, sequenceNumber + 1},
               kind \in ActionKinds \ {"completeWorkflow"} :
            /\ pendingActions' = Put(pendingActions, id, Action(kind, pc))
            /\ sequenceNumber' = id + 1
      BY <2>3
    <3>2. Action(kind, pc) \in Actions /\ Action(kind, pc).kind # "completeWorkflow"
      BY <1>2 DEF Action, Actions
    <3>3. /\ DOMAIN pendingActions' = DOMAIN pendingActions \union {id}
          /\ pendingActions'[id] = Action(kind, pc)
          /\ \A i \in DOMAIN pendingActions : pendingActions'[i] = pendingActions[i]
      <4>1. \A i \in DOMAIN pendingActions : i # id
        BY DEF TaskTypeOK, IdsAreFresh
      <4>2. /\ DOMAIN Put(pendingActions, id, Action(kind, pc)) = DOMAIN pendingActions \union {id}
            /\ Put(pendingActions, id, Action(kind, pc))[id] = Action(kind, pc)
            /\ \A i \in DOMAIN pendingActions : Put(pendingActions, id, Action(kind, pc))[i] = pendingActions[i]
        BY <4>1 DEF Put
      <4> QED BY <3>1, <4>2
    <3>4. Completions' = Completions
      BY <3>2, <3>3 DEF Completions
    <3>5. OneCompletion'
      BY <2>3, <3>4 DEF OneCompletion
    <3>6. /\ DOMAIN pendingActions' \subseteq Int /\ sequenceNumber' \in Int
          /\ \A i \in DOMAIN pendingActions' : i < sequenceNumber'
      BY <3>1, <3>3 DEF TaskTypeOK, IdsAreFresh
    <3> QED BY <3>2, <3>3, <3>5, <3>6 DEF TaskTypeOK
  <2> QED BY <1>1, <2>1, <2>2, <2>3 DEF ActionsStep
<1>4. /\ DOMAIN openTasks' \subseteq Int
      /\ \A id \in DOMAIN openTasks' : id < sequenceNumber' /\ openTasks'[id] \in Slots
  <2>1. CASE Part(openTasks', openTasks) /\ sequenceNumber' >= sequenceNumber
    BY <2>1, <1>3 DEF Part, TaskTypeOK, IdsAreFresh
  <2>2. CASE \E id \in DOMAIN pendingActions :
               openTasks' = ShiftDown(openTasks, id) /\ sequenceNumber' >= sequenceNumber - 1
    BY <2>2, <1>3 DEF ShiftDown, TaskTypeOK, IdsAreFresh
  <2>3. CASE \E id \in {sequenceNumber, sequenceNumber + 1} :
               /\ openTasks' = Put(openTasks, id, pc) /\ sequenceNumber' = id + 1
               /\ control = "user" /\ pc \in DOMAIN program /\ pc' = pc + 1
    <3>1. PICK id \in {sequenceNumber, sequenceNumber + 1} :
            /\ openTasks' = Put(openTasks, id, pc) /\ sequenceNumber' = id + 1
            /\ pc \in DOMAIN program
      BY <2>3
    <3>2. /\ DOMAIN openTasks' = DOMAIN openTasks \union {id}
          /\ openTasks'[id] = pc
          /\ \A i \in DOMAIN openTasks : openTasks'[i] = openTasks[i]
      <4>1. \A i \in DOMAIN openTasks : i # id
        BY DEF TaskTypeOK, IdsAreFresh
      <4>2. /\ DOMAIN Put(openTasks, id, pc) = DOMAIN openTasks \union {id}
            /\ Put(openTasks, id, pc)[id] = pc
            /\ \A i \in DOMAIN openTasks : Put(openTasks, id, pc)[i] = openTasks[i]
        BY <4>1 DEF Put
      <4> QED BY <3>1, <4>2
    <3> QED BY <3>1, <3>2, <1>2 DEF TaskTypeOK, IdsAreFresh
  <2> QED BY <1>1, <2>1, <2>2, <2>3 DEF OpenStep
<1> QED BY <1>3, <1>4 DEF TaskTypeOK, IdsAreFresh

\* A complete workflow's actions only become fewer.
LEMMA NothingAdded ==
  ASSUME ExecutorTypeOK, IdsAreFresh, OneCompletion, ExecutorStep, isComplete, isComplete'
  PROVE  \A i \in DOMAIN pendingActions' :
           \E j \in DOMAIN pendingActions : pendingActions'[i] = pendingActions[j]
<1>1. Remaining(pendingActions', sequenceNumber')
  BY TaskStep DEF ActionsStep, ExecutorTypeOK
<1> QED BY <1>1, RemainingGood DEF ExecutorTypeOK

-----------------------------------------------------------------------------
(* Types *)

\* The handler of any event reads it first.
LEMMA EventIsRead ==
  ASSUME HandleEvent
  PROVE  \E type \in EventTypes : Read(type)
BY DEF HandleEvent, Handle, EventTypes, HandleTaskScheduled, HandleTaskCompleted,
       HandleTaskFailed, HandleTimerCreated, HandleInfrastructureTimer, HandleTimerFired,
       HandleSubOrchestrationCreated, HandleSubOrchestrationCompleted,
       HandleSubOrchestrationFailed, HandleEventRaised, HandleUnknown, HandleWorkflowStarted,
       HandleExecutionStarted, HandleEventWhileSuspended, HandleExecutionSuspended,
       HandleExecutionResumed, HandleExecutionTerminated

\* The code and the end of execute read nothing.
LEMMA NothingIsRead ==
  ASSUME CodeStep \/ Yield \/ EndOfHistory
  PROVE  UNCHANGED <<deployVars, iterVars, suspendVars, thrown>>
BY DEF CodeStep, Code, CallActivity, CallSubOrchestrator, CreateTimer, SendEvent,
       WaitFindsEvent, WaitTimesOutAtOnce, WaitForExternalEvent, IsPatched, Await, Complete,
       ContinueAsNew, CallWhenComplete, Return, Yield, EndOfHistory

LEMMA DeployIterKept ==
  ASSUME DeployTypeOK, IterTypeOK, SuspendTypeOK, ExecutorStep
  PROVE  DeployTypeOK' /\ IterTypeOK'
<1>1. CASE HandleEvent
  BY <1>1, EventIsRead, ReadType
<1>2. CASE CodeStep \/ Yield \/ EndOfHistory
  BY <1>2, NothingIsRead DEF DeployTypeOK, IterTypeOK, deployVars, iterVars, WellFormed
<1> QED BY <1>1, <1>2 DEF ExecutorStep

Controls == {"idle", "loop", "user", "done", "crash"}

LEMMA FailExecutionType ==
  ASSUME EndTypeOK, NEW actions, NEW seq, FailExecution(actions, seq)
  PROVE  EndTypeOK' /\ control' \in Controls
BY DEF FailExecution, CompleteInternal, EndTypeOK, endVars, Statuses, Controls

LEMMA ThrowsType ==
  ASSUME EndTypeOK, CodeTypeOK, NEW actions, NEW seq,
         NEW exception \in {"NonDeterministicOrchestratorException", "IllegalStateException"},
         Throws(exception, actions, seq)
  PROVE  /\ EndTypeOK' /\ control' \in Controls
         /\ thrown' \subseteq {"NonDeterministicOrchestratorException", "IllegalStateException"}
         /\ draining' = FALSE
<1>1. CASE control = "user"
  BY <1>1 DEF Throws, EndTypeOK, CodeTypeOK, endVars, Controls
<1>2. CASE control = "loop"
  BY <1>2, FailExecutionType DEF Throws, CodeTypeOK
<1> QED BY <1>1, <1>2 DEF Throws

\* A handler that returns.
LEMMA ReturnsType ==
  ASSUME SuspendTypeOK, EndTypeOK, CodeTypeOK, NEW type, Handle(type), Returns
  PROVE  SuspendTypeOK' /\ EndTypeOK' /\ control' \in Controls
<1>1. SuspendTypeOK'
  BY HandleType DEF Returns, SuspendTypeOK
<1> QED BY <1>1 DEF Returns, EndTypeOK, CodeTypeOK, endVars, Controls

\* A handler that returns or throws.
LEMMA HandlerType ==
  ASSUME SuspendTypeOK, EndTypeOK, CodeTypeOK, NEW type, Handle(type),
         \/ Returns /\ UNCHANGED thrown
         \/ \E exception \in {"NonDeterministicOrchestratorException", "IllegalStateException"} :
               \E actions, seq : Throws(exception, actions, seq)
  PROVE  /\ SuspendTypeOK' /\ EndTypeOK' /\ control' \in Controls
         /\ thrown' \subseteq {"NonDeterministicOrchestratorException", "IllegalStateException"}
<1>1. CASE Returns /\ UNCHANGED thrown
  BY <1>1, ReturnsType DEF CodeTypeOK
<1>2. CASE \E exception \in {"NonDeterministicOrchestratorException", "IllegalStateException"} :
              \E actions, seq : Throws(exception, actions, seq)
  BY <1>2, HandleType, ThrowsType DEF SuspendTypeOK
<1> QED BY <1>1, <1>2

\* How the handlers and the code leave the queue of deferred events and the completion.
LEMMA SuspendEndKept ==
  ASSUME ExecutorTypeOK, ExecutorStep
  PROVE  /\ SuspendTypeOK' /\ EndTypeOK' /\ control' \in Controls
         /\ thrown' \subseteq {"NonDeterministicOrchestratorException", "IllegalStateException"}
<1> SUFFICES ASSUME SuspendTypeOK, EndTypeOK, CodeTypeOK, IterTypeOK, EventTypeOK, ExecutorStep
             PROVE  /\ SuspendTypeOK' /\ EndTypeOK' /\ control' \in Controls
                    /\ thrown' \subseteq
                         {"NonDeterministicOrchestratorException", "IllegalStateException"}
  BY DEF ExecutorTypeOK
<1>1. CASE HandleTaskScheduled \/ HandleSubOrchestrationCreated \/ HandleTimerCreated
           \/ HandleUnknown
  BY <1>1, HandlerType
     DEF HandleTaskScheduled, HandleSubOrchestrationCreated, HandleTimerCreated, HandleUnknown,
         Confirm
<1>2. CASE \/ HandleTaskCompleted \/ HandleTaskFailed \/ HandleTimerFired
           \/ HandleSubOrchestrationCompleted \/ HandleSubOrchestrationFailed
  BY <1>2, HandlerType
     DEF HandleTaskCompleted, HandleTaskFailed, HandleTimerFired,
         HandleSubOrchestrationCompleted, HandleSubOrchestrationFailed, CloseTask
<1>3. CASE HandleInfrastructureTimer \/ HandleEventRaised \/ HandleWorkflowStarted
  BY <1>3, HandlerType
     DEF HandleInfrastructureTimer, HandleEventRaised, HandleWorkflowStarted
<1>4. CASE HandleExecutionStarted
  BY <1>4, HandleType
     DEF HandleExecutionStarted, SuspendTypeOK, EndTypeOK, CodeTypeOK, endVars, Controls
<1>5. CASE HandleEventWhileSuspended
  <2>1. NextEvent \in EventRecords
    BY <1>5, NextEventType DEF HandleEventWhileSuspended, Read
  <2>2. /\ Append(eventsWhileSuspended, NextEvent) \in Seq(EventRecords)
        /\ Append(eventsWhileSuspended, NextEvent) # <<>>
    BY <2>1, AppendProperties DEF SuspendTypeOK
  <2>3. eventsWhileSuspended' \in {eventsWhileSuspended, Append(eventsWhileSuspended, NextEvent)}
    BY <1>5 DEF HandleEventWhileSuspended
  <2> QED BY <1>5, <2>2, <2>3
          DEF HandleEventWhileSuspended, SuspendTypeOK, EndTypeOK, CodeTypeOK, endVars, Controls
<1>6. CASE HandleExecutionSuspended \/ HandleExecutionResumed
  <2>1. SuspendTypeOK'
    <3>1. CASE HandleExecutionSuspended
      BY <3>1 DEF HandleExecutionSuspended, SuspendTypeOK
    <3>2. CASE HandleExecutionResumed
      BY <3>2, Zenon DEF HandleExecutionResumed, SuspendTypeOK
    <3> QED BY <1>6, <3>1, <3>2
  <2> QED BY <1>6, <2>1 DEF HandleExecutionSuspended, HandleExecutionResumed, EndTypeOK,
                            CodeTypeOK, endVars, Controls
<1>7. CASE HandleExecutionTerminated
  <2>1. UNCHANGED <<isSuspended, eventsWhileSuspended>>
    BY <1>7 DEF HandleExecutionTerminated
  <2>2. CASE /\ CompleteInternal(pendingActions, sequenceNumber, "TERMINATED", {})
             /\ UNCHANGED <<draining, control, thrown>>
    BY <2>1, <2>2
       DEF CompleteInternal, SuspendTypeOK, EndTypeOK, CodeTypeOK, Statuses, Controls
  <2>3. CASE Throws("IllegalStateException", pendingActions, sequenceNumber)
    BY <2>1, <2>3, ThrowsType DEF SuspendTypeOK
  <2> QED BY <1>7, <2>2, <2>3 DEF HandleExecutionTerminated
<1>8. CASE CodeStep \/ Yield \/ EndOfHistory
  <2>1. UNCHANGED <<suspendVars, thrown>>
    BY <1>8, NothingIsRead
  <2>2. SuspendTypeOK' /\ thrown' \subseteq
          {"NonDeterministicOrchestratorException", "IllegalStateException"}
    BY <2>1 DEF SuspendTypeOK, CodeTypeOK, suspendVars
  <2>3. CASE \/ UNCHANGED <<control, endVars>>
             \/ control' \in Controls /\ UNCHANGED endVars
    BY <2>2, <2>3 DEF EndTypeOK, CodeTypeOK, endVars, Controls
  <2>4. CASE \E actions, seq : FailExecution(actions, seq)
    BY <2>2, <2>4, FailExecutionType
  <2>5. CASE /\ \E actions, seq :
                  CompleteInternal(actions, seq, "COMPLETED", {})
             /\ control' \in {control, "done"}
    BY <2>2, <2>5 DEF CompleteInternal, EndTypeOK, CodeTypeOK, Statuses, Controls
  <2>6. CASE ContinueAsNew
    <3>1. Carryover \subseteq EventRecords
      <4>1. ToSet(unprocessedEvents) \subseteq EventRecords
        BY DEF EventTypeOK, ToSet
      <4>2. \A i \in DOMAIN newEvents : newEvents[i] \in EventRecords
        BY DEF IterTypeOK
      <4> QED BY <4>1, <4>2 DEF Carryover
    <3>2. /\ isComplete' = TRUE /\ completion' = "CONTINUED_AS_NEW" /\ control' = "done"
          /\ carryoverEvents' = IF program[pc].preserve THEN Carryover ELSE {}
      BY <2>6 DEF ContinueAsNew, CompleteInternal
    <3> QED BY <2>2, <3>1, <3>2 DEF EndTypeOK, Statuses, Controls
  <2>7. CASE \/ CallActivity \/ CallSubOrchestrator \/ CreateTimer \/ SendEvent \/ IsPatched
             \/ WaitTimesOutAtOnce \/ WaitForExternalEvent \/ Return \/ Yield
    BY <2>3, <2>7
       DEF CallActivity, CallSubOrchestrator, CreateTimer, SendEvent, Schedule, IsPatched,
           WaitTimesOutAtOnce, WaitForExternalEvent, Proceed, Return, Yield, Controls
  <2>8. CASE WaitFindsEvent \/ Await \/ CallWhenComplete
    BY <2>3, <2>4, <2>8 DEF WaitFindsEvent, Await, CallWhenComplete, CodeThrows, Proceed
  <2>9. CASE Complete \/ EndOfHistory
    BY <2>3, <2>5, <2>9 DEF Complete, EndOfHistory, Controls
  <2> QED BY <1>8, <2>6, <2>7, <2>8, <2>9 DEF CodeStep
<1> QED BY <1>1, <1>2, <1>3, <1>4, <1>5, <1>6, <1>7, <1>8 DEF ExecutorStep, HandleEvent

LEMMA PatchKept ==
  ASSUME ExecutorTypeOK, ExecutorStep
  PROVE  PatchTypeOK'
<1> SUFFICES ASSUME PatchTypeOK, IterTypeOK, ExecutorStep
             PROVE  PatchTypeOK'
  BY DEF ExecutorTypeOK
<1>1. CASE UNCHANGED patchVars
  BY <1>1 DEF PatchTypeOK, patchVars
<1>2. CASE HandleWorkflowStarted
  BY <1>2 DEF HandleWorkflowStarted, PatchTypeOK
<1>3. CASE IsPatched
  <2>1. CheckPatch \in {"yes", "no"}
    BY DEF CheckPatch, PatchTypeOK
  <2> QED BY <1>3, <2>1 DEF IsPatched, PatchTypeOK, patchVars
<1>4. CASE HandleEvent /\ ~HandleWorkflowStarted
  BY <1>1, <1>4
     DEF HandleEvent, HandleTaskScheduled, HandleTaskCompleted, HandleTaskFailed,
         HandleTimerCreated, HandleInfrastructureTimer, HandleTimerFired,
         HandleSubOrchestrationCreated, HandleSubOrchestrationCompleted,
         HandleSubOrchestrationFailed, HandleEventRaised, HandleUnknown,
         HandleExecutionStarted, HandleEventWhileSuspended, HandleExecutionSuspended,
         HandleExecutionResumed, HandleExecutionTerminated, Confirm, CloseTask
<1>5. CASE CodeStep /\ ~IsPatched
  BY <1>1, <1>5
     DEF CodeStep, CallActivity, CallSubOrchestrator, CreateTimer, SendEvent, Schedule,
         WaitFindsEvent, WaitTimesOutAtOnce, WaitForExternalEvent, Await, Complete,
         ContinueAsNew, CallWhenComplete, CodeThrows, Return
<1>6. CASE Yield \/ EndOfHistory
  BY <1>1, <1>6 DEF Yield, EndOfHistory
<1> QED BY <1>2, <1>3, <1>4, <1>5, <1>6 DEF ExecutorStep

LEMMA EventKept ==
  ASSUME ExecutorTypeOK, ExecutorStep
  PROVE  EventTypeOK'
<1> SUFFICES ASSUME EventTypeOK, IterTypeOK, SuspendTypeOK, DeployTypeOK, ExecutorStep
             PROVE  EventTypeOK'
  BY DEF ExecutorTypeOK
<1>1. CASE UNCHANGED eventVars
  BY <1>1 DEF EventTypeOK, eventVars
<1>2. ASSUME NEW id, NEW result, CloseTask(id, result)
      PROVE  EventTypeOK'
  <2>1. CASE UNCHANGED outstandingEvents
    BY <1>2, <2>1 DEF CloseTask, EventTypeOK
  <2>2. ASSUME NEW name, NEW slot,
               outstandingEvents' =
                 [outstandingEvents EXCEPT ![name] = RemoveFirst(@, slot)]
        PROVE  EventTypeOK'
    <3>1. name \in EventNames => RemoveFirst(outstandingEvents[name], slot) \in Seq(Slots)
      BY RemoveFirstSeq DEF EventTypeOK
    <3> QED BY <1>2, <2>2, <3>1 DEF CloseTask, EventTypeOK
  <2> QED BY <1>2, <2>1, <2>2 DEF CloseTask
<1>3. CASE HandleEventRaised
  <2>1. NextEvent \in EventRecords
    BY <1>3, NextEventType DEF HandleEventRaised, Handle, Read
  <2> DEFINE name == NextEvent.name
             waiters == outstandingEvents[name]
  <2>2. name \in EventNames /\ waiters \in Seq(Slots)
    BY <1>3, <2>1 DEF HandleEventRaised, Handle, Read, EventRecords, EventTypeOK
  <2>3. \/ /\ unprocessedEvents' = Append(unprocessedEvents, NextEvent)
           /\ UNCHANGED outstandingEvents
        \/ /\ waiters # <<>>
           /\ outstandingEvents' = [outstandingEvents EXCEPT ![name] = Tail(waiters)]
           /\ UNCHANGED unprocessedEvents
    BY <1>3 DEF HandleEventRaised
  <2> HIDE DEF name, waiters
  <2>4. waiters # <<>> => Tail(waiters) \in Seq(Slots)
    BY <2>2, HeadTailProperties
  <2>5. Append(unprocessedEvents, NextEvent) \in Seq(EventRecords)
    BY <2>1, AppendProperties DEF EventTypeOK
  <2>6. CASE /\ unprocessedEvents' = Append(unprocessedEvents, NextEvent)
             /\ UNCHANGED outstandingEvents
    BY <2>5, <2>6 DEF EventTypeOK
  <2>7. CASE /\ waiters # <<>>
             /\ outstandingEvents' = [outstandingEvents EXCEPT ![name] = Tail(waiters)]
             /\ UNCHANGED unprocessedEvents
    BY <2>2, <2>4, <2>7 DEF EventTypeOK
  <2> QED BY <2>3, <2>6, <2>7
<1>4. CASE WaitFindsEvent
  <2> DEFINE i == BufferedEvent(program[pc].name)
  <2>1. CASE UNCHANGED eventVars
    BY <2>1, <1>1
  <2>2. CASE /\ i # 0 /\ unprocessedEvents' = RemoveAt(unprocessedEvents, i)
             /\ UNCHANGED outstandingEvents
    <3>1. i \in 1 .. Len(unprocessedEvents)
      BY <2>2, BufferedEventIndex DEF EventTypeOK
    <3> HIDE DEF i
    <3> QED BY <2>2, <3>1, RemoveAtSeq DEF EventTypeOK
  <2> QED BY <1>4, <2>1, <2>2 DEF WaitFindsEvent, CodeThrows
<1>5. CASE WaitForExternalEvent
  <2>1. pc \in Slots
    BY <1>5 DEF WaitForExternalEvent, Code, Running, DeployTypeOK
  <2>2. \A n \in EventNames : Append(outstandingEvents[n], pc) \in Seq(Slots)
    BY <2>1, AppendProperties DEF EventTypeOK
  <2> QED BY <1>5, <2>2 DEF WaitForExternalEvent, EventTypeOK
<1>6. CASE \/ HandleTaskCompleted \/ HandleTaskFailed \/ HandleTimerFired
           \/ HandleSubOrchestrationCompleted \/ HandleSubOrchestrationFailed
  BY <1>2, <1>6
     DEF HandleTaskCompleted, HandleTaskFailed, HandleTimerFired,
         HandleSubOrchestrationCompleted, HandleSubOrchestrationFailed
<1>7. CASE \/ HandleTaskScheduled \/ HandleSubOrchestrationCreated \/ HandleTimerCreated
           \/ HandleInfrastructureTimer \/ HandleUnknown \/ HandleWorkflowStarted
           \/ HandleExecutionStarted \/ HandleEventWhileSuspended \/ HandleExecutionSuspended
           \/ HandleExecutionResumed \/ HandleExecutionTerminated
  BY <1>1, <1>7
     DEF HandleTaskScheduled, HandleSubOrchestrationCreated, HandleTimerCreated, Confirm,
         HandleInfrastructureTimer, HandleUnknown, HandleWorkflowStarted,
         HandleExecutionStarted, HandleEventWhileSuspended, HandleExecutionSuspended,
         HandleExecutionResumed, HandleExecutionTerminated
<1>8. CASE \/ CallActivity \/ CallSubOrchestrator \/ CreateTimer \/ SendEvent
           \/ WaitTimesOutAtOnce \/ IsPatched \/ Await \/ Complete \/ ContinueAsNew
           \/ CallWhenComplete \/ Return \/ Yield \/ EndOfHistory
  BY <1>1, <1>8
     DEF CallActivity, CallSubOrchestrator, CreateTimer, SendEvent, Schedule,
         WaitTimesOutAtOnce, IsPatched, Await, Complete, ContinueAsNew, CallWhenComplete,
         CodeThrows, Return, Yield, EndOfHistory
<1> QED BY <1>3, <1>4, <1>5, <1>6, <1>7, <1>8 DEF ExecutorStep, HandleEvent, CodeStep

LEMMA PcKept ==
  ASSUME CodeTypeOK, DeployTypeOK, ExecutorStep
  PROVE  pc' \in Nat
<1>1. CASE pc' = pc \/ pc' = pc + 1
  BY <1>1 DEF CodeTypeOK
<1>2. CASE IsPatched
  <2>1. pc \in DOMAIN program /\ program[pc].op = "isPatched"
    BY <1>2 DEF IsPatched, Code, Running
  <2>2. program[pc].skip \in Nat
    BY <2>1 DEF DeployTypeOK, WellFormed
  <2>3. pc' = pc + 1 \/ pc' = pc + 1 + program[pc].skip
    BY <1>2 DEF IsPatched
  <2> QED BY <2>2, <2>3 DEF CodeTypeOK
<1>3. CASE HandleEvent
  BY <1>1, <1>3, EventIsRead DEF Read
<1>4. CASE (CodeStep /\ ~IsPatched) \/ Yield \/ EndOfHistory
  BY <1>1, <1>4
     DEF CodeStep, CallActivity, CallSubOrchestrator, CreateTimer, SendEvent, Schedule,
         WaitFindsEvent, WaitTimesOutAtOnce, WaitForExternalEvent, Await, Complete,
         ContinueAsNew, CallWhenComplete, CodeThrows, Proceed, Return, Yield, EndOfHistory,
         codeVars
<1> QED BY <1>2, <1>3, <1>4 DEF ExecutorStep

LEMMA OutcomeKept ==
  ASSUME ExecutorTypeOK, ExecutorStep
  PROVE  outcome' \in [Slots -> Outcomes]
<1> SUFFICES ASSUME CodeTypeOK, DeployTypeOK, IterTypeOK, SuspendTypeOK, EventTypeOK, ExecutorStep
             PROVE  outcome' \in [Slots -> Outcomes]
  BY DEF ExecutorTypeOK
<1>1. \A slot : \A result \in Outcomes :
        [outcome EXCEPT ![slot] = result] \in [Slots -> Outcomes]
  BY DEF CodeTypeOK
<1>2. Canceled \in Outcomes /\ Failed \in Outcomes
      /\ \A val \in Nat : Result(val) \in Outcomes /\ Deserialize(val) \in Outcomes
  BY DEF Canceled, Failed, Result, Deserialize, Outcomes
<1>3. \A e \in EventRecords : e.val \in Nat
  BY DEF EventRecords
<1>4. CASE UNCHANGED outcome
  BY <1>4 DEF CodeTypeOK
<1>5. ASSUME NEW id, NEW result \in Outcomes, CloseTask(id, result)
      PROVE  outcome' \in [Slots -> Outcomes]
  BY <1>1, <1>2, <1>4, <1>5 DEF CloseTask
<1>6. CASE HandleEvent
  <2>1. NextEvent \in EventRecords
    BY <1>6, EventIsRead, NextEventType DEF Read
  <2>2. Deserialize(NextEvent.val) \in Outcomes /\ Result(0) \in Outcomes /\ Failed \in Outcomes
    BY <2>1, <1>2, <1>3
  <2>3. CASE \/ HandleTaskCompleted \/ HandleTaskFailed \/ HandleTimerFired
             \/ HandleSubOrchestrationCompleted \/ HandleSubOrchestrationFailed
    BY <1>5, <2>2, <2>3
       DEF HandleTaskCompleted, HandleTaskFailed, HandleTimerFired,
           HandleSubOrchestrationCompleted, HandleSubOrchestrationFailed
  <2>4. CASE HandleEventRaised
    <3>1. \/ UNCHANGED outcome
          \/ \E slot : outcome' = [outcome EXCEPT ![slot] = Deserialize(NextEvent.val)]
      BY <2>4, Zenon DEF HandleEventRaised
    <3> QED BY <1>1, <1>4, <2>2, <3>1
  <2>5. CASE \/ HandleTaskScheduled \/ HandleSubOrchestrationCreated \/ HandleTimerCreated
             \/ HandleInfrastructureTimer \/ HandleUnknown \/ HandleWorkflowStarted
             \/ HandleExecutionStarted \/ HandleEventWhileSuspended \/ HandleExecutionSuspended
             \/ HandleExecutionResumed \/ HandleExecutionTerminated
    BY <1>4, <2>5
       DEF HandleTaskScheduled, HandleSubOrchestrationCreated, HandleTimerCreated, Confirm,
           HandleInfrastructureTimer, HandleUnknown, HandleWorkflowStarted,
           HandleExecutionStarted, HandleEventWhileSuspended, HandleExecutionSuspended,
           HandleExecutionResumed, HandleExecutionTerminated
  <2> QED BY <1>6, <2>3, <2>4, <2>5 DEF HandleEvent
<1>7. CASE WaitFindsEvent
  <2> DEFINE i == BufferedEvent(program[pc].name)
  <2>1. CASE UNCHANGED outcome
    BY <2>1, <1>4
  <2>2. CASE /\ i # 0
             /\ outcome' = [outcome EXCEPT ![pc] = Result(unprocessedEvents[i].val)]
    <3>1. i \in 1 .. Len(unprocessedEvents)
      BY <2>2, BufferedEventIndex DEF EventTypeOK
    <3> HIDE DEF i
    <3>2. unprocessedEvents[i] \in EventRecords
      BY <3>1 DEF EventTypeOK
    <3> QED BY <2>2, <3>2, <1>1, <1>2, <1>3
  <2> QED BY <1>7, <2>1, <2>2 DEF WaitFindsEvent, CodeThrows, codeVars
<1>8. CASE WaitTimesOutAtOnce
  BY <1>1, <1>2, <1>8 DEF WaitTimesOutAtOnce
<1>9. CASE \/ CallActivity \/ CallSubOrchestrator \/ CreateTimer \/ SendEvent
            \/ WaitForExternalEvent \/ IsPatched \/ Await \/ Complete \/ ContinueAsNew
            \/ CallWhenComplete \/ Return \/ Yield \/ EndOfHistory
  BY <1>4, <1>9
     DEF CallActivity, CallSubOrchestrator, CreateTimer, SendEvent, Schedule,
         WaitForExternalEvent, IsPatched, Await, Complete, ContinueAsNew, CallWhenComplete,
         CodeThrows, Return, Yield, EndOfHistory, codeVars
<1> QED BY <1>6, <1>7, <1>8, <1>9 DEF ExecutorStep, CodeStep

LEMMA CodeKept ==
  ASSUME ExecutorTypeOK, ExecutorStep
  PROVE  CodeTypeOK'
BY SuspendEndKept, PcKept, OutcomeKept DEF ExecutorTypeOK, CodeTypeOK, Controls

\* Every step of the executor keeps its type invariant, its ids fresh and the completion single.
LEMMA ExecutorKept ==
  ASSUME ExecutorTypeOK, IdsAreFresh, OneCompletion, ExecutorStep
  PROVE  ExecutorTypeOK' /\ IdsAreFresh' /\ OneCompletion'
<1>1. DeployTypeOK' /\ IterTypeOK'
  BY DeployIterKept DEF ExecutorTypeOK
<1> QED BY <1>1, TasksKept, SuspendEndKept, PatchKept, EventKept, CodeKept DEF ExecutorTypeOK

\* A new context is as it should be.
LEMMA NewContextGood ==
  ASSUME NEW past \in Seq(EventRecords), NEW new \in Seq(EventRecords), NewContext(past, new),
         control' \in {"idle", "loop"}, DeployTypeOK'
  PROVE  ExecutorTypeOK' /\ IdsAreFresh' /\ OneCompletion'
<1>1. DOMAIN NoTasks = {}
  BY DEF NoTasks
<1>2. Pending \in Outcomes
  BY DEF Pending, Outcomes
<1>3. <<>> \in Seq(EventRecords) /\ <<>> \in Seq(Slots)
  OBVIOUS
<1>4. IterTypeOK' /\ SuspendTypeOK' /\ TaskTypeOK' /\ PatchTypeOK' /\ EndTypeOK'
  <2>1. IterTypeOK' /\ SuspendTypeOK'
    BY <1>3 DEF NewContext, IterTypeOK, SuspendTypeOK
  <2>2. TaskTypeOK'
    BY <1>1 DEF NewContext, TaskTypeOK
  <2>3. PatchTypeOK' /\ EndTypeOK'
    BY DEF NewContext, PatchTypeOK, EndTypeOK
  <2> QED BY <2>1, <2>2, <2>3
<1>5. EventTypeOK' /\ CodeTypeOK'
  BY <1>2, <1>3 DEF NewContext, EventTypeOK, CodeTypeOK
<1>6. IdsAreFresh' /\ OneCompletion'
  BY <1>1 DEF NewContext, IdsAreFresh, OneCompletion, Completions
<1> QED BY <1>4, <1>5, <1>6 DEF ExecutorTypeOK

LEMMA NoContextGood ==
  ASSUME NEW emits \in BOOLEAN, NEW patched \in BOOLEAN, NoContext(emits, patched),
         program \in Programs
  PROVE  ExecutorTypeOK /\ IdsAreFresh /\ OneCompletion
<1>1. DOMAIN NoTasks = {}
  BY DEF NoTasks
<1>2. Pending \in Outcomes
  BY DEF Pending, Outcomes
<1>3. <<>> \in Seq(EventRecords) /\ <<>> \in Seq(Slots)
  OBVIOUS
<1>4. DeployTypeOK
  BY ProgramsAssumption DEF NoContext, DeployTypeOK, Slots
<1>5. IterTypeOK /\ SuspendTypeOK /\ TaskTypeOK /\ PatchTypeOK /\ EndTypeOK
  <2>1. IterTypeOK /\ SuspendTypeOK
    BY <1>3 DEF NoContext, IterTypeOK, SuspendTypeOK
  <2>2. TaskTypeOK
    BY <1>1 DEF NoContext, TaskTypeOK
  <2>3. PatchTypeOK /\ EndTypeOK
    BY DEF NoContext, PatchTypeOK, EndTypeOK
  <2> QED BY <2>1, <2>2, <2>3
<1>6. EventTypeOK /\ CodeTypeOK
  BY <1>2, <1>3 DEF NoContext, EventTypeOK, CodeTypeOK
<1>7. IdsAreFresh /\ OneCompletion
  BY <1>1 DEF NoContext, IdsAreFresh, OneCompletion, Completions
<1> QED BY <1>4, <1>5, <1>6, <1>7 DEF ExecutorTypeOK

-----------------------------------------------------------------------------
(* Waiting, and suspension *)

\* Who is waited for is named by an instruction the code has passed; a queue of waiters
\* holds waits of its name only, so that no wait is in two queues.
WaitInv ==
  /\ NobodyWaitsForTheDone
  /\ \A s \in Slots : Done(s) => s < pc
  /\ \A id \in DOMAIN openTasks : openTasks[id] < pc
  /\ \A n \in EventNames : \A i \in DOMAIN outstandingEvents[n] :
       LET s == outstandingEvents[n][i] IN s < pc /\ IsWait(s) /\ program[s].name = n

NeverDeferred == {"ExecutionSuspended", "ExecutionResumed", "ExecutionTerminated"}

\* The code of a suspended workflow is blocked in an await, and no request to suspend is
\* deferred: only thus can an event of the drained queue not suspend a code that may go on.
\* A workflow that is not suspended has deferred events only while it drains them, and it
\* stops draining early only by an exception.
FrozenInv ==
  /\ isSuspended /\ control = "user" => Running("await") /\ ~AwaitOver
  /\ \A i \in DOMAIN eventsWhileSuspended :
       eventsWhileSuspended[i].type \notin NeverDeferred
  /\ draining => ~isSuspended /\ control \in {"loop", "user"}
  /\ ~isSuspended /\ thrown = {} => draining \/ eventsWhileSuspended = <<>>

-----------------------------------------------------------------------------
(* Suspension *)

\* A suspended workflow moves by events that are deferred, a termination, or not at all.
LEMMA SuspendedStep ==
  ASSUME FrozenInv, isSuspended, ExecutorStep
  PROVE  /\ isSuspended' => UNCHANGED <<pc, outcome, openTasks, outstandingEvents>>
         /\ control' = "user" => control = "user"
         /\ UNCHANGED program
<1>1. CASE HandleEvent
  <2>1. \/ HandleEventWhileSuspended \/ HandleExecutionResumed \/ HandleExecutionTerminated
    BY <1>1
       DEF HandleEvent, Handle, HandleTaskScheduled, HandleTaskCompleted, HandleTaskFailed,
           HandleTimerCreated, HandleInfrastructureTimer, HandleTimerFired,
           HandleSubOrchestrationCreated, HandleSubOrchestrationCompleted,
           HandleSubOrchestrationFailed, HandleEventRaised, HandleUnknown,
           HandleWorkflowStarted, HandleExecutionStarted, HandleExecutionSuspended
  <2> QED BY <2>1
          DEF HandleEventWhileSuspended, HandleExecutionResumed, HandleExecutionTerminated,
              Throws, FailExecution, Read, taskVars, eventVars, deployVars
<1>2. CASE CodeStep
  <2>1. control = "user" /\ Running("await") /\ ~AwaitOver
    BY <1>2
       DEF FrozenInv, CodeStep, CallActivity, CallSubOrchestrator, CreateTimer, SendEvent,
           WaitFindsEvent, WaitTimesOutAtOnce, WaitForExternalEvent, IsPatched, Await, Complete,
           ContinueAsNew, CallWhenComplete, Return, Code, Running
  <2> QED BY <1>2, <2>1
          DEF CodeStep, CallActivity, CallSubOrchestrator, CreateTimer, SendEvent,
              WaitFindsEvent, WaitTimesOutAtOnce, WaitForExternalEvent, IsPatched, Await,
              Complete, ContinueAsNew, CallWhenComplete, Return, Code, Running
<1>3. CASE Yield \/ EndOfHistory
  BY <1>3 DEF Yield, EndOfHistory, codeVars, taskVars, eventVars, deployVars
<1> QED BY <1>1, <1>2, <1>3 DEF ExecutorStep

\* Only a request to suspend suspends, and it never comes from the queue that is drained.
LEMMA SuspendStep ==
  ASSUME SuspendTypeOK, FrozenInv, ~isSuspended, isSuspended', ExecutorStep
  PROVE  control' = "user" => Running("await")' /\ ~AwaitOver'
<1>1. HandleExecutionSuspended
  <2>1. HandleEvent
    BY NothingIsRead DEF ExecutorStep, suspendVars
  <2> QED BY <2>1
          DEF HandleEvent, Handle, HandleTaskScheduled, HandleTaskCompleted, HandleTaskFailed,
              HandleTimerCreated, HandleInfrastructureTimer, HandleTimerFired,
              HandleSubOrchestrationCreated, HandleSubOrchestrationCompleted,
              HandleSubOrchestrationFailed, HandleEventRaised, HandleUnknown,
              HandleWorkflowStarted, HandleExecutionStarted, HandleEventWhileSuspended,
              HandleExecutionResumed, HandleExecutionTerminated
<1>2. ~draining
  <2> SUFFICES ASSUME draining PROVE FALSE
    OBVIOUS
  <2>1. eventsWhileSuspended \in Seq(EventRecords) /\ eventsWhileSuspended # <<>>
    BY DEF SuspendTypeOK
  <2>2. 1 \in DOMAIN eventsWhileSuspended /\ Head(eventsWhileSuspended) = eventsWhileSuspended[1]
    BY <2>1, HeadTailProperties
  <2>3. Head(eventsWhileSuspended).type = "ExecutionSuspended"
    BY <1>1 DEF HandleExecutionSuspended, Read, NextEvent
  <2> QED BY <2>2, <2>3 DEF FrozenInv, NeverDeferred
<1>3. /\ UNCHANGED <<control, pc, program, outcome>>
      /\ control = "user" => Running("await") /\ ~AwaitOver
  BY <1>1, <1>2 DEF HandleExecutionSuspended, Read, Pumping, deployVars, Running
<1>4. Running("await")' = Running("await") /\ AwaitOver' = AwaitOver
  BY <1>3 DEF Running, AwaitOver, Done
<1> QED BY <1>3, <1>4

LEMMA DeferredKept ==
  ASSUME ExecutorTypeOK, FrozenInv, ExecutorStep
  PROVE  \A i \in DOMAIN eventsWhileSuspended' :
           eventsWhileSuspended'[i].type \notin NeverDeferred
<1> DEFINE Deferrable(q) == \A i \in DOMAIN q : q[i].type \notin NeverDeferred
<1>1. Deferrable(eventsWhileSuspended) /\ eventsWhileSuspended \in Seq(EventRecords)
  BY DEF FrozenInv, ExecutorTypeOK, SuspendTypeOK
<1>2. CASE UNCHANGED eventsWhileSuspended
  BY <1>1, <1>2
<1>3. CASE draining /\ eventsWhileSuspended' = Tail(eventsWhileSuspended)
  <2>1. eventsWhileSuspended # <<>>
    BY <1>3 DEF ExecutorTypeOK, SuspendTypeOK
  <2>2. /\ Len(Tail(eventsWhileSuspended)) = Len(eventsWhileSuspended) - 1
        /\ Tail(eventsWhileSuspended) \in Seq(EventRecords)
        /\ \A i \in 1 .. Len(Tail(eventsWhileSuspended)) :
             Tail(eventsWhileSuspended)[i] = eventsWhileSuspended[i + 1]
    BY <1>1, <2>1, HeadTailProperties
  <2> QED BY <1>1, <1>3, <2>2
<1>4. CASE /\ eventsWhileSuspended' = Append(eventsWhileSuspended, NextEvent)
           /\ NextEvent.type \notin NeverDeferred /\ NextEvent \in EventRecords
  BY <1>1, <1>4, AppendProperties
<1>5. CASE HandleEventWhileSuspended
  <2>1. NextEvent \in EventRecords
    BY <1>5, NextEventType DEF HandleEventWhileSuspended, Read, ExecutorTypeOK
  <2> QED BY <1>2, <1>4, <1>5, <2>1
          DEF HandleEventWhileSuspended, Read, OverrideSuspension, NeverDeferred
<1>6. CASE HandleEvent /\ ~HandleEventWhileSuspended
  BY <1>2, <1>3, <1>6
     DEF HandleEvent, Handle, HandleTaskScheduled, HandleTaskCompleted, HandleTaskFailed,
         HandleTimerCreated, HandleInfrastructureTimer, HandleTimerFired,
         HandleSubOrchestrationCreated, HandleSubOrchestrationCompleted,
         HandleSubOrchestrationFailed, HandleEventRaised, HandleUnknown,
         HandleWorkflowStarted, HandleExecutionStarted, HandleExecutionSuspended,
         HandleExecutionResumed, HandleExecutionTerminated
<1>7. CASE CodeStep \/ Yield \/ EndOfHistory
  BY <1>2, <1>7, NothingIsRead DEF suspendVars
<1> QED BY <1>5, <1>6, <1>7 DEF ExecutorStep

\* What is read from the drained queue can be deferred.
LEMMA DrainedEvent ==
  ASSUME SuspendTypeOK, FrozenInv, draining
  PROVE  NextEvent.type \notin NeverDeferred
<1>1. eventsWhileSuspended \in Seq(EventRecords) /\ eventsWhileSuspended # <<>>
  BY DEF SuspendTypeOK
<1>2. 1 \in DOMAIN eventsWhileSuspended /\ Head(eventsWhileSuspended) = eventsWhileSuspended[1]
  BY <1>1, HeadTailProperties
<1> QED BY <1>2 DEF FrozenInv, NextEvent

\* The end of the drain: its queue is empty or an exception has been thrown.
LEMMA DrainKept ==
  ASSUME ExecutorTypeOK, FrozenInv, ExecutorStep
  PROVE  /\ draining' => ~isSuspended' /\ control' \in {"loop", "user"}
         /\ ~isSuspended' /\ thrown' = {} => draining' \/ eventsWhileSuspended' = <<>>
<1>1. /\ draining => ~isSuspended /\ control \in {"loop", "user"}
      /\ ~isSuspended /\ thrown = {} => draining \/ eventsWhileSuspended = <<>>
      /\ draining \in BOOLEAN /\ isSuspended \in BOOLEAN
      /\ draining => NextEvent.type \notin NeverDeferred
  BY DrainedEvent DEF FrozenInv, ExecutorTypeOK, SuspendTypeOK
\* The handlers of events that can be deferred.
<1>2. ASSUME NEW type, Handle(type), Returns, UNCHANGED thrown
      PROVE  /\ draining' => ~isSuspended' /\ control' \in {"loop", "user"}
             /\ ~isSuspended' /\ thrown' = {} => draining' \/ eventsWhileSuspended' = <<>>
  <2>1. CASE draining
    <3>1. /\ eventsWhileSuspended \in Seq(EventRecords) /\ eventsWhileSuspended # <<>>
          /\ eventsWhileSuspended' = Tail(eventsWhileSuspended)
          /\ draining' = (Len(eventsWhileSuspended) > 1)
      BY <1>2, <2>1 DEF Handle, Returns, ExecutorTypeOK, SuspendTypeOK
    <3>2. /\ Len(eventsWhileSuspended) \in Nat /\ Len(eventsWhileSuspended) # 0
          /\ eventsWhileSuspended' \in Seq(EventRecords)
          /\ Len(eventsWhileSuspended') = Len(eventsWhileSuspended) - 1
      BY <3>1, HeadTailProperties, EmptySeq
    <3>3. Len(eventsWhileSuspended') = 0 => eventsWhileSuspended' = <<>>
      BY <3>2, EmptySeq
    <3>4. Len(eventsWhileSuspended) > 1 \/ Len(eventsWhileSuspended) = 1
      BY <3>2
    <3>5. Len(eventsWhileSuspended) = 1 => Len(eventsWhileSuspended') = 0
      BY <3>2
    <3>6. draining' \/ eventsWhileSuspended' = <<>>
      BY <3>1, <3>3, <3>4, <3>5
    <3> QED BY <1>1, <1>2, <2>1, <3>6 DEF Handle, Returns
  <2>2. CASE ~draining
    BY <1>1, <1>2, <2>2 DEF Handle, Returns
  <2> QED BY <2>1, <2>2
<1>3. ASSUME NEW exception, NEW actions, NEW seq, Throws(exception, actions, seq)
      PROVE  ~draining' /\ thrown' # {}
  BY <1>3 DEF Throws
<1>4. CASE \/ HandleTaskScheduled \/ HandleSubOrchestrationCreated \/ HandleTimerCreated
           \/ HandleUnknown
  BY <1>2, <1>3, <1>4
     DEF HandleTaskScheduled, HandleSubOrchestrationCreated, HandleTimerCreated, HandleUnknown,
         Confirm
<1>5. CASE \/ HandleTaskCompleted \/ HandleTaskFailed \/ HandleTimerFired
           \/ HandleSubOrchestrationCompleted \/ HandleSubOrchestrationFailed
           \/ HandleEventRaised \/ HandleInfrastructureTimer \/ HandleWorkflowStarted
  BY <1>2, <1>5
     DEF HandleTaskCompleted, HandleTaskFailed, HandleTimerFired,
         HandleSubOrchestrationCompleted, HandleSubOrchestrationFailed, CloseTask,
         HandleEventRaised, HandleInfrastructureTimer, HandleWorkflowStarted
<1>6. CASE HandleExecutionStarted \/ HandleEventWhileSuspended \/ HandleExecutionSuspended
  BY <1>1, <1>6
     DEF HandleExecutionStarted, Handle, HandleEventWhileSuspended, HandleExecutionSuspended,
         Read, NeverDeferred
<1>7. CASE HandleExecutionResumed
  BY <1>1, <1>7 DEF HandleExecutionResumed, Read, Pumping, Running, NeverDeferred
<1>8. CASE HandleExecutionTerminated
  BY <1>1, <1>3, <1>8 DEF HandleExecutionTerminated, Read, NeverDeferred
<1>9. CASE Return
  BY <1>1, <1>9 DEF Return, suspendVars
<1>10. CASE (CodeStep /\ ~Return) \/ Yield \/ EndOfHistory
  <2>1. ~draining
    BY <1>1, <1>10
       DEF CodeStep, Code, CallActivity, CallSubOrchestrator, CreateTimer, SendEvent,
           WaitFindsEvent, WaitTimesOutAtOnce, WaitForExternalEvent, IsPatched, Await, Complete,
           ContinueAsNew, CallWhenComplete, Return, Yield, EndOfHistory
  <2> QED BY <1>1, <1>10, <2>1, NothingIsRead DEF suspendVars
<1> QED BY <1>4, <1>5, <1>6, <1>7, <1>8, <1>9, <1>10 DEF ExecutorStep, HandleEvent

LEMMA FrozenKept ==
  ASSUME ExecutorTypeOK, FrozenInv, ExecutorStep
  PROVE  FrozenInv'
<1>1. ASSUME isSuspended, isSuspended', control' = "user"
      PROVE  Running("await")' /\ ~AwaitOver'
  <2>1. Running("await") /\ ~AwaitOver /\ UNCHANGED <<program, pc, outcome, control>>
    BY <1>1, SuspendedStep DEF FrozenInv
  <2> QED BY <2>1 DEF Running, AwaitOver, Done
<1>2. ASSUME ~isSuspended, isSuspended', control' = "user"
      PROVE  Running("await")' /\ ~AwaitOver'
  BY <1>2, SuspendStep DEF ExecutorTypeOK
<1> QED BY <1>1, <1>2, DeferredKept, DrainKept DEF FrozenInv

-----------------------------------------------------------------------------
(* How a step changes who is waited for *)

\* Nothing completes; the code may have gone on, and may have made a task.
NothingCompletes ==
  UNCHANGED <<outcome, outstandingEvents>> /\ OpenStep /\ (pc' = pc \/ pc' > pc)

\* A completion closes one open task: an activity, a child or a timer of the code is done,
\* a wait is cancelled unless it is done or the completion is not one of a timer.
TaskCloses ==
  \E id \in DOMAIN openTasks :
    LET slot == openTasks[id]
    IN /\ openTasks' = Restrict(openTasks, DOMAIN openTasks \ {id})
       /\ UNCHANGED pc
       /\ \/ /\ ~IsWait(slot)
             /\ \E result : outcome' = [outcome EXCEPT ![slot] = result]
             /\ UNCHANGED outstandingEvents
          \/ /\ IsWait(slot) /\ ~Done(slot)
             /\ outcome' = [outcome EXCEPT ![slot] = Canceled]
             /\ outstandingEvents' =
                  [outstandingEvents EXCEPT ![program[slot].name] = RemoveFirst(@, slot)]
          \/ UNCHANGED <<outcome, outstandingEvents>>

\* An event completes the first of its waiters.
EventCompletes ==
  /\ UNCHANGED <<openTasks, pc>>
  /\ \E n \in EventNames : \E result :
       /\ outstandingEvents[n] # <<>>
       /\ outstandingEvents' = [outstandingEvents EXCEPT ![n] = Tail(@)]
       /\ outcome' = [outcome EXCEPT ![Head(outstandingEvents[n])] = result]

\* A wait is over when it is made.
WaitCompletes ==
  /\ pc \in Slots /\ pc' = pc + 1
  /\ UNCHANGED <<openTasks, outstandingEvents>>
  /\ \E result : outcome' = [outcome EXCEPT ![pc] = result]

\* A wait is made and queued.
WaitQueues ==
  /\ pc \in Slots /\ IsWait(pc) /\ OpenStep /\ pc' = pc + 1
  /\ outstandingEvents' = [outstandingEvents EXCEPT ![program[pc].name] = Append(@, pc)]
  /\ UNCHANGED outcome

LEMMA CloseTaskWaits ==
  ASSUME NEW id, NEW result, CloseTask(id, result), pc' = pc, OpenStep
  PROVE  NothingCompletes \/ TaskCloses
BY DEF CloseTask, NothingCompletes, TaskCloses

LEMMA WaitStep ==
  ASSUME ExecutorTypeOK, ExecutorStep
  PROVE  /\ UNCHANGED program
         /\ \/ NothingCompletes \/ TaskCloses \/ EventCompletes
            \/ WaitCompletes \/ WaitQueues
<1>1. OpenStep /\ pc \in Nat /\ DOMAIN program \subseteq Slots
  BY TaskStep DEF ExecutorTypeOK, CodeTypeOK, DeployTypeOK
<1>2. UNCHANGED program
  BY EventIsRead, NothingIsRead DEF ExecutorStep, Read, deployVars
<1>3. CASE HandleEvent
  <2>1. pc' = pc
    BY <1>3, EventIsRead DEF Read
  <2>2. CASE \/ HandleTaskCompleted \/ HandleTaskFailed \/ HandleTimerFired
             \/ HandleSubOrchestrationCompleted \/ HandleSubOrchestrationFailed
    BY <1>1, <1>2, <2>1, <2>2, CloseTaskWaits
       DEF HandleTaskCompleted, HandleTaskFailed, HandleTimerFired,
           HandleSubOrchestrationCompleted, HandleSubOrchestrationFailed
  <2>3. CASE HandleEventRaised
    <3>1. NextEvent \in EventRecords /\ NextEvent.type = "EventRaised"
      BY <2>3, NextEventType DEF HandleEventRaised, Handle, Read, ExecutorTypeOK
    <3>2. NextEvent.name \in EventNames
      BY <3>1 DEF EventRecords
    <3>3. \/ UNCHANGED <<outstandingEvents, outcome>>
          \/ EventCompletes
      BY <2>1, <2>3, <3>2 DEF HandleEventRaised, EventCompletes, taskVars
    <3> QED BY <1>1, <1>2, <2>1, <3>3 DEF NothingCompletes
  <2>4. CASE \/ HandleTaskScheduled \/ HandleSubOrchestrationCreated \/ HandleTimerCreated
             \/ HandleInfrastructureTimer \/ HandleUnknown \/ HandleWorkflowStarted
             \/ HandleExecutionStarted \/ HandleEventWhileSuspended
             \/ HandleExecutionSuspended \/ HandleExecutionResumed
             \/ HandleExecutionTerminated
    BY <1>1, <1>2, <2>1, <2>4
       DEF NothingCompletes, HandleTaskScheduled, HandleSubOrchestrationCreated,
           HandleTimerCreated, Confirm, HandleInfrastructureTimer, HandleUnknown,
           HandleWorkflowStarted, HandleExecutionStarted, HandleEventWhileSuspended,
           HandleExecutionSuspended, HandleExecutionResumed, HandleExecutionTerminated,
           eventVars
  <2> QED BY <1>3, <2>2, <2>3, <2>4 DEF HandleEvent
<1>4. CASE WaitFindsEvent \/ WaitTimesOutAtOnce
  BY <1>1, <1>2, <1>4
     DEF WaitFindsEvent, WaitTimesOutAtOnce, WaitCompletes, NothingCompletes, CodeThrows,
         Proceed, Code, Running, codeVars, eventVars
<1>5. CASE WaitForExternalEvent
  BY <1>1, <1>2, <1>5 DEF WaitForExternalEvent, WaitQueues, Proceed, Code, Running, IsWait
<1>6. CASE IsPatched
  <2>1. pc \in DOMAIN program /\ program[pc].op = "isPatched"
    BY <1>6 DEF IsPatched, Code, Running
  <2>2. program[pc].skip \in Nat
    BY <2>1 DEF ExecutorTypeOK, DeployTypeOK, WellFormed
  <2>3. pc' > pc
    BY <1>1, <1>6, <2>2 DEF IsPatched
  <2> QED BY <1>1, <1>2, <1>6, <2>3 DEF IsPatched, NothingCompletes, eventVars
<1>7. CASE \/ CallActivity \/ CallSubOrchestrator \/ CreateTimer \/ SendEvent \/ Await
           \/ Complete \/ ContinueAsNew \/ CallWhenComplete \/ Return \/ Yield \/ EndOfHistory
  <2>1. UNCHANGED <<outcome, outstandingEvents>> /\ pc' \in {pc, pc + 1}
    BY <1>7
       DEF CallActivity, CallSubOrchestrator, CreateTimer, SendEvent, Schedule, Await,
           Complete, ContinueAsNew, CallWhenComplete, CodeThrows, Proceed, Return, Yield,
           EndOfHistory, eventVars, codeVars
  <2> QED BY <1>1, <1>2, <2>1 DEF NothingCompletes
<1> QED BY <1>3, <1>4, <1>5, <1>6, <1>7 DEF ExecutorStep, CodeStep

-----------------------------------------------------------------------------
(* What follows for who is waited for *)

LEMMA SlotsNat == Slots \subseteq Nat
BY ProgramsAssumption DEF Slots, WellFormed

\* The tasks that are open after a step were open before, or the code has just made them.
LEMMA OpenKept ==
  ASSUME ExecutorTypeOK, WaitInv, OpenStep
  PROVE  /\ \A i \in DOMAIN openTasks' :
              \/ \E j \in DOMAIN openTasks : openTasks'[i] = openTasks[j]
              \/ openTasks'[i] = pc /\ pc' = pc + 1 /\ pc \in Slots
         /\ \A i, j \in DOMAIN openTasks' : openTasks'[i] = openTasks'[j] => i = j
<1>1. /\ DOMAIN openTasks \subseteq Int
      /\ DOMAIN pendingActions \subseteq Int
      /\ \A i \in DOMAIN openTasks : openTasks[i] \in Nat /\ openTasks[i] < pc
      /\ \A i, j \in DOMAIN openTasks : openTasks[i] = openTasks[j] => i = j
      /\ pc \in Nat
  BY SlotsNat DEF ExecutorTypeOK, TaskTypeOK, CodeTypeOK, WaitInv, NobodyWaitsForTheDone
<1>2. CASE Part(openTasks', openTasks)
  BY <1>1, <1>2 DEF Part
<1>3. ASSUME NEW id \in DOMAIN pendingActions, openTasks' = ShiftDown(openTasks, id)
      PROVE  /\ \A i \in DOMAIN openTasks' : \E j \in DOMAIN openTasks :
                  openTasks'[i] = openTasks[j] /\ i = (IF j < id THEN j ELSE j - 1) /\ j # id
             /\ \A i, j \in DOMAIN openTasks' : openTasks'[i] = openTasks'[j] => i = j
  <2>1. ASSUME NEW i \in DOMAIN openTasks'
        PROVE  \E j \in DOMAIN openTasks :
                 openTasks'[i] = openTasks[j] /\ i = (IF j < id THEN j ELSE j - 1) /\ j # id
    <3> DEFINE below == {j \in DOMAIN openTasks : j < id}
               above == {k \in DOMAIN openTasks : k > id}
    <3>1. /\ i \in below \union {j - 1 : j \in above}
          /\ openTasks'[i] = IF i < id THEN openTasks[i] ELSE openTasks[i + 1]
      BY <1>3, <2>1 DEF ShiftDown
    <3>2. CASE i \in below
      BY <1>1, <3>1, <3>2
    <3>3. CASE i \in {j - 1 : j \in above}
      <4>1. PICK k \in above : i = k - 1
        BY <3>3
      <4>2. i >= id /\ i + 1 = k /\ k # id /\ ~(k < id)
        BY <1>1, <4>1
      <4> QED BY <1>1, <3>1, <4>1, <4>2
    <3> QED BY <3>1, <3>2, <3>3
  <2> QED BY <1>1, <2>1
<1>4. CASE \E id \in {sequenceNumber, sequenceNumber + 1} :
             /\ openTasks' = Put(openTasks, id, pc)
             /\ pc' = pc + 1 /\ pc \in DOMAIN program
  BY <1>1, <1>4 DEF Put, ExecutorTypeOK, DeployTypeOK
<1> QED BY <1>2, <1>3, <1>4 DEF OpenStep

\* A queue of waiters, of one name.
Waiting(q, n) ==
  /\ \A i \in DOMAIN q : ~Done(q[i]) /\ q[i] < pc /\ IsWait(q[i]) /\ program[q[i]].name = n
  /\ \A i, j \in DOMAIN q : q[i] = q[j] => i = j

\* Slots that were done keep their outcome, and one slot at most becomes done.
Completes(slot) ==
  /\ ~Done(slot)
  /\ \A s \in Slots : s # slot => outcome'[s] = outcome[s]

\* The same of a queue, a task and a slot after a step.
WaitingNext(q, n) ==
  /\ \A i \in DOMAIN q : /\ outcome'[q[i]].kind = "pending" /\ q[i] < pc'
                         /\ program[q[i]].op = "waitForExternalEvent"
                         /\ program[q[i]].name = n
  /\ \A i, j \in DOMAIN q : q[i] = q[j] => i = j
OpenNext ==
  /\ \A id \in DOMAIN openTasks' :
       /\ program[openTasks'[id]].op # "waitForExternalEvent" =>
            outcome'[openTasks'[id]].kind = "pending"
       /\ openTasks'[id] < pc'
  /\ \A i, j \in DOMAIN openTasks' : openTasks'[i] = openTasks'[j] => i = j
DoneNext == \A s \in Slots : outcome'[s].kind # "pending" => s < pc'
OutcomesStay == \A s \in Slots : Done(s) => outcome'[s] = outcome[s]

LEMMA WaitInvNext ==
  ASSUME UNCHANGED program, OpenNext, DoneNext,
         \A n \in EventNames : WaitingNext(outstandingEvents'[n], n)
  PROVE  WaitInv'
BY DEF WaitInv, NobodyWaitsForTheDone, OpenNext, DoneNext, WaitingNext, Done, IsWait

\* What is left of a queue waits on when its members are not the slot that completes.
LEMMA StillWaiting ==
  ASSUME ExecutorTypeOK, pc' \in {pc, pc + 1}, NEW slot, Completes(slot),
         NEW n, NEW q \in Seq(Slots), NEW r \in Seq(Slots), Waiting(q, n),
         \A i \in DOMAIN r : \E j \in DOMAIN q : r[i] = q[j] /\ q[j] # slot,
         \A i, j \in DOMAIN r : r[i] = r[j] => i = j
  PROVE  WaitingNext(r, n)
<1>1. ASSUME NEW i \in DOMAIN r
      PROVE  /\ outcome'[r[i]].kind = "pending" /\ r[i] < pc'
             /\ program[r[i]].op = "waitForExternalEvent" /\ program[r[i]].name = n
  <2>1. PICK j \in DOMAIN q : r[i] = q[j] /\ q[j] # slot
    OBVIOUS
  <2>2. q[j] \in Slots /\ ~Done(q[j]) /\ q[j] < pc /\ IsWait(q[j]) /\ program[q[j]].name = n
    BY DEF Waiting
  <2>3. pc \in Nat /\ q[j] \in Nat
    BY <2>2, SlotsNat DEF ExecutorTypeOK, CodeTypeOK
  <2> QED BY <2>1, <2>2, <2>3 DEF Completes, Done, IsWait
<1> QED BY <1>1 DEF WaitingNext

\* One member of a queue is taken out, and what follows it moves down.
Without(r, q, k) ==
  \A i \in DOMAIN r : \E j \in DOMAIN q :
    r[i] = q[j] /\ j # k /\ i = (IF j < k THEN j ELSE j - 1)

LEMMA TailWithout ==
  ASSUME NEW S, NEW q \in Seq(S), q # <<>>
  PROVE  /\ Tail(q) \in Seq(S) /\ Without(Tail(q), q, 1)
         /\ Head(q) = q[1] /\ 1 \in DOMAIN q
<1>1. /\ Len(q) \in Nat /\ DOMAIN q = 1 .. Len(q)
      /\ Tail(q) \in Seq(S) /\ Len(Tail(q)) = Len(q) - 1
      /\ \A i \in 1 .. Len(Tail(q)) : Tail(q)[i] = q[i + 1]
      /\ Head(q) = q[1] /\ 1 \in DOMAIN q
  BY HeadTailProperties
<1>2. DOMAIN Tail(q) = 1 .. Len(Tail(q))
  BY <1>1
<1>3. ASSUME NEW i \in DOMAIN Tail(q)
      PROVE  /\ i + 1 \in DOMAIN q /\ Tail(q)[i] = q[i + 1] /\ i + 1 # 1
             /\ i = (IF i + 1 < 1 THEN i + 1 ELSE (i + 1) - 1)
  BY <1>1, <1>2, <1>3
<1> QED BY <1>1, <1>3 DEF Without

LEMMA RemoveAtWithout ==
  ASSUME NEW S, NEW q \in Seq(S), NEW k \in 1 .. Len(q)
  PROVE  RemoveAt(q, k) \in Seq(S) /\ Without(RemoveAt(q, k), q, k)
<1> DEFINE r == RemoveAt(q, k)
<1>1. /\ r \in Seq(S) /\ Len(r) = Len(q) - 1
      /\ \A j \in 1 .. Len(q) - 1 : r[j] = IF j < k THEN q[j] ELSE q[j + 1]
  BY RemoveAtSeq
<1> HIDE DEF r
<1>2. Len(q) \in Nat /\ DOMAIN q = 1 .. Len(q) /\ DOMAIN r = 1 .. Len(q) - 1
  BY <1>1
<1>3. ASSUME NEW i \in DOMAIN r
      PROVE  \E j \in DOMAIN q :
               r[i] = q[j] /\ j # k /\ i = (IF j < k THEN j ELSE j - 1)
  <2>1. CASE i < k
    BY <1>1, <1>2, <2>1
  <2>2. CASE ~(i < k)
    <3>1. i + 1 \in DOMAIN q /\ ~(i + 1 < k) /\ i + 1 # k /\ i = (i + 1) - 1
      BY <1>2, <2>2
    <3> QED BY <1>1, <1>2, <2>2, <3>1
  <2> QED BY <2>1, <2>2
<1> QED BY <1>1, <1>3 DEF Without, r

LEMMA WaitingWithout ==
  ASSUME ExecutorTypeOK, pc' \in {pc, pc + 1}, NEW n, NEW q \in Seq(Slots), Waiting(q, n),
         NEW k \in DOMAIN q, Completes(q[k]), NEW r \in Seq(Slots), Without(r, q, k)
  PROVE  WaitingNext(r, n)
<1>1. \A i, j \in DOMAIN q : q[i] = q[j] => i = j
  BY DEF Waiting
<1>2. \A i \in DOMAIN r : \E j \in DOMAIN q : r[i] = q[j] /\ q[j] # q[k]
  BY <1>1 DEF Without
<1>3. DOMAIN q \subseteq Int /\ k \in Int
  OBVIOUS
<1>4. \A i, j \in DOMAIN r : r[i] = r[j] => i = j
  BY <1>1, <1>3 DEF Without
<1> QED BY <1>2, <1>4, StillWaiting

\* So do the tasks that stay open.
LEMMA StillOpen ==
  ASSUME ExecutorTypeOK, WaitInv, pc' \in {pc, pc + 1}, NEW slot, Completes(slot),
         Part(openTasks', openTasks),
         \A i \in DOMAIN openTasks' : openTasks[i] = slot => IsWait(slot)
  PROVE  OpenNext
<1>1. ASSUME NEW i \in DOMAIN openTasks'
      PROVE  /\ i \in DOMAIN openTasks /\ openTasks'[i] = openTasks[i]
             /\ openTasks[i] \in Slots /\ openTasks[i] < pc'
             /\ ~IsWait(openTasks[i]) => ~Done(openTasks[i]) /\ openTasks[i] # slot
  <2>1. i \in DOMAIN openTasks /\ openTasks'[i] = openTasks[i] /\ openTasks[i] \in Slots
    BY DEF Part, ExecutorTypeOK, TaskTypeOK
  <2>2. openTasks[i] < pc /\ pc \in Nat /\ openTasks[i] \in Nat
    BY <2>1, SlotsNat DEF WaitInv, ExecutorTypeOK, CodeTypeOK
  <2> QED BY <2>1, <2>2 DEF WaitInv, NobodyWaitsForTheDone
<1> QED BY <1>1 DEF OpenNext, WaitInv, NobodyWaitsForTheDone, Completes, Done, IsWait

LEMMA StillDone ==
  ASSUME ExecutorTypeOK, WaitInv, pc' \in {pc, pc + 1}, NEW slot, Completes(slot),
         slot < pc'
  PROVE  DoneNext /\ OutcomesStay
<1>1. pc \in Nat /\ Slots \subseteq Nat
  BY SlotsNat DEF ExecutorTypeOK, CodeTypeOK
<1>2. ASSUME NEW s \in Slots, s # slot, outcome'[s].kind # "pending"
      PROVE  s < pc'
  <2>1. Done(s)
    BY <1>2 DEF Completes, Done
  <2>2. s < pc
    BY <2>1 DEF WaitInv
  <2>3. s \in Nat /\ pc \in Nat
    BY <1>1
  <2> QED BY <2>2, <2>3
<1>3. DoneNext
  BY <1>2 DEF DoneNext
<1>4. OutcomesStay
  BY DEF OutcomesStay, Completes
<1> QED BY <1>3, <1>4

\* Every step keeps the invariant, and no outcome is ever replaced.
LEMMA WaitKept ==
  ASSUME ExecutorTypeOK, WaitInv, ExecutorStep
  PROVE  WaitInv' /\ OutcomesStay
<1>1. /\ UNCHANGED program
      /\ NothingCompletes \/ TaskCloses \/ EventCompletes \/ WaitCompletes \/ WaitQueues
  BY WaitStep
<1>2. /\ pc \in Nat /\ Slots \subseteq Nat
      /\ outcome \in [Slots -> Outcomes]
      /\ outstandingEvents \in [EventNames -> Seq(Slots)]
      /\ \A id \in DOMAIN openTasks : openTasks[id] \in Slots
  BY SlotsNat DEF ExecutorTypeOK, CodeTypeOK, EventTypeOK, TaskTypeOK
<1>3. /\ \A n \in EventNames : Waiting(outstandingEvents[n], n)
      /\ \A s \in Slots : Done(s) => s < pc
      /\ \A id \in DOMAIN openTasks : openTasks[id] < pc
      /\ \A id \in DOMAIN openTasks : ~IsWait(openTasks[id]) => ~Done(openTasks[id])
      /\ \A i, j \in DOMAIN openTasks : openTasks[i] = openTasks[j] => i = j
  BY DEF WaitInv, NobodyWaitsForTheDone, Waiting
<1>4. SUFFICES OpenNext /\ DoneNext /\ OutcomesStay
               /\ \A n \in EventNames : WaitingNext(outstandingEvents'[n], n)
  BY <1>1, WaitInvNext
<1>5. ASSUME NEW slot \in Slots, ~Done(slot), NEW result,
             outcome' = [outcome EXCEPT ![slot] = result]
      PROVE  Completes(slot)
  BY <1>2, <1>5 DEF Completes
<1>6. /\ pc' \in Nat
      /\ pc' = pc \/ pc' > pc => \A s \in Slots : s < pc => s < pc'
  <2>1. pc' \in Nat
    BY PcKept DEF ExecutorTypeOK
  <2> QED BY <1>2, <2>1
\* What the code may have opened is not done, for nothing ahead of it is.
<1>7. ASSUME OpenStep, UNCHANGED outcome, pc' = pc \/ pc' > pc
       PROVE  OpenNext
  <2>1. \A s \in Slots : s < pc => s < pc'
    BY <1>6, <1>7
  <2>2. ASSUME NEW i \in DOMAIN openTasks'
        PROVE  /\ openTasks'[i] < pc'
               /\ ~IsWait(openTasks'[i]) => ~Done(openTasks'[i])
    <3>1. CASE \E j \in DOMAIN openTasks : openTasks'[i] = openTasks[j]
      BY <1>2, <1>3, <2>1, <3>1
    <3>2. CASE openTasks'[i] = pc /\ pc' = pc + 1 /\ pc \in Slots
      BY <1>2, <1>3, <3>2
    <3> QED BY <1>7, <2>2, <3>1, <3>2, OpenKept
  <2> QED BY <1>7, <2>2, OpenKept DEF OpenNext, Done, IsWait
<1>8. CASE NothingCompletes
  <2>1. \A s \in Slots : s < pc => s < pc'
    BY <1>6, <1>8 DEF NothingCompletes
  <2>2. DoneNext /\ OutcomesStay
    BY <1>3, <1>8, <2>1 DEF NothingCompletes, DoneNext, OutcomesStay, Done
  <2>3. OpenNext
    BY <1>7, <1>8 DEF NothingCompletes
  <2>5. ASSUME NEW n \in EventNames
        PROVE  WaitingNext(outstandingEvents'[n], n)
    <3>1. /\ outstandingEvents[n] \in Seq(Slots) /\ Waiting(outstandingEvents[n], n)
          /\ outstandingEvents' = outstandingEvents /\ outcome' = outcome
      BY <1>2, <1>3, <1>8 DEF NothingCompletes
    <3>2. \A i \in DOMAIN outstandingEvents[n] : outstandingEvents[n][i] \in Slots
      BY <3>1
    <3> QED BY <2>1, <3>1, <3>2 DEF Waiting, WaitingNext, Done, IsWait
  <2> QED BY <2>2, <2>3, <2>5
\* A queue none of whose members completes.
<1>9. ASSUME NEW slot, Completes(slot), pc' \in {pc, pc + 1}, NEW n \in EventNames,
             outstandingEvents'[n] = outstandingEvents[n],
             \A i \in DOMAIN outstandingEvents[n] : outstandingEvents[n][i] # slot
      PROVE  WaitingNext(outstandingEvents'[n], n)
  <2>1. outstandingEvents[n] \in Seq(Slots) /\ Waiting(outstandingEvents[n], n)
    BY <1>2, <1>3
  <2> QED BY <1>9, <2>1, StillWaiting DEF Waiting
<1>10. CASE TaskCloses
  <2>1. PICK id \in DOMAIN openTasks :
          LET slot == openTasks[id]
          IN /\ openTasks' = Restrict(openTasks, DOMAIN openTasks \ {id})
             /\ UNCHANGED pc
             /\ \/ /\ ~IsWait(slot)
                   /\ \E result : outcome' = [outcome EXCEPT ![slot] = result]
                   /\ UNCHANGED outstandingEvents
                \/ /\ IsWait(slot) /\ ~Done(slot)
                   /\ outcome' = [outcome EXCEPT ![slot] = Canceled]
                   /\ outstandingEvents' =
                        [outstandingEvents EXCEPT ![program[slot].name] = RemoveFirst(@, slot)]
                \/ UNCHANGED <<outcome, outstandingEvents>>
    BY <1>10 DEF TaskCloses
  <2> DEFINE slot == openTasks[id]
  <2>2. /\ slot \in Slots /\ slot < pc /\ (~IsWait(slot) => ~Done(slot))
        /\ pc' = pc /\ pc' \in {pc, pc + 1} /\ Part(openTasks', openTasks)
        /\ \A i \in DOMAIN openTasks' : openTasks[i] # slot
    BY <1>2, <1>3, <2>1 DEF Part, Restrict
  <2>3. CASE UNCHANGED <<outcome, outstandingEvents>>
    <3>1. OpenStep
      BY TaskStep DEF ExecutorTypeOK
    <3> QED BY <1>8, <2>2, <2>3, <3>1 DEF NothingCompletes
  <2>4. ASSUME Completes(slot)
        PROVE  OpenNext /\ DoneNext /\ OutcomesStay
    BY <2>2, <2>4, StillOpen, StillDone
  <2>5. CASE /\ ~IsWait(slot)
             /\ \E result : outcome' = [outcome EXCEPT ![slot] = result]
             /\ UNCHANGED outstandingEvents
    <3>1. Completes(slot)
      BY <1>5, <2>2, <2>5
    <3>2. ASSUME NEW n \in EventNames
          PROVE  \A i \in DOMAIN outstandingEvents[n] : outstandingEvents[n][i] # slot
      BY <1>3, <2>5 DEF Waiting
    <3> QED BY <1>9, <2>2, <2>4, <2>5, <3>1, <3>2
  <2>6. CASE /\ IsWait(slot) /\ ~Done(slot)
             /\ outcome' = [outcome EXCEPT ![slot] = Canceled]
             /\ outstandingEvents' =
                  [outstandingEvents EXCEPT ![program[slot].name] = RemoveFirst(@, slot)]
    <3>1. Completes(slot)
      BY <1>5, <2>2, <2>6
    <3>2. ASSUME NEW n \in EventNames, n # program[slot].name
          PROVE  WaitingNext(outstandingEvents'[n], n)
      <4>1. outstandingEvents'[n] = outstandingEvents[n]
        BY <1>2, <2>6, <3>2
      <4>2. \A i \in DOMAIN outstandingEvents[n] : outstandingEvents[n][i] # slot
        BY <1>3, <3>2 DEF Waiting
      <4> QED BY <1>9, <2>2, <3>1, <4>1, <4>2
    <3>3. ASSUME NEW n \in EventNames, n = program[slot].name
          PROVE  WaitingNext(outstandingEvents'[n], n)
      <4> DEFINE q == outstandingEvents[n]
                 r == outstandingEvents'[n]
      <4>1. q \in Seq(Slots) /\ Waiting(q, n) /\ r = RemoveFirst(q, slot)
        BY <1>2, <1>3, <2>6, <3>3
      <4> HIDE DEF q, r, slot
      <4>2. CASE r = q /\ \A i \in 1 .. Len(q) : q[i] # slot
        <5>1. q \in Seq(Slots) /\ Waiting(q, n) /\ DOMAIN q = 1 .. Len(q)
          BY <4>1
        <5>2. \A i, j \in DOMAIN q : q[i] = q[j] => i = j
          BY <5>1 DEF Waiting
        <5>3. \A i \in DOMAIN q : \E j \in DOMAIN q : q[i] = q[j] /\ q[j] # slot
          BY <4>2, <5>1
        <5>4. WaitingNext(q, n)
          BY <2>2, <3>1, <5>1, <5>2, <5>3, StillWaiting
        <5> QED BY <4>2, <5>4 DEF r
      <4>3. ASSUME NEW k \in 1 .. Len(q), q[k] = slot, r = RemoveAt(q, k)
            PROVE  WaitingNext(r, n)
        <5>1. r \in Seq(Slots) /\ Without(r, q, k) /\ k \in DOMAIN q
          BY <4>1, <4>3, RemoveAtWithout
        <5> QED BY <2>2, <3>1, <4>1, <4>3, <5>1, WaitingWithout
      <4> QED BY <4>1, <4>2, <4>3, RemoveFirstSeq DEF r
    <3> QED BY <2>4, <3>1, <3>2, <3>3
  <2> QED BY <2>1, <2>3, <2>5, <2>6
<1>11. CASE EventCompletes
  <2>1. PICK n \in EventNames : \E result :
          /\ outstandingEvents[n] # <<>>
          /\ outstandingEvents' = [outstandingEvents EXCEPT ![n] = Tail(@)]
          /\ outcome' = [outcome EXCEPT ![Head(outstandingEvents[n])] = result]
    BY <1>11 DEF EventCompletes
  <2> DEFINE q == outstandingEvents[n]
             slot == Head(q)
  <2>2. /\ q \in Seq(Slots) /\ q # <<>> /\ Waiting(q, n)
        /\ slot = q[1] /\ 1 \in DOMAIN q
        /\ Tail(q) \in Seq(Slots) /\ Without(Tail(q), q, 1)
    BY <1>2, <1>3, <2>1, TailWithout
  <2>3. slot \in Slots /\ ~Done(slot) /\ slot < pc /\ IsWait(slot) /\ program[slot].name = n
    BY <2>2 DEF Waiting
  <2>4. Completes(slot) /\ pc' \in {pc, pc + 1} /\ UNCHANGED openTasks
    BY <1>5, <1>11, <2>1, <2>3 DEF EventCompletes
  <2>5. OpenNext /\ DoneNext /\ OutcomesStay
    BY <1>11, <2>3, <2>4, PartRefl, StillOpen, StillDone DEF EventCompletes
  <2>6. ASSUME NEW m \in EventNames, m # n
        PROVE  WaitingNext(outstandingEvents'[m], m)
    <3>1. outstandingEvents'[m] = outstandingEvents[m]
      BY <1>2, <2>1, <2>6
    <3>2. \A i \in DOMAIN outstandingEvents[m] : outstandingEvents[m][i] # slot
      BY <1>3, <2>3, <2>6 DEF Waiting
    <3> QED BY <1>9, <2>4, <3>1, <3>2
  <2>7. WaitingNext(outstandingEvents'[n], n)
    <3>1. outstandingEvents'[n] = Tail(q)
      BY <1>2, <2>1
    <3> HIDE DEF q, slot
    <3>2. WaitingNext(Tail(q), n)
      BY <2>2, <2>4, WaitingWithout
    <3> QED BY <3>1, <3>2
  <2> QED BY <2>5, <2>6, <2>7
<1>12. CASE WaitCompletes
  <2>1. /\ pc \in Slots /\ ~Done(pc) /\ pc' = pc + 1 /\ pc < pc'
        /\ UNCHANGED <<openTasks, outstandingEvents>>
    BY <1>2, <1>3, <1>12 DEF WaitCompletes
  <2>2. Completes(pc)
    BY <1>5, <1>12, <2>1 DEF WaitCompletes
  <2>3. \A i \in DOMAIN openTasks : openTasks[i] # pc
    BY <1>2, <1>3
  <2>4. OpenNext /\ DoneNext /\ OutcomesStay
    BY <2>1, <2>2, <2>3, PartRefl, StillOpen, StillDone
  <2>5. ASSUME NEW n \in EventNames
        PROVE  \A i \in DOMAIN outstandingEvents[n] : outstandingEvents[n][i] # pc
    BY <1>2, <1>3 DEF Waiting
  <2> QED BY <1>9, <2>1, <2>2, <2>4, <2>5
<1>13. CASE WaitQueues
  <2> DEFINE name == program[pc].name
  <2>1. /\ pc \in Slots /\ ~Done(pc) /\ IsWait(pc) /\ pc' = pc + 1 /\ OpenStep
        /\ outcome' = outcome
        /\ outstandingEvents' = [outstandingEvents EXCEPT ![name] = Append(@, pc)]
        /\ \A s \in Slots : s < pc => s < pc'
    BY <1>2, <1>3, <1>13 DEF WaitQueues
  <2>2. OpenNext
    BY <1>2, <1>7, <2>1
  <2>3. DoneNext /\ OutcomesStay
    BY <1>3, <2>1 DEF DoneNext, OutcomesStay, Done
  <2>4. ASSUME NEW n \in EventNames
        PROVE  /\ outstandingEvents[n] \in Seq(Slots)
               /\ WaitingNext(outstandingEvents[n], n)
               /\ \A i \in DOMAIN outstandingEvents[n] : outstandingEvents[n][i] # pc
    <3>1. outstandingEvents[n] \in Seq(Slots) /\ Waiting(outstandingEvents[n], n)
      BY <1>2, <1>3
    <3>2. \A i \in DOMAIN outstandingEvents[n] : outstandingEvents[n][i] \in Slots
      BY <3>1
    <3>3. outcome' = outcome /\ \A s \in Slots : s < pc => s < pc' /\ s # pc
      BY <1>2, <2>1
    <3> QED BY <3>1, <3>2, <3>3 DEF Waiting, WaitingNext, Done, IsWait
  <2>5. ASSUME NEW n \in EventNames, n # name
        PROVE  WaitingNext(outstandingEvents'[n], n)
    BY <1>2, <2>1, <2>4, <2>5
  <2>6. ASSUME NEW n \in EventNames, n = name
        PROVE  WaitingNext(outstandingEvents'[n], n)
    <3> DEFINE q == outstandingEvents[n]
               r == Append(q, pc)
    <3>1. outstandingEvents'[n] = r
      BY <1>2, <2>1, <2>6
    <3>2. /\ Len(q) \in Nat /\ DOMAIN q = 1 .. Len(q) /\ DOMAIN r = 1 .. Len(q) + 1
          /\ \A i \in 1 .. Len(q) : r[i] = q[i]
          /\ r[Len(q) + 1] = pc
      BY <2>1, <2>4, AppendProperties
    <3>3. /\ WaitingNext(q, n) /\ \A i \in DOMAIN q : q[i] # pc
          /\ outcome'[pc].kind = "pending" /\ pc < pc' /\ program[pc].name = n
          /\ program[pc].op = "waitForExternalEvent"
      BY <1>2, <2>1, <2>4, <2>6 DEF Done, IsWait
    <3> HIDE DEF q, r
    <3> QED BY <3>1, <3>2, <3>3 DEF WaitingNext
  <2> QED BY <2>2, <2>3, <2>5, <2>6
<1> QED BY <1>1, <1>8, <1>10, <1>11, <1>12, <1>13
-----------------------------------------------------------------------------
(* The invariant of the executor *)

\* Neither of these is inductive without the others: an id is typed because the sequence
\* number is, a completion is single because its id is fresh and the code is told.
ExecutorInv == ExecutorTypeOK /\ IdsAreFresh /\ OneCompletion

FullInv == ExecutorInv /\ WaitInv /\ FrozenInv

\* Nobody waits in a context that is not there.
LEMMA NoContextFull ==
  ASSUME NEW emits \in BOOLEAN, NEW patched \in BOOLEAN, NoContext(emits, patched),
         program \in Programs
  PROVE  FullInv
<1>1. /\ DOMAIN openTasks = {} /\ outstandingEvents = [n \in EventNames |-> <<>>]
      /\ \A s \in Slots : ~Done(s)
      /\ ~isSuspended /\ eventsWhileSuspended = <<>> /\ ~draining
  BY DEF NoContext, NoTasks, Done, Pending
<1>2. WaitInv /\ FrozenInv
  BY <1>1 DEF WaitInv, FrozenInv, NobodyWaitsForTheDone
<1> QED BY <1>2, NoContextGood DEF FullInv, ExecutorInv

LEMMA NewContextFull ==
  ASSUME NEW past \in Seq(EventRecords), NEW new \in Seq(EventRecords), NewContext(past, new),
         control' \in {"idle", "loop"}, DeployTypeOK'
  PROVE  FullInv'
<1>1. /\ DOMAIN openTasks' = {} /\ outstandingEvents' = [n \in EventNames |-> <<>>]
      /\ \A s \in Slots : outcome'[s].kind = "pending"
      /\ ~isSuspended' /\ eventsWhileSuspended' = <<>> /\ ~draining'
  BY DEF NewContext, NoTasks, Pending
<1>2. WaitInv' /\ FrozenInv'
  BY <1>1 DEF WaitInv, FrozenInv, NobodyWaitsForTheDone, Done
<1> QED BY <1>2, NewContextGood DEF FullInv, ExecutorInv

LEMMA StepFull ==
  ASSUME FullInv, ExecutorStep
  PROVE  FullInv'
BY ExecutorKept, WaitKept, FrozenKept DEF FullInv, ExecutorInv

LEMMA StutterFull ==
  ASSUME FullInv, UNCHANGED execVars
  PROVE  FullInv'
<1>1. ExecutorInv'
  BY DEF execVars, deployVars, iterVars, suspendVars, taskVars, eventVars, patchVars, endVars,
         codeVars, FullInv, ExecutorInv, ExecutorTypeOK, DeployTypeOK, IterTypeOK, SuspendTypeOK,
         TaskTypeOK, EventTypeOK, PatchTypeOK, EndTypeOK, CodeTypeOK, IdsAreFresh,
         OneCompletion, Completions, WellFormed
<1>2. UNCHANGED <<program, pc, outcome, openTasks, outstandingEvents, isSuspended,
                  eventsWhileSuspended, draining, thrown, control>>
  BY DEF execVars, deployVars, suspendVars, taskVars, eventVars, codeVars
<1>3. WaitInv'
  BY <1>2 DEF FullInv, WaitInv, NobodyWaitsForTheDone, Done, IsWait
<1>4. FrozenInv'
  BY <1>2 DEF FullInv, FrozenInv, Running, AwaitOver, Done
<1> QED BY <1>1, <1>3, <1>4 DEF FullInv

LEMMA DeployUnchanged ==
  ASSUME DeployTypeOK, UNCHANGED deployVars
  PROVE  DeployTypeOK'
BY DEF DeployTypeOK, deployVars, WellFormed
=============================================================================
