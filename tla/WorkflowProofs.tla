----------------------------- MODULE WorkflowProofs -----------------------------
(***************************************************************************)
(* What holds of a workflow instance over all its turns, for any programs   *)
(* and scenarios.                                                          *)
(***************************************************************************)
EXTENDS WorkflowTurns, ExecutorProofs, FunctionTheorems, FiniteSetTheorems

-----------------------------------------------------------------------------
(* Finite sets *)

\* What a function makes of a finite set is finite.
LEMMA FiniteImage ==
  ASSUME NEW S, IsFiniteSet(S), NEW T, NEW f \in [S -> T], \A t \in T : \E s \in S : f[s] = t
  PROVE  IsFiniteSet(T)
<1>1. f \in Surjection(S, T)
  BY Fun_IsSurj
<1> QED BY <1>1, FS_Surjection

\* In a finite set of integers there is one with n of them up to it.
LEMMA RankExists ==
  ASSUME NEW S \in SUBSET Int, IsFiniteSet(S), NEW n \in 1 .. Cardinality(S)
  PROVE  \E id \in S : Cardinality({i \in S : i <= id}) = n
<1> DEFINE UpTo(x) == {i \in S : i <= x}
           m == Cardinality(S)
           rank == [x \in S |-> Cardinality(UpTo(x))]
<1>1. m \in Nat /\ IsFiniteSet(1 .. m) /\ Cardinality(1 .. m) = m
  <2>1. m \in Nat
    BY FS_CardinalityType
  <2> QED BY <2>1, FS_Interval
<1>2. ASSUME NEW x \in S
      PROVE  IsFiniteSet(UpTo(x)) /\ Cardinality(UpTo(x)) \in 1 .. m
  <2>1. /\ IsFiniteSet(UpTo(x)) /\ Cardinality(UpTo(x)) <= m
        /\ Cardinality(UpTo(x)) \in Nat /\ UpTo(x) # {}
    <3>1. UpTo(x) \in SUBSET S
      OBVIOUS
    <3>2. IsFiniteSet(UpTo(x)) /\ Cardinality(UpTo(x)) <= m
      BY <3>1, FS_Subset
    <3>3. x \in UpTo(x)
      OBVIOUS
    <3> QED BY <3>2, <3>3, FS_CardinalityType
  <2>2. Cardinality(UpTo(x)) # 0
    BY <2>1, FS_EmptySet
  <2> HIDE DEF UpTo, m
  <2> QED BY <1>1, <2>1, <2>2
<1>3. ASSUME NEW x \in S, NEW y \in S, x < y
      PROVE  Cardinality(UpTo(x)) # Cardinality(UpTo(y))
  <2>1. x \in Int /\ y \in Int
    OBVIOUS
  <2>2. UpTo(x) \in SUBSET UpTo(y) /\ y \in UpTo(y) /\ y \notin UpTo(x)
    <3>1. ASSUME NEW i \in UpTo(x)  PROVE i \in UpTo(y)
      <4>1. i \in S /\ i \in Int /\ i <= x
        OBVIOUS
      <4>2. i <= y
        BY <1>3, <2>1, <4>1
      <4> QED BY <4>1, <4>2
    <3>2. y \in UpTo(y) /\ y \notin UpTo(x)
      BY <1>3, <2>1
    <3> QED BY <3>1, <3>2
  <2> HIDE DEF UpTo
  <2> QED BY <1>2, <2>2, FS_Subset
<1>4. rank \in [S -> 1 .. m]
  BY <1>2
<1>5. \A x, y \in S : rank[x] = rank[y] => x = y
  <2> SUFFICES ASSUME NEW x \in S, NEW y \in S, x # y PROVE rank[x] # rank[y]
    OBVIOUS
  <2>1. x \in Int /\ y \in Int
    OBVIOUS
  <2>2. x < y \/ y < x
    BY <2>1
  <2>3. rank[x] = Cardinality(UpTo(x)) /\ rank[y] = Cardinality(UpTo(y))
    OBVIOUS
  <2> HIDE DEF rank, UpTo
  <2> QED BY <1>3, <2>2, <2>3
<1>6. rank \in Injection(S, 1 .. m)
  <2> HIDE DEF rank, m
  <2> QED BY <1>4, <1>5, Fun_IsInj
<1>7. rank \in Surjection(S, 1 .. m)
  <2> HIDE DEF rank
  <2> QED BY <1>1, <1>6, FS_Injection
<1>8. \E id \in S : rank[id] = n
  <2> HIDE DEF rank
  <2> QED BY <1>7 DEF Surjection
<1> QED BY <1>8

-----------------------------------------------------------------------------
(* What the executor hands over is finite *)

LEMMA RemainingFinite ==
  ASSUME IsFiniteSet(DOMAIN pendingActions), NEW actions, NEW seq, Remaining(actions, seq)
  PROVE  IsFiniteSet(DOMAIN actions)
<1>1. CASE Part(actions, pendingActions)
  BY <1>1, FS_Subset DEF Part
<1>2. ASSUME NEW id, Part(actions, ShiftDown(pendingActions, id))
      PROVE  IsFiniteSet(DOMAIN actions)
  <2> DEFINE D == DOMAIN pendingActions
             above == {k \in D : k > id}
             down == {j - 1 : j \in above}
             below == {j \in D : j < id}
  <2>1. IsFiniteSet(above) /\ IsFiniteSet(below)
    BY FS_Subset
  <2>2. IsFiniteSet(down)
    <3> DEFINE f == [k \in above |-> k - 1]
    <3>1. f \in [above -> down] /\ \A t \in down : \E s \in above : f[s] = t
      OBVIOUS
    <3> HIDE DEF f, above, down
    <3> QED BY <2>1, <3>1, FiniteImage
  <2>3. DOMAIN ShiftDown(pendingActions, id) = below \union down
    BY DEF ShiftDown
  <2>4. IsFiniteSet(below \union down)
    BY <2>1, <2>2, FS_Union
  <2> HIDE DEF below, down
  <2> QED BY <1>2, <2>3, <2>4, FS_Subset DEF Part
<1> QED BY <1>1, <1>2 DEF Remaining

LEMMA ActionsFinite ==
  ASSUME IsFiniteSet(DOMAIN pendingActions), TaskTypeOK, EndTypeOK, ExecutorStep
  PROVE  IsFiniteSet(DOMAIN pendingActions')
<1>1. ASSUME NEW actions, IsFiniteSet(DOMAIN actions), NEW id, NEW action,
             pendingActions' = Put(actions, id, action)
      PROVE  IsFiniteSet(DOMAIN pendingActions')
  <2>1. DOMAIN pendingActions' = DOMAIN actions \union {id}
    BY <1>1 DEF Put
  <2> QED BY <1>1, <2>1, FS_AddElement
<1>2. ActionsStep
  BY TaskStep
<1> QED BY <1>1, <1>2, RemainingFinite DEF ActionsStep

LEMMA FiniteElements ==
  ASSUME NEW T, NEW s \in Seq(T)
  PROVE  IsFiniteSet(ToSet(s))
<1>1. /\ s \in [1 .. Len(s) -> ToSet(s)] /\ Len(s) \in Nat
      /\ \A t \in ToSet(s) : \E i \in 1 .. Len(s) : s[i] = t
  BY LenProperties DEF ToSet
<1>2. IsFiniteSet(1 .. Len(s))
  <2>1. 1 \in Int /\ Len(s) \in Int
    BY <1>1
  <2> QED BY <2>1, FS_Interval
<1> QED BY <1>1, <1>2, FiniteImage

\* Events are carried over by ContinueAsNew only.
LEMMA EndStep ==
  ASSUME ExecutorStep
  PROVE  carryoverEvents' \in {carryoverEvents, {}, Carryover}
<1>1. ASSUME NEW actions, NEW seq, FailExecution(actions, seq)
      PROVE  carryoverEvents' \in {carryoverEvents, {}}
  BY <1>1 DEF FailExecution, CompleteInternal, endVars
<1>2. ASSUME NEW exception, NEW actions, NEW seq, Throws(exception, actions, seq)
      PROVE  carryoverEvents' \in {carryoverEvents, {}}
  BY <1>1, <1>2 DEF Throws, endVars
<1>3. CASE HandleTaskScheduled \/ HandleSubOrchestrationCreated \/ HandleTimerCreated
  <2>1. PICK kinds : Confirm(kinds)
    BY <1>3 DEF HandleTaskScheduled, HandleSubOrchestrationCreated, HandleTimerCreated
  <2>2. \/ Returns
        \/ \E actions, seq : Throws("NonDeterministicOrchestratorException", actions, seq)
    BY <2>1 DEF Confirm
  <2> QED BY <1>2, <2>2 DEF Returns, endVars
<1>4. CASE \/ HandleTaskCompleted \/ HandleTaskFailed \/ HandleTimerFired
           \/ HandleSubOrchestrationCompleted \/ HandleSubOrchestrationFailed
           \/ HandleInfrastructureTimer \/ HandleEventRaised \/ HandleWorkflowStarted
  BY <1>4
     DEF HandleTaskCompleted, HandleTaskFailed, HandleTimerFired,
         HandleSubOrchestrationCompleted, HandleSubOrchestrationFailed, CloseTask,
         HandleInfrastructureTimer, HandleEventRaised, HandleWorkflowStarted, Returns, endVars
<1>5. CASE \/ HandleUnknown \/ HandleExecutionStarted \/ HandleEventWhileSuspended
           \/ HandleExecutionSuspended \/ HandleExecutionResumed \/ HandleExecutionTerminated
  BY <1>2, <1>5
     DEF HandleUnknown, HandleExecutionStarted, HandleEventWhileSuspended,
         HandleExecutionSuspended, HandleExecutionResumed, HandleExecutionTerminated,
         CompleteInternal, endVars
<1>6. CASE \/ CallActivity \/ CallSubOrchestrator \/ CreateTimer \/ SendEvent
           \/ WaitFindsEvent \/ WaitTimesOutAtOnce \/ WaitForExternalEvent \/ IsPatched
           \/ Await \/ CallWhenComplete
  BY <1>1, <1>6
     DEF CallActivity, CallSubOrchestrator, CreateTimer, SendEvent, WaitFindsEvent,
         WaitTimesOutAtOnce, WaitForExternalEvent, IsPatched, Await, CallWhenComplete,
         CodeThrows, Schedule, Proceed, endVars
<1>7. CASE Complete \/ ContinueAsNew \/ Return \/ Yield \/ EndOfHistory
  BY <1>7 DEF Complete, ContinueAsNew, Return, Yield, EndOfHistory, CompleteInternal, endVars
<1> QED BY <1>3, <1>4, <1>5, <1>6, <1>7 DEF ExecutorStep, HandleEvent, CodeStep

LEMMA CarryoverFinite ==
  ASSUME IsFiniteSet(carryoverEvents), IterTypeOK, EventTypeOK, ExecutorStep
  PROVE  IsFiniteSet(carryoverEvents')
<1>1. IsFiniteSet(Carryover)
  <2> DEFINE unread == {newEvents[i] : i \in {j \in DOMAIN newEvents :
                          j > currentHistoryIndex /\ newEvents[j].type = "EventRaised"}}
  <2>1. IsFiniteSet(ToSet(unprocessedEvents)) /\ IsFiniteSet(ToSet(newEvents))
    BY FiniteElements DEF IterTypeOK, EventTypeOK
  <2>2. unread \in SUBSET ToSet(newEvents)
    BY DEF ToSet
  <2>3. IsFiniteSet(unread)
    BY <2>1, <2>2, FS_Subset
  <2> QED BY <2>1, <2>3, FS_Union DEF Carryover
<1>2. IsFiniteSet({})
  BY FS_EmptySet
<1>3. carryoverEvents' \in {carryoverEvents, {}, Carryover}
  BY EndStep
<1> QED BY <1>1, <1>2, <1>3

-----------------------------------------------------------------------------
(* What the backend keeps *)

WorkKinds == {"scheduleTask", "createChildWorkflow", "createTimer", "eventTimer"}

\* The types that the work items of the executor need.
BackendTypeOK ==
  /\ history \in Seq(EventRecords) /\ inbox \in Seq(EventRecords)
  /\ \A w \in work : w.id \in Int /\ w.kind \in WorkKinds
  /\ raised \in Nat /\ duplicates \in Nat
  /\ IsFiniteSet(DOMAIN pendingActions) /\ IsFiniteSet(carryoverEvents)

\* A work item is the history and what waited for the turn, after the WorkflowStarted that opens
\* it; nothing arrives while the turn runs.
TurnInv ==
  /\ control = "idle" => pastEvents = <<>> /\ newEvents = <<>>
  /\ control # "idle" => /\ pastEvents = history /\ inbox = <<>>
                         /\ newEvents # <<>> /\ Head(newEvents) = WorkflowStarted(FALSE)

InstanceInv == FullInv /\ BackendTypeOK /\ TurnInv

\* Events that are not raised, and those that are.
LEMMA PlainEvent ==
  ASSUME NEW type \in EventTypes \ {"EventRaised"}, NEW id \in Int, NEW val \in Nat
  PROVE  Event(type, id, "", val) \in EventRecords
<1> DEFINE e == Event(type, id, "", val)
<1>1. /\ e \in [type : EventTypes, id : Int, name : EventNames \union TimerKinds \union {""},
                val : Nat]
      /\ e.type # "EventRaised"
  BY DEF Event
<1> QED BY <1>1 DEF EventRecords

LEMMA RaisedEvent ==
  ASSUME NEW name \in EventNames, NEW val \in Nat
  PROVE  Event("EventRaised", 0, name, val) \in EventRecords
<1> DEFINE e == Event("EventRaised", 0, name, val)
<1>1. e \in [type : EventTypes, id : Int, name : EventNames \union TimerKinds \union {""},
            val : Nat]
  <2>1. "EventRaised" \in EventTypes /\ 0 \in Int
    BY DEF EventTypes
  <2> QED BY <2>1 DEF Event
<1>2. e.name \in EventNames
  BY DEF Event
<1> QED BY <1>1, <1>2 DEF EventRecords

LEMMA InitInstance == Init => InstanceInv
<1> SUFFICES ASSUME Init PROVE InstanceInv
  OBVIOUS
<1>1. /\ program \in Programs /\ NoContext(~scenario.oldSdk, ~scenario.oldCode)
      /\ (~scenario.oldSdk) \in BOOLEAN /\ (~scenario.oldCode) \in BOOLEAN
  <2>1. scenario.oldSdk \in BOOLEAN /\ scenario.oldCode \in BOOLEAN /\ scenario.program \in Programs
    <3>1. scenario \in Scenarios
      BY DEF Init
    <3> QED BY <3>1, ScenariosAssumption
  <2> QED BY <2>1 DEF Init
<1>2. FullInv
  BY <1>1, NoContextFull
<1>3. BackendTypeOK
  <2>1. ExecutionStarted \in EventRecords
    <3>1. "ExecutionStarted" \in EventTypes \ {"EventRaised"} /\ 0 \in Int /\ 0 \in Nat
      BY DEF EventTypes
    <3> QED BY <3>1, PlainEvent DEF ExecutionStarted
  <2>2. <<>> \in Seq(EventRecords) /\ <<ExecutionStarted>> \in Seq(EventRecords)
    BY <2>1
  <2>3. DOMAIN pendingActions = {} /\ carryoverEvents = {}
    BY <1>1 DEF NoContext, NoTasks
  <2> QED BY <2>2, <2>3, FS_EmptySet DEF Init, BackendTypeOK
<1>4. TurnInv
  BY <1>1 DEF NoContext, TurnInv
<1> QED BY <1>2, <1>3, <1>4 DEF InstanceInv

\* The context that is left when a result is handed over or a worker lost.
LEMMA ReleaseGood ==
  ASSUME DeployTypeOK', Release
  PROVE  /\ FullInv' /\ IsFiniteSet(DOMAIN pendingActions') /\ IsFiniteSet(carryoverEvents')
         /\ control' = "idle" /\ pastEvents' = <<>> /\ newEvents' = <<>>
<1>1. <<>> \in Seq(EventRecords)
  OBVIOUS
<1>2. FullInv'
  BY <1>1, NewContextFull DEF Release
<1>3. DOMAIN pendingActions' = {} /\ carryoverEvents' = {}
  BY DEF Release, NewContext, NoTasks
<1> QED BY <1>2, <1>3, FS_EmptySet DEF Release, NewContext

\* Between turns the arrivals change nothing but the inbox and the counters.
LEMMA ArriveKeeps ==
  ASSUME InstanceInv, NEW e \in EventRecords, Arrive(e), raised' \in Nat, duplicates' \in Nat,
         work' \subseteq work
  PROVE  InstanceInv'
<1>1. /\ control = "idle" /\ inbox' = Append(inbox, e)
      /\ UNCHANGED <<execVars, history>>
  BY DEF Arrive, BetweenTurns
<1>2. FullInv'
  BY <1>1, StutterFull DEF InstanceInv
<1>3. inbox' \in Seq(EventRecords)
  BY <1>1, AppendProperties DEF InstanceInv, BackendTypeOK
<1>4. UNCHANGED <<control, pastEvents, newEvents, pendingActions, carryoverEvents>>
  BY <1>1 DEF execVars, iterVars, taskVars, endVars
<1>5. BackendTypeOK'
  BY <1>1, <1>3, <1>4 DEF InstanceInv, BackendTypeOK
<1>6. TurnInv'
  BY <1>1, <1>4 DEF InstanceInv, TurnInv
<1> QED BY <1>2, <1>5, <1>6 DEF InstanceInv

LEMMA EndingsType ==
  ASSUME InstanceInv, NEW w \in work, NEW e \in Endings(w)
  PROVE  e \in EventRecords /\ e.type # "EventRaised"
<1>1. w.id \in Int /\ w.kind \in WorkKinds /\ duplicates + 1 \in Nat /\ 0 \in Nat
  BY DEF InstanceInv, BackendTypeOK
<1>2. PICK type \in EventTypes \ {"EventRaised"}, val \in Nat : e = Event(type, w.id, "", val)
  <2>2. CASE w.kind = "scheduleTask"
    BY <1>1, <2>2 DEF Endings, EventTypes
  <2>3. CASE w.kind = "createChildWorkflow"
    BY <1>1, <2>3 DEF Endings, EventTypes
  <2>4. CASE w.kind \in TimerKinds
    BY <1>1, <2>4 DEF Endings, EventTypes, TimerKinds
  <2> QED BY <1>1, <2>2, <2>3, <2>4 DEF WorkKinds, TimerKinds
<1>3. e.type = type
  BY <1>2 DEF Event
<1> QED BY <1>1, <1>2, <1>3, PlainEvent

\* Every arrival is one event, which is raised or has nothing to do with external events.
LEMMA Arrivals ==
  ASSUME InstanceInv,
         \/ RaiseEvent \/ (\E w \in work : FinishWork(w) \/ FinishWorkTwice(w))
         \/ SuspendInstance \/ ResumeInstance \/ TerminateInstance
  PROVE  \E e \in EventRecords :
           /\ Arrive(e) /\ duplicates' \in Nat /\ work' \subseteq work
           /\ \/ e.type # "EventRaised" /\ raised' = raised
              \/ e.type = "EventRaised" /\ raised' = raised + 1 /\ e.val = raised + 1
           /\ \/ requested' = requested
              \/ /\ requested' = requested \union {"suspend"} /\ e.type = "ExecutionSuspended"
              \/ /\ requested' = requested \union {"resume"} /\ e.type = "ExecutionResumed"
              \/ /\ requested' = requested \union {"terminate"}
                 /\ e.type = "ExecutionTerminated"
<1>1. raised \in Nat /\ duplicates \in Nat
  BY DEF InstanceInv, BackendTypeOK
<1>2. CASE RaiseEvent
  <2>1. PICK n \in EventNames : Arrive(Event("EventRaised", 0, n, raised + 1))
    BY <1>2 DEF RaiseEvent
  <2>2. /\ Event("EventRaised", 0, n, raised + 1) \in EventRecords
        /\ Event("EventRaised", 0, n, raised + 1).type = "EventRaised"
        /\ Event("EventRaised", 0, n, raised + 1).val = raised + 1
    <3>1. Event("EventRaised", 0, n, raised + 1) \in EventRecords
      BY <1>1, RaisedEvent
    <3> QED BY <3>1 DEF Event
  <2> QED BY <1>1, <1>2, <2>1, <2>2 DEF RaiseEvent
<1>3. ASSUME NEW w \in work, FinishWork(w) \/ FinishWorkTwice(w)
      PROVE  \E e \in EventRecords :
               /\ Arrive(e) /\ duplicates' \in Nat /\ work' \subseteq work
               /\ e.type # "EventRaised" /\ raised' = raised /\ requested' = requested
  <2>1. PICK e \in Endings(w) : Arrive(e)
    BY <1>3 DEF FinishWork, FinishWorkTwice
  <2>2. e \in EventRecords /\ e.type # "EventRaised"
    BY EndingsType
  <2> QED BY <1>1, <1>3, <2>1, <2>2 DEF FinishWork, FinishWorkTwice
<1>4. ASSUME NEW what, NEW type \in EventTypes \ {"EventRaised"}, Request(what, type)
      PROVE  \E e \in EventRecords :
               /\ Arrive(e) /\ duplicates' \in Nat /\ work' \subseteq work
               /\ e.type = type /\ raised' = raised
               /\ requested' = requested \union {what}
  <2>1. /\ Event(type, 0, "", 0) \in EventRecords /\ Event(type, 0, "", 0).type = type
    <3>1. 0 \in Int /\ 0 \in Nat
      OBVIOUS
    <3>2. Event(type, 0, "", 0) \in EventRecords
      BY <1>4, <3>1, PlainEvent
    <3> QED BY <3>2 DEF Event
  <2> QED BY <1>1, <1>4, <2>1 DEF Request
<1>5. CASE SuspendInstance \/ ResumeInstance \/ TerminateInstance
  <2>1. {"ExecutionSuspended", "ExecutionResumed", "ExecutionTerminated"}
          \subseteq EventTypes \ {"EventRaised"}
    BY DEF EventTypes
  <2>2. CASE SuspendInstance
    <3>1. Request("suspend", "ExecutionSuspended")
      BY <2>2 DEF SuspendInstance
    <3>2. PICK e \in EventRecords :
            /\ Arrive(e) /\ duplicates' \in Nat /\ work' \subseteq work
            /\ e.type = "ExecutionSuspended" /\ raised' = raised
            /\ requested' = requested \union {"suspend"}
      BY <1>4, <2>1, <3>1
    <3> QED BY <3>2
  <2>3. CASE ResumeInstance
    <3>1. Request("resume", "ExecutionResumed")
      BY <2>3 DEF ResumeInstance
    <3>2. PICK e \in EventRecords :
            /\ Arrive(e) /\ duplicates' \in Nat /\ work' \subseteq work
            /\ e.type = "ExecutionResumed" /\ raised' = raised
            /\ requested' = requested \union {"resume"}
      BY <1>4, <2>1, <3>1
    <3> QED BY <3>2
  <2>4. CASE TerminateInstance
    <3>1. Request("terminate", "ExecutionTerminated")
      BY <2>4 DEF TerminateInstance
    <3>2. PICK e \in EventRecords :
            /\ Arrive(e) /\ duplicates' \in Nat /\ work' \subseteq work
            /\ e.type = "ExecutionTerminated" /\ raised' = raised
            /\ requested' = requested \union {"terminate"}
      BY <1>4, <2>1, <3>1
    <3> QED BY <3>2
  <2> QED BY <1>5, <2>2, <2>3, <2>4
<1>6. CASE \E w \in work : FinishWork(w) \/ FinishWorkTwice(w)
  <2>1. PICK w \in work : FinishWork(w) \/ FinishWorkTwice(w)
    BY <1>6
  <2>2. PICK e \in EventRecords :
          /\ Arrive(e) /\ duplicates' \in Nat /\ work' \subseteq work
          /\ e.type # "EventRaised" /\ raised' = raised /\ requested' = requested
    BY <1>3, <2>1
  <2> QED BY <2>2
<1> QED BY <1>2, <1>5, <1>6

-----------------------------------------------------------------------------
(* Turns *)

\* The executor runs in the loop or in the code, and does not let go of its context.
LEMMA ControlStep ==
  ASSUME ExecutorStep
  PROVE  /\ control \in {"loop", "user"} /\ control' # "idle"
         /\ UNCHANGED <<deployVars, pastEvents, newEvents>>
<1>1. ASSUME NEW actions, NEW seq, FailExecution(actions, seq)
      PROVE  control' # "idle"
  BY <1>1 DEF FailExecution
<1>2. CASE HandleEvent
  <2>1. control \in {"loop", "user"} /\ UNCHANGED <<deployVars, pastEvents, newEvents>>
    BY <1>2, EventIsRead DEF Read, Pumping, Running
  <2>2. CASE control' = control
    BY <2>1, <2>2
  <2>3. CASE HandleTaskScheduled \/ HandleSubOrchestrationCreated \/ HandleTimerCreated
    <3>1. PICK kinds : Confirm(kinds)
      BY <2>3 DEF HandleTaskScheduled, HandleSubOrchestrationCreated, HandleTimerCreated
    <3>2. \/ Returns
          \/ \E actions, seq : Throws("NonDeterministicOrchestratorException", actions, seq)
      BY <3>1 DEF Confirm
    <3> QED BY <1>1, <2>1, <3>2 DEF Returns, Throws
  <2>4. CASE HandleUnknown \/ HandleExecutionTerminated
    BY <1>1, <2>1, <2>4 DEF HandleUnknown, HandleExecutionTerminated, Throws
  <2>5. CASE HandleExecutionStarted
    BY <2>1, <2>5 DEF HandleExecutionStarted
  <2>6. CASE \/ HandleTaskCompleted \/ HandleTaskFailed \/ HandleTimerFired
             \/ HandleSubOrchestrationCompleted \/ HandleSubOrchestrationFailed
             \/ HandleInfrastructureTimer \/ HandleEventRaised \/ HandleWorkflowStarted
             \/ HandleEventWhileSuspended \/ HandleExecutionSuspended \/ HandleExecutionResumed
    BY <2>2, <2>6
       DEF HandleTaskCompleted, HandleTaskFailed, HandleTimerFired,
           HandleSubOrchestrationCompleted, HandleSubOrchestrationFailed, CloseTask,
           HandleInfrastructureTimer, HandleEventRaised, HandleWorkflowStarted, Returns,
           HandleEventWhileSuspended, HandleExecutionSuspended, HandleExecutionResumed
  <2> QED BY <1>2, <2>3, <2>4, <2>5, <2>6 DEF HandleEvent
<1>3. CASE \/ CallActivity \/ CallSubOrchestrator \/ CreateTimer \/ SendEvent
           \/ WaitFindsEvent \/ WaitTimesOutAtOnce \/ WaitForExternalEvent \/ IsPatched
           \/ Await \/ Complete \/ CallWhenComplete \/ ContinueAsNew
  BY <1>1, <1>3
     DEF CallActivity, CallSubOrchestrator, CreateTimer, SendEvent, WaitFindsEvent,
         WaitTimesOutAtOnce, WaitForExternalEvent, IsPatched, Await, CallWhenComplete, Complete,
         ContinueAsNew, CodeThrows, Schedule, Proceed, Code, Running, iterVars
<1>4. CASE Return \/ Yield \/ EndOfHistory
  BY <1>4 DEF Return, Yield, EndOfHistory, Running, iterVars
<1> QED BY <1>2, <1>3, <1>4 DEF ExecutorStep, CodeStep

LEMMA ExecutionKeeps ==
  ASSUME InstanceInv, Execution
  PROVE  InstanceInv'
<1>1. FullInv'
  BY StepFull DEF Execution, InstanceInv
<1>2. BackendTypeOK'
  BY ActionsFinite, CarryoverFinite
     DEF Execution, InstanceInv, BackendTypeOK, backendVars, FullInv, ExecutorInv, ExecutorTypeOK
<1>3. TurnInv'
  BY ControlStep DEF Execution, InstanceInv, TurnInv, backendVars
<1> QED BY <1>1, <1>2, <1>3 DEF InstanceInv

\* One element in front of a sequence.
LEMMA InFront ==
  ASSUME NEW S, NEW e \in S, NEW q \in Seq(S)
  PROVE  /\ <<e>> \o q \in Seq(S) /\ <<e>> \o q # <<>>
         /\ Head(<<e>> \o q) = e /\ Tail(<<e>> \o q) = q
         /\ Len(<<e>> \o q) = Len(q) + 1
         /\ \A i \in 1 .. Len(q) : (<<e>> \o q)[i + 1] = q[i]
<1>1. <<e>> \in Seq(S) /\ Len(<<e>>) = 1 /\ <<e>>[1] = e
  OBVIOUS
<1>2. Len(q) \in Nat
  OBVIOUS
<1> DEFINE r == <<e>> \o q
<1>3. /\ r \in Seq(S) /\ Len(r) = 1 + Len(q)
      /\ \A i \in 1 .. 1 + Len(q) : r[i] = IF i <= 1 THEN <<e>>[i] ELSE q[i - 1]
  BY <1>1, ConcatProperties
<1> HIDE DEF r
<1>4. r[1] = e /\ \A i \in 1 .. Len(q) : r[i + 1] = q[i]
  BY <1>1, <1>2, <1>3
<1>5. r # <<>> /\ Head(r) = e
  BY <1>2, <1>3, <1>4
<1>6. Tail(r) = q
  <2>1. Tail(r) \in Seq(S) /\ Len(Tail(r)) = Len(q) /\ \A i \in 1 .. Len(q) : Tail(r)[i] = r[i + 1]
    BY <1>2, <1>3, <1>5, HeadTailProperties
  <2> QED BY <1>4, <2>1, SeqEqual
<1> QED BY <1>3, <1>4, <1>5, <1>6, <1>2 DEF r

\* The events of a work item.
LEMMA DispatchedType ==
  ASSUME InstanceInv
  PROVE  /\ <<WorkflowStarted(FALSE)>> \o inbox \in Seq(EventRecords)
         /\ <<WorkflowStarted(FALSE)>> \o inbox # <<>>
         /\ Head(<<WorkflowStarted(FALSE)>> \o inbox) = WorkflowStarted(FALSE)
<1> DEFINE ws == WorkflowStarted(FALSE)
<1>1. ws \in EventRecords
  <2>1. "WorkflowStarted" \in EventTypes \ {"EventRaised"} /\ 0 \in Int /\ 0 \in Nat
    BY DEF EventTypes
  <2> QED BY <2>1, PlainEvent DEF WorkflowStarted
<1>2. inbox \in Seq(EventRecords)
  BY DEF InstanceInv, BackendTypeOK
<1> HIDE DEF ws
<1>3. /\ <<ws>> \o inbox \in Seq(EventRecords) /\ <<ws>> \o inbox # <<>>
      /\ Head(<<ws>> \o inbox) = ws
  BY <1>1, <1>2, InFront
<1> QED BY <1>3 DEF ws

LEMMA DispatchKeeps ==
  ASSUME InstanceInv, Dispatch
  PROVE  InstanceInv'
<1> DEFINE new == <<WorkflowStarted(FALSE)>> \o inbox
<1>1. /\ new \in Seq(EventRecords) /\ new # <<>> /\ Head(new) = WorkflowStarted(FALSE)
      /\ history \in Seq(EventRecords) /\ DeployTypeOK
  BY DispatchedType
     DEF InstanceInv, BackendTypeOK, FullInv, ExecutorInv, ExecutorTypeOK
<1> HIDE DEF new
<1>2. /\ NewContext(history, new) /\ control' = "loop" /\ UNCHANGED deployVars
      /\ inbox' = <<>> /\ UNCHANGED <<history, work, raised, duplicates>>
  BY DEF Dispatch, Execute, new
<1>3. FullInv'
  BY <1>1, <1>2, DeployUnchanged, NewContextFull
<1>4. BackendTypeOK'
  <2>1. DOMAIN pendingActions' = {} /\ carryoverEvents' = {} /\ inbox' \in Seq(EventRecords)
    BY <1>2 DEF NewContext, NoTasks
  <2> QED BY <1>2, <2>1, FS_EmptySet DEF InstanceInv, BackendTypeOK
<1>5. TurnInv'
  BY <1>1, <1>2 DEF NewContext, TurnInv
<1> QED BY <1>3, <1>4, <1>5 DEF InstanceInv

\* The ids in the result are ids of pending actions.
LEMMA IdsOfKinds ==
  ASSUME InstanceInv, NEW kinds
  PROVE  LET ids == {id \in DOMAIN pendingActions : pendingActions[id].kind \in kinds}
         IN /\ Cardinality(ids) \in Nat /\ DOMAIN Ids(kinds) = 1 .. Cardinality(ids)
            /\ \A n \in 1 .. Cardinality(ids) : Ids(kinds)[n] \in ids
<1> DEFINE ids == {id \in DOMAIN pendingActions : pendingActions[id].kind \in kinds}
<1>1. ids \in SUBSET DOMAIN pendingActions
  OBVIOUS
<1>2. ids \in SUBSET Int /\ IsFiniteSet(ids)
  BY <1>1, FS_Subset
     DEF InstanceInv, BackendTypeOK, FullInv, ExecutorInv, ExecutorTypeOK, TaskTypeOK
<1>3. Ids(kinds) = [n \in 1 .. Cardinality(ids) |->
                      CHOOSE id \in ids : Cardinality({i \in ids : i <= id}) = n]
  BY DEF Ids
<1> HIDE DEF ids
<1>4. ASSUME NEW n \in 1 .. Cardinality(ids)
      PROVE  Ids(kinds)[n] \in ids
  <2>1. \E id \in ids : Cardinality({i \in ids : i <= id}) = n
    BY <1>2, RankExists
  <2> QED BY <1>3, <2>1
<1> QED BY <1>2, <1>3, <1>4, FS_CardinalityType DEF ids

LEMMA ConfirmationsType ==
  ASSUME InstanceInv
  PROVE  /\ Confirmations \in Seq(EventRecords)
         /\ \A i \in DOMAIN Confirmations : Confirmations[i].type # "EventRaised"
<1> DEFINE kinds == ActionKinds \ {"completeWorkflow"}
           ids == {id \in DOMAIN pendingActions : pendingActions[id].kind \in kinds}
           m == Cardinality(ids)
<1>1. ASSUME NEW id \in ids
      PROVE  Confirmation(id) \in EventRecords /\ Confirmation(id).type # "EventRaised"
  <2> DEFINE kind == pendingActions[id].kind
  <2>1. id \in Int /\ 0 \in Nat
    BY DEF InstanceInv, FullInv, ExecutorInv, ExecutorTypeOK, TaskTypeOK
  <2>2. kind \in {"scheduleTask", "createChildWorkflow", "sendEvent"} \union TimerKinds
    BY DEF ActionKinds
  <2>3. ASSUME NEW type \in {"TaskScheduled", "ChildWorkflowInstanceCreated", "EventSent"},
               Confirmation(id) = Event(type, id, "", 0)
        PROVE  Confirmation(id) \in EventRecords /\ Confirmation(id).type # "EventRaised"
    <3>1. type \in EventTypes \ {"EventRaised"}
      BY DEF EventTypes
    <3>2. Event(type, id, "", 0) \in EventRecords
      BY <2>1, <3>1, PlainEvent
    <3>3. Event(type, id, "", 0).type = type
      BY DEF Event
    <3> QED BY <2>3, <3>1, <3>2, <3>3
  <2>4. CASE kind \in TimerKinds
    <3> DEFINE e == Event("TimerCreated", id, kind, 0)
    <3>1. Confirmation(id) = e
      BY <2>4 DEF Confirmation, TimerKinds
    <3>2. e \in [type : EventTypes, id : Int, name : EventNames \union TimerKinds \union {""},
                 val : Nat]
      BY <2>1, <2>4 DEF Event, EventTypes
    <3>3. e.type # "EventRaised"
      BY DEF Event
    <3> QED BY <3>1, <3>2, <3>3 DEF EventRecords
  <2>5. CASE kind = "scheduleTask"
    BY <2>3, <2>5 DEF Confirmation, TimerKinds
  <2>6. CASE kind = "createChildWorkflow"
    BY <2>3, <2>6 DEF Confirmation, TimerKinds
  <2>7. CASE kind = "sendEvent"
    BY <2>3, <2>7 DEF Confirmation, TimerKinds
  <2> QED BY <2>2, <2>4, <2>5, <2>6, <2>7
<1>2. /\ m \in Nat /\ DOMAIN Ids(kinds) = 1 .. m
      /\ \A n \in 1 .. m : Ids(kinds)[n] \in ids
  BY IdsOfKinds
<1>3. Confirmations = [i \in 1 .. m |-> Confirmation(Ids(kinds)[i])]
  BY <1>2 DEF Confirmations
<1> HIDE DEF kinds, ids, m
<1>4. Confirmations \in [1 .. m -> EventRecords]
  BY <1>1, <1>2, <1>3
<1> QED BY <1>1, <1>2, <1>3, <1>4

\* The event that stands for a turn in the history.
LEMMA WorkflowStartedType ==
  ASSUME NEW patched \in BOOLEAN
  PROVE  /\ WorkflowStarted(patched) \in EventRecords
         /\ WorkflowStarted(patched).type = "WorkflowStarted"
<1> DEFINE val == IF patched THEN 1 ELSE 0
<1>1. "WorkflowStarted" \in EventTypes \ {"EventRaised"} /\ 0 \in Int /\ val \in Nat
  BY DEF EventTypes
<1>2. WorkflowStarted(patched) = Event("WorkflowStarted", 0, "", val)
  BY DEF WorkflowStarted
<1> HIDE DEF val
<1>3. Event("WorkflowStarted", 0, "", val).type = "WorkflowStarted"
  BY DEF Event
<1> QED BY <1>1, <1>2, <1>3, PlainEvent

\* What the history holds after a turn: its old events, a WorkflowStarted, the new events behind
\* the first, and the confirmations.
LEMMA RecordedParts ==
  ASSUME InstanceInv, control = "done"
  PROVE  /\ WorkflowStarted(encounteredPatch) \in EventRecords
         /\ WorkflowStarted(encounteredPatch).type = "WorkflowStarted"
         /\ Tail(newEvents) \in Seq(EventRecords) /\ Confirmations \in Seq(EventRecords)
         /\ newEvents = <<WorkflowStarted(FALSE)>> \o Tail(newEvents)
         /\ Recorded \in Seq(EventRecords)
<1> DEFINE ws == WorkflowStarted(encounteredPatch)
<1>1. ws \in EventRecords /\ ws.type = "WorkflowStarted"
  BY WorkflowStartedType DEF InstanceInv, FullInv, ExecutorInv, ExecutorTypeOK, PatchTypeOK
<1>2. /\ history \in Seq(EventRecords) /\ newEvents \in Seq(EventRecords) /\ newEvents # <<>>
      /\ Head(newEvents) = WorkflowStarted(FALSE)
  BY DEF InstanceInv, FullInv, ExecutorInv, ExecutorTypeOK, IterTypeOK, BackendTypeOK, TurnInv
<1>3. Tail(newEvents) \in Seq(EventRecords) /\ newEvents = <<Head(newEvents)>> \o Tail(newEvents)
  BY <1>2, HeadTailProperties
<1>4. Confirmations \in Seq(EventRecords)
  BY ConfirmationsType
<1>5. Recorded = history \o <<ws>> \o Tail(newEvents) \o Confirmations
  BY DEF Recorded
<1> HIDE DEF ws
<1>6. history \o <<ws>> \in Seq(EventRecords)
  BY <1>1, <1>2, ConcatProperties
<1>7. history \o <<ws>> \o Tail(newEvents) \in Seq(EventRecords)
  BY <1>3, <1>6, ConcatProperties
<1>8. Recorded \in Seq(EventRecords)
  BY <1>4, <1>5, <1>7, ConcatProperties
<1> QED BY <1>1, <1>2, <1>3, <1>4, <1>8 DEF ws

\* The next generation's program is well formed like the first.
LEMMA NextGenerationType ==
  ASSUME DeployTypeOK, program' = NextGeneration(program),
         UNCHANGED <<sdkEmitsOptionalTimer, patchDeployed>>
  PROVE  DeployTypeOK'
<1>1. /\ DOMAIN program' = DOMAIN program
      /\ \A s \in DOMAIN program :
           program'[s] = IF program[s].op = "continueAsNew" THEN complete ELSE program[s]
  BY DEF NextGeneration
<1>2. complete.op = "complete"
  BY DEF complete
<1>3. DOMAIN program \subseteq Nat \ {0} /\ DOMAIN program \subseteq Slots
  BY DEF DeployTypeOK, WellFormed
<1>4. ASSUME NEW s \in DOMAIN program'
      PROVE  /\ program'[s].op = "waitForExternalEvent" => program'[s].name \in EventNames
             /\ program'[s].op = "isPatched" => program'[s].skip \in Nat
             /\ program'[s].op = "await" => program'[s].on \in Seq(1 .. s - 1)
  <2>1. CASE program[s].op = "continueAsNew"
    <3>1. program'[s].op = "complete"
      BY <1>1, <1>2, <1>4, <2>1
    <3> QED BY <3>1
  <2>2. CASE program[s].op # "continueAsNew"
    BY <1>1, <1>4, <2>2 DEF DeployTypeOK, WellFormed
  <2> QED BY <2>1, <2>2
<1>5. WellFormed(program')
  BY <1>1, <1>3, <1>4 DEF WellFormed
<1> QED BY <1>1, <1>3, <1>5 DEF DeployTypeOK, WellFormed

\* What is carried over is a sequence of the set's events, each of them once.
LEMMA CarriedType ==
  ASSUME NEW S, NEW carried \in SetToSeqs(S), IsFiniteSet(S)
  PROVE  /\ carried \in Seq(S)
         /\ \A i, j \in DOMAIN carried : carried[i] = carried[j] => i = j
         /\ \A e \in S : \E i \in DOMAIN carried : carried[i] = e
<1>1. /\ carried \in [1 .. Cardinality(S) -> S]
      /\ \A i, j \in 1 .. Cardinality(S) : i # j => carried[i] # carried[j]
  BY DEF SetToSeqs
<1>2. Cardinality(S) \in Nat
  BY FS_CardinalityType
<1>3. carried \in Seq(S)
  BY <1>1, <1>2
<1>4. \A i, j \in DOMAIN carried : carried[i] = carried[j] => i = j
  BY <1>1
<1>5. carried \in Injection(1 .. Cardinality(S), S)
  BY <1>1, <1>4, Fun_IsInj
<1>6. IsFiniteSet(1 .. Cardinality(S)) /\ Cardinality(1 .. Cardinality(S)) = Cardinality(S)
  <2>1. 1 \in Int /\ Cardinality(S) \in Int
    BY <1>2
  <2> QED BY <1>2, <2>1, FS_Interval
<1>7. carried \in Surjection(1 .. Cardinality(S), S)
  BY <1>5, <1>6, FS_Injection
<1> QED BY <1>1, <1>3, <1>4, <1>7 DEF Surjection


\* A result that is recorded.
LEMMA CommitKeeps ==
  ASSUME InstanceInv, CommitTurn \/ CommitEnd
  PROVE  InstanceInv'
<1>1. /\ control = "done" /\ Release /\ history' = Recorded
      /\ UNCHANGED <<deployVars, raised, duplicates, inbox>>
  BY DEF CommitTurn, CommitEnd, Commit, deployVars
<1>2. DeployTypeOK'
  BY <1>1, DeployUnchanged DEF InstanceInv, FullInv, ExecutorInv, ExecutorTypeOK
<1>3. /\ FullInv' /\ IsFiniteSet(DOMAIN pendingActions') /\ IsFiniteSet(carryoverEvents')
      /\ control' = "idle" /\ pastEvents' = <<>> /\ newEvents' = <<>>
  BY <1>1, <1>2, ReleaseGood
<1>4. history' \in Seq(EventRecords)
  BY <1>1, RecordedParts
<1>5. ASSUME NEW w \in work'
      PROVE  w.id \in Int /\ w.kind \in WorkKinds
  <2>1. CASE w \in work
    BY <2>1 DEF InstanceInv, BackendTypeOK
  <2>2. CASE w \notin work
    <3>1. w \in NewWork
      BY <1>5, <2>2 DEF CommitTurn, CommitEnd
    <3>2. \A id \in DOMAIN pendingActions : id \in Int
      BY DEF InstanceInv, FullInv, ExecutorInv, ExecutorTypeOK, TaskTypeOK
    <3> QED BY <3>1, <3>2 DEF NewWork, WorkKinds
  <2> QED BY <2>1, <2>2
<1>6. BackendTypeOK'
  BY <1>1, <1>3, <1>4, <1>5 DEF InstanceInv, BackendTypeOK
<1>7. TurnInv'
  BY <1>3 DEF TurnInv
<1> QED BY <1>3, <1>6, <1>7 DEF InstanceInv

\* A new generation starts with its ExecutionStarted and the events carried over.
LEMMA ContinuesWith ==
  ASSUME InstanceInv, CommitContinueAsNew
  PROVE  \E carried \in SetToSeqs(carryoverEvents) :
           /\ inbox' = <<ExecutionStarted>> \o carried
           /\ carried \in Seq(EventRecords)
           /\ \A i \in DOMAIN carried : carried[i] \in carryoverEvents
           /\ \A i, j \in DOMAIN carried : carried[i] = carried[j] => i = j
           /\ \A e \in carryoverEvents : \E i \in DOMAIN carried : carried[i] = e
           /\ ExecutionStarted \in EventRecords /\ ExecutionStarted.type = "ExecutionStarted"
<1>1. /\ control = "done" /\ inbox = <<>>
      /\ IsFiniteSet(carryoverEvents) /\ carryoverEvents \subseteq EventRecords
  BY DEF CommitContinueAsNew, Commit, InstanceInv, TurnInv, BackendTypeOK, FullInv, ExecutorInv,
         ExecutorTypeOK, EndTypeOK
<1>2. PICK carried \in SetToSeqs(carryoverEvents) :
        inbox' = <<ExecutionStarted>> \o carried \o inbox
  BY DEF CommitContinueAsNew
<1>3. /\ carried \in Seq(carryoverEvents)
      /\ \A i, j \in DOMAIN carried : carried[i] = carried[j] => i = j
      /\ \A e \in carryoverEvents : \E i \in DOMAIN carried : carried[i] = e
  BY <1>1, CarriedType
<1>4. carried \in Seq(EventRecords) /\ \A i \in DOMAIN carried : carried[i] \in carryoverEvents
  <2>1. carried \in [1 .. Len(carried) -> carryoverEvents] /\ Len(carried) \in Nat
    BY <1>3, LenProperties
  <2>2. carried \in [1 .. Len(carried) -> EventRecords]
    BY <1>1, <2>1
  <2> QED BY <2>1, <2>2
<1>5. ExecutionStarted \in EventRecords /\ ExecutionStarted.type = "ExecutionStarted"
  <2>1. "ExecutionStarted" \in EventTypes \ {"EventRaised"} /\ 0 \in Int /\ 0 \in Nat
    BY DEF EventTypes
  <2>2. Event("ExecutionStarted", 0, "", 0).type = "ExecutionStarted"
    BY DEF Event
  <2> QED BY <2>1, <2>2, PlainEvent DEF ExecutionStarted
<1> DEFINE es == ExecutionStarted
<1>6. inbox' = <<es>> \o carried
  <2>1. <<es>> \o carried \in Seq(EventRecords)
    BY <1>4, <1>5, InFront
  <2> HIDE DEF es
  <2>2. <<es>> \o carried \o <<>> = <<es>> \o carried
    BY <2>1, ConcatEmptySeq
  <2> QED BY <1>1, <1>2, <2>2 DEF es
<1> QED BY <1>3, <1>4, <1>5, <1>6

LEMMA ContinueKeeps ==
  ASSUME InstanceInv, CommitContinueAsNew
  PROVE  InstanceInv'
<1>1. /\ Release /\ program' = NextGeneration(program) /\ history' = <<>> /\ work' = {}
      /\ UNCHANGED <<sdkEmitsOptionalTimer, patchDeployed, raised, duplicates>>
  BY DEF CommitContinueAsNew, Commit
<1>2. DeployTypeOK'
  BY <1>1, NextGenerationType DEF InstanceInv, FullInv, ExecutorInv, ExecutorTypeOK
<1>3. /\ FullInv' /\ IsFiniteSet(DOMAIN pendingActions') /\ IsFiniteSet(carryoverEvents')
      /\ control' = "idle" /\ pastEvents' = <<>> /\ newEvents' = <<>>
  BY <1>1, <1>2, ReleaseGood
<1>4. inbox' \in Seq(EventRecords)
  <2> DEFINE es == ExecutionStarted
  <2>1. PICK carried \in SetToSeqs(carryoverEvents) :
          inbox' = <<es>> \o carried /\ carried \in Seq(EventRecords) /\ es \in EventRecords
    BY ContinuesWith
  <2> HIDE DEF es
  <2> QED BY <2>1, InFront
<1>5. BackendTypeOK'
  BY <1>1, <1>3, <1>4 DEF InstanceInv, BackendTypeOK
<1>6. TurnInv'
  BY <1>3 DEF TurnInv
<1> QED BY <1>3, <1>5, <1>6 DEF InstanceInv

\* A lost turn leaves its events in the inbox.
LEMMA AbandonsWith ==
  ASSUME InstanceInv, Abandon
  PROVE  /\ inbox' = Tail(newEvents) /\ inbox' \in Seq(EventRecords)
         /\ newEvents = <<WorkflowStarted(FALSE)>> \o inbox'
         /\ Release /\ UNCHANGED <<deployVars, history, work, raised, duplicates>>
<1>1. /\ inbox = <<>> /\ newEvents # <<>> /\ newEvents \in Seq(EventRecords)
      /\ Head(newEvents) = WorkflowStarted(FALSE)
  BY DEF Abandon, InstanceInv, TurnInv, FullInv, ExecutorInv, ExecutorTypeOK, IterTypeOK
<1>2. Tail(newEvents) \in Seq(EventRecords) /\ newEvents = <<Head(newEvents)>> \o Tail(newEvents)
  BY <1>1, HeadTailProperties
<1>3. inbox' = Tail(newEvents) \o <<>> /\ Release
  BY <1>1 DEF Abandon
<1>4. inbox' = Tail(newEvents)
  BY <1>2, <1>3, ConcatEmptySeq
<1>5. UNCHANGED <<deployVars, history, work, raised, duplicates>>
  BY DEF Abandon
<1> QED BY <1>1, <1>2, <1>3, <1>4, <1>5

LEMMA AbandonKeeps ==
  ASSUME InstanceInv, Abandon
  PROVE  InstanceInv'
<1>1. /\ Release /\ inbox' \in Seq(EventRecords)
      /\ UNCHANGED <<deployVars, history, work, raised, duplicates>>
  BY AbandonsWith
<1>2. DeployTypeOK'
  BY <1>1, DeployUnchanged DEF InstanceInv, FullInv, ExecutorInv, ExecutorTypeOK
<1>3. /\ FullInv' /\ IsFiniteSet(DOMAIN pendingActions') /\ IsFiniteSet(carryoverEvents')
      /\ control' = "idle" /\ pastEvents' = <<>> /\ newEvents' = <<>>
  BY <1>1, <1>2, ReleaseGood
<1>4. BackendTypeOK'
  BY <1>1, <1>3 DEF InstanceInv, BackendTypeOK
<1>5. TurnInv'
  BY <1>3 DEF TurnInv
<1> QED BY <1>3, <1>4, <1>5 DEF InstanceInv

\* A release is deployed between turns: nothing but the two flags changes.
Deploys ==
  /\ BetweenTurns
  /\ sdkEmitsOptionalTimer' \in BOOLEAN /\ patchDeployed' \in BOOLEAN
  /\ UNCHANGED <<program, iterVars, suspendVars, taskVars, eventVars, patchVars, endVars, control,
                 codeVars, thrown, backendVars>>

LEMMA DeployKeeps ==
  ASSUME InstanceInv, Deploys
  PROVE  InstanceInv'
<1>1. DeployTypeOK'
  BY DEF InstanceInv, FullInv, ExecutorInv, ExecutorTypeOK, DeployTypeOK, WellFormed, Deploys
<1>2. ExecutorInv'
  BY <1>1
     DEF Deploys, iterVars, suspendVars, taskVars, eventVars, patchVars, endVars, codeVars,
         InstanceInv, FullInv, ExecutorInv, ExecutorTypeOK, IterTypeOK, SuspendTypeOK,
         TaskTypeOK, EventTypeOK, PatchTypeOK, EndTypeOK, CodeTypeOK, IdsAreFresh,
         OneCompletion, Completions
<1>3. UNCHANGED <<program, pc, outcome, openTasks, outstandingEvents, isSuspended,
                  eventsWhileSuspended, draining, thrown, control>>
  BY DEF Deploys, suspendVars, taskVars, eventVars, codeVars
<1>4. WaitInv'
  BY <1>3 DEF InstanceInv, FullInv, WaitInv, NobodyWaitsForTheDone, Done, IsWait
<1>5. FrozenInv'
  BY <1>3 DEF InstanceInv, FullInv, FrozenInv, Running, AwaitOver, Done
<1>6. BackendTypeOK'
  BY DEF Deploys, backendVars, taskVars, endVars, InstanceInv, BackendTypeOK
<1>7. TurnInv'
  BY DEF Deploys, backendVars, iterVars, InstanceInv, TurnInv
<1> QED BY <1>2, <1>4, <1>5, <1>6, <1>7 DEF InstanceInv, FullInv

LEMMA DeployIs ==
  ASSUME InstanceInv, UpgradeSdk \/ DeployPatch
  PROVE  Deploys
BY DEF UpgradeSdk, DeployPatch, Deploys, InstanceInv, FullInv, ExecutorInv, ExecutorTypeOK,
       DeployTypeOK

LEMMA StutterInstance ==
  ASSUME InstanceInv, UNCHANGED vars
  PROVE  InstanceInv'
<1>1. UNCHANGED execVars /\ UNCHANGED backendVars
  BY DEF vars
<1>2. FullInv'
  BY <1>1, StutterFull DEF InstanceInv
<1>3. UNCHANGED <<control, pastEvents, newEvents, pendingActions, carryoverEvents>>
  BY <1>1 DEF execVars, iterVars, taskVars, endVars
<1>4. BackendTypeOK' /\ TurnInv'
  BY <1>1, <1>3 DEF InstanceInv, BackendTypeOK, TurnInv, backendVars
<1> QED BY <1>2, <1>4 DEF InstanceInv

\* Every step of an instance is one of these.
Arrival ==
  \/ RaiseEvent \/ (\E w \in work : FinishWork(w) \/ FinishWorkTwice(w))
  \/ SuspendInstance \/ ResumeInstance \/ TerminateInstance

LEMMA Steps ==
  ASSUME InstanceInv, [Next]_vars
  PROVE  \/ Arrival \/ Deploys \/ Dispatch \/ Execution \/ CommitTurn \/ CommitEnd
         \/ CommitContinueAsNew \/ Abandon \/ UNCHANGED vars
BY DeployIs DEF Next, Backend, Rest, Arrival

LEMMA InstanceStep ==
  ASSUME InstanceInv, [Next]_vars
  PROVE  InstanceInv'
<1>1. CASE Arrival
  <2>1. PICK e \in EventRecords :
          /\ Arrive(e) /\ duplicates' \in Nat /\ work' \subseteq work
          /\ raised' = raised \/ raised' = raised + 1
    BY <1>1, Arrivals DEF Arrival
  <2>2. raised' \in Nat
    BY <2>1 DEF InstanceInv, BackendTypeOK
  <2> QED BY <2>1, <2>2, ArriveKeeps
<1>2. CASE Deploys
  BY <1>2, DeployKeeps
<1>3. CASE Dispatch \/ Execution
  BY <1>3, DispatchKeeps, ExecutionKeeps
<1>4. CASE CommitTurn \/ CommitEnd \/ CommitContinueAsNew \/ Abandon
  BY <1>4, CommitKeeps, ContinueKeeps, AbandonKeeps
<1>5. CASE UNCHANGED vars
  BY <1>5, StutterInstance
<1> QED BY <1>1, <1>2, <1>3, <1>4, <1>5, Steps

\* Over all its turns an instance keeps the types and the invariants of the executor: whatever
\* history the backend and the code have made together, and whatever is deployed between turns.
THEOREM InstanceInvariant == Spec => []InstanceInv
<1>1. Init => InstanceInv
  BY InitInstance
<1>2. InstanceInv /\ [Next]_vars => InstanceInv'
  BY InstanceStep
<1> QED BY <1>1, <1>2, PTL DEF Spec

-----------------------------------------------------------------------------
(* The way of an event through a turn *)

\* The events of the turn in the order they are read, and how many have been.
Given == pastEvents \o newEvents
ReadCount == IF isReplaying THEN currentHistoryIndex ELSE Len(pastEvents) + currentHistoryIndex

\* The iterator does not run ahead of its list.
IterInv ==
  /\ isReplaying => currentHistoryIndex <= Len(pastEvents)
  /\ ~isReplaying => currentHistoryIndex <= Len(newEvents)

\* Where the event of a step comes from: the list, or the front of the deferred events.
IsNext(e) ==
  ReadCount + 1 \in DOMAIN Given /\ e = Given[ReadCount + 1] /\ ReadCount' = ReadCount + 1
FromList(e) == ~draining /\ IsNext(e) /\ UNCHANGED eventsWhileSuspended
FromDeferred(e) ==
  /\ draining /\ eventsWhileSuspended # <<>> /\ e = Head(eventsWhileSuspended)
  /\ eventsWhileSuspended' = Tail(eventsWhileSuspended)
  /\ ReadCount' = ReadCount
From(e) == FromList(e) \/ FromDeferred(e)
FromNowhere == ReadCount' = ReadCount /\ UNCHANGED eventsWhileSuspended

LEMMA GivenType ==
  ASSUME IterTypeOK
  PROVE  /\ Given \in Seq(EventRecords) /\ Len(Given) = Len(pastEvents) + Len(newEvents)
         /\ \A i \in 1 .. Len(pastEvents) : Given[i] = pastEvents[i]
         /\ \A i \in 1 .. Len(newEvents) : Given[Len(pastEvents) + i] = newEvents[i]
         /\ Len(pastEvents) \in Nat /\ Len(newEvents) \in Nat /\ ReadCount \in Nat
<1>1. /\ pastEvents \in Seq(EventRecords) /\ newEvents \in Seq(EventRecords)
      /\ currentHistoryIndex \in Nat
  BY DEF IterTypeOK
<1>2. Len(pastEvents) \in Nat /\ Len(newEvents) \in Nat
  BY <1>1
<1>3. /\ Given \in Seq(EventRecords) /\ Len(Given) = Len(pastEvents) + Len(newEvents)
      /\ \A i \in 1 .. Len(pastEvents) + Len(newEvents) :
           Given[i] = IF i <= Len(pastEvents) THEN pastEvents[i]
                      ELSE newEvents[i - Len(pastEvents)]
  BY <1>1, ConcatProperties DEF Given
<1>4. \A i \in 1 .. Len(pastEvents) : Given[i] = pastEvents[i]
  BY <1>2, <1>3
<1>5. ASSUME NEW i \in 1 .. Len(newEvents)
      PROVE  Given[Len(pastEvents) + i] = newEvents[i]
  <2>1. /\ Len(pastEvents) + i \in 1 .. Len(pastEvents) + Len(newEvents)
        /\ ~ (Len(pastEvents) + i <= Len(pastEvents))
        /\ (Len(pastEvents) + i) - Len(pastEvents) = i
    BY <1>2
  <2> QED BY <1>3, <2>1
<1>6. ReadCount \in Nat
  BY <1>1, <1>2 DEF ReadCount
<1> QED BY <1>2, <1>3, <1>4, <1>5, <1>6

\* Reading takes the next of the events given, or one of those deferred.
LEMMA ReadIsNext ==
  ASSUME IterTypeOK, IterInv, NEW type, Read(type)
  PROVE  /\ ~draining => IsNext(NextEvent)
         /\ draining => ReadCount' = ReadCount
         /\ IterInv' /\ Given' = Given
<1>1. UNCHANGED <<pastEvents, newEvents>>
  BY DEF Read
<1>2. /\ Len(pastEvents) \in Nat /\ Len(newEvents) \in Nat /\ currentHistoryIndex \in Nat
      /\ isReplaying \in BOOLEAN
      /\ Len(Given) = Len(pastEvents) + Len(newEvents) /\ Given \in Seq(EventRecords)
      /\ \A i \in 1 .. Len(pastEvents) : Given[i] = pastEvents[i]
      /\ \A i \in 1 .. Len(newEvents) : Given[Len(pastEvents) + i] = newEvents[i]
  BY GivenType DEF IterTypeOK
<1>3. CASE draining
  BY <1>1, <1>3 DEF Read, ReadCount, IterInv, Given
<1>4. CASE ~draining
  <2>1. /\ HasNext /\ NextEvent = CurrentList[CurrentIndex + 1]
        /\ currentHistoryIndex' = CurrentIndex + 1
        /\ isReplaying' = (isReplaying /\ ~Switching)
    BY <1>4, Zenon DEF Read, NextEvent
  <2>2. CASE isReplaying /\ ~Switching
    <3>1. CurrentList = pastEvents /\ CurrentIndex = currentHistoryIndex /\ isReplaying' = TRUE
      BY <2>1, <2>2 DEF CurrentList, CurrentIndex
    <3>2. currentHistoryIndex + 1 \in 1 .. Len(pastEvents)
      BY <1>2, <2>1, <3>1 DEF HasNext
    <3> QED BY <1>1, <1>2, <1>4, <2>1, <2>2, <3>1, <3>2 DEF ReadCount, IterInv, IsNext, Given
  <2>3. CASE isReplaying /\ Switching
    <3>1. /\ CurrentList = newEvents /\ CurrentIndex = 0 /\ isReplaying' = FALSE
          /\ currentHistoryIndex = Len(pastEvents)
      <4>1. CurrentList = newEvents /\ CurrentIndex = 0 /\ isReplaying' = FALSE
        BY <2>1, <2>3 DEF CurrentList, CurrentIndex
      <4>2. currentHistoryIndex >= Len(pastEvents) /\ currentHistoryIndex <= Len(pastEvents)
        BY <2>3 DEF Switching, IterInv
      <4> QED BY <1>2, <4>1, <4>2
    <3>2. 1 \in 1 .. Len(newEvents)
      BY <1>2, <2>1, <3>1 DEF HasNext
    <3> QED BY <1>1, <1>2, <1>4, <2>1, <2>3, <3>1, <3>2 DEF ReadCount, IterInv, IsNext, Given
  <2>4. CASE ~isReplaying
    <3>1. /\ CurrentList = newEvents /\ CurrentIndex = currentHistoryIndex /\ isReplaying' = FALSE
      BY <1>2, <2>1, <2>4 DEF CurrentList, CurrentIndex, Switching
    <3>2. currentHistoryIndex + 1 \in 1 .. Len(newEvents)
      BY <1>2, <2>1, <3>1 DEF HasNext
    <3> QED BY <1>1, <1>2, <1>4, <2>1, <2>4, <3>1, <3>2 DEF ReadCount, IterInv, IsNext, Given
  <2> QED BY <1>2, <2>2, <2>3, <2>4
<1> QED BY <1>3, <1>4

\* At the end of the history every event given has been read.
LEMMA AllRead ==
  ASSUME IterTypeOK, IterInv, newEvents # <<>>, ~HasNext
  PROVE  ~isReplaying /\ currentHistoryIndex = Len(newEvents) /\ ReadCount = Len(Given)
<1>1. /\ Len(pastEvents) \in Nat /\ Len(newEvents) \in Nat /\ currentHistoryIndex \in Nat
      /\ isReplaying \in BOOLEAN /\ Len(Given) = Len(pastEvents) + Len(newEvents)
      /\ newEvents \in Seq(EventRecords) /\ Len(newEvents) # 0
  BY GivenType, EmptySeq DEF IterTypeOK
<1>2. ~isReplaying
  BY <1>1 DEF IterInv, HasNext, CurrentList, CurrentIndex, Switching
<1> QED BY <1>1, <1>2 DEF IterInv, HasNext, CurrentList, CurrentIndex, Switching, ReadCount

\* What a step does with its event, if it has one.
\* Nothing but for the completion of a task: a wait can only be cancelled.
WaitsStay ==
  \A s \in Waits : outcome'[s] = outcome[s] \/ (~Done(s) /\ outcome'[s] = Canceled)
QueuesShrink ==
  \A n \in EventNames :
    \/ outstandingEvents'[n] = outstandingEvents[n]
    \/ \E slot : outstandingEvents'[n] = RemoveFirst(outstandingEvents[n], slot)
Quiet ==
  /\ UNCHANGED unprocessedEvents /\ WaitsStay /\ QueuesShrink
  /\ FromNowhere \/ \E e : From(e) /\ e.type # "EventRaised"
\* It is put off until the workflow resumes.
Defers ==
  /\ isSuspended
  /\ UNCHANGED <<outcome, outstandingEvents, unprocessedEvents>>
  /\ \E e : /\ ~draining /\ IsNext(e)
            /\ eventsWhileSuspended' = Append(eventsWhileSuspended, e)
\* It waits for its wait.
Buffers ==
  /\ ~isSuspended
  /\ UNCHANGED <<outcome, outstandingEvents>>
  /\ \E e : /\ From(e) /\ e.type = "EventRaised"
            /\ outstandingEvents[e.name] = <<>>
            /\ unprocessedEvents' = Append(unprocessedEvents, e)
\* It completes the first wait of its name.
Serves ==
  /\ ~isSuspended
  /\ UNCHANGED unprocessedEvents
  /\ \E e : LET waiters == outstandingEvents[e.name]
            IN /\ From(e) /\ e.type = "EventRaised" /\ waiters # <<>>
               /\ outstandingEvents' = [outstandingEvents EXCEPT ![e.name] = Tail(@)]
               /\ outcome' = [outcome EXCEPT ![Head(waiters)] = Deserialize(e.val)]
\* A wait takes it out of the buffer.
Takes ==
  /\ FromNowhere /\ Running("waitForExternalEvent") /\ ~draining
  /\ UNCHANGED outstandingEvents
  /\ LET i == BufferedEvent(program[pc].name)
     IN /\ i # 0 /\ unprocessedEvents[i].val # BadPayload
        /\ outcome' = [outcome EXCEPT ![pc] = Result(unprocessedEvents[i].val)]
        /\ unprocessedEvents' = RemoveAt(unprocessedEvents, i)
\* There is none for a wait, which is queued.
Queues ==
  /\ FromNowhere /\ Running("waitForExternalEvent")
  /\ UNCHANGED <<outcome, unprocessedEvents>>
  /\ BufferedEvent(program[pc].name) = 0
  /\ outstandingEvents' = [outstandingEvents EXCEPT ![program[pc].name] = Append(@, pc)]

LEMMA CloseTaskIsQuiet ==
  ASSUME ExecutorTypeOK, NEW id, NEW result, CloseTask(id, result)
  PROVE  WaitsStay /\ QueuesShrink /\ UNCHANGED unprocessedEvents
<1>1. /\ outcome \in [Slots -> Outcomes] /\ outstandingEvents \in [EventNames -> Seq(Slots)]
      /\ \A i \in DOMAIN openTasks : openTasks[i] \in Slots
  BY DEF ExecutorTypeOK, CodeTypeOK, EventTypeOK, TaskTypeOK
<1>2. \A s \in Waits : IsWait(s) /\ s \in Slots
  BY DEF Waits, ExecutorTypeOK, DeployTypeOK
<1>3. UNCHANGED unprocessedEvents
  BY DEF CloseTask
<1>4. WaitsStay
  BY <1>1, <1>2 DEF CloseTask, WaitsStay
<1>5. QueuesShrink
  BY <1>1 DEF CloseTask, QueuesShrink
<1> QED BY <1>3, <1>4, <1>5

\* A handler gets its event from the list or from the deferred events.
LEMMA HandleFrom ==
  ASSUME IterTypeOK, IterInv, NEW type, Handle(type), draining => eventsWhileSuspended # <<>>
  PROVE  From(NextEvent) /\ NextEvent.type = type /\ ~isSuspended
<1>1. Read(type) /\ ~isSuspended /\ NextEvent.type = type
  BY DEF Handle, Read
<1>2. CASE draining
  BY <1>1, <1>2, ReadIsNext DEF Handle, From, FromDeferred, NextEvent
<1>3. CASE ~draining
  BY <1>1, <1>3, ReadIsNext DEF Handle, From, FromList
<1> QED BY <1>1, <1>2, <1>3

LEMMA EventFlow ==
  ASSUME FullInv, IterInv, ExecutorStep
  PROVE  Quiet \/ Defers \/ Buffers \/ Serves \/ Takes \/ Queues
<1>1. /\ ExecutorTypeOK /\ IterTypeOK /\ SuspendTypeOK /\ FrozenInv
      /\ draining \in BOOLEAN /\ (draining => eventsWhileSuspended # <<>>)
      /\ outstandingEvents \in [EventNames -> Seq(Slots)] /\ outcome \in [Slots -> Outcomes]
  BY DEF FullInv, ExecutorInv, ExecutorTypeOK, SuspendTypeOK, EventTypeOK, CodeTypeOK
<1>2. ASSUME UNCHANGED <<outcome, outstandingEvents>>
      PROVE  WaitsStay /\ QueuesShrink
  BY <1>2 DEF WaitsStay, QueuesShrink
<1>3. ASSUME NEW type \in EventTypes \ {"EventRaised"}, Handle(type),
             UNCHANGED unprocessedEvents, WaitsStay, QueuesShrink
      PROVE  Quiet
  BY <1>1, <1>3, HandleFrom DEF Quiet
<1>4. EventTypes \ {"EventRaised"} =
        {"WorkflowStarted", "ExecutionStarted", "TaskScheduled", "TaskCompleted",
         "TaskFailed", "TimerCreated", "TimerFired", "ChildWorkflowInstanceCreated",
         "ChildWorkflowInstanceCompleted", "ChildWorkflowInstanceFailed",
         "ExecutionSuspended", "ExecutionResumed", "ExecutionTerminated", "EventSent"}
  BY DEF EventTypes
<1>5. CASE HandleTaskScheduled \/ HandleSubOrchestrationCreated \/ HandleTimerCreated
  <2>1. PICK type \in EventTypes \ {"EventRaised"} : Handle(type) /\ \E kinds : Confirm(kinds)
    BY <1>4, <1>5 DEF HandleTaskScheduled, HandleSubOrchestrationCreated, HandleTimerCreated
  <2>2. UNCHANGED <<eventVars, outcome>>
    BY <2>1 DEF Confirm
  <2> QED BY <1>2, <1>3, <2>1, <2>2 DEF eventVars
<1>6. CASE HandleTaskCompleted \/ HandleTaskFailed \/ HandleTimerFired
           \/ HandleSubOrchestrationCompleted \/ HandleSubOrchestrationFailed
  <2>1. PICK type \in EventTypes \ {"EventRaised"} :
          Handle(type) /\ \E id, result : CloseTask(id, result)
    BY <1>4, <1>6
       DEF HandleTaskCompleted, HandleTaskFailed, HandleTimerFired,
           HandleSubOrchestrationCompleted, HandleSubOrchestrationFailed
  <2> QED BY <1>1, <1>3, <2>1, CloseTaskIsQuiet
<1>7. CASE HandleInfrastructureTimer \/ HandleUnknown \/ HandleWorkflowStarted
           \/ HandleExecutionStarted
  <2>1. PICK type \in EventTypes \ {"EventRaised"} : Handle(type)
    BY <1>4, <1>7
       DEF HandleInfrastructureTimer, HandleUnknown, HandleWorkflowStarted,
           HandleExecutionStarted
  <2>2. UNCHANGED <<eventVars, outcome>>
    BY <1>7
       DEF HandleInfrastructureTimer, HandleUnknown, HandleWorkflowStarted,
           HandleExecutionStarted
  <2> QED BY <1>2, <1>3, <2>1, <2>2 DEF eventVars
<1>8. CASE HandleEventRaised
  <2>1. From(NextEvent) /\ NextEvent.type = "EventRaised" /\ ~isSuspended
    BY <1>1, <1>8, HandleFrom DEF HandleEventRaised
  <2> QED BY <1>8, <2>1 DEF HandleEventRaised, Buffers, Serves
<1>9. CASE HandleEventWhileSuspended \/ HandleExecutionSuspended \/ HandleExecutionResumed
           \/ HandleExecutionTerminated
  <2>1. UNCHANGED <<outcome, outstandingEvents, unprocessedEvents>>
    BY <1>9
       DEF HandleEventWhileSuspended, HandleExecutionSuspended, HandleExecutionResumed,
           HandleExecutionTerminated, eventVars
  <2>2. ~draining
    <3>1. CASE HandleEventWhileSuspended
      BY <1>1, <3>1 DEF FrozenInv, HandleEventWhileSuspended
    <3>2. CASE HandleExecutionSuspended \/ HandleExecutionResumed \/ HandleExecutionTerminated
      <4>1. NextEvent.type \in NeverDeferred
        BY <3>2
           DEF HandleExecutionSuspended, HandleExecutionResumed, HandleExecutionTerminated,
               Read, NeverDeferred
      <4> QED BY <1>1, <4>1, DrainedEvent
    <3> QED BY <1>9, <3>1, <3>2
  <2>3. ASSUME NEW type, Read(type)
        PROVE  IsNext(NextEvent) /\ NextEvent.type = type
    BY <1>1, <2>2, <2>3, ReadIsNext DEF Read
  <2>4. CASE HandleEventWhileSuspended
    <3>1. PICK type \in EventTypes \ OverrideSuspension :
            /\ Read(type)
            /\ eventsWhileSuspended' = IF type = "ExecutionSuspended" THEN eventsWhileSuspended
                                       ELSE Append(eventsWhileSuspended, NextEvent)
      BY <2>4 DEF HandleEventWhileSuspended
    <3>2. CASE type = "ExecutionSuspended"
      BY <1>2, <2>1, <2>2, <2>3, <3>1, <3>2 DEF Quiet, From, FromList
    <3>3. CASE type # "ExecutionSuspended"
      BY <2>1, <2>2, <2>3, <2>4, <3>1, <3>3 DEF Defers, HandleEventWhileSuspended
    <3> QED BY <3>2, <3>3
  <2>5. CASE HandleExecutionSuspended \/ HandleExecutionResumed \/ HandleExecutionTerminated
    <3>1. PICK type \in EventTypes \ {"EventRaised"} : Read(type)
      BY <1>4, <2>5
         DEF HandleExecutionSuspended, HandleExecutionResumed, HandleExecutionTerminated
    <3>2. UNCHANGED eventsWhileSuspended
      BY <2>5 DEF HandleExecutionSuspended, HandleExecutionResumed, HandleExecutionTerminated
    <3> QED BY <1>2, <2>1, <2>2, <2>3, <3>1, <3>2 DEF Quiet, From, FromList
  <2> QED BY <1>9, <2>4, <2>5
<1>10. CASE CodeStep \/ Yield \/ EndOfHistory
  <2>1. FromNowhere
    BY <1>10, NothingIsRead DEF FromNowhere, ReadCount, iterVars, suspendVars
  <2>2. CASE UNCHANGED <<outcome, outstandingEvents, unprocessedEvents>>
    BY <1>2, <2>1, <2>2 DEF Quiet
  <2>3. CASE WaitFindsEvent
    <3>1. CASE UNCHANGED <<outcome, eventVars>>
      BY <2>2, <3>1 DEF eventVars
    <3>2. CASE ~UNCHANGED <<outcome, eventVars>>
      BY <2>1, <2>3, <3>2 DEF WaitFindsEvent, CodeThrows, codeVars, Takes, Code
    <3> QED BY <3>1, <3>2
  <2>4. CASE WaitTimesOutAtOnce
    <3>1. /\ pc \in DOMAIN program /\ outcome' = [outcome EXCEPT ![pc] = Canceled]
          /\ UNCHANGED <<outstandingEvents, unprocessedEvents>>
      BY <2>4 DEF WaitTimesOutAtOnce, Code, Running, eventVars
    <3>2. ~Done(pc)
      BY <3>1
         DEF FullInv, WaitInv, ExecutorInv, ExecutorTypeOK, DeployTypeOK, WellFormed, CodeTypeOK
    <3>3. WaitsStay
      BY <1>1, <3>1, <3>2 DEF WaitsStay, Waits, FullInv, ExecutorInv, ExecutorTypeOK, DeployTypeOK
    <3> QED BY <2>1, <3>1, <3>3 DEF Quiet, QueuesShrink
  <2>5. CASE WaitForExternalEvent
    BY <2>1, <2>5 DEF WaitForExternalEvent, Queues, Code
  <2>6. CASE \/ CallActivity \/ CallSubOrchestrator \/ CreateTimer \/ SendEvent \/ IsPatched
             \/ Await \/ Complete \/ ContinueAsNew \/ CallWhenComplete \/ Return \/ Yield
             \/ EndOfHistory
    <3>1. UNCHANGED <<outcome, eventVars>>
      BY <2>6
         DEF CallActivity, CallSubOrchestrator, CreateTimer, SendEvent, IsPatched, Await,
             Complete, ContinueAsNew, CallWhenComplete, Return, Yield, EndOfHistory, Schedule,
             CodeThrows, codeVars
    <3> QED BY <2>2, <3>1 DEF eventVars
  <2> QED BY <1>10, <2>3, <2>4, <2>5, <2>6 DEF CodeStep
<1> QED BY <1>5, <1>6, <1>7, <1>8, <1>9, <1>10 DEF ExecutorStep, HandleEvent

-----------------------------------------------------------------------------
(* No wait starves *)

LEMMA FromType ==
  ASSUME ExecutorTypeOK, NEW e, From(e) \/ IsNext(e)
  PROVE  e \in EventRecords
<1>1. Given \in Seq(EventRecords) /\ eventsWhileSuspended \in Seq(EventRecords)
  BY GivenType DEF ExecutorTypeOK, SuspendTypeOK
<1>2. CASE IsNext(e)
  BY <1>1, <1>2, ElementOfSeq DEF IsNext
<1>3. CASE FromDeferred(e)
  BY <1>1, <1>3, HeadTailProperties DEF FromDeferred
<1> QED BY <1>2, <1>3 DEF From, FromList

\* The first buffered event of this name, in any case, if there is one.
LEMMA BufferedEventIs ==
  ASSUME EventTypeOK, NEW name
  PROVE  LET i == BufferedEvent(name)
         IN /\ i \in 0 .. Len(unprocessedEvents)
            /\ i # 0 => CaseFold[unprocessedEvents[i].name] = CaseFold[name]
            /\ \A j \in 1 .. Len(unprocessedEvents) :
                 CaseFold[unprocessedEvents[j].name] = CaseFold[name] => i # 0 /\ i <= j
<1> DEFINE I == {i \in 1 .. Len(unprocessedEvents) :
                   CaseFold[unprocessedEvents[i].name] = CaseFold[name]}
<1>1. BufferedEvent(name) = IF I # {} THEN Min(I) ELSE 0
  BY DEF BufferedEvent, SelectInSeq
<1>2. I # {} => Min(I) \in I /\ \A y \in I : Min(I) <= y
  <2> I \in SUBSET Nat
    OBVIOUS
  <2> HIDE DEF I
  <2> QED BY MinInSet
<1>3. Len(unprocessedEvents) \in Nat
  BY DEF EventTypeOK
<1>4. CASE I = {}
  BY <1>1, <1>3, <1>4
<1>5. CASE I # {}
  <2>1. BufferedEvent(name) \in I /\ \A y \in I : BufferedEvent(name) <= y
    BY <1>1, <1>2, <1>5
  <2>2. /\ BufferedEvent(name) \in 1 .. Len(unprocessedEvents)
        /\ CaseFold[unprocessedEvents[BufferedEvent(name)].name] = CaseFold[name]
    BY <2>1
  <2>3. ASSUME NEW j \in 1 .. Len(unprocessedEvents),
               CaseFold[unprocessedEvents[j].name] = CaseFold[name]
        PROVE  BufferedEvent(name) <= j
    <3>1. j \in I
      BY <2>3
    <3> QED BY <2>1, <3>1
  <2> HIDE DEF I
  <2>4. BufferedEvent(name) # 0 /\ BufferedEvent(name) \in 0 .. Len(unprocessedEvents)
    BY <1>3, <2>2
  <2> QED BY <2>2, <2>3, <2>4
<1> QED BY <1>4, <1>5

\* Only raised events are buffered, and none for whose exact name a wait is queued: an event is
\* buffered when the queue is empty, and a wait is queued when the buffer has nothing for it.
StarveInv ==
  \A i \in DOMAIN unprocessedEvents :
    /\ unprocessedEvents[i].type = "EventRaised"
    /\ outstandingEvents[unprocessedEvents[i].name] = <<>>

\* What is in the buffer after an element is taken out was in it before.
LEMMA StillBuffered ==
  ASSUME NEW q \in Seq(EventRecords), NEW k \in 1 .. Len(q)
  PROVE  \A i \in DOMAIN RemoveAt(q, k) : \E j \in DOMAIN q : RemoveAt(q, k)[i] = q[j]
BY RemoveAtWithout DEF Without

LEMMA StarveKept ==
  ASSUME FullInv, IterInv, StarveInv, ExecutorStep
  PROVE  StarveInv'
<1>1. /\ ExecutorTypeOK /\ EventTypeOK
      /\ outstandingEvents \in [EventNames -> Seq(Slots)]
      /\ unprocessedEvents \in Seq(EventRecords)
      /\ \A i \in DOMAIN unprocessedEvents : unprocessedEvents[i] \in EventRecords
  BY ElementOfSeq DEF FullInv, ExecutorInv, ExecutorTypeOK, EventTypeOK
<1>2. \A e \in EventRecords : e.type = "EventRaised" => e.name \in EventNames
  BY DEF EventRecords
<1>3. ASSUME QueuesShrink, UNCHANGED unprocessedEvents
      PROVE  StarveInv'
  <2>1. ASSUME NEW n \in EventNames, outstandingEvents[n] = <<>>
        PROVE  outstandingEvents'[n] = <<>>
    <3> DEFINE q == outstandingEvents[n]
    <3>1. PICK slot : outstandingEvents'[n] \in {q, RemoveFirst(q, slot)}
      BY <1>3 DEF QueuesShrink
    <3>2. q \in Seq(Slots) /\ Len(q) = 0
      BY <1>1, <2>1
    <3> HIDE DEF q
    <3>3. RemoveFirst(q, slot) = q
      <4>1. \/ RemoveFirst(q, slot) = q
            \/ \E i \in 1 .. Len(q) : RemoveFirst(q, slot) = RemoveAt(q, i)
        BY <3>2, RemoveFirstSeq, Zenon
      <4> QED BY <3>2, <4>1
    <3> QED BY <2>1, <3>1, <3>3 DEF q
  <2> QED BY <1>1, <1>2, <1>3, <2>1 DEF StarveInv
<1>4. CASE Quiet
  BY <1>3, <1>4 DEF Quiet
<1>5. CASE Defers
  BY <1>5 DEF Defers, StarveInv
<1>6. CASE Buffers
  <2>1. PICK e : /\ From(e) /\ e.type = "EventRaised" /\ outstandingEvents[e.name] = <<>>
                 /\ unprocessedEvents' = Append(unprocessedEvents, e)
    BY <1>6 DEF Buffers
  <2>2. e \in EventRecords /\ UNCHANGED outstandingEvents
    BY <1>1, <1>6, <2>1, FromType DEF Buffers
  <2>3. \A i \in DOMAIN unprocessedEvents' :
          unprocessedEvents'[i] = e \/ \E j \in DOMAIN unprocessedEvents :
                                         unprocessedEvents'[i] = unprocessedEvents[j]
    BY <1>1, <2>1, <2>2, AppendProperties
  <2> QED BY <2>1, <2>2, <2>3 DEF StarveInv
<1>7. CASE Serves
  <2>1. PICK e : /\ From(e) /\ e.type = "EventRaised" /\ outstandingEvents[e.name] # <<>>
                 /\ outstandingEvents' = [outstandingEvents EXCEPT ![e.name] = Tail(@)]
    BY <1>7 DEF Serves
  <2>2. e.name \in EventNames /\ UNCHANGED unprocessedEvents
    BY <1>1, <1>2, <1>7, <2>1, FromType DEF Serves
  <2> QED BY <1>1, <1>2, <2>1, <2>2 DEF StarveInv
<1>8. CASE Takes
  <2> DEFINE k == BufferedEvent(program[pc].name)
  <2>1. /\ k # 0 /\ unprocessedEvents' = RemoveAt(unprocessedEvents, k)
        /\ UNCHANGED outstandingEvents
    BY <1>8 DEF Takes
  <2>2. k \in 1 .. Len(unprocessedEvents)
    <3>1. k \in 0 .. Len(unprocessedEvents)
      BY <1>1, BufferedEventIs
    <3> HIDE DEF k
    <3> QED BY <1>1, <2>1, <3>1
  <2> HIDE DEF k
  <2> QED BY <1>1, <2>1, <2>2, StillBuffered DEF StarveInv
<1>9. CASE Queues
  <2> DEFINE n == program[pc].name
  <2>1. /\ outstandingEvents' = [outstandingEvents EXCEPT ![n] = Append(@, pc)]
        /\ BufferedEvent(n) = 0 /\ UNCHANGED unprocessedEvents
    BY <1>9 DEF Queues
  <2>2. \A j \in 1 .. Len(unprocessedEvents) : unprocessedEvents[j].name # n
    BY <1>1, <2>1, BufferedEventIs
  <2> HIDE DEF n
  <2>3. \A j \in DOMAIN unprocessedEvents : unprocessedEvents[j].name # n
    BY <1>1, <2>2
  <2> QED BY <1>1, <1>2, <2>1, <2>3 DEF StarveInv
<1> QED BY <1>4, <1>5, <1>6, <1>7, <1>8, <1>9, EventFlow

-----------------------------------------------------------------------------
(* Every event in one place *)

\* The positions of the raised events of a sequence of events.
RaisedIn(q) == {i \in DOMAIN q : q[i].type = "EventRaised"}
Distinct(q) == \A i, j \in RaisedIn(q) : q[i].val = q[j].val => i = j

\* The raised events among the first n of the turn.
ReadEvents(n) == {Given[i] : i \in {j \in RaisedIn(Given) : j <= n}}

\* The task of a wait has got something.
Got(o) == o.kind \in {"ok", "failed"}

\* The raised events read so far, but for those in hand, are in the buffer b, among the deferred
\* events d, or in the outcome of a wait: each of them in one place, and nothing else.
Placed(b, d, out, n, hand) ==
  LET read == ReadEvents(n)
      isRaised(e) == e.type = "EventRaised"
  IN /\ hand \subseteq read
     /\ \A k \in DOMAIN b : b[k] \in read
     /\ \A k \in DOMAIN d : isRaised(d[k]) => d[k] \in read
     /\ \A s \in Waits : Got(out[s]) => \E e \in read : out[s] = Deserialize(e.val)
     /\ \A k, l \in DOMAIN b : b[k] = b[l] => k = l
     /\ \A k, l \in DOMAIN d : isRaised(d[k]) /\ d[k] = d[l] => k = l
     /\ \A s, t \in Waits : Got(out[s]) /\ out[s] = out[t] => s = t
     /\ \A k \in DOMAIN b : \A l \in DOMAIN d : b[k] # d[l]
     /\ \A k \in DOMAIN b : \A s \in Waits : out[s] # Deserialize(b[k].val)
     /\ \A l \in DOMAIN d : \A s \in Waits : isRaised(d[l]) => out[s] # Deserialize(d[l].val)
     /\ \A e \in hand : /\ \A k \in DOMAIN b : b[k] # e
                        /\ \A l \in DOMAIN d : d[l] # e
                        /\ \A s \in Waits : out[s] # Deserialize(e.val)
     /\ \A e \in read : \/ e \in hand
                        \/ \E k \in DOMAIN b : b[k] = e
                        \/ \E l \in DOMAIN d : d[l] = e
                        \/ \E s \in Waits : out[s] = Deserialize(e.val)

PlacesInv == Placed(unprocessedEvents, eventsWhileSuspended, outcome, ReadCount, {})

\* A result tells from which event it is.
LEMMA DeserializeTells ==
  ASSUME NEW v, NEW w
  PROVE  /\ Got(Deserialize(v)) /\ Deserialize(v) # Canceled /\ Deserialize(v) # Pending
         /\ Deserialize(v) = Deserialize(w) => v = w
BY DEF Deserialize, Got, Failed, Result, Canceled, Pending

LEMMA ReadEventsAre ==
  ASSUME IterTypeOK, Distinct(Given), NEW n
  PROVE  /\ \A e \in ReadEvents(n) : e \in EventRecords /\ e.type = "EventRaised"
         /\ \A e, f \in ReadEvents(n) : e.val = f.val => e = f
<1>1. Given \in Seq(EventRecords)
  BY GivenType
<1>2. \A i \in DOMAIN Given : Given[i] \in EventRecords
  BY <1>1, ElementOfSeq
<1> QED BY <1>2 DEF ReadEvents, RaisedIn, Distinct

\* The next event is none of those read before.
LEMMA OneMoreRead ==
  ASSUME IterTypeOK, Distinct(Given), NEW n \in Nat, n + 1 \in DOMAIN Given
  PROVE  LET e == Given[n + 1]
             more == IF e.type = "EventRaised" THEN {e} ELSE {}
         IN /\ ReadEvents(n + 1) = ReadEvents(n) \union more
            /\ e.type = "EventRaised" => \A f \in ReadEvents(n) : f.val # e.val
<1> DEFINE e == Given[n + 1]
<1>1. DOMAIN Given \subseteq Nat
  <2>1. Given \in Seq(EventRecords)
    BY GivenType
  <2> QED BY <2>1
<1>2. \A j \in DOMAIN Given : j <= n + 1 <=> j <= n \/ j = n + 1
  BY <1>1
<1>3. CASE e.type = "EventRaised"
  <2>1. {j \in RaisedIn(Given) : j <= n + 1} = {j \in RaisedIn(Given) : j <= n} \union {n + 1}
    BY <1>2, <1>3 DEF RaisedIn
  <2>2. ReadEvents(n + 1) = ReadEvents(n) \union {e}
    BY <2>1 DEF ReadEvents
  <2>3. ASSUME NEW f \in ReadEvents(n)
        PROVE  f.val # e.val
    <3>1. PICK j \in RaisedIn(Given) : j <= n /\ f = Given[j]
      BY DEF ReadEvents
    <3>2. j # n + 1 /\ n + 1 \in RaisedIn(Given)
      BY <1>1, <1>3, <3>1 DEF RaisedIn
    <3> QED BY <3>1, <3>2 DEF Distinct
  <2> QED BY <1>3, <2>2, <2>3
<1>4. CASE e.type # "EventRaised"
  <2>1. {j \in RaisedIn(Given) : j <= n + 1} = {j \in RaisedIn(Given) : j <= n}
    BY <1>2, <1>4 DEF RaisedIn
  <2> QED BY <1>4, <2>1 DEF ReadEvents
<1> QED BY <1>3, <1>4

\* An event is taken in hand: the next one, the first of those deferred, one of the buffer.
LEMMA TakeNext ==
  ASSUME IterTypeOK, Distinct(Given), NEW n \in Nat, n + 1 \in DOMAIN Given,
         NEW b, NEW d, NEW out, Placed(b, d, out, n, {})
  PROVE  LET e == Given[n + 1]
         IN Placed(b, d, out, n + 1, IF e.type = "EventRaised" THEN {e} ELSE {})
<1> DEFINE e == Given[n + 1]
           more == IF e.type = "EventRaised" THEN {e} ELSE {}
<1>1. /\ ReadEvents(n + 1) = ReadEvents(n) \union more
      /\ e.type = "EventRaised" => \A f \in ReadEvents(n) : f.val # e.val
  BY OneMoreRead
<1>2. CASE e.type # "EventRaised"
  BY <1>1, <1>2 DEF Placed
<1>3. CASE e.type = "EventRaised"
  <2>1. /\ ReadEvents(n + 1) = ReadEvents(n) \union {e} /\ more = {e}
        /\ \A f \in ReadEvents(n) : f.val # e.val
    BY <1>1, <1>3
  <2> HIDE DEF e, more
  <2>2. \A k \in DOMAIN b : b[k] # e
    BY <2>1 DEF Placed
  <2>3. \A l \in DOMAIN d : d[l] # e
    BY <1>3, <2>1 DEF Placed
  <2>4. \A s \in Waits : out[s] # Deserialize(e.val)
    BY <2>1, DeserializeTells DEF Placed
  <2> QED BY <2>1, <2>2, <2>3, <2>4 DEF Placed, e, more
<1> QED BY <1>2, <1>3

LEMMA TakeDeferred ==
  ASSUME NEW n, NEW b, NEW d \in Seq(EventRecords), NEW out, Placed(b, d, out, n, {}), d # <<>>
  PROVE  LET e == Head(d)
         IN Placed(b, Tail(d), out, n, IF e.type = "EventRaised" THEN {e} ELSE {})
<1> DEFINE e == Head(d)
           r == Tail(d)
<1>1. /\ e = d[1] /\ 1 \in DOMAIN d
      /\ \A i \in DOMAIN r : i + 1 \in DOMAIN d /\ r[i] = d[i + 1] /\ i + 1 # 1
      /\ \A i \in DOMAIN d : i = 1 \/ (i - 1 \in DOMAIN r /\ r[i - 1] = d[i])
      /\ DOMAIN r \subseteq Int
  <2>1. /\ Len(d) \in Nat /\ Len(d) # 0 /\ DOMAIN d = 1 .. Len(d)
        /\ r \in Seq(EventRecords) /\ Len(r) = Len(d) - 1
        /\ \A i \in 1 .. Len(r) : r[i] = d[i + 1]
        /\ e = d[1]
    BY HeadTailProperties, EmptySeq
  <2> HIDE DEF r, e
  <2>2. DOMAIN r = 1 .. Len(d) - 1
    BY <2>1
  <2> QED BY <2>1, <2>2
<1> HIDE DEF r, e
<1>2. \A i \in DOMAIN r : \E j \in DOMAIN d : r[i] = d[j] /\ j # 1 /\ i = j - 1
  BY <1>1
<1>3. \A i \in DOMAIN r : e.type = "EventRaised" => r[i] # e
  BY <1>1, <1>2 DEF Placed
<1>4. ASSUME NEW k \in DOMAIN r, NEW l \in DOMAIN r, r[k].type = "EventRaised", r[k] = r[l]
      PROVE  k = l
  <2>1. /\ k \in Int /\ l \in Int /\ k + 1 \in DOMAIN d /\ l + 1 \in DOMAIN d
        /\ d[k + 1].type = "EventRaised" /\ d[k + 1] = d[l + 1]
    BY <1>1, <1>4
  <2>2. k + 1 = l + 1
    BY <2>1 DEF Placed
  <2> QED BY <2>1, <2>2
<1>5. ASSUME NEW f \in ReadEvents(n), NEW l \in DOMAIN d, d[l] = f, f.type = "EventRaised"
      PROVE  f = e \/ \E i \in DOMAIN r : r[i] = f
  BY <1>1, <1>5
<1>6. \A f \in ReadEvents(n) : f.type = "EventRaised"
  BY DEF ReadEvents, RaisedIn
<1>7. CASE e.type = "EventRaised"
  <2>1. \A k \in DOMAIN b : b[k] # e
    BY <1>1 DEF Placed
  <2>2. \A s \in Waits : out[s] # Deserialize(e.val)
    BY <1>1, <1>7 DEF Placed
  <2>3. e \in ReadEvents(n)
    BY <1>1, <1>7 DEF Placed
  <2> QED BY <1>2, <1>3, <1>4, <1>5, <1>6, <1>7, <2>1, <2>2, <2>3 DEF Placed, r, e
<1>8. CASE e.type # "EventRaised"
  BY <1>2, <1>4, <1>5, <1>6, <1>8 DEF Placed, r, e
<1> QED BY <1>7, <1>8 DEF r, e

LEMMA TakeBuffered ==
  ASSUME IterTypeOK, Distinct(Given),
         NEW n, NEW b \in Seq(EventRecords), NEW d, NEW out, Placed(b, d, out, n, {}),
         NEW k \in 1 .. Len(b)
  PROVE  Placed(RemoveAt(b, k), d, out, n, {b[k]})
<1> DEFINE r == RemoveAt(b, k)
<1>1. /\ k \in DOMAIN b
      /\ \A i \in DOMAIN r : \E j \in DOMAIN b :
           r[i] = b[j] /\ j # k /\ i = (IF j < k THEN j ELSE j - 1)
      /\ \A j \in DOMAIN b : j = k \/ \E i \in DOMAIN r : r[i] = b[j]
  <2>1. /\ Len(b) \in Nat /\ r \in Seq(EventRecords) /\ Len(r) = Len(b) - 1
        /\ \A j \in 1 .. Len(b) - 1 : r[j] = IF j < k THEN b[j] ELSE b[j + 1]
        /\ DOMAIN b = 1 .. Len(b)
    BY RemoveAtSeq
  <2>2. \A i \in DOMAIN r : \E j \in DOMAIN b :
           r[i] = b[j] /\ j # k /\ i = (IF j < k THEN j ELSE j - 1)
    BY RemoveAtWithout DEF Without
  <2> HIDE DEF r
  <2>3. ASSUME NEW j \in DOMAIN b, j # k
        PROVE  \E i \in DOMAIN r : r[i] = b[j]
    <3>1. CASE j < k
      <4>1. j \in DOMAIN r /\ r[j] = b[j]
        BY <2>1, <3>1
      <4> QED BY <4>1
    <3>2. CASE j > k
      <4>1. j - 1 \in DOMAIN r /\ r[j - 1] = b[j]
        BY <2>1, <3>2
      <4> QED BY <4>1
    <3> QED BY <2>1, <2>3, <3>1, <3>2
  <2> QED BY <2>1, <2>2, <2>3
<1> HIDE DEF r
<1>2. \A i, j \in DOMAIN r : r[i] = r[j] => i = j
  BY <1>1 DEF Placed
<1>3. \A i \in DOMAIN r : r[i] # b[k]
  BY <1>1 DEF Placed
<1>4. b[k] \in ReadEvents(n)
  BY <1>1 DEF Placed
<1> QED BY <1>1, <1>2, <1>3, <1>4 DEF Placed, r

\* The event in hand is put away: among the deferred, into the buffer, into a wait.
LEMMA PutDeferred ==
  ASSUME NEW n, NEW b, NEW d \in Seq(EventRecords), NEW out, NEW e \in EventRecords,
         Placed(b, d, out, n, IF e.type = "EventRaised" THEN {e} ELSE {})
  PROVE  Placed(b, Append(d, e), out, n, {})
<1> DEFINE r == Append(d, e)
           last == Len(d) + 1
<1>1. /\ \A i \in DOMAIN d : i \in DOMAIN r /\ r[i] = d[i] /\ i # last
      /\ \A i \in DOMAIN r : i = last \/ i \in DOMAIN d
      /\ last \in DOMAIN r /\ r[last] = e
  <2>1. /\ Len(d) \in Nat /\ DOMAIN d = 1 .. Len(d) /\ r \in Seq(EventRecords)
        /\ Len(r) = Len(d) + 1 /\ DOMAIN r = 1 .. Len(d) + 1
        /\ \A i \in 1 .. Len(d) : r[i] = d[i]
        /\ r[Len(d) + 1] = e
    BY AppendProperties
  <2> HIDE DEF r
  <2> QED BY <2>1
<1> HIDE DEF r, last
<1>2. \A f \in ReadEvents(n) : f.type = "EventRaised"
  BY DEF ReadEvents, RaisedIn
<1>3. CASE e.type = "EventRaised"
  <2>1. \A k, l \in DOMAIN r : r[k].type = "EventRaised" /\ r[k] = r[l] => k = l
    BY <1>1, <1>3 DEF Placed
  <2> QED BY <1>1, <1>3, <2>1 DEF Placed, r
<1>4. CASE e.type # "EventRaised"
  <2>1. \A k, l \in DOMAIN r : r[k].type = "EventRaised" /\ r[k] = r[l] => k = l
    BY <1>1, <1>4 DEF Placed
  <2>2. \A k \in DOMAIN b : b[k] # e
    BY <1>2, <1>4 DEF Placed
  <2> QED BY <1>1, <1>2, <1>4, <2>1, <2>2 DEF Placed, r
<1> QED BY <1>3, <1>4

LEMMA PutBuffered ==
  ASSUME NEW n, NEW b \in Seq(EventRecords), NEW d, NEW out, NEW e \in EventRecords,
         Placed(b, d, out, n, {e})
  PROVE  Placed(Append(b, e), d, out, n, {})
<1> DEFINE r == Append(b, e)
           last == Len(b) + 1
<1>1. /\ \A i \in DOMAIN b : i \in DOMAIN r /\ r[i] = b[i] /\ i # last
      /\ \A i \in DOMAIN r : i = last \/ i \in DOMAIN b
      /\ last \in DOMAIN r /\ r[last] = e
  <2>1. /\ Len(b) \in Nat /\ DOMAIN b = 1 .. Len(b) /\ r \in Seq(EventRecords)
        /\ Len(r) = Len(b) + 1 /\ DOMAIN r = 1 .. Len(b) + 1
        /\ \A i \in 1 .. Len(b) : r[i] = b[i]
        /\ r[Len(b) + 1] = e
    BY AppendProperties
  <2> HIDE DEF r
  <2> QED BY <2>1
<1> HIDE DEF r, last
<1>2. \A k, l \in DOMAIN r : r[k] = r[l] => k = l
  BY <1>1 DEF Placed
<1> QED BY <1>1, <1>2 DEF Placed, r

LEMMA PutIntoWait ==
  ASSUME IterTypeOK, Distinct(Given), Waits \subseteq Slots,
         NEW n, NEW b, NEW d, NEW out \in [Slots -> Outcomes], NEW e,
         Placed(b, d, out, n, {e}), NEW s \in Waits, ~Got(out[s])
  PROVE  Placed(b, d, [out EXCEPT ![s] = Deserialize(e.val)], n, {})
<1> DEFINE r == [out EXCEPT ![s] = Deserialize(e.val)]
<1>1. /\ r[s] = Deserialize(e.val)
      /\ \A t \in Waits : t # s => r[t] = out[t]
  OBVIOUS
<1> HIDE DEF r
<1>2. \A f \in ReadEvents(n) : Deserialize(f.val) = Deserialize(e.val) => f = e
  BY ReadEventsAre, DeserializeTells DEF Placed
<1>3. \A v : Got(Deserialize(v))
  BY DeserializeTells
<1>4. e \in ReadEvents(n)
  BY DEF Placed
<1>5. \A t \in Waits : Got(r[t]) => \E f \in ReadEvents(n) : r[t] = Deserialize(f.val)
  BY <1>1, <1>4 DEF Placed
<1>6. \A t, u \in Waits : Got(r[t]) /\ r[t] = r[u] => t = u
  BY <1>1 DEF Placed
<1>7. \A k \in DOMAIN b : \A t \in Waits : r[t] # Deserialize(b[k].val)
  BY <1>1, <1>2 DEF Placed
<1>8. \A l \in DOMAIN d : \A t \in Waits :
        d[l].type = "EventRaised" => r[t] # Deserialize(d[l].val)
  BY <1>1, <1>2 DEF Placed
<1>9. \A f \in ReadEvents(n) : \/ \E k \in DOMAIN b : b[k] = f
                               \/ \E l \in DOMAIN d : d[l] = f
                               \/ \E t \in Waits : r[t] = Deserialize(f.val)
  BY <1>1, <1>3 DEF Placed
<1> QED BY <1>5, <1>6, <1>7, <1>8, <1>9 DEF Placed, r

\* Waits that are cancelled had got nothing.
LEMMA LeaveWaits ==
  ASSUME NEW n, NEW b, NEW d, NEW out, NEW r, Placed(b, d, out, n, {}),
         \A s \in Waits : r[s] = out[s] \/ (~Got(out[s]) /\ ~Got(r[s]))
  PROVE  Placed(b, d, r, n, {})
<1>1. \A v : Got(Deserialize(v))
  BY DeserializeTells
<1>2. \A s \in Waits : \A v : r[s] = Deserialize(v) <=> out[s] = Deserialize(v)
  BY <1>1
<1>3. \A s \in Waits : Got(r[s]) => r[s] = out[s]
  OBVIOUS
<1> QED BY <1>2, <1>3 DEF Placed

\* Only waits of the program are queued.
QueueInv ==
  \A n \in EventNames : \A i \in DOMAIN outstandingEvents[n] : outstandingEvents[n][i] \in Waits

\* What is left of a sequence.
LEMMA LeftOf ==
  ASSUME NEW S, NEW q \in Seq(S)
  PROVE  /\ q # <<>> => /\ Tail(q) \in Seq(S) /\ Head(q) = q[1] /\ 1 \in DOMAIN q
                        /\ \A i \in DOMAIN Tail(q) : i + 1 \in DOMAIN q /\ Tail(q)[i] = q[i + 1]
         /\ \A e : /\ RemoveFirst(q, e) \in Seq(S)
                   /\ \A i \in DOMAIN RemoveFirst(q, e) :
                        \E j \in DOMAIN q : RemoveFirst(q, e)[i] = q[j] /\ i <= j
                   /\ \A i, k \in DOMAIN RemoveFirst(q, e) : i < k =>
                        \E j, l \in DOMAIN q :
                          j < l /\ RemoveFirst(q, e)[i] = q[j] /\ RemoveFirst(q, e)[k] = q[l]
<1>1. Len(q) \in Nat /\ DOMAIN q = 1 .. Len(q)
  OBVIOUS
<1>2. ASSUME q # <<>>
      PROVE  /\ Tail(q) \in Seq(S) /\ Head(q) = q[1] /\ 1 \in DOMAIN q
             /\ \A i \in DOMAIN Tail(q) : i + 1 \in DOMAIN q /\ Tail(q)[i] = q[i + 1]
  <2>1. /\ Tail(q) \in Seq(S) /\ Len(Tail(q)) = Len(q) - 1
        /\ \A i \in 1 .. Len(Tail(q)) : Tail(q)[i] = q[i + 1]
        /\ Head(q) = q[1] /\ Len(q) # 0
    BY <1>2, HeadTailProperties, EmptySeq
  <2>2. DOMAIN Tail(q) = 1 .. Len(q) - 1
    BY <2>1
  <2> QED BY <1>1, <2>1, <2>2
<1>3. ASSUME NEW e
      PROVE  /\ RemoveFirst(q, e) \in Seq(S)
             /\ \A i \in DOMAIN RemoveFirst(q, e) :
                  \E j \in DOMAIN q : RemoveFirst(q, e)[i] = q[j] /\ i <= j
             /\ \A i, k \in DOMAIN RemoveFirst(q, e) : i < k =>
                  \E j, l \in DOMAIN q :
                    j < l /\ RemoveFirst(q, e)[i] = q[j] /\ RemoveFirst(q, e)[k] = q[l]
  <2> DEFINE r == RemoveFirst(q, e)
  <2>1. r \in Seq(S) /\ (r = q \/ \E i \in 1 .. Len(q) : r = RemoveAt(q, i))
    BY RemoveFirstSeq
  <2>2. CASE r = q
    <3>1. \A i \in DOMAIN q : i <= i
      BY <1>1
    <3> HIDE DEF r
    <3>2. /\ \A i \in DOMAIN r : \E j \in DOMAIN q : r[i] = q[j] /\ i <= j
          /\ \A i, k \in DOMAIN r : i < k =>
               \E j, l \in DOMAIN q : j < l /\ r[i] = q[j] /\ r[k] = q[l]
      BY <2>2, <3>1
    <3> QED BY <2>1, <3>2 DEF r
  <2>3. CASE r # q
    <3>1. PICK m \in 1 .. Len(q) : r = RemoveAt(q, m)
      BY <2>1, <2>3
    <3>2. /\ Len(r) = Len(q) - 1
          /\ \A j \in 1 .. Len(q) - 1 : r[j] = IF j < m THEN q[j] ELSE q[j + 1]
      <4> HIDE DEF r
      <4> QED BY <3>1, RemoveAtSeq
    <3> DEFINE f == [i \in DOMAIN r |-> IF i < m THEN i ELSE i + 1]
    <3> HIDE DEF r
    <3>3. DOMAIN r = 1 .. Len(q) - 1
      BY <2>1, <3>2
    <3>4. \A i \in DOMAIN r : f[i] \in DOMAIN q /\ i <= f[i] /\ r[i] = q[f[i]]
      BY <1>1, <3>2, <3>3
    <3>5. \A i, k \in DOMAIN r : i < k => f[i] < f[k]
      BY <1>1, <3>3
    <3> HIDE DEF f
    <3> QED BY <2>1, <3>4, <3>5 DEF r
  <2> QED BY <2>2, <2>3
<1> QED BY <1>2, <1>3

LEMMA QueueKept ==
  ASSUME FullInv, IterInv, QueueInv, ExecutorStep
  PROVE  QueueInv'
<1>1. /\ outstandingEvents \in [EventNames -> Seq(Slots)] /\ Waits' = Waits /\ ExecutorTypeOK
  BY ControlStep
     DEF FullInv, ExecutorInv, ExecutorTypeOK, EventTypeOK, deployVars, Waits, IsWait
<1>2. ASSUME UNCHANGED outstandingEvents
      PROVE  QueueInv'
  BY <1>1, <1>2 DEF QueueInv
<1>3. CASE Quiet
  <2>1. ASSUME NEW n \in EventNames, NEW i \in DOMAIN outstandingEvents'[n]
        PROVE  \E j \in DOMAIN outstandingEvents[n] :
                 outstandingEvents'[n][i] = outstandingEvents[n][j]
    <3>1. outstandingEvents[n] \in Seq(Slots)
      BY <1>1
    <3> QED BY <1>3, <2>1, <3>1, LeftOf DEF Quiet, QueuesShrink
  <2> QED BY <1>1, <2>1 DEF QueueInv
<1>4. CASE Serves
  <2>1. PICK e : /\ From(e) /\ e.type = "EventRaised" /\ outstandingEvents[e.name] # <<>>
                 /\ outstandingEvents' = [outstandingEvents EXCEPT ![e.name] = Tail(@)]
    BY <1>4 DEF Serves
  <2>2. e.name \in EventNames
    BY <1>1, <2>1, FromType DEF EventRecords
  <2>3. \A i \in DOMAIN Tail(outstandingEvents[e.name]) :
          \E j \in DOMAIN outstandingEvents[e.name] :
            Tail(outstandingEvents[e.name])[i] = outstandingEvents[e.name][j]
    <3>1. outstandingEvents[e.name] \in Seq(Slots)
      BY <1>1, <2>2
    <3> QED BY <2>1, <3>1, LeftOf
  <2> QED BY <1>1, <2>1, <2>2, <2>3 DEF QueueInv
<1>5. CASE Queues
  <2> DEFINE n == program[pc].name
             q == outstandingEvents[n]
  <2>1. /\ pc \in Waits /\ pc \in Slots /\ n \in EventNames
        /\ outstandingEvents' = [outstandingEvents EXCEPT ![n] = Append(@, pc)]
    BY <1>1, <1>5
       DEF Queues, Running, Waits, IsWait, ExecutorTypeOK, DeployTypeOK, WellFormed
  <2> HIDE DEF n
  <2>2. \A i \in DOMAIN Append(q, pc) :
          Append(q, pc)[i] = pc \/ \E j \in DOMAIN q : Append(q, pc)[i] = q[j]
    <3>1. q \in Seq(Slots)
      BY <1>1, <2>1
    <3> HIDE DEF q
    <3> QED BY <2>1, <3>1, AppendProperties
  <2> QED BY <1>1, <2>1, <2>2 DEF QueueInv
<1> QED BY <1>2, <1>3, <1>4, <1>5, EventFlow DEF Defers, Buffers, Takes

\* The first of a queue is a wait of this name that has got nothing yet.
LEMMA HeadWaits ==
  ASSUME FullInv, QueueInv, NEW n \in EventNames, outstandingEvents[n] # <<>>
  PROVE  LET s == Head(outstandingEvents[n])
         IN /\ s \in Waits /\ s \in Slots /\ ~Done(s) /\ program[s].name = n /\ s < pc
            /\ s = outstandingEvents[n][1] /\ 1 \in DOMAIN outstandingEvents[n]
<1>1. outstandingEvents[n] \in Seq(Slots)
  BY DEF FullInv, ExecutorInv, ExecutorTypeOK, EventTypeOK
<1>2. /\ Head(outstandingEvents[n]) = outstandingEvents[n][1]
      /\ 1 \in DOMAIN outstandingEvents[n] /\ outstandingEvents[n][1] \in Slots
  BY <1>1, LeftOf, ElementOfSeq
<1> QED BY <1>2 DEF QueueInv, FullInv, WaitInv, NobodyWaitsForTheDone

\* The outcome of a wait that is not done is no result.
LEMMA NotGot ==
  ASSUME CodeTypeOK, NEW s \in Slots
  PROVE  ~Done(s) => ~Got(outcome[s])
BY DEF CodeTypeOK, Done, Got

LEMMA PlacesKept ==
  ASSUME FullInv, IterInv, QueueInv, Distinct(Given), PlacesInv, ExecutorStep
  PROVE  PlacesInv'
<1> DEFINE b == unprocessedEvents
           d == eventsWhileSuspended
           more(e) == IF e.type = "EventRaised" THEN {e} ELSE {}
<1>1. /\ ExecutorTypeOK /\ IterTypeOK /\ CodeTypeOK /\ Waits \subseteq Slots
      /\ b \in Seq(EventRecords) /\ d \in Seq(EventRecords)
      /\ outcome \in [Slots -> Outcomes] /\ ReadCount \in Nat
      /\ Placed(b, d, outcome, ReadCount, {})
  BY GivenType
     DEF FullInv, ExecutorInv, ExecutorTypeOK, SuspendTypeOK, EventTypeOK, CodeTypeOK, Waits,
         DeployTypeOK, PlacesInv
<1>2. Waits' = Waits /\ Given' = Given
  BY ControlStep DEF Waits, IsWait, Given, deployVars
<1>3. SUFFICES Placed(b', d', outcome', ReadCount', {})
  BY <1>2 DEF PlacesInv, Placed, ReadEvents
<1>4. ASSUME NEW e, From(e)
      PROVE  e \in EventRecords /\ Placed(b, d', outcome, ReadCount', more(e))
  <2>1. e \in EventRecords
    BY <1>1, <1>4, FromType
  <2>2. CASE FromList(e)
    BY <1>1, <2>1, <2>2, TakeNext DEF FromList, IsNext
  <2>3. CASE FromDeferred(e)
    BY <1>1, <2>1, <2>3, TakeDeferred DEF FromDeferred
  <2> QED BY <1>4, <2>1, <2>2, <2>3 DEF From
<1>5. ASSUME NEW e, From(e), e.type = "EventRaised"
      PROVE  e \in EventRecords /\ Placed(b, d', outcome, ReadCount', {e})
  BY <1>4, <1>5
<1>6. CASE Quiet
  <2>1. Placed(b, d', outcome, ReadCount', {})
    BY <1>1, <1>4, <1>6 DEF Quiet, FromNowhere
  <2>2. \A s \in Waits : outcome'[s] = outcome[s] \/ (~Got(outcome[s]) /\ ~Got(outcome'[s]))
    <3>1. ~Got(Canceled)
      BY DEF Got, Canceled
    <3> QED BY <1>1, <1>6, <3>1, NotGot DEF Quiet, WaitsStay
  <2>3. Placed(b, d', outcome', ReadCount', {})
    BY <2>1, <2>2, LeaveWaits
  <2> QED BY <1>6, <2>3 DEF Quiet
<1>7. CASE Defers
  <2>1. PICK e : IsNext(e) /\ d' = Append(d, e)
    BY <1>7 DEF Defers
  <2>2. Placed(b, d, outcome, ReadCount', more(e)) /\ e \in EventRecords
    BY <1>1, <2>1, FromType, TakeNext DEF IsNext
  <2>3. Placed(b, Append(d, e), outcome, ReadCount', {})
    BY <1>1, <2>2, PutDeferred
  <2> QED BY <1>7, <2>1, <2>3 DEF Defers
<1>8. CASE Buffers
  <2>1. PICK e : From(e) /\ e.type = "EventRaised" /\ b' = Append(b, e)
    BY <1>8 DEF Buffers
  <2>2. Placed(Append(b, e), d', outcome, ReadCount', {})
    BY <1>1, <1>5, <2>1, PutBuffered
  <2> QED BY <1>8, <2>1, <2>2 DEF Buffers
<1>9. CASE Serves
  <2>1. PICK e : /\ From(e) /\ e.type = "EventRaised" /\ outstandingEvents[e.name] # <<>>
                 /\ outcome' = [outcome EXCEPT ![Head(outstandingEvents[e.name])] =
                                                 Deserialize(e.val)]
    BY <1>9 DEF Serves
  <2>2. e.name \in EventNames /\ Placed(b, d', outcome, ReadCount', {e})
    BY <1>5, <2>1 DEF EventRecords
  <2> DEFINE s == Head(outstandingEvents[e.name])
  <2>3. s \in Waits /\ ~Got(outcome[s])
    BY <1>1, <2>1, <2>2, HeadWaits, NotGot
  <2> HIDE DEF s
  <2>4. Placed(b, d', [outcome EXCEPT ![s] = Deserialize(e.val)], ReadCount', {})
    BY <1>1, <2>2, <2>3, PutIntoWait
  <2> QED BY <1>9, <2>1, <2>4 DEF Serves, s
<1>10. CASE Takes
  <2> DEFINE k == BufferedEvent(program[pc].name)
  <2>1. /\ k # 0 /\ b[k].val # BadPayload /\ b' = RemoveAt(b, k)
        /\ outcome' = [outcome EXCEPT ![pc] = Result(b[k].val)]
        /\ d' = d /\ ReadCount' = ReadCount
        /\ pc \in Waits
    BY <1>10 DEF Takes, FromNowhere, Running, Waits, IsWait
  <2>2. k \in 1 .. Len(b)
    <3>1. k \in 0 .. Len(b)
      BY BufferedEventIs DEF FullInv, ExecutorInv, ExecutorTypeOK
    <3> HIDE DEF k
    <3> QED BY <1>1, <2>1, <3>1
  <2> HIDE DEF k
  <2>3. Placed(RemoveAt(b, k), d, outcome, ReadCount, {b[k]})
    BY <1>1, <2>2, TakeBuffered
  <2>4. ~Got(outcome[pc])
    <3>1. pc \in Slots /\ ~Done(pc)
      BY <1>1, <2>1 DEF FullInv, WaitInv, CodeTypeOK
    <3> QED BY <1>1, <3>1, NotGot
  <2>5. Placed(RemoveAt(b, k), d, [outcome EXCEPT ![pc] = Deserialize(b[k].val)], ReadCount, {})
    BY <1>1, <2>1, <2>3, <2>4, PutIntoWait
  <2>6. Deserialize(b[k].val) = Result(b[k].val)
    BY <2>1 DEF Deserialize
  <2> QED BY <2>1, <2>5, <2>6
<1>11. CASE Queues
  BY <1>1, <1>11 DEF Queues, FromNowhere
<1> QED BY <1>6, <1>7, <1>8, <1>9, <1>10, <1>11, EventFlow

LEMMA IterKept ==
  ASSUME IterTypeOK, IterInv, ExecutorStep
  PROVE  IterInv'
<1>1. CASE HandleEvent
  BY <1>1, EventIsRead, ReadIsNext
<1>2. CASE CodeStep \/ Yield \/ EndOfHistory
  BY <1>2, NothingIsRead DEF iterVars, IterInv
<1> QED BY <1>1, <1>2 DEF ExecutorStep

-----------------------------------------------------------------------------
(* The raised events of an instance, across its turns *)

\* All events the instance has got and not forgotten: recorded and waiting, or in the turn.
AllEvents == IF control = "idle" THEN history \o inbox ELSE Given
NoneAbove(q, n) == \A i \in RaisedIn(q) : q[i].val <= n
Ordered(q) == \A i, j \in RaisedIn(q) : i < j => q[i].val < q[j].val

\* Raised events of r are raised events of q, in the same order.
Embeds(r, q) ==
  \E f \in [RaisedIn(r) -> RaisedIn(q)] :
    /\ \A i \in RaisedIn(r) : r[i] = q[f[i]]
    /\ \A i, j \in RaisedIn(r) : i < j => f[i] < f[j]

LEMMA EmbedsKeeps ==
  ASSUME NEW r \in Seq(EventRecords), NEW q \in Seq(EventRecords), Embeds(r, q)
  PROVE  /\ Distinct(q) => Distinct(r)
         /\ \A n : NoneAbove(q, n) => NoneAbove(r, n)
         /\ Ordered(q) => Ordered(r)
<1>1. PICK f \in [RaisedIn(r) -> RaisedIn(q)] :
        /\ \A i \in RaisedIn(r) : r[i] = q[f[i]]
        /\ \A i, j \in RaisedIn(r) : i < j => f[i] < f[j]
  BY DEF Embeds
<1>2. RaisedIn(r) \subseteq Nat /\ RaisedIn(q) \subseteq Nat
  BY DEF RaisedIn
<1>3. \A i, j \in RaisedIn(r) : f[i] = f[j] => i = j
  <2> SUFFICES ASSUME NEW i \in RaisedIn(r), NEW j \in RaisedIn(r), i # j PROVE f[i] # f[j]
    OBVIOUS
  <2>1. i \in Nat /\ j \in Nat /\ f[i] \in Nat /\ f[j] \in Nat
    BY <1>1, <1>2
  <2>2. i < j \/ j < i
    BY <2>1
  <2> QED BY <1>1, <2>1, <2>2
<1>4. Distinct(q) => Distinct(r)
  BY <1>1, <1>3 DEF Distinct
<1>5. \A n : NoneAbove(q, n) => NoneAbove(r, n)
  BY <1>1 DEF NoneAbove
<1>6. Ordered(q) => Ordered(r)
  BY <1>1 DEF Ordered
<1> QED BY <1>4, <1>5, <1>6

\* An event that is not raised, in the middle of the others, makes no difference.
LEMMA EmbedsMiddle ==
  ASSUME NEW a \in Seq(EventRecords), NEW e \in EventRecords, e.type # "EventRaised",
         NEW c \in Seq(EventRecords)
  PROVE  /\ a \o (<<e>> \o c) \in Seq(EventRecords) /\ a \o c \in Seq(EventRecords)
         /\ Embeds(a \o (<<e>> \o c), a \o c) /\ Embeds(a \o c, a \o (<<e>> \o c))
<1> DEFINE ec == <<e>> \o c
           r == a \o ec
           q == a \o c
           m == Len(a)
           n == Len(c)
<1>1. /\ ec \in Seq(EventRecords) /\ Len(ec) = n + 1
      /\ \A i \in 1 .. n : ec[i + 1] = c[i]
      /\ ec[1] = e /\ m \in Nat /\ n \in Nat
  <2>1. Head(ec) = ec[1]
    BY InFront
  <2> QED BY <2>1, InFront
<1> HIDE DEF ec
<1>2. /\ r \in Seq(EventRecords) /\ Len(r) = m + (n + 1)
      /\ \A i \in 1 .. m + (n + 1) : r[i] = IF i <= m THEN a[i] ELSE ec[i - m]
  <2>1. /\ r \in Seq(EventRecords) /\ Len(r) = m + Len(ec)
        /\ \A i \in 1 .. m + Len(ec) : r[i] = IF i <= m THEN a[i] ELSE ec[i - m]
    BY <1>1, ConcatProperties
  <2>2. Len(ec) = n + 1
    BY <1>1
  <2> HIDE DEF r, m, n
  <2> QED BY <2>1, <2>2
<1>3. /\ q \in Seq(EventRecords) /\ Len(q) = m + n
      /\ \A i \in 1 .. m + n : q[i] = IF i <= m THEN a[i] ELSE c[i - m]
  BY <1>1, ConcatProperties
<1> HIDE DEF r, q, m, n
<1>4. DOMAIN r = 1 .. m + (n + 1) /\ DOMAIN q = 1 .. m + n
  BY <1>1, <1>2, <1>3
<1>5. /\ \A i \in 1 .. m : r[i] = q[i] /\ i \in DOMAIN r /\ i \in DOMAIN q
      /\ \A i \in 1 .. n : r[m + 1 + i] = q[m + i]
      /\ r[m + 1] = e
  <2>1. \A i \in 1 .. m : r[i] = q[i] /\ i \in DOMAIN r /\ i \in DOMAIN q
    BY <1>1, <1>2, <1>3, <1>4
  <2>2. ASSUME NEW i \in 1 .. n
        PROVE  r[m + 1 + i] = q[m + i]
    <3>1. m + 1 + i \in 1 .. m + (n + 1) /\ ~(m + 1 + i <= m) /\ (m + 1 + i) - m = i + 1
      BY <1>1
    <3>2. m + i \in 1 .. m + n /\ ~(m + i <= m) /\ (m + i) - m = i
      BY <1>1
    <3> QED BY <1>1, <1>2, <1>3, <3>1, <3>2
  <2>3. m + 1 \in 1 .. m + (n + 1) /\ ~(m + 1 <= m) /\ (m + 1) - m = 1
    BY <1>1
  <2> QED BY <1>1, <1>2, <2>1, <2>2, <2>3
<1>6. Embeds(r, q)
  <2> DEFINE f == [i \in RaisedIn(r) |-> IF i <= m THEN i ELSE i - 1]
  <2>1. ASSUME NEW i \in RaisedIn(r)
        PROVE  f[i] \in RaisedIn(q) /\ r[i] = q[f[i]]
    <3>1. i \in 1 .. m + (n + 1) /\ r[i].type = "EventRaised" /\ i # m + 1
      BY <1>4, <1>5 DEF RaisedIn
    <3>2. CASE i <= m
      BY <1>5, <3>1, <3>2 DEF RaisedIn
    <3>3. CASE ~(i <= m)
      <4>1. i - (m + 1) \in 1 .. n /\ m + 1 + (i - (m + 1)) = i /\ m + (i - (m + 1)) = i - 1
            /\ i - 1 \in 1 .. m + n
        BY <1>1, <3>1, <3>3
      <4>2. r[i] = q[i - 1] /\ i - 1 \in DOMAIN q
        BY <1>4, <1>5, <4>1
      <4> QED BY <3>1, <3>3, <4>2 DEF RaisedIn
    <3> QED BY <3>2, <3>3
  <2>2. ASSUME NEW i \in RaisedIn(r), NEW j \in RaisedIn(r), i < j
        PROVE  f[i] < f[j]
    <3>1. i \in Nat /\ j \in Nat /\ i # m + 1 /\ j # m + 1
      BY <1>1, <1>4, <1>5 DEF RaisedIn
    <3> QED BY <1>1, <2>2, <3>1
  <2>3. f \in [RaisedIn(r) -> RaisedIn(q)]
    BY <2>1
  <2> HIDE DEF f
  <2> QED BY <2>1, <2>2, <2>3 DEF Embeds
<1>7. Embeds(q, r)
  <2> DEFINE f == [i \in RaisedIn(q) |-> IF i <= m THEN i ELSE i + 1]
  <2>1. ASSUME NEW i \in RaisedIn(q)
        PROVE  f[i] \in RaisedIn(r) /\ q[i] = r[f[i]]
    <3>1. i \in 1 .. m + n /\ q[i].type = "EventRaised"
      BY <1>4 DEF RaisedIn
    <3>2. CASE i <= m
      BY <1>5, <3>1, <3>2 DEF RaisedIn
    <3>3. CASE ~(i <= m)
      <4>1. i - m \in 1 .. n /\ m + 1 + (i - m) = i + 1 /\ m + (i - m) = i
            /\ i + 1 \in 1 .. m + (n + 1)
        BY <1>1, <3>1, <3>3
      <4>2. q[i] = r[i + 1] /\ i + 1 \in DOMAIN r
        BY <1>4, <1>5, <4>1
      <4> QED BY <3>1, <3>3, <4>2 DEF RaisedIn
    <3> QED BY <3>2, <3>3
  <2>2. ASSUME NEW i \in RaisedIn(q), NEW j \in RaisedIn(q), i < j
        PROVE  f[i] < f[j]
    <3>1. i \in Nat /\ j \in Nat
      BY <1>1, <1>4 DEF RaisedIn
    <3> QED BY <1>1, <2>2, <3>1
  <2>3. f \in [RaisedIn(q) -> RaisedIn(r)]
    BY <2>1
  <2> HIDE DEF f
  <2> QED BY <2>1, <2>2, <2>3 DEF Embeds
<1> QED BY <1>2, <1>3, <1>6, <1>7 DEF r, q, ec

\* Nor does what follows, if none of it is raised.
LEMMA EmbedsFront ==
  ASSUME NEW a \in Seq(EventRecords), NEW c \in Seq(EventRecords),
         \A i \in DOMAIN c : c[i].type # "EventRaised"
  PROVE  a \o c \in Seq(EventRecords) /\ Embeds(a \o c, a)
<1> DEFINE r == a \o c
<1>1. /\ r \in Seq(EventRecords) /\ Len(r) = Len(a) + Len(c)
      /\ \A i \in 1 .. Len(a) + Len(c) : r[i] = IF i <= Len(a) THEN a[i] ELSE c[i - Len(a)]
      /\ Len(a) \in Nat /\ Len(c) \in Nat
  BY ConcatProperties
<1> HIDE DEF r
<1>2. DOMAIN r = 1 .. Len(a) + Len(c) /\ DOMAIN a = 1 .. Len(a) /\ DOMAIN c = 1 .. Len(c)
  BY <1>1
<1>3. ASSUME NEW i \in RaisedIn(r)
      PROVE  i \in RaisedIn(a) /\ r[i] = a[i]
  <2>1. i \in 1 .. Len(a) + Len(c) /\ r[i].type = "EventRaised"
    BY <1>2 DEF RaisedIn
  <2>2. i <= Len(a)
    <3> SUFFICES ASSUME ~(i <= Len(a)) PROVE FALSE
      OBVIOUS
    <3>1. i - Len(a) \in DOMAIN c /\ r[i] = c[i - Len(a)]
      BY <1>1, <1>2, <2>1
    <3> QED BY <2>1, <3>1
  <2> QED BY <1>1, <1>2, <2>1, <2>2 DEF RaisedIn
<1> DEFINE f == [i \in RaisedIn(r) |-> i]
<1>4. /\ f \in [RaisedIn(r) -> RaisedIn(a)]
      /\ \A i \in RaisedIn(r) : r[i] = a[f[i]]
      /\ \A i, j \in RaisedIn(r) : i < j => f[i] < f[j]
  BY <1>3
<1> HIDE DEF f
<1> QED BY <1>1, <1>4 DEF Embeds, r

\* Raised events are numbered as they are raised, and those of the first generation stay in
\* that order; those carried over to the next come in any.
RaisedOK(q, n, g) == Distinct(q) /\ NoneAbove(q, n) /\ (g = 1 => Ordered(q))
RaisedInv == RaisedOK(AllEvents, raised, generation) /\ generation \in Nat \ {0}

LEMMA EmbedsRaised ==
  ASSUME NEW r \in Seq(EventRecords), NEW q \in Seq(EventRecords), Embeds(r, q),
         NEW n, NEW g, RaisedOK(q, n, g)
  PROVE  RaisedOK(r, n, g)
BY EmbedsKeeps DEF RaisedOK

LEMMA AppendRaised ==
  ASSUME NEW q \in Seq(EventRecords), NEW n \in Nat, NEW g, RaisedOK(q, n, g),
         NEW e \in EventRecords, NEW m \in Nat,
         \/ e.type # "EventRaised" /\ m = n
         \/ e.type = "EventRaised" /\ m = n + 1 /\ e.val = n + 1
  PROVE  RaisedOK(Append(q, e), m, g)
<1> DEFINE r == Append(q, e)
<1>1. /\ Len(q) \in Nat /\ DOMAIN q = 1 .. Len(q) /\ DOMAIN r = 1 .. Len(q) + 1
      /\ \A i \in 1 .. Len(q) : r[i] = q[i]
      /\ r[Len(q) + 1] = e
  BY AppendProperties
<1> HIDE DEF r
<1>2. \A i \in RaisedIn(r) : \/ i \in RaisedIn(q) /\ r[i] = q[i]
                             \/ i = Len(q) + 1 /\ e.type = "EventRaised" /\ r[i] = e
  BY <1>1 DEF RaisedIn
<1>3. \A i \in RaisedIn(q) : q[i].val \in Nat /\ i \in Nat /\ i < Len(q) + 1
  <2>1. \A i \in DOMAIN q : q[i] \in EventRecords
    BY ElementOfSeq
  <2>2. \A f \in EventRecords : f.val \in Nat
    BY DEF EventRecords
  <2>3. \A i \in RaisedIn(q) : i \in DOMAIN q
    BY DEF RaisedIn
  <2> QED BY <1>1, <2>1, <2>2, <2>3
<1>4. NoneAbove(r, m)
  BY <1>2, <1>3 DEF NoneAbove, RaisedOK
<1>5. Distinct(r)
  BY <1>2, <1>3 DEF Distinct, NoneAbove, RaisedOK
<1>6. g = 1 => Ordered(r)
  BY <1>1, <1>2, <1>3 DEF Ordered, NoneAbove, RaisedOK
<1> QED BY <1>4, <1>5, <1>6 DEF RaisedOK, r

LEMMA RaisedArrives ==
  ASSUME InstanceInv, RaisedInv, Arrival
  PROVE  RaisedInv'
<1>1. PICK e \in EventRecords :
        /\ Arrive(e)
        /\ \/ e.type # "EventRaised" /\ raised' = raised
           \/ e.type = "EventRaised" /\ raised' = raised + 1 /\ e.val = raised + 1
  BY Arrivals DEF Arrival
<1>2. /\ control = "idle" /\ control' = "idle" /\ inbox' = Append(inbox, e)
      /\ history' = history /\ generation' = generation
      /\ history \in Seq(EventRecords) /\ inbox \in Seq(EventRecords) /\ raised \in Nat
  BY <1>1 DEF Arrive, BetweenTurns, execVars, InstanceInv, BackendTypeOK
<1>3. history \o Append(inbox, e) = Append(history \o inbox, e)
      /\ history \o inbox \in Seq(EventRecords)
  <2>1. history \o inbox \in Seq(EventRecords)
    BY <1>2, ConcatProperties
  <2>2. /\ Append(inbox, e) = inbox \o <<e>> /\ <<e>> \in Seq(EventRecords)
        /\ Append(history \o inbox, e) = (history \o inbox) \o <<e>>
    BY <1>2, <2>1, AppendIsConcat
  <2>3. (history \o inbox) \o <<e>> = history \o (inbox \o <<e>>)
    BY <1>2, <2>2, ConcatAssociative
  <2> QED BY <2>1, <2>2, <2>3
<1>4. /\ AllEvents = history \o inbox /\ AllEvents' = Append(history \o inbox, e)
      /\ raised' \in Nat
  BY <1>1, <1>2, <1>3 DEF AllEvents
<1>5. RaisedOK(Append(history \o inbox, e), raised', generation)
  BY <1>1, <1>2, <1>3, <1>4, AppendRaised DEF RaisedInv
<1> QED BY <1>2, <1>4, <1>5 DEF RaisedInv, RaisedOK, Distinct, NoneAbove, Ordered, RaisedIn

\* What a step makes of the events of the instance, when it neither adds nor drops any.
LEMMA RaisedStays ==
  ASSUME NEW r \in Seq(EventRecords), NEW q \in Seq(EventRecords), AllEvents = q, AllEvents' = r,
         Embeds(r, q), RaisedInv, UNCHANGED <<raised, generation>>
  PROVE  RaisedInv'
<1>1. RaisedOK(r, raised, generation)
  BY EmbedsRaised DEF RaisedInv
<1> QED BY <1>1 DEF RaisedInv, RaisedOK, Distinct, NoneAbove, Ordered, RaisedIn

LEMMA RaisedSame ==
  ASSUME AllEvents' = AllEvents, RaisedInv, UNCHANGED <<raised, generation>>
  PROVE  RaisedInv'
BY DEF RaisedInv, RaisedOK, Distinct, NoneAbove, Ordered, RaisedIn

LEMMA RaisedDispatched ==
  ASSUME InstanceInv, RaisedInv, Dispatch
  PROVE  RaisedInv'
<1> DEFINE ws == WorkflowStarted(FALSE)
<1>1. /\ control = "idle" /\ control' = "loop" /\ pastEvents' = history
      /\ newEvents' = <<ws>> \o inbox /\ UNCHANGED <<raised, generation>>
  BY DEF Dispatch, Execute, NewContext
<1>2. /\ history \in Seq(EventRecords) /\ inbox \in Seq(EventRecords)
      /\ ws \in EventRecords /\ ws.type # "EventRaised"
  <2>1. ws \in EventRecords /\ ws.type = "WorkflowStarted"
    BY WorkflowStartedType
  <2> QED BY <2>1 DEF InstanceInv, BackendTypeOK
<1> HIDE DEF ws
<1>3. /\ AllEvents = history \o inbox /\ AllEvents' = history \o (<<ws>> \o inbox)
  BY <1>1 DEF AllEvents, Given
<1> QED BY <1>1, <1>2, <1>3, EmbedsMiddle, RaisedStays

LEMMA RaisedAbandoned ==
  ASSUME InstanceInv, RaisedInv, Abandon
  PROVE  RaisedInv'
<1> DEFINE ws == WorkflowStarted(FALSE)
<1>1. /\ control # "idle" /\ control' = "idle" /\ history' = history /\ pastEvents = history
      /\ newEvents = <<ws>> \o inbox' /\ inbox' \in Seq(EventRecords)
      /\ history \in Seq(EventRecords) /\ UNCHANGED <<raised, generation>>
  BY AbandonsWith DEF Abandon, Release, InstanceInv, TurnInv, BackendTypeOK
<1>2. ws \in EventRecords /\ ws.type # "EventRaised"
  <2>1. ws \in EventRecords /\ ws.type = "WorkflowStarted"
    BY WorkflowStartedType
  <2> QED BY <2>1
<1> HIDE DEF ws
<1>3. AllEvents = history \o (<<ws>> \o inbox') /\ AllEvents' = history \o inbox'
  BY <1>1 DEF AllEvents, Given
<1> QED BY <1>1, <1>2, <1>3, EmbedsMiddle, RaisedStays

LEMMA RaisedCommitted ==
  ASSUME InstanceInv, RaisedInv, CommitTurn \/ CommitEnd
  PROVE  RaisedInv'
<1> DEFINE wf == WorkflowStarted(FALSE)
           ws == WorkflowStarted(encounteredPatch)
           tail == Tail(newEvents)
<1>1. /\ control = "done" /\ control' = "idle" /\ inbox' = <<>> /\ history' = Recorded
      /\ pastEvents = history /\ history \in Seq(EventRecords)
      /\ UNCHANGED <<raised, generation>>
  BY DEF CommitTurn, CommitEnd, Commit, Release, InstanceInv, TurnInv, BackendTypeOK
<1>2. /\ ws \in EventRecords /\ ws.type # "EventRaised"
      /\ tail \in Seq(EventRecords) /\ Confirmations \in Seq(EventRecords)
      /\ newEvents = <<wf>> \o tail /\ Recorded \in Seq(EventRecords)
      /\ \A i \in DOMAIN Confirmations : Confirmations[i].type # "EventRaised"
  <2>1. ws.type = "WorkflowStarted"
    BY <1>1, RecordedParts
  <2> QED BY <1>1, <2>1, RecordedParts, ConfirmationsType
<1>3. wf \in EventRecords /\ wf.type # "EventRaised"
  <2>1. wf \in EventRecords /\ wf.type = "WorkflowStarted"
    BY WorkflowStartedType
  <2> QED BY <2>1
<1>4. Recorded = history \o <<ws>> \o tail \o Confirmations
  BY DEF Recorded
<1> HIDE DEF wf, ws, tail
<1> DEFINE given == history \o (<<wf>> \o tail)
           turn == history \o (<<ws>> \o tail)
<1>5. /\ given \in Seq(EventRecords) /\ turn \in Seq(EventRecords)
      /\ history \o tail \in Seq(EventRecords)
      /\ Embeds(history \o tail, given) /\ Embeds(turn, history \o tail)
  BY <1>1, <1>2, <1>3, EmbedsMiddle
<1>6. Recorded = turn \o Confirmations
  <2>1. <<ws>> \in Seq(EventRecords)
    BY <1>2
  <2>2. (history \o <<ws>>) \o tail = history \o (<<ws>> \o tail)
    BY <1>1, <1>2, <2>1, ConcatAssociative
  <2> QED BY <1>4, <2>2
<1>7. AllEvents = given /\ AllEvents' = Recorded
  <2>1. Recorded \o <<>> = Recorded
    BY <1>2, ConcatEmptySeq
  <2> QED BY <1>1, <1>2, <2>1 DEF AllEvents, Given
<1> HIDE DEF given, turn
<1>8. Embeds(turn \o Confirmations, turn) /\ turn \o Confirmations \in Seq(EventRecords)
  BY <1>2, <1>5, EmbedsFront
<1>9. RaisedOK(given, raised, generation)
  BY <1>7 DEF RaisedInv
<1>10. RaisedOK(turn, raised, generation)
  BY <1>5, <1>9, EmbedsRaised
<1>11. RaisedOK(Recorded, raised, generation)
  BY <1>5, <1>6, <1>8, <1>10, EmbedsRaised
<1> QED BY <1>1, <1>7, <1>11 DEF RaisedInv, RaisedOK, Distinct, NoneAbove, Ordered, RaisedIn

\* What is carried over was raised and given to the turn.
CarryInv == carryoverEvents \subseteq ReadEvents(Len(Given))

LEMMA CarryKept ==
  ASSUME ExecutorTypeOK, PlacesInv, CarryInv, ExecutorStep, ReadCount <= Len(Given)
  PROVE  CarryInv'
<1>1. Given' = Given
  BY ControlStep DEF Given
<1>2. /\ Given \in Seq(EventRecords) /\ Len(Given) = Len(pastEvents) + Len(newEvents)
      /\ \A i \in 1 .. Len(newEvents) : Given[Len(pastEvents) + i] = newEvents[i]
      /\ Len(pastEvents) \in Nat /\ Len(newEvents) \in Nat /\ ReadCount \in Nat
      /\ newEvents \in Seq(EventRecords)
  BY GivenType DEF ExecutorTypeOK, IterTypeOK
<1>3. \A j \in DOMAIN Given : j \in Nat /\ j <= Len(Given)
  BY <1>2
<1>4. Carryover \subseteq ReadEvents(Len(Given))
  <2>1. ToSet(unprocessedEvents) \subseteq ReadEvents(Len(Given))
    <3>1. ReadEvents(ReadCount) \subseteq ReadEvents(Len(Given))
      BY <1>2, <1>3 DEF ReadEvents, RaisedIn
    <3>2. \A k \in DOMAIN unprocessedEvents : unprocessedEvents[k] \in ReadEvents(ReadCount)
      BY DEF PlacesInv, Placed
    <3> QED BY <3>1, <3>2 DEF ToSet
  <2>2. ASSUME NEW i \in DOMAIN newEvents, newEvents[i].type = "EventRaised"
        PROVE  newEvents[i] \in ReadEvents(Len(Given))
    <3>1. i \in 1 .. Len(newEvents)
      BY <1>2
    <3>2. Len(pastEvents) + i \in 1 .. Len(Given) /\ Given[Len(pastEvents) + i] = newEvents[i]
      BY <1>2, <3>1
    <3> QED BY <1>2, <1>3, <2>2, <3>2 DEF ReadEvents, RaisedIn
  <2> QED BY <2>1, <2>2 DEF Carryover
<1>5. carryoverEvents' \in {carryoverEvents, {}, Carryover}
  BY EndStep
<1> QED BY <1>1, <1>4, <1>5 DEF CarryInv, ReadEvents, RaisedIn

LEMMA RaisedContinued ==
  ASSUME InstanceInv, RaisedInv, CarryInv, CommitContinueAsNew
  PROVE  RaisedInv'
<1> DEFINE es == ExecutionStarted
<1>1. PICK carried \in SetToSeqs(carryoverEvents) :
        /\ inbox' = <<es>> \o carried /\ carried \in Seq(EventRecords)
        /\ \A i \in DOMAIN carried : carried[i] \in carryoverEvents
        /\ \A i, j \in DOMAIN carried : carried[i] = carried[j] => i = j
        /\ es \in EventRecords /\ es.type = "ExecutionStarted"
  BY ContinuesWith
<1>2. /\ control = "done" /\ control' = "idle" /\ history' = <<>> /\ raised' = raised
      /\ generation' = generation + 1
      /\ AllEvents = Given
  BY DEF CommitContinueAsNew, Commit, Release, AllEvents
<1>3. RaisedOK(carried, raised, generation + 1)
  <2>1. /\ \A e \in ReadEvents(Len(Given)) : e.type = "EventRaised"
        /\ \A e, f \in ReadEvents(Len(Given)) : e.val = f.val => e = f
    BY <1>2, ReadEventsAre
       DEF RaisedInv, RaisedOK, InstanceInv, FullInv, ExecutorInv, ExecutorTypeOK
  <2>2. \A e \in ReadEvents(Len(Given)) : e.val <= raised
    BY <1>2 DEF RaisedInv, RaisedOK, NoneAbove, ReadEvents
  <2>3. \A i \in RaisedIn(carried) : i \in DOMAIN carried /\ carried[i] \in ReadEvents(Len(Given))
    BY <1>1 DEF CarryInv, RaisedIn
  <2>4. Distinct(carried)
    BY <1>1, <2>1, <2>3 DEF Distinct
  <2>5. NoneAbove(carried, raised)
    BY <2>2, <2>3 DEF NoneAbove
  <2>6. generation + 1 # 1
    BY DEF RaisedInv
  <2> QED BY <2>4, <2>5, <2>6 DEF RaisedOK
<1> HIDE DEF es
<1>4. /\ <<>> \o (<<es>> \o carried) = <<es>> \o carried /\ <<>> \o carried = carried
      /\ <<>> \in Seq(EventRecords) /\ <<es>> \o carried \in Seq(EventRecords)
  <2>1. <<es>> \o carried \in Seq(EventRecords)
    BY <1>1, InFront
  <2> QED BY <1>1, <2>1, ConcatEmptySeq
<1>5. Embeds(<<es>> \o carried, carried)
  <2>1. Embeds(<<>> \o (<<es>> \o carried), <<>> \o carried)
    BY <1>1, <1>4, EmbedsMiddle
  <2> QED BY <1>4, <2>1
<1>6. RaisedOK(<<es>> \o carried, raised, generation + 1)
  BY <1>1, <1>3, <1>4, <1>5, EmbedsRaised
<1>7. AllEvents' = <<es>> \o carried
  BY <1>1, <1>2, <1>4 DEF AllEvents
<1>8. generation' \in Nat \ {0}
  BY <1>2 DEF RaisedInv
<1> QED BY <1>2, <1>6, <1>7, <1>8 DEF RaisedInv, RaisedOK, Distinct, NoneAbove, Ordered, RaisedIn

LEMMA RaisedKept ==
  ASSUME InstanceInv, RaisedInv, CarryInv, [Next]_vars
  PROVE  RaisedInv'
<1>1. CASE Deploys \/ UNCHANGED vars
  BY <1>1, RaisedSame
     DEF Deploys, vars, execVars, backendVars, iterVars, AllEvents, Given
<1>2. CASE Execution
  <2>1. control # "idle" /\ control' # "idle" /\ Given' = Given
    BY <1>2, ControlStep DEF Execution, Given
  <2> QED BY <1>2, <2>1, RaisedSame DEF Execution, backendVars, AllEvents
<1> QED BY <1>1, <1>2, RaisedArrives, RaisedDispatched, RaisedAbandoned, RaisedCommitted,
           RaisedContinued, Steps

-----------------------------------------------------------------------------
(* How a turn ends *)

\* A workflow that is complete stays so; a turn that ends without has read all its events.
LEMMA EndHow ==
  ASSUME ExecutorStep
  PROVE  /\ \/ UNCHANGED <<isComplete, completion>>
            \/ isComplete' = TRUE /\ completion' \in {"FAILED", "TERMINATED", "COMPLETED"}
            \/ ContinueAsNew
         /\ control' = "done" => completion' # "none" \/ Yield \/ EndOfHistory
<1> DEFINE Ends1 == \/ UNCHANGED <<isComplete, completion>>
                    \/ isComplete' = TRUE /\ completion' \in {"FAILED", "TERMINATED", "COMPLETED"}
<1>1. ASSUME NEW actions, NEW seq, FailExecution(actions, seq)
      PROVE  Ends1 /\ (control' = "done" => completion' # "none")
  BY <1>1 DEF FailExecution, CompleteInternal, endVars
<1>2. control # "done"
  BY ControlStep
<1>3. ASSUME NEW exception, NEW actions, NEW seq, Throws(exception, actions, seq)
      PROVE  Ends1 /\ (control' = "done" => completion' # "none")
  BY <1>1, <1>2, <1>3 DEF Throws, endVars
<1>4. CASE HandleTaskScheduled \/ HandleSubOrchestrationCreated \/ HandleTimerCreated
  <2>1. PICK kinds : Confirm(kinds)
    BY <1>4 DEF HandleTaskScheduled, HandleSubOrchestrationCreated, HandleTimerCreated
  <2>2. \/ Returns
        \/ \E actions, seq : Throws("NonDeterministicOrchestratorException", actions, seq)
    BY <2>1 DEF Confirm
  <2> QED BY <1>2, <1>3, <2>2 DEF Returns, endVars
<1>5. CASE \/ HandleTaskCompleted \/ HandleTaskFailed \/ HandleTimerFired
           \/ HandleSubOrchestrationCompleted \/ HandleSubOrchestrationFailed
           \/ HandleInfrastructureTimer \/ HandleEventRaised \/ HandleWorkflowStarted
  BY <1>2, <1>5
     DEF HandleTaskCompleted, HandleTaskFailed, HandleTimerFired,
         HandleSubOrchestrationCompleted, HandleSubOrchestrationFailed, CloseTask,
         HandleInfrastructureTimer, HandleEventRaised, HandleWorkflowStarted, Returns, endVars
<1>6. CASE \/ HandleExecutionStarted \/ HandleEventWhileSuspended
           \/ HandleExecutionSuspended \/ HandleExecutionResumed
  BY <1>2, <1>6
     DEF HandleExecutionStarted, HandleEventWhileSuspended, HandleExecutionSuspended,
         HandleExecutionResumed, endVars
<1>7. CASE HandleUnknown \/ HandleExecutionTerminated
  BY <1>2, <1>3, <1>7 DEF HandleUnknown, HandleExecutionTerminated, CompleteInternal
<1>8. CASE \/ CallActivity \/ CallSubOrchestrator \/ CreateTimer \/ SendEvent
           \/ WaitFindsEvent \/ WaitTimesOutAtOnce \/ WaitForExternalEvent \/ IsPatched
           \/ Await \/ CallWhenComplete
  BY <1>1, <1>2, <1>8
     DEF CallActivity, CallSubOrchestrator, CreateTimer, SendEvent, WaitFindsEvent,
         WaitTimesOutAtOnce, WaitForExternalEvent, IsPatched, Await, CallWhenComplete,
         CodeThrows, Schedule, Proceed, endVars
<1>9. CASE Complete \/ Return \/ Yield \/ EndOfHistory
  BY <1>2, <1>9 DEF Complete, Return, Yield, EndOfHistory, CompleteInternal, endVars
<1>10. CASE ContinueAsNew
  BY <1>10 DEF ContinueAsNew, CompleteInternal
<1> QED BY <1>4, <1>5, <1>6, <1>7, <1>8, <1>9, <1>10 DEF ExecutorStep, HandleEvent, CodeStep

\* A turn that ends without a completion has read everything it was given, and the workflow is
\* complete when a completion is in the result, to continue as new at the end of a turn only.
DoneInv ==
  /\ isComplete <=> completion # "none"
  /\ control = "done" /\ completion = "none" => ReadCount = Len(Given)
  /\ completion = "CONTINUED_AS_NEW" => control = "done"

LEMMA DoneKept ==
  ASSUME InstanceInv, IterInv, DoneInv, ExecutorStep
  PROVE  DoneInv'
<1>1. control \in {"loop", "user"} /\ UNCHANGED <<pastEvents, newEvents>>
  BY ControlStep
<1>2. newEvents # <<>> /\ IterTypeOK
  BY <1>1 DEF InstanceInv, TurnInv, FullInv, ExecutorInv, ExecutorTypeOK
<1>3. isComplete' <=> completion' # "none"
  <2>1. CASE UNCHANGED <<isComplete, completion>>
    BY <2>1 DEF DoneInv
  <2>2. CASE isComplete' = TRUE /\ completion' \in {"FAILED", "TERMINATED", "COMPLETED"}
    BY <2>2
  <2>3. CASE ContinueAsNew
    BY <2>3 DEF ContinueAsNew, CompleteInternal
  <2> QED BY <2>1, <2>2, <2>3, EndHow
<1>4. completion' = "CONTINUED_AS_NEW" => control' = "done"
  BY <1>1, EndHow DEF DoneInv, ContinueAsNew
<1>5. ASSUME control' = "done", completion' = "none"
      PROVE  ReadCount' = Len(Given)'
  <2>1. Yield \/ EndOfHistory
    BY <1>5, EndHow
  <2>2. ~HasNext /\ UNCHANGED iterVars
    BY <2>1, NothingIsRead DEF Yield, EndOfHistory
  <2>3. ReadCount = Len(Given)
    BY <1>2, <2>2, AllRead
  <2> QED BY <2>2, <2>3 DEF ReadCount, Given, iterVars
<1> QED BY <1>3, <1>4, <1>5 DEF DoneInv

\* What a workflow that continues as new hands over is what none of its waits got.
ContinueInv ==
  completion = "CONTINUED_AS_NEW" /\ ~isReplaying /\ thrown = {} /\ program[pc].preserve =>
    carryoverEvents = {e \in ReadEvents(Len(Given)) :
                           \A s \in Waits : outcome[s] # Deserialize(e.val)}

\* An event that has not been read is in no place.
LEMMA UnreadIsNowhere ==
  ASSUME IterTypeOK, Distinct(Given), PlacesInv,
         NEW i \in RaisedIn(Given), i > ReadCount
  PROVE  \A s \in Waits : outcome[s] # Deserialize(Given[i].val)
<1>1. Given[i] \in ReadEvents(i) /\ \A j \in RaisedIn(Given) : j \in Nat
  <2>1. Given \in Seq(EventRecords)
    BY GivenType
  <2>2. i <= i
    BY <2>1 DEF RaisedIn
  <2> QED BY <2>1, <2>2 DEF ReadEvents, RaisedIn
<1>2. ReadCount \in Nat /\ i \in Nat
  BY <1>1, GivenType
<1>3. \A f \in ReadEvents(ReadCount) : f.val # Given[i].val
  <2> SUFFICES ASSUME NEW j \in RaisedIn(Given), j <= ReadCount PROVE Given[j].val # Given[i].val
    BY DEF ReadEvents
  <2>1. j # i
    BY <1>1, <1>2
  <2> QED BY <2>1 DEF Distinct
<1> QED BY <1>3, DeserializeTells DEF PlacesInv, Placed

LEMMA ContinueMakes ==
  ASSUME InstanceInv, IterInv, Distinct(Given), PlacesInv, ContinueAsNew,
         ~isReplaying, thrown = {}, program[pc].preserve
  PROVE  carryoverEvents' = {e \in ReadEvents(Len(Given)) :
                               \A s \in Waits : outcome[s] # Deserialize(e.val)}
<1>1. /\ carryoverEvents' = Carryover
      /\ control = "user" /\ pc \in DOMAIN program /\ program[pc].op = "continueAsNew" /\ ~draining
  BY DEF ContinueAsNew, CompleteInternal, Code, Running
<1>2. eventsWhileSuspended = <<>>
  BY <1>1 DEF InstanceInv, FullInv, FrozenInv, Running
<1>3. /\ IterTypeOK /\ Given \in Seq(EventRecords) /\ Len(Given) = Len(pastEvents) + Len(newEvents)
      /\ \A i \in 1 .. Len(newEvents) : Given[Len(pastEvents) + i] = newEvents[i]
      /\ Len(pastEvents) \in Nat /\ Len(newEvents) \in Nat /\ currentHistoryIndex \in Nat
      /\ newEvents \in Seq(EventRecords)
      /\ ReadCount = Len(pastEvents) + currentHistoryIndex
  BY GivenType DEF InstanceInv, FullInv, ExecutorInv, ExecutorTypeOK, IterTypeOK, ReadCount
<1>4. DOMAIN newEvents = 1 .. Len(newEvents) /\ DOMAIN Given = 1 .. Len(Given)
  BY <1>3
<1>5. ASSUME NEW e \in ReadEvents(Len(Given))
      PROVE  e \in Carryover <=> \A s \in Waits : outcome[s] # Deserialize(e.val)
  <2>1. PICK i \in RaisedIn(Given) : e = Given[i]
    BY DEF ReadEvents
  <2>2. i \in 1 .. Len(Given) /\ i \in Nat /\ e.type = "EventRaised"
    BY <1>4, <2>1 DEF RaisedIn
  <2>3. CASE i <= ReadCount
    <3>1. e \in ReadEvents(ReadCount)
      BY <2>1, <2>3 DEF ReadEvents
    <3>2. \/ \E k \in DOMAIN unprocessedEvents : unprocessedEvents[k] = e
          \/ \E s \in Waits : outcome[s] = Deserialize(e.val)
      BY <1>2, <3>1 DEF PlacesInv, Placed
    <3>3. \A k \in DOMAIN unprocessedEvents : unprocessedEvents[k] = e =>
            \A s \in Waits : outcome[s] # Deserialize(e.val)
      BY DEF PlacesInv, Placed
    <3>4. ASSUME NEW j \in DOMAIN newEvents, j > currentHistoryIndex, newEvents[j] = e
          PROVE  FALSE
      <4>1. j \in 1 .. Len(newEvents)
        BY <1>4
      <4>2. Len(pastEvents) + j \in 1 .. Len(Given) /\ Given[Len(pastEvents) + j] = e
            /\ Len(pastEvents) + j > ReadCount
        BY <1>3, <3>4, <4>1
      <4>3. Len(pastEvents) + j \in RaisedIn(Given)
        BY <1>4, <2>2, <4>2 DEF RaisedIn
      <4>4. Len(pastEvents) + j = i
        BY <2>1, <4>2, <4>3 DEF Distinct
      <4> QED BY <1>3, <2>2, <2>3, <4>1, <4>2, <4>4
    <3>5. e \in Carryover <=> e \in ToSet(unprocessedEvents)
      BY <3>4 DEF Carryover
    <3> QED BY <3>2, <3>3, <3>5 DEF ToSet
  <2>4. CASE i > ReadCount
    <3>1. \A s \in Waits : outcome[s] # Deserialize(e.val)
      BY <1>3, <2>1, <2>4, UnreadIsNowhere
    <3>2. /\ i - Len(pastEvents) \in 1 .. Len(newEvents)
          /\ i - Len(pastEvents) > currentHistoryIndex
          /\ Len(pastEvents) + (i - Len(pastEvents)) = i
      BY <1>3, <2>2, <2>4
    <3>3. newEvents[i - Len(pastEvents)] = e
      BY <1>3, <2>1, <3>2
    <3>4. e \in Carryover
      BY <1>4, <2>2, <3>2, <3>3 DEF Carryover
    <3> QED BY <3>1, <3>4
  <2> QED BY <1>3, <2>2, <2>3, <2>4
<1>6. Carryover \subseteq ReadEvents(Len(Given))
  <2>1. ToSet(unprocessedEvents) \subseteq ReadEvents(Len(Given))
    <3>1. ReadCount <= Len(Given)
      BY <1>3 DEF IterInv
    <3>2. \A j \in RaisedIn(Given) : j \in Nat /\ j <= Len(Given)
      BY <1>3, <1>4 DEF RaisedIn
    <3>3. ReadEvents(ReadCount) \subseteq ReadEvents(Len(Given))
      BY <3>2 DEF ReadEvents
    <3>4. \A k \in DOMAIN unprocessedEvents : unprocessedEvents[k] \in ReadEvents(ReadCount)
      BY DEF PlacesInv, Placed
    <3> QED BY <3>3, <3>4 DEF ToSet
  <2>2. ASSUME NEW i \in DOMAIN newEvents, newEvents[i].type = "EventRaised"
        PROVE  newEvents[i] \in ReadEvents(Len(Given))
    <3>1. i \in 1 .. Len(newEvents)
      BY <1>4
    <3>2. Len(pastEvents) + i \in 1 .. Len(Given) /\ Given[Len(pastEvents) + i] = newEvents[i]
          /\ Len(pastEvents) + i <= Len(Given)
      BY <1>3, <3>1
    <3> QED BY <1>4, <2>2, <3>2 DEF ReadEvents, RaisedIn
  <2> QED BY <2>1, <2>2 DEF Carryover
<1> QED BY <1>1, <1>5, <1>6

LEMMA ContinueKept ==
  ASSUME InstanceInv, IterInv, Distinct(Given), PlacesInv, DoneInv, ExecutorStep
  PROVE  ContinueInv'
<1>1. control \in {"loop", "user"} /\ Waits' = Waits /\ Given' = Given /\ program' = program
  BY ControlStep DEF Waits, IsWait, Given, deployVars
<1>2. completion # "CONTINUED_AS_NEW"
  BY <1>1 DEF DoneInv
<1>3. CASE ContinueAsNew
  <2>1. UNCHANGED <<isReplaying, thrown, pc, outcome>>
    BY <1>3 DEF ContinueAsNew, Code, iterVars, codeVars
  <2>2. SUFFICES ASSUME ~isReplaying, thrown = {}, program[pc].preserve
                 PROVE  carryoverEvents' = {e \in ReadEvents(Len(Given)) :
                                              \A s \in Waits : outcome[s] # Deserialize(e.val)}
    BY <1>1, <2>1 DEF ContinueInv, ReadEvents, RaisedIn
  <2> QED BY <1>3, <2>2, ContinueMakes
<1>4. CASE ~ContinueAsNew
  <2>1. completion' # "CONTINUED_AS_NEW"
    BY <1>2, <1>4, EndHow
  <2> QED BY <2>1 DEF ContinueInv
<1> QED BY <1>3, <1>4

-----------------------------------------------------------------------------
(* The invariant of the event flow, over all turns *)

LocalInv ==
  IterInv /\ StarveInv /\ QueueInv /\ PlacesInv /\ CarryInv /\ DoneInv /\ ContinueInv
FlowInv == LocalInv /\ RaisedInv

\* A context in which nothing has happened.
Empty ==
  /\ IterTypeOK /\ Waits \subseteq Slots
  /\ currentHistoryIndex = 0 /\ isReplaying /\ eventsWhileSuspended = <<>>
  /\ outstandingEvents = [n \in EventNames |-> <<>>] /\ unprocessedEvents = <<>>
  /\ ~isComplete /\ completion = "none" /\ carryoverEvents = {}
  /\ outcome = [s \in Slots |-> Pending] /\ control # "done"

LEMMA EmptyLocal == Empty => LocalInv
<1> SUFFICES ASSUME Empty PROVE LocalInv
  OBVIOUS
<1>1. Len(pastEvents) \in Nat /\ DOMAIN unprocessedEvents = {} /\ DOMAIN eventsWhileSuspended = {}
  BY DEF Empty, IterTypeOK
<1>2. \A n \in EventNames : DOMAIN outstandingEvents[n] = {}
  BY DEF Empty
<1>3. Given \in Seq(EventRecords) /\ ReadCount = 0
  BY GivenType DEF Empty, ReadCount
<1>4. ReadEvents(ReadCount) = {}
  <2>1. \A i \in RaisedIn(Given) : i \in Nat /\ i > 0
    BY <1>3 DEF RaisedIn
  <2> QED BY <1>3, <2>1 DEF ReadEvents
<1>5. \A s \in Waits : ~Got(outcome[s]) /\ \A v : outcome[s] # Deserialize(v)
  BY DeserializeTells DEF Empty, Got, Pending
<1>6. IterInv /\ StarveInv /\ QueueInv /\ CarryInv /\ DoneInv /\ ContinueInv
  BY <1>1, <1>2 DEF Empty, IterInv, StarveInv, QueueInv, CarryInv, DoneInv, ContinueInv
<1>7. PlacesInv
  BY <1>1, <1>4, <1>5 DEF PlacesInv, Placed
<1> QED BY <1>6, <1>7 DEF LocalInv

\* A new context is empty.
LEMMA NewLocal ==
  ASSUME NEW past, NEW new, NewContext(past, new), control' \in {"idle", "loop"}, FullInv'
  PROVE  LocalInv'
<1>1. Empty'
  BY DEF NewContext, Empty, FullInv, ExecutorInv, ExecutorTypeOK, DeployTypeOK, Waits
<1> QED BY <1>1, EmptyLocal, PTL

\* What the backend does between turns does not touch the context.
LEMMA LocalSame ==
  ASSUME UNCHANGED <<program, iterVars, suspendVars, taskVars, eventVars, endVars, control,
                     codeVars, thrown>>,
         LocalInv
  PROVE  LocalInv'
<1>1. /\ Given' = Given /\ ReadCount' = ReadCount /\ Waits' = Waits
      /\ UNCHANGED <<isReplaying, currentHistoryIndex, pastEvents, newEvents, unprocessedEvents,
                     outstandingEvents, eventsWhileSuspended, outcome, isComplete, completion,
                     carryoverEvents, control, thrown, pc, program>>
  BY DEF iterVars, suspendVars, eventVars, endVars, codeVars, Given, ReadCount, Waits, IsWait
<1>2. \A n : ReadEvents(n)' = ReadEvents(n)
  BY <1>1 DEF ReadEvents, RaisedIn
<1>3. IterInv' /\ StarveInv' /\ QueueInv' /\ DoneInv'
  BY <1>1 DEF LocalInv, IterInv, StarveInv, QueueInv, DoneInv
<1>4. CarryInv' /\ ContinueInv'
  BY <1>1 DEF LocalInv, CarryInv, ContinueInv, ReadEvents, RaisedIn
<1>5. PlacesInv'
  BY <1>1 DEF LocalInv, PlacesInv, Placed, ReadEvents, RaisedIn
<1> QED BY <1>3, <1>4, <1>5 DEF LocalInv

LEMMA InitFlow == Init => FlowInv
<1> SUFFICES ASSUME Init PROVE FlowInv
  OBVIOUS
<1>1. InstanceInv
  BY InitInstance
<1>2. Empty
  BY <1>1 DEF Init, NoContext, Empty, InstanceInv, FullInv, ExecutorInv, ExecutorTypeOK,
              DeployTypeOK, Waits
<1>3. /\ control = "idle" /\ history = <<>> /\ inbox = <<ExecutionStarted>> /\ generation = 1
  BY DEF Init, NoContext
<1>4. AllEvents = inbox
  <2>1. inbox \in Seq(EventRecords)
    BY <1>1 DEF InstanceInv, BackendTypeOK
  <2> QED BY <1>3, <2>1, ConcatEmptySeq DEF AllEvents
<1>5. RaisedIn(inbox) = {}
  <2>1. ExecutionStarted.type # "EventRaised"
    BY DEF ExecutionStarted, Event
  <2> DEFINE es == ExecutionStarted
  <2> HIDE DEF es
  <2>2. DOMAIN <<es>> = {1} /\ <<es>>[1] = es
    OBVIOUS
  <2> QED BY <1>3, <2>1, <2>2 DEF RaisedIn, es
<1>6. RaisedInv
  BY <1>3, <1>4, <1>5 DEF RaisedInv, RaisedOK, Distinct, NoneAbove, Ordered
<1> QED BY <1>2, <1>6, EmptyLocal DEF FlowInv

LEMMA LocalExecution ==
  ASSUME InstanceInv, FlowInv, Execution
  PROVE  LocalInv'
<1>1. /\ ExecutorStep /\ control # "idle" /\ FullInv /\ ExecutorTypeOK /\ IterTypeOK
      /\ IterInv /\ StarveInv /\ QueueInv /\ PlacesInv /\ CarryInv /\ DoneInv /\ RaisedInv
  BY ControlStep DEF Execution, InstanceInv, FullInv, ExecutorInv, ExecutorTypeOK, FlowInv, LocalInv
<1>2. Distinct(Given)
  BY <1>1 DEF RaisedInv, RaisedOK, AllEvents
<1>3. ReadCount <= Len(Given)
  BY <1>1, GivenType DEF IterTypeOK, IterInv, ReadCount
<1>4. IterInv' /\ StarveInv' /\ QueueInv' /\ PlacesInv'
  BY <1>1, <1>2, IterKept, StarveKept, QueueKept, PlacesKept
<1>5. CarryInv' /\ DoneInv' /\ ContinueInv'
  BY <1>1, <1>2, <1>3, CarryKept, DoneKept, ContinueKept
<1> QED BY <1>4, <1>5 DEF LocalInv

LEMMA FlowStep ==
  ASSUME InstanceInv, FlowInv, [Next]_vars
  PROVE  FlowInv'
<1>1. RaisedInv'
  BY RaisedKept DEF FlowInv, LocalInv
<1>2. FullInv'
  BY InstanceStep DEF InstanceInv
<1> SUFFICES LocalInv'
  BY <1>1 DEF FlowInv
<1>3. CASE Execution
  BY <1>3, LocalExecution
<1>4. CASE Dispatch
  BY <1>2, <1>4, NewLocal DEF Dispatch, Execute
<1>5. CASE CommitTurn \/ CommitEnd \/ CommitContinueAsNew \/ Abandon
  <2>1. Release
    BY <1>5 DEF CommitTurn, CommitEnd, CommitContinueAsNew, Commit, Abandon
  <2> QED BY <1>2, <2>1, NewLocal DEF Release
<1>6. CASE Arrival
  <2>1. UNCHANGED execVars
    BY <1>6, Arrivals DEF Arrive, Arrival
  <2> QED BY <2>1, LocalSame DEF execVars, deployVars, FlowInv
<1>7. CASE Deploys
  BY <1>7, LocalSame DEF Deploys, FlowInv
<1>8. CASE UNCHANGED vars
  BY <1>8, LocalSame DEF vars, execVars, deployVars, FlowInv
<1> QED BY <1>3, <1>4, <1>5, <1>6, <1>7, <1>8, Steps

\* Wherever an event is on its way through turns, suspension and replay.
THEOREM FlowInvariant == Spec => [](InstanceInv /\ FlowInv)
<1>1. Init => InstanceInv /\ FlowInv
  BY InitInstance, InitFlow
<1>2. InstanceInv /\ FlowInv /\ [Next]_vars => (InstanceInv /\ FlowInv)'
  BY InstanceStep, FlowStep
<1> QED BY <1>1, <1>2, PTL DEF Spec

\* No buffered event waits for a wait of its own name.
THEOREM NeverStarves == Spec => []NoWaitStarves
<1>1. InstanceInv /\ FlowInv => NoWaitStarves
  BY DEF FlowInv, LocalInv, StarveInv, NoWaitStarves
<1> QED BY <1>1, FlowInvariant, PTL

\* The raised events of the property are those the turn is given.
LEMMA RaisedEventsAre ==
  ASSUME IterTypeOK
  PROVE  RaisedEvents = ReadEvents(Len(Given))
<1>1. Given \in Seq(EventRecords)
  BY GivenType
<1>2. \A i \in DOMAIN Given : i <= Len(Given)
  BY <1>1
<1> QED BY <1>2 DEF RaisedEvents, ReadEvents, RaisedIn, ToSet, Given

\* Once they are all read, each of them is in one place.
LEMMA OnePlace ==
  ASSUME IterTypeOK, Distinct(Given), PlacesInv, ReadCount = Len(Given),
         NEW e \in RaisedEvents
  PROVE  Cardinality(Receivers(e)) + Cardinality(Kept(e)) + Cardinality(Deferred(e)) = 1
<1>1. /\ e \in ReadEvents(ReadCount) /\ e.type = "EventRaised"
      /\ \A f \in ReadEvents(ReadCount) : f.val = e.val => f = e
  BY RaisedEventsAre, ReadEventsAre
<1>2. Cardinality({}) = 0 /\ \A x : Cardinality({x}) = 1
  BY FS_EmptySet, FS_Singleton
<1> DEFINE b == unprocessedEvents
           d == eventsWhileSuspended
<1>3. /\ \A k, l \in DOMAIN b : b[k] = b[l] => k = l
      /\ \A k, l \in DOMAIN d : d[k] = e /\ d[l] = e => k = l
      /\ \A s, t \in Waits : Got(outcome[s]) /\ outcome[s] = outcome[t] => s = t
      /\ \A k \in DOMAIN b : \A l \in DOMAIN d : b[k] # d[l]
      /\ \A k \in DOMAIN b : b[k] = e => \A s \in Waits : outcome[s] # Deserialize(e.val)
      /\ \A l \in DOMAIN d : d[l] = e => \A s \in Waits : outcome[s] # Deserialize(e.val)
  BY <1>1 DEF PlacesInv, Placed
<1>4. CASE \E k \in DOMAIN unprocessedEvents : unprocessedEvents[k] = e
  <2>1. PICK k \in DOMAIN unprocessedEvents : unprocessedEvents[k] = e
    BY <1>4
  <2>2. Kept(e) = {k} /\ Deferred(e) = {} /\ Receivers(e) = {}
    BY <1>3, <2>1 DEF Kept, Deferred, Receivers
  <2>3. /\ Cardinality(Receivers(e)) = 0 /\ Cardinality(Kept(e)) = 1
        /\ Cardinality(Deferred(e)) = 0
    BY <1>2, <2>2, Zenon
  <2> QED BY <2>3
<1>5. CASE \E l \in DOMAIN eventsWhileSuspended : eventsWhileSuspended[l] = e
  <2>1. PICK l \in DOMAIN eventsWhileSuspended : eventsWhileSuspended[l] = e
    BY <1>5
  <2>2. Kept(e) = {} /\ Deferred(e) = {l} /\ Receivers(e) = {}
    BY <1>3, <2>1 DEF Kept, Deferred, Receivers
  <2>3. /\ Cardinality(Receivers(e)) = 0 /\ Cardinality(Kept(e)) = 0
        /\ Cardinality(Deferred(e)) = 1
    BY <1>2, <2>2, Zenon
  <2> QED BY <2>3
<1>6. CASE \E s \in Waits : outcome[s] = Deserialize(e.val)
  <2>1. PICK s \in Waits : outcome[s] = Deserialize(e.val)
    BY <1>6
  <2>2. Got(outcome[s])
    BY <2>1, DeserializeTells
  <2>3. Kept(e) = {} /\ Deferred(e) = {} /\ Receivers(e) = {s}
    BY <1>3, <2>1, <2>2 DEF Kept, Deferred, Receivers
  <2>4. /\ Cardinality(Receivers(e)) = 1 /\ Cardinality(Kept(e)) = 0
        /\ Cardinality(Deferred(e)) = 0
    BY <1>2, <2>3, Zenon
  <2> QED BY <2>4
<1> QED BY <1>1, <1>4, <1>5, <1>6 DEF PlacesInv, Placed

\* At the end of every turn each event is in one place: it completed one wait, or it is kept.
THEOREM EachEventIsOnce == Spec => []EachEventOnce
<1>1. InstanceInv /\ FlowInv => EachEventOnce
  <2> SUFFICES ASSUME InstanceInv, FlowInv, TurnOver, completion = "none",
                      NEW e \in RaisedEvents
               PROVE  Cardinality(Receivers(e)) + Cardinality(Kept(e))
                        + Cardinality(Deferred(e)) = 1
    BY DEF EachEventOnce
  <2>1. IterTypeOK /\ PlacesInv /\ ReadCount = Len(Given) /\ control # "idle"
    BY DEF InstanceInv, FullInv, ExecutorInv, ExecutorTypeOK, FlowInv, LocalInv, DoneInv, TurnOver
  <2>2. Distinct(Given)
    BY <2>1 DEF FlowInv, RaisedInv, RaisedOK, AllEvents
  <2> QED BY <2>1, <2>2, OnePlace
<1> QED BY <1>1, FlowInvariant, PTL

\* What is carried over to the next generation is what no wait got, unless the workflow is
\* continued as new in the middle of a replay or after a handler has thrown.
THEOREM CarriesWhatNobodyGot ==
  Spec => [](~isReplaying /\ thrown = {} => CarriesTheUnreceived)
<1>1. InstanceInv /\ FlowInv => (~isReplaying /\ thrown = {} => CarriesTheUnreceived)
  <2> SUFFICES ASSUME InstanceInv, FlowInv, ~isReplaying, thrown = {},
                      completion = "CONTINUED_AS_NEW", program[pc].preserve
               PROVE  carryoverEvents = {e \in RaisedEvents : Receivers(e) = {}}
    BY DEF CarriesTheUnreceived
  <2>1. IterTypeOK /\ ContinueInv
    BY DEF InstanceInv, FullInv, ExecutorInv, ExecutorTypeOK, FlowInv, LocalInv
  <2>2. \A e : Receivers(e) = {} <=> \A s \in Waits : outcome[s] # Deserialize(e.val)
    BY DEF Receivers
  <2> QED BY <2>1, <2>2, RaisedEventsAre DEF ContinueInv
<1> QED BY <1>1, FlowInvariant, PTL

-----------------------------------------------------------------------------
(* The request to terminate *)

IsTermination(e) == e.type = "ExecutionTerminated"

\* A request waits or is in the turn under way, unless the workflow has been continued as new
\* or is over; one that has been read has completed the workflow.
TerminateInv ==
  /\ control # "idle" => status = "RUNNING"
  /\ generation = 1 /\ status = "RUNNING" /\ "terminate" \in requested =>
       IF control = "idle" THEN \E i \in DOMAIN inbox : IsTermination(inbox[i])
       ELSE \E i \in DOMAIN newEvents : IsTermination(newEvents[i])
  /\ completion = "none" => \A i \in DOMAIN Given : IsTermination(Given[i]) => i > ReadCount

\* Its handler completes the workflow, if nothing has.
LEMMA TerminationCompletes ==
  ASSUME HandleEvent, IsTermination(NextEvent), isComplete => completion # "none",
         completion = "none"
  PROVE  completion' # "none"
<1>1. \A type : Read(type) => type = "ExecutionTerminated"
  BY DEF Read, IsTermination
<1>2. \A type : Handle(type) => type = "ExecutionTerminated"
  BY <1>1 DEF Handle
<1>3. HandleExecutionTerminated
  <2>1. ~HandleEventWhileSuspended
    BY <1>1 DEF HandleEventWhileSuspended, OverrideSuspension
  <2>2. ~HandleExecutionSuspended /\ ~HandleExecutionResumed
    BY <1>1 DEF HandleExecutionSuspended, HandleExecutionResumed
  <2> QED
    BY <1>2, <2>1, <2>2
       DEF HandleEvent, HandleTaskScheduled, HandleTaskCompleted, HandleTaskFailed,
           HandleTimerCreated, HandleInfrastructureTimer, HandleTimerFired,
           HandleSubOrchestrationCreated, HandleSubOrchestrationCompleted,
           HandleSubOrchestrationFailed, HandleEventRaised, HandleUnknown,
           HandleWorkflowStarted, HandleExecutionStarted
<1> QED BY <1>3 DEF HandleExecutionTerminated, CompleteInternal

\* No step takes a completion back.
LEMMA StaysCompleted ==
  ASSUME ExecutorStep, completion' = "none"
  PROVE  completion = "none"
<1>1. ~ContinueAsNew
  BY DEF ContinueAsNew, CompleteInternal
<1> QED BY <1>1, EndHow

LEMMA TerminateExecution ==
  ASSUME InstanceInv, FlowInv, TerminateInv, Execution
  PROVE  TerminateInv'
<1>1. /\ ExecutorStep /\ control # "idle" /\ control' # "idle" /\ IterTypeOK /\ IterInv /\ DoneInv
      /\ UNCHANGED <<newEvents, status, generation, requested>> /\ Given' = Given
  BY ControlStep
     DEF Execution, backendVars, InstanceInv, FullInv, ExecutorInv, ExecutorTypeOK, FlowInv,
         LocalInv, Given
<1>2. ASSUME completion' = "none", NEW i \in DOMAIN Given, IsTermination(Given[i])
      PROVE  i > ReadCount'
  <2>1. completion = "none" /\ i > ReadCount
    BY <1>1, <1>2, StaysCompleted DEF TerminateInv
  <2>2. CASE HandleEvent
    <3>1. PICK type : Read(type)
      BY <2>2, EventIsRead
    <3>2. CASE draining
      BY <1>1, <2>1, <3>1, <3>2, ReadIsNext
    <3>3. CASE ~draining
      <4>1. /\ ReadCount' = ReadCount + 1 /\ NextEvent = Given[ReadCount + 1]
        BY <1>1, <3>1, <3>3, ReadIsNext DEF IsNext
      <4>2. i # ReadCount + 1
        BY <1>1, <1>2, <2>1, <2>2, <4>1, TerminationCompletes DEF DoneInv
      <4>3. i \in Nat /\ ReadCount \in Nat
        BY <1>1, GivenType
      <4> QED BY <2>1, <4>1, <4>2, <4>3
    <3> QED BY <3>2, <3>3
  <2>3. CASE CodeStep \/ Yield \/ EndOfHistory
    <3>1. ReadCount' = ReadCount
      BY <2>3, NothingIsRead DEF iterVars, ReadCount
    <3> QED BY <2>1, <3>1
  <2> QED BY <1>1, <2>2, <2>3 DEF ExecutorStep
<1> QED BY <1>1, <1>2 DEF TerminateInv

\* In a new context nothing has been read.
Unread == \A i \in DOMAIN Given : i > ReadCount

LEMMA NothingRead == Empty => Unread
<1> SUFFICES ASSUME Empty PROVE Unread
  OBVIOUS
<1>1. Given \in Seq(EventRecords) /\ ReadCount = 0
  BY GivenType DEF Empty, ReadCount
<1> QED BY <1>1 DEF Unread

LEMMA NewUnread ==
  ASSUME NEW past, NEW new, NewContext(past, new), control' \in {"idle", "loop"}, FullInv'
  PROVE  \A i \in DOMAIN Given' : i > ReadCount'
<1>1. Empty'
  BY DEF NewContext, Empty, FullInv, ExecutorInv, ExecutorTypeOK, DeployTypeOK, Waits
<1>2. Unread'
  BY <1>1, NothingRead, PTL
<1> QED BY <1>2 DEF Unread

\* An event of q is behind the one put in front of it.
LEMMA BehindFront ==
  ASSUME NEW q \in Seq(EventRecords), NEW x \in EventRecords
  PROVE  /\ \A i \in DOMAIN q : i + 1 \in DOMAIN (<<x>> \o q) /\ (<<x>> \o q)[i + 1] = q[i]
         /\ \A i \in DOMAIN (<<x>> \o q) :
              (<<x>> \o q)[i] = x \/ \E j \in DOMAIN q : (<<x>> \o q)[i] = q[j]
<1> DEFINE r == <<x>> \o q
<1>1. /\ r \in Seq(EventRecords) /\ Len(r) = Len(q) + 1 /\ r # <<>> /\ Head(r) = x
      /\ \A i \in 1 .. Len(q) : r[i + 1] = q[i]
  BY InFront
<1> HIDE DEF r
<1>2. DOMAIN r = 1 .. Len(r) /\ DOMAIN q = 1 .. Len(q) /\ Len(q) \in Nat /\ r[1] = x
  BY <1>1, HeadTailProperties
<1>3. \A i \in DOMAIN q : i + 1 \in DOMAIN r /\ r[i + 1] = q[i]
  BY <1>1, <1>2
<1>4. \A i \in DOMAIN r : r[i] = x \/ \E j \in DOMAIN q : r[i] = q[j]
  <2> SUFFICES ASSUME NEW i \in DOMAIN r, i # 1 PROVE \E j \in DOMAIN q : r[i] = q[j]
    BY <1>2
  <2>1. i - 1 \in 1 .. Len(q) /\ i = (i - 1) + 1
    BY <1>1, <1>2
  <2> QED BY <1>1, <1>2, <2>1
<1> QED BY <1>3, <1>4 DEF r

LEMMA TerminateDispatch ==
  ASSUME InstanceInv, TerminateInv, Dispatch
  PROVE  TerminateInv'
<1> DEFINE ws == WorkflowStarted(FALSE)
<1>1. /\ control = "idle" /\ control' = "loop" /\ newEvents' = <<ws>> \o inbox
      /\ NewContext(history, newEvents') /\ status = "RUNNING"
      /\ UNCHANGED <<status, generation, requested>>
  BY DEF Dispatch, Execute, NewContext
<1>2. inbox \in Seq(EventRecords) /\ ws \in EventRecords
  BY WorkflowStartedType DEF InstanceInv, BackendTypeOK
<1>3. \A i \in DOMAIN Given' : i > ReadCount'
  BY <1>1, NewUnread, DispatchKeeps DEF InstanceInv
<1> HIDE DEF ws
<1>4. \A i \in DOMAIN inbox : \E j \in DOMAIN newEvents' : newEvents'[j] = inbox[i]
  BY <1>1, <1>2, BehindFront
<1> QED BY <1>1, <1>3, <1>4 DEF TerminateInv, IsTermination

LEMMA TerminateAbandon ==
  ASSUME InstanceInv, TerminateInv, Abandon
  PROVE  TerminateInv'
<1> DEFINE ws == WorkflowStarted(FALSE)
<1>1. /\ control # "idle" /\ control' = "idle" /\ newEvents = <<ws>> \o inbox'
      /\ inbox' \in Seq(EventRecords) /\ NewContext(<<>>, <<>>)
      /\ UNCHANGED <<status, generation, requested>>
  BY AbandonsWith DEF Abandon, Release
<1>2. ws \in EventRecords /\ ~IsTermination(ws)
  <2>1. ws \in EventRecords /\ ws.type = "WorkflowStarted"
    BY WorkflowStartedType
  <2> QED BY <2>1 DEF IsTermination
<1>3. \A i \in DOMAIN Given' : i > ReadCount'
  BY <1>1, NewUnread, AbandonKeeps DEF InstanceInv
<1> HIDE DEF ws
<1>4. \A i \in DOMAIN newEvents :
        newEvents[i] = ws \/ \E j \in DOMAIN inbox' : newEvents[i] = inbox'[j]
  BY <1>1, <1>2, BehindFront
<1> QED BY <1>1, <1>2, <1>3, <1>4 DEF TerminateInv, IsTermination

LEMMA TerminateCommit ==
  ASSUME InstanceInv, FlowInv, TerminateInv, CommitTurn \/ CommitEnd \/ CommitContinueAsNew
  PROVE  TerminateInv'
<1>1. /\ control = "done" /\ control' = "idle" /\ NewContext(<<>>, <<>>) /\ requested' = requested
  BY DEF CommitTurn, CommitEnd, CommitContinueAsNew, Commit, Release
<1>2. \A i \in DOMAIN Given' : i > ReadCount'
  BY <1>1, NewUnread, CommitKeeps, ContinueKeeps DEF InstanceInv
<1>3. CASE CommitTurn
  <2>1. completion = "none" /\ ReadCount = Len(Given) /\ UNCHANGED <<status, generation>>
    BY <1>1, <1>3 DEF CommitTurn, FlowInv, LocalInv, DoneInv
  <2>2. ASSUME NEW i \in DOMAIN newEvents
        PROVE  ~IsTermination(newEvents[i])
    <3>1. /\ newEvents \in Seq(EventRecords) /\ Len(newEvents) \in Nat /\ Len(pastEvents) \in Nat
          /\ Len(Given) = Len(pastEvents) + Len(newEvents) /\ Given \in Seq(EventRecords)
          /\ \A j \in 1 .. Len(newEvents) : Given[Len(pastEvents) + j] = newEvents[j]
      BY GivenType DEF InstanceInv, FullInv, ExecutorInv, ExecutorTypeOK, IterTypeOK
    <3>2. i \in 1 .. Len(newEvents)
      BY <3>1
    <3>3. /\ Len(pastEvents) + i \in DOMAIN Given /\ Given[Len(pastEvents) + i] = newEvents[i]
          /\ ~(Len(pastEvents) + i > ReadCount)
      BY <2>1, <3>1, <3>2
    <3> QED BY <2>1, <3>3 DEF TerminateInv
  <2> QED BY <1>1, <1>2, <2>1, <2>2 DEF TerminateInv
<1>4. CASE CommitEnd
  BY <1>1, <1>2, <1>4 DEF CommitEnd, Statuses, TerminateInv
<1>5. CASE CommitContinueAsNew
  <2>1. generation' # 1
    BY <1>5 DEF CommitContinueAsNew, FlowInv, RaisedInv
  <2> QED BY <1>1, <1>2, <2>1 DEF TerminateInv
<1> QED BY <1>3, <1>4, <1>5

LEMMA TerminateArrival ==
  ASSUME InstanceInv, TerminateInv, Arrival
  PROVE  TerminateInv'
<1>1. PICK e \in EventRecords :
        /\ Arrive(e)
        /\ \/ requested' = requested
           \/ requested' \in {requested \union {"suspend"}, requested \union {"resume"}}
           \/ IsTermination(e)
  BY Arrivals DEF Arrival, IsTermination
<1>2. /\ control = "idle" /\ inbox' = Append(inbox, e) /\ inbox \in Seq(EventRecords)
      /\ UNCHANGED <<control, status, generation, completion>>
      /\ UNCHANGED <<isReplaying, currentHistoryIndex, pastEvents, newEvents>>
  BY <1>1 DEF Arrive, BetweenTurns, InstanceInv, BackendTypeOK, execVars, endVars, iterVars
<1>3. /\ \A i \in DOMAIN inbox : i \in DOMAIN inbox' /\ inbox'[i] = inbox[i]
      /\ \E i \in DOMAIN inbox' : inbox'[i] = e
  BY <1>2, AppendProperties
<1>4. ReadCount' = ReadCount /\ Given' = Given
  BY <1>2 DEF ReadCount, Given
<1>5. "terminate" \in requested' => "terminate" \in requested \/ IsTermination(e)
  BY <1>1
<1> QED BY <1>2, <1>3, <1>4, <1>5 DEF TerminateInv, IsTermination

LEMMA TerminateStep ==
  ASSUME InstanceInv, FlowInv, TerminateInv, [Next]_vars
  PROVE  TerminateInv'
<1>1. CASE Deploys \/ UNCHANGED vars
  BY <1>1
     DEF Deploys, vars, execVars, backendVars, iterVars, endVars, TerminateInv, Given, ReadCount
<1> QED BY <1>1, Steps, TerminateArrival, TerminateDispatch, TerminateExecution, TerminateCommit,
           TerminateAbandon

\* A request to terminate is not used up by a turn that does not end the workflow, until the
\* workflow is continued as new (the turn that does so drops a request that came with it).
THEOREM TerminationIsHonoured == Spec => [](generation = 1 => TerminateIsHonoured)
<1> DEFINE Inv == InstanceInv /\ FlowInv /\ TerminateInv
<1>1. Init => Inv
  <2>1. Init => TerminateInv
    <3> SUFFICES ASSUME Init PROVE TerminateInv
      OBVIOUS
    <3>1. control = "idle" /\ requested = {} /\ pastEvents = <<>> /\ newEvents = <<>>
      BY DEF Init, NoContext
    <3>2. Given = <<>>
      BY <3>1 DEF Given
    <3> QED BY <3>1, <3>2 DEF TerminateInv
  <2> QED BY <2>1, InitInstance, InitFlow
<1>2. Inv /\ [Next]_vars => Inv'
  BY InstanceStep, FlowStep, TerminateStep
<1>3. Inv => (generation = 1 => TerminateIsHonoured)
  BY DEF TerminateInv, TerminateIsHonoured, BetweenTurns, IsTermination
<1> QED BY <1>1, <1>2, <1>3, PTL DEF Spec

-----------------------------------------------------------------------------
(* The order in which events are handed to waits *)

IsRaised(e) == e.type = "EventRaised"

\* A number below those of all events deferred (in d) and of all behind the first n.
Ahead(v, d, n) ==
  /\ \A l \in DOMAIN d : IsRaised(d[l]) => v < d[l].val
  /\ \A i \in RaisedIn(Given) : i > n => v < Given[i].val

\* The deferred events come in order, before those that have not been read.
Upcoming(d, n) ==
  /\ \A k, l \in DOMAIN d :
       k < l /\ IsRaised(d[k]) /\ IsRaised(d[l]) => d[k].val < d[l].val
  /\ \A k \in DOMAIN d : IsRaised(d[k]) =>
       \A i \in RaisedIn(Given) : i > n => d[k].val < Given[i].val

\* What is in the buffer or with a wait came before what is deferred or unread.
Handled(b, out, d, n) ==
  /\ \A k \in DOMAIN b : Ahead(b[k].val, d, n)
  /\ \A s \in Waits : out[s].kind = "ok" => Ahead(out[s].val, d, n)

\* The event comes after all that have been handled.
IsLatest(e, b, out) ==
  /\ \A k \in DOMAIN b : b[k].val < e.val
  /\ \A s \in Waits : out[s].kind = "ok" => out[s].val < e.val

\* The buffer is in order; of the waits of one name those served were served in order, with
\* events before any of that name in the buffer, and come before those in the queue.
Served(b, out, queues) ==
  /\ \A k, l \in DOMAIN b : k < l => b[k].val < b[l].val
  /\ \A s \in Waits : \A k \in DOMAIN b :
       out[s].kind = "ok" /\ program[s].name = b[k].name => out[s].val < b[k].val
  /\ \A s, t \in Waits :
       s < t /\ program[s].name = program[t].name /\ out[s].kind = "ok" /\ out[t].kind = "ok" =>
         out[s].val < out[t].val
  /\ \A n \in EventNames : \A i \in DOMAIN queues[n] : \A s \in Waits :
       out[s].kind = "ok" /\ program[s].name = n => s < queues[n][i]
  /\ \A n \in EventNames : \A i, j \in DOMAIN queues[n] : i < j => queues[n][i] < queues[n][j]

OrderInv ==
  generation = 1 /\ thrown = {} =>
    /\ Upcoming(eventsWhileSuspended, ReadCount)
    /\ Handled(unprocessedEvents, outcome, eventsWhileSuspended, ReadCount)
    /\ Served(unprocessedEvents, outcome, outstandingEvents)

\* The next event of the list comes after all that have been read, and before all others.
LEMMA ReadNext ==
  ASSUME IterTypeOK, Ordered(Given), NEW n \in Nat, n + 1 \in DOMAIN Given,
         NEW b, NEW d, NEW out, Upcoming(d, n), Handled(b, out, d, n)
  PROVE  LET e == Given[n + 1]
         IN /\ Upcoming(d, n + 1) /\ Handled(b, out, d, n + 1)
            /\ IsRaised(e) =>
                 /\ IsLatest(e, b, out)
                 /\ \A l \in DOMAIN d : IsRaised(d[l]) => d[l].val < e.val
                 /\ \A i \in RaisedIn(Given) : i > n + 1 => e.val < Given[i].val
<1> DEFINE e == Given[n + 1]
<1>1. Given \in Seq(EventRecords)
  BY GivenType
<1>2. /\ \A i \in RaisedIn(Given) : i \in Nat /\ (i > n + 1 => i > n)
      /\ IsRaised(e) => n + 1 \in RaisedIn(Given) /\ n + 1 > n
  BY <1>1 DEF RaisedIn, IsRaised
<1>3. Upcoming(d, n + 1)
  BY <1>2 DEF Upcoming
<1>4. Handled(b, out, d, n + 1)
  BY <1>2 DEF Handled, Ahead
<1>5. ASSUME IsRaised(e)
      PROVE  IsLatest(e, b, out) /\ \A l \in DOMAIN d : IsRaised(d[l]) => d[l].val < e.val
  BY <1>2, <1>5 DEF Handled, Ahead, IsLatest, Upcoming
<1>6. ASSUME IsRaised(e), NEW i \in RaisedIn(Given), i > n + 1
      PROVE  e.val < Given[i].val
  BY <1>2, <1>6 DEF Ordered
<1> QED BY <1>3, <1>4, <1>5, <1>6

LEMMA DeferNext ==
  ASSUME IterTypeOK, Ordered(Given), NEW n \in Nat, n + 1 \in DOMAIN Given,
         NEW b, NEW d \in Seq(EventRecords), NEW out, Upcoming(d, n), Handled(b, out, d, n)
  PROVE  LET r == Append(d, Given[n + 1]) IN Upcoming(r, n + 1) /\ Handled(b, out, r, n + 1)
<1> DEFINE e == Given[n + 1]
           r == Append(d, e)
<1>1. /\ Upcoming(d, n + 1) /\ Handled(b, out, d, n + 1)
      /\ IsRaised(e) => /\ IsLatest(e, b, out)
                        /\ \A l \in DOMAIN d : IsRaised(d[l]) => d[l].val < e.val
                        /\ \A i \in RaisedIn(Given) : i > n + 1 => e.val < Given[i].val
  BY ReadNext
<1>2. e \in EventRecords
  <2>1. Given \in Seq(EventRecords)
    BY GivenType
  <2> QED BY <2>1, ElementOfSeq
<1> HIDE DEF e
<1>3. /\ DOMAIN r = 1 .. Len(d) + 1 /\ DOMAIN d = 1 .. Len(d) /\ Len(d) \in Nat
      /\ \A l \in 1 .. Len(d) : r[l] = d[l]
      /\ r[Len(d) + 1] = e
  BY <1>2, AppendProperties
<1> HIDE DEF r
<1>4. Upcoming(r, n + 1)
  <2>1. ASSUME NEW k \in DOMAIN r, NEW l \in DOMAIN r, k < l, IsRaised(r[k]), IsRaised(r[l])
        PROVE  r[k].val < r[l].val
    <3>1. k \in DOMAIN d /\ r[k] = d[k] /\ ((l \in DOMAIN d /\ r[l] = d[l]) \/ r[l] = e)
      BY <1>3, <2>1
    <3> QED BY <1>1, <2>1, <3>1 DEF Upcoming
  <2>2. ASSUME NEW k \in DOMAIN r, IsRaised(r[k]), NEW i \in RaisedIn(Given), i > n + 1
        PROVE  r[k].val < Given[i].val
    <3>1. (k \in DOMAIN d /\ r[k] = d[k]) \/ r[k] = e
      BY <1>3
    <3> QED BY <1>1, <2>2, <3>1 DEF Upcoming
  <2> QED BY <2>1, <2>2 DEF Upcoming
<1>5. \A l \in DOMAIN r : r[l] = e \/ \E k \in DOMAIN d : r[l] = d[k]
  BY <1>3
<1>6. Handled(b, out, r, n + 1)
  BY <1>1, <1>5 DEF Handled, Ahead, IsLatest
<1> QED BY <1>4, <1>6 DEF r, e

LEMMA DrainFirst ==
  ASSUME NEW n, NEW b, NEW d \in Seq(EventRecords), NEW out, d # <<>>,
         Upcoming(d, n), Handled(b, out, d, n)
  PROVE  LET e == Head(d)
         IN /\ Upcoming(Tail(d), n) /\ Handled(b, out, Tail(d), n)
            /\ IsRaised(e) => IsLatest(e, b, out) /\ Ahead(e.val, Tail(d), n)
<1> DEFINE e == Head(d)
           r == Tail(d)
<1>1. /\ e = d[1] /\ 1 \in DOMAIN d
      /\ \A i \in DOMAIN r : i + 1 \in DOMAIN d /\ r[i] = d[i + 1]
      /\ DOMAIN r \subseteq Nat \ {0}
  <2>1. r \in Seq(EventRecords)
    BY LeftOf
  <2> HIDE DEF r
  <2>2. DOMAIN r \subseteq Nat \ {0}
    BY <2>1
  <2> QED BY <2>2, LeftOf DEF r
<1> HIDE DEF e, r
<1>2. \A i \in DOMAIN r : 1 < i + 1
  BY <1>1
<1>3. \A i, j \in DOMAIN r : i < j => i + 1 < j + 1
  BY <1>1
<1>4. Upcoming(r, n)
  BY <1>1, <1>3 DEF Upcoming
<1>5. Handled(b, out, r, n)
  BY <1>1 DEF Handled, Ahead
<1>6. IsRaised(e) => IsLatest(e, b, out) /\ Ahead(e.val, r, n)
  BY <1>1, <1>2 DEF Upcoming, Handled, Ahead, IsLatest
<1> QED BY <1>4, <1>5, <1>6 DEF e, r

\* The exceptions of a turn add up.
LEMMA ThrownGrows ==
  ASSUME ExecutorStep
  PROVE  thrown \subseteq thrown'
<1>1. CASE HandleEvent
  <2>1. CASE HandleTaskScheduled \/ HandleSubOrchestrationCreated \/ HandleTimerCreated
    <3>1. PICK kinds : Confirm(kinds)
      BY <2>1 DEF HandleTaskScheduled, HandleSubOrchestrationCreated, HandleTimerCreated
    <3>2. \/ UNCHANGED thrown
          \/ \E actions, seq : Throws("NonDeterministicOrchestratorException", actions, seq)
      BY <3>1 DEF Confirm
    <3> QED BY <3>2 DEF Throws
  <2>2. CASE HandleUnknown \/ HandleExecutionTerminated
    BY <2>2 DEF HandleUnknown, HandleExecutionTerminated, Throws
  <2>3. CASE \/ HandleTaskCompleted \/ HandleTaskFailed \/ HandleTimerFired
             \/ HandleSubOrchestrationCompleted \/ HandleSubOrchestrationFailed
             \/ HandleInfrastructureTimer \/ HandleEventRaised \/ HandleWorkflowStarted
             \/ HandleExecutionStarted \/ HandleEventWhileSuspended
             \/ HandleExecutionSuspended \/ HandleExecutionResumed
    BY <2>3
       DEF HandleTaskCompleted, HandleTaskFailed, HandleTimerFired,
           HandleSubOrchestrationCompleted, HandleSubOrchestrationFailed, CloseTask,
           HandleInfrastructureTimer, HandleEventRaised, HandleWorkflowStarted,
           HandleExecutionStarted, HandleEventWhileSuspended, HandleExecutionSuspended,
           HandleExecutionResumed
  <2> QED BY <1>1, <2>1, <2>2, <2>3 DEF HandleEvent
<1>2. CASE CodeStep \/ Yield \/ EndOfHistory
  BY <1>2, NothingIsRead
<1> QED BY <1>1, <1>2 DEF ExecutorStep

\* A cancelled wait, and one that leaves its queue, disturb no order.
LEMMA ServedQuiet ==
  ASSUME ExecutorTypeOK, Served(unprocessedEvents, outcome, outstandingEvents),
         WaitsStay, QueuesShrink
  PROVE  Served(unprocessedEvents, outcome', outstandingEvents')
<1>1. \A s \in Waits : outcome'[s].kind = "ok" => outcome'[s] = outcome[s]
  BY DEF WaitsStay, Canceled
<1>2. \A n \in EventNames : outstandingEvents[n] \in Seq(Slots)
  BY DEF ExecutorTypeOK, EventTypeOK
<1>3. ASSUME NEW n \in EventNames
      PROVE  /\ \A i \in DOMAIN outstandingEvents'[n] : \E j \in DOMAIN outstandingEvents[n] :
                  outstandingEvents'[n][i] = outstandingEvents[n][j]
             /\ \A i, k \in DOMAIN outstandingEvents'[n] : i < k =>
                  \E j, l \in DOMAIN outstandingEvents[n] :
                    /\ j < l /\ outstandingEvents'[n][i] = outstandingEvents[n][j]
                    /\ outstandingEvents'[n][k] = outstandingEvents[n][l]
  <2> DEFINE q == outstandingEvents[n]
             r == outstandingEvents'[n]
  <2>1. q \in Seq(Slots) /\ (r = q \/ \E slot : r = RemoveFirst(q, slot))
    BY <1>2 DEF QueuesShrink
  <2> HIDE DEF q, r
  <2>2. CASE r = q
    BY <2>2 DEF q, r
  <2>3. CASE \E slot : r = RemoveFirst(q, slot)
    <3>1. PICK slot : r = RemoveFirst(q, slot)
      BY <2>3
    <3>2. /\ \A i \in DOMAIN r : \E j \in DOMAIN q : r[i] = q[j]
          /\ \A i, k \in DOMAIN r : i < k =>
               \E j, l \in DOMAIN q : j < l /\ r[i] = q[j] /\ r[k] = q[l]
      BY <2>1, <3>1, LeftOf
    <3> QED BY <3>2 DEF q, r
  <2> QED BY <2>1, <2>2, <2>3
<1>4. \A n \in EventNames : \A i, j \in DOMAIN outstandingEvents'[n] :
        i < j => outstandingEvents'[n][i] < outstandingEvents'[n][j]
  BY <1>3 DEF Served
<1>5. \A n \in EventNames : \A i \in DOMAIN outstandingEvents'[n] : \A s \in Waits :
        outcome'[s].kind = "ok" /\ program[s].name = n => s < outstandingEvents'[n][i]
  BY <1>1, <1>3 DEF Served
<1> QED BY <1>1, <1>4, <1>5 DEF Served

\* An event that is buffered is the latest.
LEMMA ServedBuffers ==
  ASSUME NEW b \in Seq(EventRecords), NEW out, NEW queues, Served(b, out, queues),
         NEW e \in EventRecords, IsLatest(e, b, out)
  PROVE  Served(Append(b, e), out, queues)
<1> DEFINE r == Append(b, e)
<1>1. /\ DOMAIN r = 1 .. Len(b) + 1 /\ DOMAIN b = 1 .. Len(b) /\ Len(b) \in Nat
      /\ \A l \in 1 .. Len(b) : r[l] = b[l]
      /\ r[Len(b) + 1] = e
  BY AppendProperties
<1> HIDE DEF r
<1>2. ASSUME NEW k \in DOMAIN r, NEW l \in DOMAIN r, k < l
      PROVE  r[k].val < r[l].val
  <2>1. k \in DOMAIN b /\ r[k] = b[k] /\ ((l \in DOMAIN b /\ r[l] = b[l]) \/ r[l] = e)
    BY <1>1, <1>2
  <2> QED BY <1>2, <2>1 DEF Served, IsLatest
<1>3. \A l \in DOMAIN r : r[l] = e \/ \E k \in DOMAIN b : r[l] = b[k]
  BY <1>1
<1>4. \A s \in Waits : \A k \in DOMAIN r :
        out[s].kind = "ok" /\ program[s].name = r[k].name => out[s].val < r[k].val
  BY <1>3 DEF Served, IsLatest
<1> QED BY <1>2, <1>4 DEF Served, r

\* The first of a queue is served with the latest event.
LEMMA ServedHead ==
  ASSUME FullInv, QueueInv, StarveInv, Served(unprocessedEvents, outcome, outstandingEvents),
         NEW e \in EventRecords, e.name \in EventNames, outstandingEvents[e.name] # <<>>,
         IsLatest(e, unprocessedEvents, outcome)
  PROVE  LET n == e.name
             s == Head(outstandingEvents[n])
         IN Served(unprocessedEvents, [outcome EXCEPT ![s] = Deserialize(e.val)],
                   [outstandingEvents EXCEPT ![n] = Tail(@)])
<1> DEFINE n == e.name
           s == Head(outstandingEvents[n])
           q == outstandingEvents[n]
           r == Tail(q)
           out == [outcome EXCEPT ![s] = Deserialize(e.val)]
           queues == [outstandingEvents EXCEPT ![n] = Tail(@)]
<1>1. /\ s \in Waits /\ s \in Slots /\ program[s].name = n /\ s = q[1] /\ 1 \in DOMAIN q
      /\ outcome \in [Slots -> Outcomes] /\ Waits \subseteq Slots
      /\ outstandingEvents \in [EventNames -> Seq(Slots)] /\ q \in Seq(Slots)
  BY HeadWaits
     DEF FullInv, ExecutorInv, ExecutorTypeOK, CodeTypeOK, EventTypeOK, DeployTypeOK, Waits
<1>2. Slots \subseteq Nat
  BY SlotsNat
<1>3. \A k \in DOMAIN unprocessedEvents : unprocessedEvents[k].name # n
  BY DEF StarveInv
<1>4. /\ \A t \in Waits : out[t] = IF t = s THEN Deserialize(e.val) ELSE outcome[t]
      /\ out[s].kind = "ok" => out[s].val = e.val
  BY <1>1 DEF Deserialize, Result, Failed
<1>5. /\ \A m \in EventNames : queues[m] = IF m = n THEN r ELSE outstandingEvents[m]
      /\ \A i \in DOMAIN r : i + 1 \in DOMAIN q /\ r[i] = q[i + 1] /\ i \in Nat \ {0}
  <2>1. r \in Seq(Slots) /\ \A i \in DOMAIN r : i + 1 \in DOMAIN q /\ r[i] = q[i + 1]
    BY <1>1, LeftOf
  <2>2. \A i \in DOMAIN r : i \in Nat \ {0}
    <3> HIDE DEF r
    <3> QED BY <2>1
  <2> QED BY <1>1, <2>1, <2>2
<1> HIDE DEF r, out, queues, q, s
<1>6. /\ \A i, j \in DOMAIN q : i < j => q[i] < q[j]
      /\ \A i \in DOMAIN q : \A t \in Waits :
           outcome[t].kind = "ok" /\ program[t].name = n => t < q[i]
  BY DEF Served, q
<1>7. \A k \in DOMAIN unprocessedEvents : \A t \in Waits :
        out[t].kind = "ok" /\ program[t].name = unprocessedEvents[k].name =>
          out[t].val < unprocessedEvents[k].val
  BY <1>1, <1>3, <1>4 DEF Served
<1>8. ASSUME NEW t \in Waits, NEW u \in Waits, t < u, program[t].name = program[u].name,
             out[t].kind = "ok", out[u].kind = "ok"
      PROVE  out[t].val < out[u].val
  <2>1. t \in Nat /\ u \in Nat
    BY <1>1, <1>2
  <2>2. CASE u = s
    <3>1. t # s
      BY <1>8, <2>1, <2>2
    <3> QED BY <1>4, <1>8, <2>2, <3>1 DEF IsLatest
  <2>3. CASE t = s
    <3>1. u # s /\ outcome[u].kind = "ok" /\ program[u].name = n
      BY <1>1, <1>4, <1>8, <2>1, <2>3
    <3>2. u < s
      BY <1>1, <1>6, <3>1
    <3> QED BY <1>8, <2>1, <2>3, <3>2
  <2>4. CASE t # s /\ u # s
    BY <1>4, <1>8, <2>4 DEF Served
  <2> QED BY <2>2, <2>3, <2>4
<1>9. ASSUME NEW m \in EventNames, NEW i \in DOMAIN queues[m], NEW t \in Waits,
             out[t].kind = "ok", program[t].name = m
      PROVE  t < queues[m][i]
  <2>1. CASE m # n
    BY <1>1, <1>4, <1>5, <1>9, <2>1 DEF Served
  <2>2. CASE m = n
    <3>1. i + 1 \in DOMAIN q /\ queues[m][i] = q[i + 1] /\ 1 < i + 1
      BY <1>5, <1>9, <2>2
    <3> QED BY <1>1, <1>4, <1>6, <1>9, <2>2, <3>1
  <2> QED BY <2>1, <2>2
<1>10. ASSUME NEW m \in EventNames, NEW i \in DOMAIN queues[m], NEW j \in DOMAIN queues[m], i < j
       PROVE  queues[m][i] < queues[m][j]
  <2>1. CASE m # n
    BY <1>5, <1>10, <2>1 DEF Served
  <2>2. CASE m = n
    <3>1. /\ i + 1 \in DOMAIN q /\ queues[m][i] = q[i + 1] /\ j + 1 \in DOMAIN q
          /\ queues[m][j] = q[j + 1] /\ i + 1 < j + 1
      BY <1>5, <1>10, <2>2
    <3> QED BY <1>6, <3>1
  <2> QED BY <2>1, <2>2
<1>11. \A k, l \in DOMAIN unprocessedEvents :
         k < l => unprocessedEvents[k].val < unprocessedEvents[l].val
  BY DEF Served
<1> QED
  <2>1. Served(unprocessedEvents, out, queues)
    BY <1>7, <1>8, <1>9, <1>10, <1>11 DEF Served
  <2> QED BY <2>1 DEF out, queues, s, q

\* Names that are told apart only by case are the same name to the buffer, not to the queues.
NamesDiffer == \A m, n \in EventNames : CaseFold[m] = CaseFold[n] => m = n

\* A wait takes the first event of its name from the buffer, when no other waits for it.
LEMMA ServedTakes ==
  ASSUME NamesDiffer, FullInv, StarveInv, Takes,
         Served(unprocessedEvents, outcome, outstandingEvents)
  PROVE  Served(unprocessedEvents', outcome', outstandingEvents')
<1> DEFINE b == unprocessedEvents
           n == program[pc].name
           k == BufferedEvent(n)
<1>1. /\ k # 0 /\ b' = RemoveAt(b, k) /\ outcome' = [outcome EXCEPT ![pc] = Result(b[k].val)]
      /\ pc \in Waits /\ outstandingEvents' = outstandingEvents
  BY DEF Takes, Running, Waits, IsWait
<1>2. /\ outcome \in [Slots -> Outcomes] /\ Waits \subseteq Slots /\ EventTypeOK
      /\ b \in Seq(EventRecords) /\ n \in EventNames
  BY <1>1
     DEF FullInv, ExecutorInv, ExecutorTypeOK, CodeTypeOK, EventTypeOK, DeployTypeOK, Waits,
         IsWait, WellFormed
<1>3. Slots \subseteq Nat
  BY SlotsNat
<1>4. /\ k \in 1 .. Len(b) /\ CaseFold[b[k].name] = CaseFold[n]
      /\ \A j \in 1 .. Len(b) : b[j].name = n => k <= j
  <2>1. /\ k \in 0 .. Len(b) /\ (k # 0 => CaseFold[b[k].name] = CaseFold[n])
        /\ \A j \in 1 .. Len(b) : CaseFold[b[j].name] = CaseFold[n] => k <= j
    BY <1>2, BufferedEventIs
  <2> HIDE DEF k, n
  <2> QED BY <1>1, <1>2, <2>1
<1> HIDE DEF k, n
<1>5. k \in DOMAIN b /\ DOMAIN b = 1 .. Len(b) /\ b[k] \in EventRecords
  BY <1>2, <1>4, ElementOfSeq
<1>6. b[k].name = n /\ outstandingEvents[n] = <<>>
  <2>1. b[k].type = "EventRaised" /\ outstandingEvents[b[k].name] = <<>>
    BY <1>5 DEF StarveInv
  <2>2. b[k].name \in EventNames
    BY <1>5, <2>1 DEF EventRecords
  <2> QED BY <1>2, <1>4, <2>1, <2>2 DEF NamesDiffer
<1>7. /\ \A t \in Waits : outcome'[t] = IF t = pc THEN Result(b[k].val) ELSE outcome[t]
      /\ outcome'[pc].kind = "ok" /\ outcome'[pc].val = b[k].val /\ outcome[pc].kind # "ok"
      /\ \A t \in Waits : outcome[t].kind = "ok" => t < pc
  <2>1. \A t \in Waits : outcome[t].kind = "ok" => t < pc
    BY <1>2 DEF FullInv, WaitInv, Done
  <2>2. ~(pc < pc)
    BY <1>1, <1>2, <1>3
  <2> QED BY <1>1, <1>2, <2>1, <2>2 DEF Result
<1> DEFINE r == b'
<1>8. \A i \in DOMAIN r : \E j \in DOMAIN b :
        r[i] = b[j] /\ j # k /\ i = (IF j < k THEN j ELSE j - 1)
  BY <1>1, <1>2, <1>4, RemoveAtWithout DEF Without
<1> HIDE DEF r
<1>9. ASSUME NEW i \in DOMAIN r, NEW j \in DOMAIN r, i < j
      PROVE  r[i].val < r[j].val
  <2>1. PICK l \in DOMAIN b : r[i] = b[l] /\ l # k /\ i = (IF l < k THEN l ELSE l - 1)
    BY <1>8
  <2>2. PICK m \in DOMAIN b : r[j] = b[m] /\ m # k /\ j = (IF m < k THEN m ELSE m - 1)
    BY <1>8
  <2>3. l < m
    BY <1>4, <1>5, <1>9, <2>1, <2>2
  <2> QED BY <2>1, <2>2, <2>3 DEF Served
<1>10. ASSUME NEW t \in Waits, NEW i \in DOMAIN r, outcome'[t].kind = "ok",
              program[t].name = r[i].name
       PROVE  outcome'[t].val < r[i].val
  <2>1. PICK j \in DOMAIN b : r[i] = b[j] /\ j # k
    BY <1>8
  <2>2. CASE t = pc
    <3>1. b[j].name = n
      BY <1>10, <2>1, <2>2 DEF n
    <3>2. k < j
      BY <1>4, <1>5, <2>1, <3>1
    <3> QED BY <1>5, <1>7, <2>1, <2>2, <3>2 DEF Served
  <2>3. CASE t # pc
    BY <1>7, <1>10, <2>1, <2>3 DEF Served
  <2> QED BY <2>2, <2>3
<1>11. ASSUME NEW t \in Waits, NEW u \in Waits, t < u, program[t].name = program[u].name,
              outcome'[t].kind = "ok", outcome'[u].kind = "ok"
       PROVE  outcome'[t].val < outcome'[u].val
  <2>1. t \in Nat /\ u \in Nat /\ pc \in Nat
    BY <1>1, <1>2, <1>3
  <2>2. CASE u = pc
    <3>1. t # pc /\ outcome'[t] = outcome[t] /\ program[t].name = b[k].name
      BY <1>6, <1>7, <1>11, <2>1, <2>2 DEF n
    <3> QED BY <1>5, <1>7, <1>11, <2>2, <3>1 DEF Served
  <2>3. CASE t = pc
    <3>1. u # pc /\ u < pc
      BY <1>7, <1>11, <2>1, <2>3
    <3> QED BY <1>11, <2>1, <2>3, <3>1
  <2>4. CASE t # pc /\ u # pc
    BY <1>7, <1>11, <2>4 DEF Served
  <2> QED BY <2>2, <2>3, <2>4
<1>12. ASSUME NEW m \in EventNames, NEW i \in DOMAIN outstandingEvents[m], NEW t \in Waits,
              outcome'[t].kind = "ok", program[t].name = m
       PROVE  t < outstandingEvents[m][i]
  <2>1. t # pc
    BY <1>6, <1>12 DEF n
  <2> QED BY <1>7, <1>12, <2>1 DEF Served
<1>13. \A m \in EventNames : \A i, j \in DOMAIN outstandingEvents[m] :
         i < j => outstandingEvents[m][i] < outstandingEvents[m][j]
  BY DEF Served
<1> QED
  <2>1. Served(r, outcome', outstandingEvents)
    BY <1>9, <1>10, <1>11, <1>12, <1>13 DEF Served
  <2> QED BY <1>1, <2>1 DEF r

\* A wait goes to the end of the queue of its name.
LEMMA ServedQueues ==
  ASSUME FullInv, Queues, Served(unprocessedEvents, outcome, outstandingEvents)
  PROVE  Served(unprocessedEvents, outcome, outstandingEvents')
<1> DEFINE n == program[pc].name
           q == outstandingEvents[n]
           r == Append(q, pc)
<1>1. /\ outstandingEvents' = [outstandingEvents EXCEPT ![n] = Append(@, pc)]
      /\ pc \in Waits /\ pc \in Slots /\ n \in EventNames /\ q \in Seq(Slots)
      /\ outstandingEvents \in [EventNames -> Seq(Slots)]
      /\ outcome \in [Slots -> Outcomes] /\ Waits \subseteq Slots
  BY DEF Queues, Running, Waits, IsWait, FullInv, ExecutorInv, ExecutorTypeOK, CodeTypeOK,
         EventTypeOK, DeployTypeOK, WellFormed
<1>2. /\ \A t \in Waits : outcome[t].kind = "ok" => t < pc
      /\ \A i \in DOMAIN q : q[i] < pc
  BY <1>1 DEF FullInv, WaitInv, Done
<1> HIDE DEF n, q
<1>3. /\ DOMAIN r = 1 .. Len(q) + 1 /\ DOMAIN q = 1 .. Len(q) /\ Len(q) \in Nat
      /\ \A l \in 1 .. Len(q) : r[l] = q[l]
      /\ r[Len(q) + 1] = pc
  BY <1>1, AppendProperties
<1>4. \A m \in EventNames :
        outstandingEvents'[m] = IF m = n THEN r ELSE outstandingEvents[m]
  BY <1>1 DEF q
<1> HIDE DEF r
<1>5. ASSUME NEW m \in EventNames, NEW i \in DOMAIN outstandingEvents'[m], NEW t \in Waits,
             outcome[t].kind = "ok", program[t].name = m
      PROVE  t < outstandingEvents'[m][i]
  <2>1. CASE m # n
    BY <1>4, <1>5, <2>1 DEF Served
  <2>2. CASE m = n
    <3>1. i \in DOMAIN r /\ outstandingEvents'[m][i] = r[i]
      BY <1>4, <1>5, <2>2
    <3>2. r[i] = pc \/ (i \in DOMAIN q /\ r[i] = q[i])
      BY <1>3, <3>1
    <3> QED BY <1>1, <1>2, <1>5, <2>2, <3>1, <3>2 DEF Served, q
  <2> QED BY <2>1, <2>2
<1>6. ASSUME NEW m \in EventNames, NEW i \in DOMAIN outstandingEvents'[m],
             NEW j \in DOMAIN outstandingEvents'[m], i < j
      PROVE  outstandingEvents'[m][i] < outstandingEvents'[m][j]
  <2>1. CASE m # n
    BY <1>4, <1>6, <2>1 DEF Served
  <2>2. CASE m = n
    <3>1. i \in DOMAIN r /\ j \in DOMAIN r /\ outstandingEvents'[m] = r
      BY <1>4, <1>6, <2>2
    <3>2. i \in DOMAIN q /\ r[i] = q[i] /\ (r[j] = pc \/ (j \in DOMAIN q /\ r[j] = q[j]))
      BY <1>3, <1>6, <3>1
    <3> QED BY <1>1, <1>2, <1>6, <2>2, <3>1, <3>2 DEF Served, q
  <2> QED BY <2>1, <2>2
<1> QED BY <1>5, <1>6 DEF Served

LEMMA OrderKept ==
  ASSUME NamesDiffer, FullInv, IterInv, QueueInv, StarveInv, Ordered(Given), ExecutorStep,
         thrown = {},
         Upcoming(eventsWhileSuspended, ReadCount),
         Handled(unprocessedEvents, outcome, eventsWhileSuspended, ReadCount),
         Served(unprocessedEvents, outcome, outstandingEvents)
  PROVE  /\ Upcoming(eventsWhileSuspended', ReadCount')
         /\ Handled(unprocessedEvents', outcome', eventsWhileSuspended', ReadCount')
         /\ Served(unprocessedEvents', outcome', outstandingEvents')
<1> DEFINE b == unprocessedEvents
           d == eventsWhileSuspended
<1>1. /\ ExecutorTypeOK /\ IterTypeOK /\ Waits \subseteq Slots /\ ReadCount \in Nat
      /\ b \in Seq(EventRecords) /\ d \in Seq(EventRecords) /\ outcome \in [Slots -> Outcomes]
  BY GivenType
     DEF FullInv, ExecutorInv, ExecutorTypeOK, SuspendTypeOK, EventTypeOK, CodeTypeOK, Waits,
         DeployTypeOK
<1>2. ASSUME NEW e, From(e)
      PROVE  /\ e \in EventRecords
             /\ Upcoming(d', ReadCount') /\ Handled(b, outcome, d', ReadCount')
             /\ IsRaised(e) /\ ~isSuspended =>
                  IsLatest(e, b, outcome) /\ Ahead(e.val, d', ReadCount')
  <2>1. e \in EventRecords
    BY <1>1, <1>2, FromType
  <2>2. CASE FromList(e)
    <3>1. /\ ReadCount + 1 \in DOMAIN Given /\ e = Given[ReadCount + 1]
          /\ ReadCount' = ReadCount + 1 /\ d' = d /\ ~draining
      BY <2>2 DEF FromList, IsNext
    <3>2. /\ Upcoming(d, ReadCount + 1) /\ Handled(b, outcome, d, ReadCount + 1)
          /\ IsRaised(e) =>
               /\ IsLatest(e, b, outcome)
               /\ \A i \in RaisedIn(Given) : i > ReadCount + 1 => e.val < Given[i].val
      BY <1>1, <3>1, ReadNext
    <3>3. ~isSuspended => d = <<>>
      BY <3>1 DEF FullInv, FrozenInv
    <3> QED BY <2>1, <3>1, <3>2, <3>3 DEF Ahead
  <2>3. CASE FromDeferred(e)
    BY <1>1, <2>1, <2>3, DrainFirst DEF FromDeferred
  <2> QED BY <1>2, <2>2, <2>3 DEF From
<1>3. CASE Quiet
  <2>1. Upcoming(d', ReadCount') /\ Handled(b, outcome, d', ReadCount')
    BY <1>2, <1>3 DEF Quiet, FromNowhere
  <2>2. \A s \in Waits : outcome'[s].kind = "ok" => outcome'[s] = outcome[s]
    BY <1>3 DEF Quiet, WaitsStay, Canceled
  <2>3. Handled(b, outcome', d', ReadCount')
    BY <2>1, <2>2 DEF Handled
  <2>4. Served(b, outcome', outstandingEvents')
    BY <1>1, <1>3, ServedQuiet DEF Quiet
  <2> QED BY <1>3, <2>1, <2>3, <2>4 DEF Quiet
<1>4. CASE Defers
  <2>1. PICK e : /\ ReadCount + 1 \in DOMAIN Given /\ e = Given[ReadCount + 1]
                 /\ ReadCount' = ReadCount + 1 /\ d' = Append(d, e)
    BY <1>4 DEF Defers, IsNext
  <2> QED BY <1>1, <1>4, <2>1, DeferNext DEF Defers
<1>5. CASE Buffers
  <2>1. PICK e : From(e) /\ IsRaised(e) /\ b' = Append(b, e)
    BY <1>5 DEF Buffers, IsRaised
  <2>2. /\ e \in EventRecords /\ Upcoming(d', ReadCount') /\ Handled(b, outcome, d', ReadCount')
        /\ IsLatest(e, b, outcome) /\ Ahead(e.val, d', ReadCount')
        /\ UNCHANGED <<outcome, outstandingEvents>>
    BY <1>2, <1>5, <2>1 DEF Buffers
  <2>3. \A k \in DOMAIN b' : b'[k] = e \/ \E l \in DOMAIN b : b'[k] = b[l]
    BY <1>1, <2>1, <2>2, AppendProperties
  <2>4. Handled(b', outcome, d', ReadCount')
    BY <2>2, <2>3 DEF Handled
  <2>5. Served(b', outcome, outstandingEvents)
    BY <1>1, <2>1, <2>2, ServedBuffers
  <2> QED BY <2>2, <2>4, <2>5
<1>6. CASE Serves
  <2>1. PICK e : /\ From(e) /\ IsRaised(e) /\ outstandingEvents[e.name] # <<>>
                 /\ outstandingEvents' = [outstandingEvents EXCEPT ![e.name] = Tail(@)]
                 /\ outcome' = [outcome EXCEPT ![Head(outstandingEvents[e.name])] =
                                                 Deserialize(e.val)]
    BY <1>6 DEF Serves, IsRaised
  <2>2. /\ e \in EventRecords /\ e.name \in EventNames
        /\ Upcoming(d', ReadCount') /\ Handled(b, outcome, d', ReadCount')
        /\ IsLatest(e, b, outcome) /\ Ahead(e.val, d', ReadCount') /\ UNCHANGED b
    BY <1>2, <1>6, <2>1 DEF Serves, IsRaised, EventRecords
  <2> DEFINE s == Head(outstandingEvents[e.name])
  <2>3. \A t \in Waits : outcome'[t].kind = "ok" =>
          outcome'[t] = outcome[t] \/ outcome'[t].val = e.val
    <3>1. s \in Slots
      BY <2>1, <2>2, HeadWaits
    <3> HIDE DEF s
    <3>2. outcome' = [outcome EXCEPT ![s] = Deserialize(e.val)]
      BY <2>1 DEF s
    <3> QED BY <1>1, <3>1, <3>2 DEF Deserialize, Result, Failed
  <2>4. Handled(b, outcome', d', ReadCount')
    BY <2>2, <2>3 DEF Handled
  <2>5. Served(b, outcome', outstandingEvents')
    BY <2>1, <2>2, ServedHead
  <2> QED BY <2>2, <2>4, <2>5
<1>7. CASE Takes
  <2> DEFINE k == BufferedEvent(program[pc].name)
  <2>1. /\ k # 0 /\ b' = RemoveAt(b, k) /\ d' = d /\ ReadCount' = ReadCount
        /\ outcome' = [outcome EXCEPT ![pc] = Result(b[k].val)]
    BY <1>7 DEF Takes, FromNowhere
  <2>2. k \in 1 .. Len(b)
    <3>1. k \in 0 .. Len(b)
      BY <1>1, BufferedEventIs DEF ExecutorTypeOK
    <3> HIDE DEF k
    <3> QED BY <1>1, <2>1, <3>1
  <2> HIDE DEF k
  <2>3. /\ \A i \in DOMAIN b' : \E j \in DOMAIN b : b'[i] = b[j]
        /\ k \in DOMAIN b
    BY <1>1, <2>1, <2>2, StillBuffered
  <2>4. \A t \in Waits : outcome'[t].kind = "ok" =>
          outcome'[t] = outcome[t] \/ outcome'[t].val = b[k].val
    BY <1>1, <2>1 DEF Result
  <2>5. Handled(b', outcome', d', ReadCount')
    BY <2>1, <2>3, <2>4 DEF Handled
  <2>6. Served(b', outcome', outstandingEvents')
    BY <1>7, ServedTakes
  <2> QED BY <2>1, <2>5, <2>6
<1>8. CASE Queues
  BY <1>8, ServedQueues DEF Queues, FromNowhere
<1> QED BY <1>3, <1>4, <1>5, <1>6, <1>7, <1>8, EventFlow

LEMMA EmptyOrder == Empty => OrderInv
<1> SUFFICES ASSUME Empty PROVE OrderInv
  OBVIOUS
<1>1. /\ DOMAIN unprocessedEvents = {} /\ DOMAIN eventsWhileSuspended = {}
      /\ \A n \in EventNames : DOMAIN outstandingEvents[n] = {}
      /\ \A s \in Waits : outcome[s].kind # "ok"
  BY DEF Empty, Pending
<1> QED BY <1>1 DEF OrderInv, Upcoming, Handled, Served

LEMMA NewOrder ==
  ASSUME NEW past, NEW new, NewContext(past, new), control' \in {"idle", "loop"}, FullInv'
  PROVE  OrderInv'
<1>1. Empty'
  BY DEF NewContext, Empty, FullInv, ExecutorInv, ExecutorTypeOK, DeployTypeOK, Waits
<1> QED BY <1>1, EmptyOrder, PTL

LEMMA OrderSame ==
  ASSUME UNCHANGED <<program, iterVars, suspendVars, eventVars, codeVars, thrown, generation>>,
         OrderInv
  PROVE  OrderInv'
<1>1. /\ Given' = Given /\ ReadCount' = ReadCount /\ Waits' = Waits
      /\ UNCHANGED <<unprocessedEvents, outstandingEvents, eventsWhileSuspended, outcome, thrown,
                     generation, program>>
  BY DEF iterVars, suspendVars, eventVars, codeVars, Given, ReadCount, Waits, IsWait
<1> QED BY <1>1 DEF OrderInv, Upcoming, Handled, Ahead, Served, RaisedIn

LEMMA OrderStep ==
  ASSUME NamesDiffer, InstanceInv, FlowInv, OrderInv, [Next]_vars
  PROVE  OrderInv'
<1>1. FullInv'
  BY InstanceStep DEF InstanceInv
<1>2. CASE Execution
  <2>1. /\ ExecutorStep /\ control # "idle" /\ generation' = generation /\ FullInv
        /\ IterInv /\ QueueInv /\ StarveInv /\ RaisedInv
        /\ Given' = Given /\ Waits' = Waits /\ program' = program
    BY <1>2, ControlStep
       DEF Execution, backendVars, InstanceInv, FlowInv, LocalInv, Given, Waits, IsWait, deployVars
  <2> SUFFICES ASSUME generation = 1, thrown' = {}
               PROVE  /\ Upcoming(eventsWhileSuspended', ReadCount')
                      /\ Handled(unprocessedEvents', outcome', eventsWhileSuspended', ReadCount')
                      /\ Served(unprocessedEvents', outcome', outstandingEvents')
    BY <2>1 DEF OrderInv, Upcoming, Handled, Ahead, Served, RaisedIn
  <2>2. thrown = {}
    BY <2>1, ThrownGrows
  <2>3. Ordered(Given)
    BY <2>1 DEF RaisedInv, RaisedOK, AllEvents
  <2> QED BY <2>1, <2>2, <2>3, OrderKept DEF OrderInv
<1>3. CASE Dispatch
  BY <1>1, <1>3, NewOrder DEF Dispatch, Execute
<1>4. CASE CommitTurn \/ CommitEnd \/ CommitContinueAsNew \/ Abandon
  <2>1. Release
    BY <1>4 DEF CommitTurn, CommitEnd, CommitContinueAsNew, Commit, Abandon
  <2> QED BY <1>1, <2>1, NewOrder DEF Release
<1>5. CASE Arrival
  <2>1. UNCHANGED execVars /\ UNCHANGED generation
    BY <1>5, Arrivals DEF Arrive, Arrival
  <2> QED BY <2>1, OrderSame DEF execVars, deployVars
<1>6. CASE Deploys \/ UNCHANGED vars
  BY <1>6, OrderSame DEF Deploys, vars, execVars, deployVars, backendVars
<1> QED BY <1>2, <1>3, <1>4, <1>5, <1>6, Steps

\* Waits of one name are served in the order they were made, with events in the order they were
\* raised, when no two names differ only in case and no handler has thrown in the turn.
THEOREM ServesInOrder ==
  ASSUME NamesDiffer
  PROVE  Spec => [](thrown = {} => ServedInOrder)
<1> DEFINE Inv == InstanceInv /\ FlowInv /\ OrderInv
<1>1. Init => Inv
  <2>1. Init => Empty
    <3> SUFFICES ASSUME Init PROVE Empty
      OBVIOUS
    <3>1. InstanceInv
      BY InitInstance
    <3> QED
      BY <3>1 DEF Init, NoContext, Empty, InstanceInv, FullInv, ExecutorInv, ExecutorTypeOK,
                  DeployTypeOK, Waits
  <2> QED BY <2>1, InitInstance, InitFlow, EmptyOrder
<1>2. Inv /\ [Next]_vars => Inv'
  BY InstanceStep, FlowStep, OrderStep
<1>3. Inv => (thrown = {} => ServedInOrder)
  BY DEF OrderInv, Served, ServedInOrder
<1> QED BY <1>1, <1>2, <1>3, PTL DEF Spec
=============================================================================
