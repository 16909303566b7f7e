---------------------------- MODULE RetriesAndTimers ----------------------------
(***************************************************************************)
(* RetriableTask and TimerTask of TaskOrchestrationExecutor: tasks that the *)
(* code sees as one and that are made of many.  A handler of a failure      *)
(* awaits the delay and the next attempt, inside the await that handed it    *)
(* the event; a long timer is a chain of timers.                            *)
(*                                                                         *)
(* A workflow is one execution over a history that grows: that its replays  *)
(* repeat it is checked where turns are modelled (WorkflowTurns).  What is   *)
(* asked for in a turn is answered in a later one.  The code catches what    *)
(* an await throws and goes on.  RetryHandler is left out.                   *)
(*                                                                         *)
(* Instants and intervals are in milliseconds, and what is shorter is       *)
(* dropped: an interval of less is 0.                                       *)
(***************************************************************************)
EXTENDS Integers, FiniteSets, SequencesExt

CONSTANTS
  Programs,              \* sequences of the instructions below
  MaximumTimerInterval,
  Second,                \* the milliseconds of one
  MaxLong, MaxDouble,    \* the largest numbers of these types
  MaxLate                \* bound: how long after the last timer is due a turn may begin

\* An activity or a child workflow, without and with a retry policy, and a timer.
activity == [call |-> "activity"]
retriable(policy) == [call |-> "retriable", policy |-> policy]
createTimer(delay) == [call |-> "timer", delay |-> delay]
\* The task of an earlier instruction, or all or one of several.
await(k) == [call |-> "await", of |-> {k}]
allOf(ks) == [call |-> "allOf", of |-> ks]
anyOf(ks) == [call |-> "anyOf", of |-> ks]

\* A double of 1.0 or more: a ratio.  That the powers of a double are rounded is left out.
Coefficients == {c \in [num : Nat \ {0}, den : Nat \ {0}] : c.num >= c.den}

\* RetryPolicy.  A maximum or a timeout of 0 is none.
Policies ==
  [maxNumberOfAttempts : Nat \ {0}, firstRetryInterval : Nat,
   backoffCoefficient : Coefficients, maxRetryInterval : Nat, retryTimeout : Nat]

Lesser(a, b) == IF a < b THEN a ELSE b

\* What is left of a power of the coefficient when it is cast to long: the cast drops the fraction,
\* and stops at the largest long.
Power(policy, n) ==
  LET c == policy.backoffCoefficient IN Lesser(c.num ^ n \div c.den ^ n, MaxLong)

Awaits == {"await", "allOf", "anyOf"}

\* Programs await tasks they have made.
ASSUME RetriesAssumption ==
  /\ MaximumTimerInterval \in Nat \ {0} /\ Second \in Nat \ {0}
  /\ MaxLong \in Nat /\ MaxDouble \in Nat /\ MaxLate \in Nat
  /\ \A p \in Programs :
       /\ DOMAIN p = 1 .. Len(p) /\ Len(p) \in Nat
       /\ \A k \in DOMAIN p :
            \/ p[k].call = "activity"
            \/ p[k].call = "retriable" /\ p[k].policy \in Policies
            \/ p[k].call = "timer" /\ p[k].delay \in Nat
            \/ /\ p[k].call \in Awaits /\ p[k].of # {} /\ p[k].of \subseteq 1 .. k - 1
               /\ \A j \in p[k].of : p[j].call \notin Awaits
               /\ p[k].call = "await" => \E j \in 1 .. k - 1 : p[k].of = {j}

\* The powers of a number of 1 or more are numbers, and do not shrink: the provers know nothing of
\* powers.
ASSUME PowersAssumption ==
  \A p \in Programs : \A k \in DOMAIN p : p[k].call = "retriable" =>
    \A n \in 0 .. p[k].policy.maxNumberOfAttempts :
      /\ Power(p[k].policy, n) \in Nat
      /\ \A m \in 0 .. n : Power(p[k].policy, m) <= Power(p[k].policy, n)

VARIABLES
  program, pc,
  currentInstant,
  subtasks,        \* what was asked of the backend, by id: attempts and timers
  childTask,       \* instruction -> its attempt, or the first timer of its chain (0: not yet run)
  outcome,         \* instruction -> what became of the task's own future
  attemptNumber,   \* instruction -> attempts, as the task counts them
  frames,          \* the awaits that are under way, the innermost last
  observed         \* instruction -> what its await returned, and when (for the properties)

vars == <<program, pc, currentInstant, subtasks, childTask, outcome, attemptNumber, frames, observed>>

Instructions == DOMAIN program

Init ==
  /\ program \in Programs
  /\ pc = 1 /\ currentInstant = 0 /\ subtasks = <<>> /\ frames = <<>>
  /\ childTask = [k \in Instructions |-> 0]
  /\ outcome = [k \in Instructions |-> "open"]
  /\ attemptNumber = [k \in Instructions |-> 0]
  /\ observed = [k \in Instructions |-> [result |-> "none", at |-> 0]]

-----------------------------------------------------------------------------
(* Subtasks *)

Subtask(kind, k, fireAt, finalFireAt) ==
  [kind |-> kind, of |-> k, fireAt |-> fireAt, finalFireAt |-> finalFireAt, created |-> currentInstant,
   asked |-> FALSE, state |-> "open", ended |-> 0]

Attempt(k) == Subtask("attempt", k, 0, 0)

\* createTimerTask: a timer of the longest interval at most.
TimerUntil(kind, k, finalFireAt) ==
  Subtask(kind, k,
          IF finalFireAt - currentInstant > MaximumTimerInterval
          THEN currentInstant + MaximumTimerInterval ELSE finalFireAt,
          finalFireAt)

Ended(id, state) ==
  [subtasks EXCEPT ![id] = [@ EXCEPT !.state = state, !.ended = currentInstant]]

\* A mistake the runs must notice: an id is skipped.
IdAfterNext == Len(subtasks) + 2

NextId == Len(subtasks) + 1

-----------------------------------------------------------------------------
(* Awaits *)

Top == Last(frames)

\* The future an await waits for: of all or one of the tasks, or of one subtask.
FutureDone(frame) ==
  \/ frame.at = "allOf" /\ \A k \in frame.of : outcome[k] # "open"
  \/ frame.at = "anyOf" /\ \E k \in frame.of : outcome[k] # "open"
  \/ frame.at \notin {"allOf", "anyOf"} /\ subtasks[frame.on].state # "open"

Waiting(frame, k) == [at |-> frame, task |-> k, on |-> childTask[k], of |-> {}]

\* The innermost await is blocked: the handlers and the code below it wait with it.
Blocked == frames # <<>> /\ ~FutureDone(Top)

Resumable(at) == frames # <<>> /\ FutureDone(Top) /\ Top.at = at

\* The await at pc is over.
CodeGoesOn(result) ==
  /\ pc' = pc + 1
  /\ observed' = [observed EXCEPT ![pc] = [result |-> result, at |-> currentInstant]]

-----------------------------------------------------------------------------
(* The code *)

Runs == frames = <<>> /\ pc <= Len(program)
Instruction == program[pc]

CreateTask ==
  /\ Runs /\ Instruction.call \notin Awaits
  /\ subtasks' = Append(subtasks,
                        IF Instruction.call = "timer"
                        THEN TimerUntil("timer", pc, currentInstant + Instruction.delay)
                        ELSE Attempt(pc))
  /\ childTask' = [childTask EXCEPT ![pc] = NextId]
  /\ pc' = pc + 1
  /\ UNCHANGED <<program, currentInstant, outcome, attemptNumber, frames, observed>>

\* A mistake the runs must notice: both awaits of a task count an attempt.
CountedTwice(ks) ==
  [k \in Instructions |->
     IF k \in ks /\ program[k].call = "retriable" THEN attemptNumber[k] + 2 ELSE attemptNumber[k]]

\* init, of each retriable task that is awaited, alone or with others.
Counted(ks) ==
  [k \in Instructions |->
     IF k \in ks /\ program[k].call = "retriable" THEN attemptNumber[k] + 1 ELSE attemptNumber[k]]

\* A timer by itself is awaited through the future of its chain, which is done with the first.
Await ==
  /\ Runs /\ Instruction.call = "await"
  /\ \E k \in Instruction.of :
       frames' = <<Waiting(IF program[k].call = "retriable" THEN "attempt" ELSE "task", k)>>
  /\ attemptNumber' = Counted(Instruction.of)
  /\ UNCHANGED <<program, pc, currentInstant, subtasks, childTask, outcome, observed>>

AwaitCompound ==
  /\ Runs /\ Instruction.call \in {"allOf", "anyOf"}
  /\ frames' = <<[at |-> Instruction.call, task |-> 0, on |-> 0, of |-> Instruction.of]>>
  /\ attemptNumber' = Counted(Instruction.of)
  /\ UNCHANGED <<program, pc, currentInstant, subtasks, childTask, outcome, observed>>

\* An await of the code returns, or throws.
CodeReturns ==
  /\ Resumable("task") \/ Resumable("allOf") \/ Resumable("anyOf")
  /\ frames' = <<>>
  /\ CodeGoesOn(IF Top.at = "task" THEN subtasks[Top.on].state ELSE "done")
  /\ UNCHANGED <<program, currentInstant, subtasks, childTask, outcome, attemptNumber>>

-----------------------------------------------------------------------------
(* RetriableTask *)

\* A mistake the runs must notice: the first attempt's result is returned.
FirstAttemptCounts ==
  /\ Resumable("attempt")
  /\ frames' = Append(Front(frames), [Top EXCEPT !.at = "result"])
  /\ UNCHANGED <<program, pc, currentInstant, subtasks, childTask, outcome, attemptNumber, observed>>

\* await: once the attempt that was awaited is over, with what followed it, the current one is.
AttemptReturns ==
  /\ Resumable("attempt")
  /\ frames' = Append(Front(frames), Waiting("result", Top.task))
  /\ UNCHANGED <<program, pc, currentInstant, subtasks, childTask, outcome, attemptNumber, observed>>

\* What it returns goes to the code, or to a handler, which is over then.
ResultReturns ==
  /\ Resumable("result")
  /\ frames' = Front(frames)
  /\ \/ /\ Len(frames) = 1
        /\ CodeGoesOn(subtasks[Top.on].state)
     \/ /\ Len(frames) > 1
        /\ UNCHANGED <<pc, observed>>
  /\ UNCHANGED <<program, currentInstant, subtasks, childTask, outcome, attemptNumber>>

\* A mistake the runs must notice: one attempt more.
OnceMore(k) == attemptNumber[k] <= program[k].policy.maxNumberOfAttempts

InTime(k) ==
  LET policy == program[k].policy
      first == CHOOSE id \in DOMAIN subtasks :
                 subtasks[id].of = k /\ \A j \in 1 .. id - 1 : subtasks[j].of # k
  IN policy.retryTimeout > 0 => currentInstant < subtasks[first].created + policy.retryTimeout

\* So the guard against Integer.MAX_VALUE attempts, behind this one, is out of reach.
AttemptsLeft(k) == attemptNumber[k] < program[k].policy.maxNumberOfAttempts

\* A mistake the runs must notice: the delay does not grow.
FirstIntervalAlways(k) == program[k].policy.firstRetryInterval

\* powExact, or multiplyExact, throws.
Overflows(policy, n) ==
  LET c == policy.backoffCoefficient
  IN \/ c.num ^ n > MaxDouble * c.den ^ n
     \/ policy.firstRetryInterval * Power(policy, n) > MaxLong

\* ... and so does getNextDelay if there is no maximum to resort to.
NoNextDelay(k) ==
  program[k].policy.maxRetryInterval = 0 /\ Overflows(program[k].policy, attemptNumber[k])

GetNextDelay(k) ==
  LET policy == program[k].policy
      delay == policy.firstRetryInterval * Power(policy, attemptNumber[k])
  IN IF Overflows(policy, attemptNumber[k]) THEN policy.maxRetryInterval
     ELSE IF policy.maxRetryInterval > 0 THEN Lesser(delay, policy.maxRetryInterval)
     ELSE delay

InDelay(k, id) == [at |-> "delay", task |-> k, on |-> id, of |-> {}]

\* tryRetry: the handler of the failure awaits the delay.  If there is none it goes on at once, as
\* after an await of what is done, the failed attempt.  An ArithmeticException leaves the task's own
\* future open; the await that took the event ignores it.
TryRetry(id, k) ==
  /\ \/ /\ NoNextDelay(k)
        /\ subtasks' = Ended(id, "failed")
        /\ UNCHANGED frames
     \/ /\ ~NoNextDelay(k) /\ GetNextDelay(k) = 0
        /\ subtasks' = Ended(id, "failed")
        /\ frames' = Append(frames, InDelay(k, id))
     \/ /\ ~NoNextDelay(k) /\ GetNextDelay(k) > 0
        /\ subtasks' = Append(Ended(id, "failed"),
                              TimerUntil("delay", k, currentInstant + GetNextDelay(k)))
        /\ frames' = Append(frames, InDelay(k, NextId))
  /\ UNCHANGED outcome

\* ... and then makes the next attempt and awaits it, or throws a NullPointerException if the
\* task was never awaited: its start time is not set.
DelayReturns ==
  /\ Resumable("delay")
  /\ LET k == Top.task
     IN \/ /\ attemptNumber[k] = 0
           /\ frames' = Front(frames)
           /\ UNCHANGED <<subtasks, childTask, attemptNumber>>
        \/ /\ attemptNumber[k] > 0
           /\ subtasks' = Append(subtasks, Attempt(k))
           /\ childTask' = [childTask EXCEPT ![k] = NextId]
           /\ attemptNumber' = Counted({k})
           /\ frames' = Append(Front(frames),
                               [at |-> "attempt", task |-> k, on |-> NextId, of |-> {}])
  /\ UNCHANGED <<program, pc, currentInstant, outcome, observed>>

-----------------------------------------------------------------------------
(* Events, which the innermost await takes from the history *)

\* A turn begins, for an event at least: what was asked for is known to the backend, and time has
\* passed.
WorkflowStarted ==
  /\ Blocked
  /\ \E t \in {currentInstant} \union
              {subtasks[id].fireAt + late : id \in DOMAIN subtasks, late \in 0 .. MaxLate} :
       /\ t >= currentInstant
       /\ currentInstant' = t
  /\ \E id \in DOMAIN subtasks :
       subtasks[id].state = "open" /\ subtasks[id].fireAt <= currentInstant'
  /\ subtasks' = [id \in DOMAIN subtasks |-> [subtasks[id] EXCEPT !.asked = TRUE]]
  /\ UNCHANGED <<program, pc, childTask, outcome, attemptNumber, frames, observed>>

Answered(id) == Blocked /\ subtasks[id].state = "open" /\ subtasks[id].asked

Done(k, result) == outcome' = [outcome EXCEPT ![k] = result]

TaskCompleted(id) ==
  /\ Answered(id) /\ subtasks[id].kind = "attempt"
  /\ subtasks' = Ended(id, "done")
  /\ Done(subtasks[id].of, "done")
  /\ UNCHANGED <<program, pc, currentInstant, childTask, attemptNumber, frames, observed>>

\* The result cannot be deserialized.  A retriable task takes the exception for a failure of the
\* task, and the cast throws: its own future stays open.
TaskCompletedUnreadable(id) ==
  /\ Answered(id) /\ subtasks[id].kind = "attempt"
  /\ subtasks' = Ended(id, "unreadable")
  /\ IF program[subtasks[id].of].call = "retriable" THEN UNCHANGED outcome
     ELSE Done(subtasks[id].of, "failed")
  /\ UNCHANGED <<program, pc, currentInstant, childTask, attemptNumber, frames, observed>>

\* A failure may say that a retry is of no use.
TaskFailed(id) ==
  LET k == subtasks[id].of IN
  /\ Answered(id) /\ subtasks[id].kind = "attempt"
  /\ \E nonRetriable \in BOOLEAN :
       IF ~nonRetriable /\ program[k].call = "retriable" /\ AttemptsLeft(k) /\ InTime(k)
       THEN TryRetry(id, k)
       ELSE /\ subtasks' = Ended(id, IF nonRetriable THEN "nonRetriable" ELSE "failed")
            /\ Done(k, "failed")
            /\ UNCHANGED frames
  /\ UNCHANGED <<program, pc, currentInstant, childTask, attemptNumber, observed>>

\* A mistake the runs must notice: a timer has no successor.
ChainEndsAtOnce(timer) == FALSE

\* Timers are compared by whole seconds.
SecondOf(instant) == instant - (instant % Second)

\* createTimerChain
ChainGoesOn(timer) == SecondOf(currentInstant) < SecondOf(timer.finalFireAt)

\* A mistake the runs must notice: the first timer of a chain completes the task.
OverWithTheFirst(timer) == TRUE

\* handleSubTimerSuccess
TimeIsUp(timer) == SecondOf(currentInstant) >= SecondOf(timer.finalFireAt)

TimerFired(id) ==
  LET timer == subtasks[id] IN
  /\ Answered(id) /\ timer.kind # "attempt" /\ timer.fireAt <= currentInstant
  /\ subtasks' = IF ChainGoesOn(timer)
                 THEN Append(Ended(id, "done"),
                             TimerUntil(timer.kind, timer.of, timer.finalFireAt))
                 ELSE Ended(id, "done")
  /\ IF timer.kind = "timer" /\ TimeIsUp(timer) THEN Done(timer.of, "done") ELSE UNCHANGED outcome
  /\ UNCHANGED <<program, pc, currentInstant, childTask, attemptNumber, frames, observed>>

-----------------------------------------------------------------------------
CodeStep ==
  \/ CreateTask \/ Await \/ AwaitCompound
  \/ CodeReturns \/ AttemptReturns \/ ResultReturns \/ DelayReturns

AttemptEnds(id) == TaskCompleted(id) \/ TaskCompletedUnreadable(id) \/ TaskFailed(id)

Finished == pc > Len(program)

\* The code has returned, or waits and nothing will come.
Rest ==
  /\ Finished \/ (Blocked /\ \A id \in DOMAIN subtasks : subtasks[id].state # "open")
  /\ UNCHANGED vars

Next ==
  \/ CodeStep
  \/ WorkflowStarted
  \/ \E id \in DOMAIN subtasks : AttemptEnds(id) \/ TimerFired(id)
  \/ Rest

Spec == Init /\ [][Next]_vars

\* The code runs on, turns begin, activities are answered and timers fire.
FairSpec ==
  /\ Spec
  /\ WF_vars(CodeStep) /\ WF_vars(WorkflowStarted)
  /\ WF_vars(\E id \in DOMAIN subtasks : AttemptEnds(id))
  /\ WF_vars(\E id \in DOMAIN subtasks : TimerFired(id))

-----------------------------------------------------------------------------
(* Properties *)

Frames ==
  [at : {"task", "attempt", "result", "delay", "allOf", "anyOf"}, task : Nat, on : Nat,
   of : SUBSET Instructions]

States == {"open", "done", "failed", "nonRetriable", "unreadable"}

Subtasks ==
  [kind : {"attempt", "timer", "delay"}, of : Instructions, fireAt : Nat, finalFireAt : Nat,
   created : Nat, asked : BOOLEAN, ended : Nat,
   state : States]

RetriesTypeOK ==
  /\ program \in Programs /\ pc \in 1 .. Len(program) + 1 /\ currentInstant \in Nat
  /\ subtasks \in Seq(Subtasks)
  /\ childTask \in [Instructions -> 0 .. Len(subtasks)]
  /\ outcome \in [Instructions -> {"open", "done", "failed"}]
  /\ attemptNumber \in [Instructions -> Nat]
  /\ frames \in Seq(Frames)
  /\ observed \in [Instructions -> [result : {"none"} \union States, at : Nat]]

IsRetriable(k) == program[k].call = "retriable"

Attempts(k) == {id \in DOMAIN subtasks : subtasks[id].of = k /\ subtasks[id].kind = "attempt"}

\* No task is attempted more often than its policy says, however its awaits nest, whoever counts
\* an attempt twice, and also if nobody awaits it.
AttemptsAreBounded ==
  \A k \in Instructions :
    IsRetriable(k) => Cardinality(Attempts(k)) <= program[k].policy.maxNumberOfAttempts

\* Between two attempts of a task there is the delay that getNextDelay computes for the number of
\* attempts made, or more, but no more than the longest interval of a timer (the delay is awaited
\* like any timer): so no attempt is made while another is under way.
DelaysAreKept ==
  \A k \in Instructions : IsRetriable(k) =>
    \A a, b \in Attempts(k) :
      a < b /\ (\A c \in Attempts(k) : c <= a \/ b <= c) =>
        LET policy == program[k].policy
            number == Cardinality({c \in Attempts(k) : c <= a})
            delay == policy.firstRetryInterval * Power(policy, number)
            capped == IF policy.maxRetryInterval > 0
                      THEN Lesser(delay, policy.maxRetryInterval) ELSE delay
        IN /\ subtasks[a].state = "failed"
           /\ subtasks[b].created >= subtasks[a].ended + Lesser(capped, MaximumTimerInterval)

\* The task is awaited by one instruction, and by no later than any other.
AwaitedFirst(k) ==
  \E i \in Instructions :
    /\ program[i].call \in Awaits /\ k \in program[i].of
    /\ \A j \in Instructions \ {i} :
         program[j].call \in Awaits => j < k \/ (j > i /\ k \notin program[j].of)

\* A task that is awaited before anything else, and once, fails only when its attempts are spent
\* (or one of them says that it is no use, or the time is up): no attempt is lost when awaits
\* nest and events come in any order.
FailsWhenSpent ==
  \A k \in Instructions :
    IsRetriable(k) /\ outcome[k] = "failed" /\ AwaitedFirst(k) /\ program[k].policy.retryTimeout = 0 =>
      \/ subtasks[childTask[k]].state = "nonRetriable"
      \/ Cardinality(Attempts(k)) = program[k].policy.maxNumberOfAttempts

\* An await of a retriable task returns what its last attempt came to, and the task's own future,
\* which allOf and anyOf look at, says the same.
LastAttemptCounts ==
  /\ \A i \in Instructions :
       observed[i].result # "none" /\ program[i].call = "await" =>
         \A k \in program[i].of :
           IsRetriable(k) => observed[i].result = subtasks[childTask[k]].state
  /\ \A k \in Instructions :
       IsRetriable(k) /\ outcome[k] # "open" =>
         /\ outcome[k] = "done" <=> subtasks[childTask[k]].state = "done"
         /\ \A id \in Attempts(k) : id <= childTask[k] /\ subtasks[id].state # "open"

\* The future of a timer, which allOf and anyOf look at, is not done a second before its time,
\* however long its chain.
RacesWaitForTimers ==
  \A id \in DOMAIN subtasks :
    subtasks[id].kind = "timer" /\ outcome[subtasks[id].of] = "done" =>
      currentInstant + Second > subtasks[id].finalFireAt

\* A retriable task whose future nobody will complete: an attempt of it ended, and no handler is
\* at work on it.
Orphaned(k) ==
  /\ program[k].call = "retriable" /\ childTask[k] # 0
  /\ subtasks[childTask[k]].state # "open" /\ outcome[k] = "open"
  /\ \A n \in DOMAIN frames : frames[n].at = "delay" => frames[n].task # k

\* ... and the code waits for it.
Stuck ==
  /\ frames # <<>>
  /\ \/ frames[1].at = "allOf" /\ \E k \in frames[1].of : Orphaned(k)
     \/ frames[1].at = "anyOf" /\ \A k \in frames[1].of : Orphaned(k)

\* The code comes to its end, however its tasks fail, nest and race, unless it waits for a
\* retriable task whose future was orphaned.
CodeEnds == <>(Finished \/ Stuck)

\* "A new Task that completes after the specified delay": also if the code awaits it by itself.
AwaitedTimersHaveExpired ==
  \A i \in Instructions :
    observed[i].result # "none" /\ program[i].call = "await" =>
      \A id \in DOMAIN subtasks :
        subtasks[id].kind = "timer" /\ subtasks[id].of \in program[i].of =>
          observed[i].at >= subtasks[id].finalFireAt

\* "The number of times to attempt to execute the task": a failure the code sees is that of the
\* last attempt, in whatever order it awaits its tasks.
FailuresAreSpent ==
  \A i \in Instructions :
    observed[i].result = "failed" /\ program[i].call = "await" =>
      \A k \in program[i].of :
        IsRetriable(k) => Cardinality(Attempts(k)) = program[k].policy.maxNumberOfAttempts
=============================================================================
