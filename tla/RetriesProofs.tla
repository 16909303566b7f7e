------------------------------ MODULE RetriesProofs ------------------------------
(***************************************************************************)
(* Proofs about RetriesAndTimers, for all programs, policies and intervals: *)
(* RetriesInv has the types, the bound on attempts, and that the future of a *)
(* timer is not done early; LastInv, built on it, relates the attempts of a  *)
(* task to each other and to what the code is handed: the delays between    *)
(* them, which one counts, and when a failure is final.                      *)
(***************************************************************************)
EXTENDS RetriesAndTimers, FiniteSetTheorems, SequenceTheorems, TLAPS

\* Who asked for what: a subtask belongs to an instruction behind the code, whose current attempt
\* or first timer is known, and what is ahead of the code is not done.
OwnersInv ==
  /\ \A id \in DOMAIN subtasks :
       /\ subtasks[id].of < pc
       /\ subtasks[id].kind = "timer" <=> program[subtasks[id].of].call = "timer"
       /\ subtasks[id].kind = "delay" => program[subtasks[id].of].call = "retriable"
  /\ \A k \in Instructions : k < pc /\ program[k].call \notin Awaits => childTask[k] > 0
  /\ \A k \in Instructions : k >= pc => outcome[k] = "open"

\* An await waits for something there is, and the code is at an await while one is under way.
FramesInv ==
  /\ frames # <<>> => pc <= Len(program) /\ Instruction.call \in Awaits
  /\ \A n \in DOMAIN frames : frames[n].at \notin {"allOf", "anyOf"} =>
       /\ frames[n].on \in DOMAIN subtasks
       /\ frames[n].at # "task" =>
            /\ frames[n].task \in Instructions /\ frames[n].task < pc
            /\ program[frames[n].task].call = "retriable"

\* A task has one attempt under way, or waits for one delay, with attempts left.
DelaysInv ==
  /\ \A id1, id2 \in DOMAIN subtasks :
       (/\ subtasks[id1].kind = "attempt" /\ subtasks[id1].state = "open"
        /\ subtasks[id2].kind = "attempt" /\ subtasks[id2].state = "open"
        /\ subtasks[id1].of = subtasks[id2].of) => id1 = id2
  /\ \A n \in DOMAIN frames : frames[n].at = "delay" =>
       /\ AttemptsLeft(frames[n].task)
       /\ \A id \in DOMAIN subtasks :
            subtasks[id].of = frames[n].task /\ subtasks[id].kind = "attempt" =>
              subtasks[id].state # "open"
       /\ \A m \in DOMAIN frames :
            frames[m].at = "delay" /\ frames[m].task = frames[n].task => m = n

\* The task counts its attempts, or more, once it has been awaited.
CountsInv ==
  \A k \in Instructions : program[k].call = "retriable" =>
    /\ Cardinality(Attempts(k)) <= program[k].policy.maxNumberOfAttempts
    /\ Cardinality(Attempts(k)) <= 1 \/ Cardinality(Attempts(k)) <= attemptNumber[k]

\* The timers of a chain have one end, and the future is not done before it.
ChainsInv ==
  \A id \in DOMAIN subtasks : subtasks[id].kind = "timer" =>
    /\ \A id2 \in DOMAIN subtasks :
         subtasks[id2].of = subtasks[id].of => subtasks[id2].finalFireAt = subtasks[id].finalFireAt
    /\ outcome[subtasks[id].of] = "done" => currentInstant + Second > subtasks[id].finalFireAt

RetriesInv ==
  RetriesTypeOK /\ OwnersInv /\ FramesInv /\ DelaysInv /\ CountsInv /\ ChainsInv

-----------------------------------------------------------------------------
(* Programs, subtasks and attempts *)

LEMMA ProgramFacts ==
  ASSUME RetriesTypeOK
  PROVE  /\ Instructions = 1 .. Len(program) /\ Len(program) \in Nat
         /\ MaximumTimerInterval \in Nat /\ MaxLate \in Nat /\ Second \in Nat \ {0}
         /\ \A k \in Instructions :
              \/ program[k].call = "activity"
              \/ program[k].call = "retriable" /\ program[k].policy \in Policies
              \/ program[k].call = "timer" /\ program[k].delay \in Nat
              \/ /\ program[k].call \in Awaits /\ program[k].of \subseteq 1 .. k - 1
                 /\ \A j \in program[k].of : program[j].call \notin Awaits
                 /\ program[k].call = "await" => \E j \in 1 .. k - 1 : program[k].of = {j}
BY RetriesAssumption DEF RetriesTypeOK, Instructions

LEMMA SubtaskFacts ==
  ASSUME RetriesTypeOK, NEW id \in DOMAIN subtasks
  PROVE  /\ subtasks[id] \in Subtasks /\ subtasks[id].of \in Instructions
         /\ subtasks[id].kind \in {"attempt", "timer", "delay"} /\ subtasks[id].state \in States
         /\ subtasks[id].finalFireAt \in Nat /\ subtasks[id].fireAt \in Nat
         /\ subtasks[id].created \in Nat /\ subtasks[id].ended \in Nat
<1>1. subtasks \in Seq(Subtasks)
  BY DEF RetriesTypeOK
<1>2. subtasks[id] \in Subtasks
  BY <1>1
<1> QED BY <1>2 DEF Subtasks

\* A timer is a subtask, and shares its end with its chain.
LEMMA TimerType ==
  ASSUME RetriesTypeOK, NEW kind \in {"timer", "delay"}, NEW k \in Instructions, NEW final \in Nat
  PROVE  /\ TimerUntil(kind, k, final) \in Subtasks
         /\ TimerUntil(kind, k, final).of = k /\ TimerUntil(kind, k, final).kind = kind
         /\ TimerUntil(kind, k, final).finalFireAt = final
         /\ TimerUntil(kind, k, final).state = "open"
         /\ TimerUntil(kind, k, final).fireAt =
              IF final - currentInstant > MaximumTimerInterval
              THEN currentInstant + MaximumTimerInterval ELSE final
<1>1. (IF final - currentInstant > MaximumTimerInterval
       THEN currentInstant + MaximumTimerInterval ELSE final) \in Nat
  <2>1. currentInstant \in Nat /\ MaximumTimerInterval \in Nat
    BY RetriesAssumption DEF RetriesTypeOK
  <2> QED BY <2>1
<1> QED
  BY <1>1 DEF TimerUntil, Subtask, Subtasks, States, RetriesTypeOK

LEMMA AttemptType ==
  ASSUME RetriesTypeOK, NEW k \in Instructions
  PROVE  /\ Attempt(k) \in Subtasks
         /\ Attempt(k).of = k /\ Attempt(k).kind = "attempt" /\ Attempt(k).state = "open"
         /\ Attempt(k).created = currentInstant
BY DEF Attempt, Subtask, Subtasks, States, RetriesTypeOK

LEMMA EndedType ==
  ASSUME RetriesTypeOK, NEW id \in DOMAIN subtasks, NEW state \in States
  PROVE  /\ Ended(id, state) \in Seq(Subtasks) /\ Len(Ended(id, state)) = Len(subtasks)
         /\ \A j \in DOMAIN subtasks :
              /\ Ended(id, state)[j].of = subtasks[j].of
              /\ Ended(id, state)[j].kind = subtasks[j].kind
              /\ Ended(id, state)[j].finalFireAt = subtasks[j].finalFireAt
              /\ Ended(id, state)[j].created = subtasks[j].created
              /\ Ended(id, state)[j].fireAt = subtasks[j].fireAt
              /\ Ended(id, state)[j].state = IF j = id THEN state ELSE subtasks[j].state
              /\ Ended(id, state)[j].ended = IF j = id THEN currentInstant ELSE subtasks[j].ended
<1> DEFINE new == [subtasks[id] EXCEPT !.state = state, !.ended = currentInstant]
<1>1. subtasks \in Seq(Subtasks) /\ subtasks[id] \in Subtasks /\ currentInstant \in Nat
  BY DEF RetriesTypeOK
<1>2. /\ new \in Subtasks /\ new.of = subtasks[id].of /\ new.kind = subtasks[id].kind
      /\ new.finalFireAt = subtasks[id].finalFireAt /\ new.state = state
      /\ new.created = subtasks[id].created /\ new.fireAt = subtasks[id].fireAt
      /\ new.ended = currentInstant
  BY <1>1 DEF Subtasks
<1>3. Ended(id, state) = [subtasks EXCEPT ![id] = new]
  BY DEF Ended
<1> HIDE DEF new
<1>4. \A j \in DOMAIN subtasks : Ended(id, state)[j] = IF j = id THEN new ELSE subtasks[j]
  BY <1>1, <1>3
<1>5. Ended(id, state) \in Seq(Subtasks) /\ Len(Ended(id, state)) = Len(subtasks)
  BY <1>1, <1>2, <1>3
<1> QED
  BY <1>2, <1>4, <1>5

\* A power of a policy's coefficient, as long as attempts are left.
LEMMA PowerType ==
  ASSUME RetriesTypeOK, NEW k \in Instructions, program[k].call = "retriable",
         NEW n \in 0 .. program[k].policy.maxNumberOfAttempts
  PROVE  /\ program[k].policy.maxNumberOfAttempts \in Nat
         /\ program[k].policy.firstRetryInterval \in Nat
         /\ program[k].policy.maxRetryInterval \in Nat
         /\ Power(program[k].policy, n) \in Nat
         /\ program[k].policy.firstRetryInterval * Power(program[k].policy, n) \in Nat
         /\ \A m \in 0 .. n : Power(program[k].policy, m) <= Power(program[k].policy, n)
<1>1. program[k].policy \in Policies
  BY ProgramFacts DEF Awaits
<1>2. /\ program[k].policy.maxNumberOfAttempts \in Nat
      /\ program[k].policy.firstRetryInterval \in Nat /\ program[k].policy.maxRetryInterval \in Nat
  BY <1>1 DEF Policies
<1>3. program \in Programs /\ k \in DOMAIN program
  BY DEF RetriesTypeOK, Instructions
<1>4. /\ Power(program[k].policy, n) \in Nat
      /\ \A m \in 0 .. n : Power(program[k].policy, m) <= Power(program[k].policy, n)
  BY <1>3, PowersAssumption
<1> QED
  BY <1>2, <1>4

LEMMA DelayType ==
  ASSUME RetriesTypeOK, NEW k \in Instructions, program[k].call = "retriable", AttemptsLeft(k)
  PROVE  GetNextDelay(k) \in Nat
<1>1. attemptNumber[k] \in 0 .. program[k].policy.maxNumberOfAttempts
  <2>1. program[k].policy \in Policies
    BY ProgramFacts DEF Awaits
  <2>2. program[k].policy.maxNumberOfAttempts \in Nat /\ attemptNumber[k] \in Nat
    BY <2>1 DEF RetriesTypeOK, Policies
  <2> QED BY <2>2 DEF AttemptsLeft
<1> DEFINE delay == program[k].policy.firstRetryInterval * Power(program[k].policy, attemptNumber[k])
<1>2. delay \in Nat /\ program[k].policy.maxRetryInterval \in Nat
  BY <1>1, PowerType
<1>3. GetNextDelay(k) = IF Overflows(program[k].policy, attemptNumber[k])
                        THEN program[k].policy.maxRetryInterval
                        ELSE IF program[k].policy.maxRetryInterval > 0
                        THEN Lesser(delay, program[k].policy.maxRetryInterval)
                        ELSE delay
  BY DEF GetNextDelay
<1> HIDE DEF delay
<1> QED
  BY <1>2, <1>3 DEF Lesser

\* One element more.
LEMMA OneMore ==
  ASSUME NEW m \in Nat, NEW S \in SUBSET (1 .. m), NEW n, n \notin S
  PROVE  /\ IsFiniteSet(S) /\ Cardinality(S) \in Nat
         /\ Cardinality(S \union {n}) = Cardinality(S) + 1
<1>1. IsFiniteSet(1 .. m)
  BY FS_Interval
<1>2. IsFiniteSet(S)
  BY <1>1, FS_Subset
<1> QED
  BY <1>2, FS_CardinalityType, FS_AddElement

LEMMA AttemptsFinite ==
  ASSUME RetriesTypeOK, NEW k
  PROVE  /\ Attempts(k) \subseteq 1 .. Len(subtasks) /\ IsFiniteSet(Attempts(k))
         /\ Cardinality(Attempts(k)) \in Nat
<1>1. Attempts(k) \subseteq 1 .. Len(subtasks) /\ Len(subtasks) \in Nat
  BY DEF Attempts, RetriesTypeOK
<1>2. Len(subtasks) + 1 \notin Attempts(k)
  BY <1>1
<1> QED
  BY <1>1, <1>2, OneMore

-----------------------------------------------------------------------------
(* The code *)

LEMMA CreateTaskKeeps ==
  ASSUME RetriesInv, CreateTask
  PROVE  RetriesInv'
<1>0. RetriesTypeOK /\ OwnersInv /\ DelaysInv /\ CountsInv /\ ChainsInv
  BY DEF RetriesInv
<1> DEFINE new == IF Instruction.call = "timer"
                  THEN TimerUntil("timer", pc, currentInstant + Instruction.delay)
                  ELSE Attempt(pc)
<1>1. /\ pc \in Instructions /\ pc \in Nat /\ pc + 1 \in 1 .. Len(program) + 1
      /\ Instruction.call \in {"activity", "retriable", "timer"} /\ Instruction = program[pc]
      /\ Instruction.call = "timer" => Instruction.delay \in Nat
      /\ Instructions = 1 .. Len(program) /\ Instructions' = Instructions
      /\ Len(subtasks) \in Nat
  <2>1. /\ pc <= Len(program) /\ Instruction = program[pc] /\ Instruction.call \notin Awaits
        /\ Instructions' = Instructions
    BY DEF CreateTask, Runs, Instruction, Instructions
  <2>2. /\ pc \in Instructions /\ pc \in Nat /\ pc + 1 \in 1 .. Len(program) + 1
        /\ Instructions = 1 .. Len(program) /\ Len(subtasks) \in Nat
    BY <1>0, <2>1, ProgramFacts DEF RetriesTypeOK
  <2> QED BY <1>0, <2>1, <2>2, ProgramFacts
<1>2. /\ new \in Subtasks /\ new.of = pc
      /\ new.kind = IF Instruction.call = "timer" THEN "timer" ELSE "attempt"
  <2>1. Instruction.call = "timer" => currentInstant + Instruction.delay \in Nat
    BY <1>0, <1>1 DEF RetriesTypeOK
  <2> QED BY <1>0, <1>1, <2>1, TimerType, AttemptType
<1> HIDE DEF new
<1>3. /\ subtasks' = Append(subtasks, new)
      /\ childTask' = [childTask EXCEPT ![pc] = NextId]
      /\ pc' = pc + 1 /\ frames = <<>>
      /\ UNCHANGED <<program, currentInstant, outcome, attemptNumber, frames, observed>>
  BY DEF CreateTask, new, Runs
<1>4. /\ subtasks' \in Seq(Subtasks) /\ Len(subtasks') = Len(subtasks) + 1
      /\ DOMAIN subtasks' = DOMAIN subtasks \union {NextId}
      /\ NextId \notin DOMAIN subtasks /\ NextId = Len(subtasks) + 1
      /\ \A id \in DOMAIN subtasks' :
           subtasks'[id] = IF id = NextId THEN new ELSE subtasks[id]
  BY <1>0, <1>2, <1>3 DEF RetriesTypeOK, NextId
<1>5. \A id \in DOMAIN subtasks :
        subtasks[id].of < pc /\ subtasks[id].of \in Instructions
  BY <1>0, SubtaskFacts DEF OwnersInv
<1>6. \A id \in DOMAIN subtasks' :
        \/ id \in DOMAIN subtasks /\ id # NextId /\ subtasks'[id] = subtasks[id]
           /\ subtasks'[id].of < pc /\ subtasks[id].of # pc /\ subtasks'[id].of \in Instructions
        \/ id = NextId /\ subtasks'[id] = new /\ subtasks'[id].of = pc
  BY <1>1, <1>2, <1>4, <1>5
<1>7. RetriesTypeOK'
  <2>1. childTask' \in [Instructions -> 0 .. Len(subtasks')]
    BY <1>0, <1>1, <1>3, <1>4 DEF RetriesTypeOK
  <2> QED BY <1>0, <1>1, <1>3, <1>4, <2>1 DEF RetriesTypeOK, Frames, Subtasks, States
<1>8. OwnersInv'
  <2>1. \A id \in DOMAIN subtasks' :
          /\ subtasks'[id].of < pc + 1
          /\ subtasks'[id].kind = "timer" <=> program[subtasks'[id].of].call = "timer"
          /\ subtasks'[id].kind = "delay" => program[subtasks'[id].of].call = "retriable"
    BY <1>0, <1>1, <1>2, <1>6 DEF OwnersInv
  <2>2. \A k \in Instructions : k < pc + 1 /\ program[k].call \notin Awaits => childTask'[k] > 0
    BY <1>0, <1>1, <1>3, <1>4 DEF OwnersInv, RetriesTypeOK
  <2>3. \A k \in Instructions : k >= pc + 1 => outcome[k] = "open"
    BY <1>0, <1>1 DEF OwnersInv
  <2> QED BY <1>1, <1>3, <2>1, <2>2, <2>3 DEF OwnersInv
<1>9. FramesInv'
  BY <1>3 DEF FramesInv
<1>10. DelaysInv'
  <2>1. ASSUME NEW id1 \in DOMAIN subtasks', NEW id2 \in DOMAIN subtasks',
               subtasks'[id1].kind = "attempt", subtasks'[id1].state = "open",
               subtasks'[id2].kind = "attempt", subtasks'[id2].state = "open",
               subtasks'[id1].of = subtasks'[id2].of
        PROVE  id1 = id2
    BY <1>0, <1>6, <2>1 DEF DelaysInv
  <2> QED BY <1>3, <2>1 DEF DelaysInv
<1>11. CountsInv'
  <2> SUFFICES ASSUME NEW k \in Instructions, program[k].call = "retriable"
               PROVE  /\ Cardinality(Attempts(k)') <= program[k].policy.maxNumberOfAttempts
                      /\ \/ Cardinality(Attempts(k)') <= 1
                         \/ Cardinality(Attempts(k)') <= attemptNumber[k]
    BY <1>1, <1>3 DEF CountsInv
  <2>1. CASE k # pc
    <3>1. Attempts(k)' = Attempts(k)
      BY <1>4, <1>6, <2>1 DEF Attempts
    <3> QED BY <1>0, <3>1 DEF CountsInv
  <2>2. CASE k = pc
    <3>1. Attempts(k)' = {NextId}
      BY <1>1, <1>2, <1>4, <1>6, <2>2 DEF Attempts
    <3>2. Cardinality(Attempts(k)') = 1
      BY <3>1, FS_Singleton
    <3>3. program[k].policy.maxNumberOfAttempts \in Nat \ {0}
      BY <1>0, ProgramFacts DEF Awaits, Policies
    <3> QED BY <3>2, <3>3
  <2> QED BY <2>1, <2>2
<1>12. ChainsInv'
  <2>1. outcome[pc] = "open"
    BY <1>0, <1>1 DEF OwnersInv
  <2>2. ASSUME NEW id \in DOMAIN subtasks', subtasks'[id].kind = "timer"
        PROVE  /\ \A id2 \in DOMAIN subtasks' : subtasks'[id2].of = subtasks'[id].of =>
                    subtasks'[id2].finalFireAt = subtasks'[id].finalFireAt
               /\ outcome[subtasks'[id].of] = "done" => currentInstant + Second > subtasks'[id].finalFireAt
    BY <1>0, <1>6, <2>1, <2>2 DEF ChainsInv
  <2> QED BY <1>3, <2>2 DEF ChainsInv
<1> QED BY <1>7, <1>8, <1>9, <1>10, <1>11, <1>12 DEF RetriesInv

\* What awaits, returns and throws leave alone.
LEMMA SubtasksUnchanged ==
  ASSUME RetriesInv, UNCHANGED <<program, currentInstant, subtasks, childTask, outcome>>,
         attemptNumber' \in [Instructions -> Nat],
         \A k \in Instructions : attemptNumber'[k] >= attemptNumber[k],
         pc' \in {pc, pc + 1}, pc' \in 1 .. Len(program) + 1,
         pc' # pc => Instruction.call \in Awaits
  PROVE  /\ OwnersInv' /\ CountsInv' /\ ChainsInv'
         /\ Instructions' = Instructions
<1> USE DEF RetriesInv
<1>0. /\ Instructions' = Instructions /\ Instructions = 1 .. Len(program) /\ pc \in Nat
      /\ \A id \in DOMAIN subtasks : subtasks[id].of \in Instructions
      /\ pc \in Instructions => Instruction = program[pc]
  BY ProgramFacts, SubtaskFacts DEF RetriesTypeOK, Instructions, Instruction
<1>1. OwnersInv'
  <2>1. /\ \A id \in DOMAIN subtasks : subtasks[id].of < pc'
        /\ \A k \in Instructions : k < pc' /\ program[k].call \notin Awaits => childTask[k] > 0
        /\ \A k \in Instructions : k >= pc' => outcome[k] = "open"
    BY <1>0 DEF OwnersInv
  <2> QED BY <1>0, <2>1 DEF OwnersInv
<1>2. CountsInv'
  <2> SUFFICES ASSUME NEW k \in Instructions, program[k].call = "retriable"
               PROVE  /\ Cardinality(Attempts(k)) <= program[k].policy.maxNumberOfAttempts
                      /\ \/ Cardinality(Attempts(k)) <= 1
                         \/ Cardinality(Attempts(k)) <= attemptNumber'[k]
    BY DEF CountsInv, Attempts, Instructions
  <2>1. Cardinality(Attempts(k)) \in Nat
    BY AttemptsFinite
  <2>2. /\ Cardinality(Attempts(k)) <= program[k].policy.maxNumberOfAttempts
        /\ Cardinality(Attempts(k)) <= 1 \/ Cardinality(Attempts(k)) <= attemptNumber[k]
        /\ attemptNumber'[k] >= attemptNumber[k] /\ attemptNumber[k] \in Nat
        /\ attemptNumber'[k] \in Nat
    BY DEF CountsInv, RetriesTypeOK
  <2> QED BY <2>1, <2>2
<1>3. ChainsInv'
  BY DEF ChainsInv
<1> QED BY <1>1, <1>2, <1>3 DEF Instructions

LEMMA AwaitKeeps ==
  ASSUME RetriesInv, Await \/ AwaitCompound
  PROVE  RetriesInv'
<1>0. RetriesTypeOK /\ OwnersInv /\ DelaysInv
  BY DEF RetriesInv
<1>1. /\ pc \in Instructions /\ pc \in Nat /\ pc <= Len(program)
      /\ Instruction = program[pc] /\ Instruction.call \in Awaits
      /\ Instruction.of \subseteq 1 .. pc - 1 /\ Instruction.of \subseteq Instructions
      /\ \A k \in Instruction.of : program[k].call \notin Awaits
      /\ Instructions' = Instructions
  <2>1. /\ pc \in Instructions /\ pc \in Nat /\ pc <= Len(program) /\ Len(program) \in Nat
        /\ Instructions = 1 .. Len(program) /\ Instructions' = Instructions
        /\ Instruction = program[pc] /\ Instruction.call \in Awaits
    <3>1. pc <= Len(program) /\ Instruction.call \in Awaits /\ program' = program
      BY DEF Await, AwaitCompound, Runs, Awaits
    <3>2. Instructions' = Instructions
      BY <3>1 DEF Instructions
    <3> QED BY <1>0, <3>1, <3>2, ProgramFacts DEF Instruction, RetriesTypeOK
  <2>2. /\ Instruction.of \subseteq 1 .. pc - 1
        /\ \A k \in Instruction.of : program[k].call \notin Awaits
    BY <1>0, <2>1, ProgramFacts DEF Awaits
  <2> QED BY <2>1, <2>2
<1>2. /\ attemptNumber' = Counted(Instruction.of)
      /\ UNCHANGED <<program, pc, currentInstant, subtasks, childTask, outcome, observed>>
  BY DEF Await, AwaitCompound
<1>3. /\ attemptNumber' \in [Instructions -> Nat]
      /\ \A k \in Instructions : attemptNumber'[k] >= attemptNumber[k]
  BY <1>0, <1>2 DEF Counted, RetriesTypeOK
<1>4. PICK frame \in Frames :
        /\ frames' = <<frame>> /\ frame.at # "delay"
        /\ frame.at \notin {"allOf", "anyOf"} =>
             /\ frame.on \in DOMAIN subtasks
             /\ frame.task \in Instructions /\ frame.task < pc
             /\ frame.at # "task" => program[frame.task].call = "retriable"
  <2>1. CASE Await
    <3>1. PICK k \in Instruction.of :
            frames' = <<Waiting(IF program[k].call = "retriable" THEN "attempt" ELSE "task", k)>>
      BY <2>1 DEF Await
    <3>5. k \in Instructions /\ k < pc /\ k \in Nat /\ childTask[k] > 0
      BY <1>0, <1>1 DEF OwnersInv
    <3>2. childTask[k] \in 1 .. Len(subtasks) /\ k \in Instructions /\ k < pc /\ k \in Nat
      BY <1>0, <3>5 DEF RetriesTypeOK
    <3>3. childTask[k] \in DOMAIN subtasks
      BY <1>0, <3>2 DEF RetriesTypeOK
    <3> DEFINE new == Waiting(IF program[k].call = "retriable" THEN "attempt" ELSE "task", k)
    <3>4. /\ new \in Frames /\ new.at = (IF program[k].call = "retriable" THEN "attempt" ELSE "task")
          /\ new.on = childTask[k] /\ new.task = k
      BY <3>2 DEF Waiting, Frames
    <3> HIDE DEF new
    <3> QED BY <3>1, <3>2, <3>3, <3>4 DEF new
  <2>2. CASE AwaitCompound
    <3>1. [at |-> Instruction.call, task |-> 0, on |-> 0, of |-> Instruction.of] \in Frames
      BY <1>1, <2>2 DEF AwaitCompound, Frames
    <3> QED BY <2>2, <3>1 DEF AwaitCompound
  <2> QED BY <2>1, <2>2
<1>5. frames' \in Seq(Frames) /\ DOMAIN frames' = {1} /\ frames'[1] = frame
  BY <1>4
<1>6. RetriesTypeOK'
  BY <1>0, <1>1, <1>2, <1>3, <1>5 DEF RetriesTypeOK, Frames, Subtasks
<1>7. OwnersInv' /\ CountsInv' /\ ChainsInv'
  BY <1>0, <1>2, <1>3, SubtasksUnchanged DEF RetriesTypeOK
<1>8. FramesInv'
  BY <1>1, <1>2, <1>4, <1>5 DEF FramesInv, Instruction
<1>9. DelaysInv'
  BY <1>0, <1>2, <1>4, <1>5 DEF DelaysInv
<1> QED BY <1>6, <1>7, <1>8, <1>9 DEF RetriesInv

\* What is popped may go; what takes its place must wait for something.
LEMMA TopFacts ==
  ASSUME RetriesTypeOK, FramesInv, frames # <<>>
  PROVE  /\ Top \in Frames /\ Len(frames) \in DOMAIN frames /\ Top = frames[Len(frames)]
         /\ Len(frames) \in Nat \ {0}
         /\ Front(frames) \in Seq(Frames) /\ Len(Front(frames)) = Len(frames) - 1
         /\ \A n \in DOMAIN Front(frames) :
              /\ n \in DOMAIN frames /\ n # Len(frames) /\ Front(frames)[n] = frames[n]
         /\ pc \in Instructions /\ pc + 1 \in 1 .. Len(program) + 1 /\ pc \in Nat
         /\ Instruction.call \in Awaits
         /\ Top.at \notin {"allOf", "anyOf"} => Top.on \in DOMAIN subtasks
         /\ Top.at \notin {"allOf", "anyOf", "task"} =>
              /\ Top.task \in Instructions /\ Top.task < pc
              /\ program[Top.task].call = "retriable"
<1>1. frames \in Seq(Frames) /\ Len(frames) \in Nat \ {0} /\ Top = frames[Len(frames)]
  BY DEF RetriesTypeOK, Top, Last
<1>2. Front(frames) = SubSeq(frames, 1, Len(frames) - 1)
  BY DEF Front
<1>3. /\ pc \in Instructions /\ pc + 1 \in 1 .. Len(program) + 1 /\ pc \in Nat
      /\ Instruction.call \in Awaits
  BY ProgramFacts DEF RetriesTypeOK, FramesInv
<1>4. /\ Len(frames) \in DOMAIN frames /\ Top \in Frames
      /\ Front(frames) \in Seq(Frames) /\ Len(Front(frames)) = Len(frames) - 1
      /\ \A n \in DOMAIN Front(frames) :
           /\ n \in DOMAIN frames /\ n # Len(frames) /\ Front(frames)[n] = frames[n]
  <2>1. Len(frames) \in DOMAIN frames /\ Top \in Frames
    <3>1. DOMAIN frames = 1 .. Len(frames) /\ \A n \in 1 .. Len(frames) : frames[n] \in Frames
      BY <1>1
    <3> QED BY <1>1, <3>1
  <2>2. 1 \in 1 .. Len(frames) + 1 /\ Len(frames) - 1 \in 1 - 1 .. Len(frames)
    BY <1>1
  <2>3. /\ Front(frames) \in Seq(Frames)
        /\ Len(Front(frames)) =
             IF 1 <= Len(frames) - 1 THEN Len(frames) - 1 - 1 + 1 ELSE 0
        /\ \A n \in 1 .. Len(frames) - 1 - 1 + 1 : Front(frames)[n] = frames[1 + n - 1]
    BY <1>1, <1>2, <2>2, SubSeqProperties
  <2>4. Len(Front(frames)) = Len(frames) - 1
    <3>1. \A n \in Nat \ {0} : (IF 1 <= n - 1 THEN n - 1 - 1 + 1 ELSE 0) = n - 1
      OBVIOUS
    <3>2. (IF 1 <= Len(frames) - 1 THEN Len(frames) - 1 - 1 + 1 ELSE 0) = Len(frames) - 1
      BY <1>1, <3>1
    <3>3. Len(Front(frames)) = IF 1 <= Len(frames) - 1 THEN Len(frames) - 1 - 1 + 1 ELSE 0
      BY <2>3
    <3> QED BY <3>2, <3>3
  <2>5. DOMAIN Front(frames) = 1 .. Len(Front(frames))
    BY <2>3
  <2>6. \A n \in 1 .. Len(frames) - 1 : n \in 1 .. Len(frames) - 1 - 1 + 1 /\ 1 + n - 1 = n
    BY <1>1
  <2>7. \A n \in 1 .. Len(frames) - 1 : n \in DOMAIN frames /\ n # Len(frames)
    BY <1>1
  <2>8. \A n \in 1 .. Len(frames) - 1 : Front(frames)[n] = frames[n]
    BY <2>3, <2>6
  <2> QED BY <2>1, <2>3, <2>4, <2>5, <2>7, <2>8
<1>5. /\ Top.at \notin {"allOf", "anyOf"} => Top.on \in DOMAIN subtasks
      /\ Top.at \notin {"allOf", "anyOf", "task"} =>
           /\ Top.task \in Instructions /\ Top.task < pc
           /\ program[Top.task].call = "retriable"
  BY <1>1, <1>4 DEF FramesInv
<1> QED
  BY <1>1, <1>3, <1>4, <1>5

\* The innermost await is over, or waits for the current attempt.
LEMMA LowerFramesKeep ==
  ASSUME RetriesInv, frames # <<>>, Top.at # "delay",
         UNCHANGED <<program, currentInstant, subtasks, childTask, outcome, attemptNumber>>,
         \/ frames' = <<>> /\ pc' = pc + 1
         \/ frames' = Front(frames) /\ (pc' = pc \/ (pc' = pc + 1 /\ Len(frames) = 1))
         \/ /\ Top.at = "attempt" /\ pc' = pc
            /\ frames' = Append(Front(frames), Waiting("result", Top.task)),
         observed' \in [Instructions -> [result : {"none"} \union States, at : Nat]]
  PROVE  RetriesInv'
<1>0. RetriesTypeOK /\ FramesInv /\ OwnersInv /\ DelaysInv
  BY DEF RetriesInv
<1>1. /\ Len(frames) \in Nat \ {0} /\ Top \in Frames
      /\ Front(frames) \in Seq(Frames) /\ Len(Front(frames)) = Len(frames) - 1
      /\ \A n \in DOMAIN Front(frames) : n \in DOMAIN frames /\ Front(frames)[n] = frames[n]
      /\ pc + 1 \in 1 .. Len(program) + 1 /\ pc \in 1 .. Len(program) + 1 /\ pc \in Nat
      /\ Instruction.call \in Awaits
  BY <1>0, TopFacts DEF RetriesTypeOK
<1>2. /\ frames' \in Seq(Frames)
      /\ frames' = <<>> \/ pc' = pc
      /\ \A n \in DOMAIN frames' :
           \/ n \in DOMAIN frames /\ frames'[n] = frames[n]
           \/ /\ frames'[n].at = "result" /\ frames'[n].on \in DOMAIN subtasks
              /\ frames'[n].task \in Instructions /\ frames'[n].task < pc
              /\ program[frames'[n].task].call = "retriable"
  <2>1. CASE frames' = <<>>
    BY <2>1
  <2>2. CASE frames' = Front(frames) /\ (pc' = pc \/ (pc' = pc + 1 /\ Len(frames) = 1))
    <3>1. Len(frames) = 1 => Front(frames) = <<>>
      BY <1>1, EmptySeq
    <3> QED BY <1>1, <2>2, <3>1
  <2>3. CASE /\ Top.at = "attempt" /\ pc' = pc
             /\ frames' = Append(Front(frames), Waiting("result", Top.task))
    <3>1. /\ Top.task \in Instructions /\ Top.task < pc /\ Top.task \in Nat
          /\ program[Top.task].call = "retriable"
      BY <1>0, <1>1, <2>3, TopFacts DEF Frames
    <3>2. childTask[Top.task] > 0 /\ childTask[Top.task] \in 0 .. Len(subtasks)
      BY <1>0, <3>1 DEF OwnersInv, Awaits, RetriesTypeOK
    <3>3. childTask[Top.task] \in DOMAIN subtasks /\ childTask[Top.task] \in Nat
      BY <1>0, <3>2 DEF RetriesTypeOK
    <3> DEFINE new == Waiting("result", Top.task)
    <3>4. new \in Frames /\ new.at = "result" /\ new.on = childTask[Top.task] /\ new.task = Top.task
      BY <3>1, <3>3 DEF Waiting, Frames
    <3> HIDE DEF new
    <3>5. /\ Append(Front(frames), new) \in Seq(Frames)
          /\ \A n \in DOMAIN Append(Front(frames), new) :
               Append(Front(frames), new)[n] = new
               \/ (n \in DOMAIN Front(frames) /\ Append(Front(frames), new)[n] = Front(frames)[n])
      BY <1>1, <3>4
    <3> QED BY <1>1, <2>3, <3>1, <3>3, <3>4, <3>5 DEF new
  <2> QED BY <2>1, <2>2, <2>3
<1>3. OwnersInv' /\ CountsInv' /\ ChainsInv' /\ Instructions' = Instructions
  BY <1>0, <1>1, SubtasksUnchanged DEF RetriesTypeOK
<1>4. RetriesTypeOK'
  BY <1>0, <1>1, <1>2, <1>3 DEF RetriesTypeOK, Frames, Subtasks
<1>5. FramesInv'
  BY <1>0, <1>1, <1>2, <1>3 DEF FramesInv, Instruction
<1>6. DelaysInv'
  BY <1>0, <1>2, <1>3 DEF DelaysInv, AttemptsLeft
<1> QED BY <1>3, <1>4, <1>5, <1>6 DEF RetriesInv

LEMMA ReturnsKeep ==
  ASSUME RetriesInv, CodeReturns \/ AttemptReturns \/ ResultReturns
  PROVE  RetriesInv'
<1>0. RetriesTypeOK /\ FramesInv
  BY DEF RetriesInv
<1>1. frames # <<>> /\ Top.at \in {"task", "allOf", "anyOf", "attempt", "result"}
  BY DEF CodeReturns, AttemptReturns, ResultReturns, Resumable
<1>2. /\ pc \in Instructions /\ currentInstant \in Nat
      /\ Top.at \notin {"allOf", "anyOf"} => subtasks[Top.on].state \in States
  BY <1>0, <1>1, TopFacts, SubtaskFacts DEF RetriesTypeOK
<1>3. ASSUME NEW result \in {"none"} \union States, CodeGoesOn(result)
      PROVE  observed' \in [Instructions -> [result : {"none"} \union States, at : Nat]]
  BY <1>0, <1>2, <1>3 DEF CodeGoesOn, RetriesTypeOK
<1>4. CASE CodeReturns
  <2>1. (IF Top.at = "task" THEN subtasks[Top.on].state ELSE "done") \in {"none"} \union States
    BY <1>2 DEF States
  <2>2. observed' \in [Instructions -> [result : {"none"} \union States, at : Nat]]
    BY <1>3, <1>4, <2>1 DEF CodeReturns
  <2> QED BY <1>1, <1>4, <2>2, LowerFramesKeep DEF CodeReturns, CodeGoesOn
<1>5. CASE AttemptReturns
  <2>1. observed' \in [Instructions -> [result : {"none"} \union States, at : Nat]]
    BY <1>0, <1>5 DEF AttemptReturns, RetriesTypeOK
  <2> QED BY <1>1, <1>5, <2>1, LowerFramesKeep DEF AttemptReturns, Resumable
<1>6. CASE ResultReturns
  <2>1. Top.at = "result"
    BY <1>6 DEF ResultReturns, Resumable
  <2>2. observed' \in [Instructions -> [result : {"none"} \union States, at : Nat]]
    BY <1>0, <1>2, <1>3, <1>6, <2>1 DEF ResultReturns, RetriesTypeOK
  <2> QED BY <1>1, <1>6, <2>2, LowerFramesKeep DEF ResultReturns, CodeGoesOn
<1> QED BY <1>4, <1>5, <1>6

-----------------------------------------------------------------------------
(* Events *)

\* A subtask ends; a timer of the same instruction may follow it, and its handler may be blocked
\* in a delay.
LEMMA EndKeeps ==
  ASSUME RetriesInv, frames # <<>>, NEW id \in DOMAIN subtasks, NEW k, k = subtasks[id].of,
         subtasks[id].state = "open",
         UNCHANGED <<program, pc, currentInstant, childTask, attemptNumber, observed>>,
         subtasks' \in Seq(Subtasks), Len(subtasks') >= Len(subtasks),
         \A j \in DOMAIN subtasks :
           /\ subtasks'[j].of = subtasks[j].of /\ subtasks'[j].kind = subtasks[j].kind
           /\ subtasks'[j].finalFireAt = subtasks[j].finalFireAt
           /\ subtasks'[j].state = "open" => j # id /\ subtasks[j].state = "open",
         \A j \in DOMAIN subtasks' : j \in DOMAIN subtasks \/
           /\ subtasks'[j].of = k /\ subtasks'[j].kind # "attempt"
           /\ subtasks'[j].kind = "timer" <=> subtasks[id].kind = "timer"
           /\ subtasks'[j].kind = "delay" => program[k].call = "retriable"
           /\ subtasks'[j].kind = "timer" => subtasks'[j].finalFireAt = subtasks[id].finalFireAt,
         outcome' \in [Instructions -> {"open", "done", "failed"}],
         \A j \in Instructions : j # k => outcome'[j] = outcome[j],
         subtasks[id].kind = "timer" /\ outcome'[k] = "done" /\ outcome[k] # "done" =>
           currentInstant + Second > subtasks[id].finalFireAt,
         \/ frames' = frames
         \/ /\ subtasks[id].kind = "attempt" /\ program[k].call = "retriable" /\ AttemptsLeft(k)
            /\ \E frame \in Frames :
                 /\ frames' = Append(frames, frame) /\ frame.at = "delay" /\ frame.task = k
                 /\ frame.on \in DOMAIN subtasks'
  PROVE  RetriesInv'
<1>0. RetriesTypeOK /\ OwnersInv /\ FramesInv /\ DelaysInv /\ CountsInv /\ ChainsInv
  BY DEF RetriesInv
<1>1. /\ DOMAIN subtasks \subseteq DOMAIN subtasks' /\ Instructions' = Instructions
      /\ Len(subtasks) \in Nat /\ Len(subtasks') \in Nat /\ pc \in Nat
      /\ k \in Instructions /\ k < pc
      /\ \A j \in DOMAIN subtasks' : subtasks'[j].of < pc /\ subtasks'[j].of \in Instructions
  <2>1. Len(subtasks) \in Nat /\ Len(subtasks') \in Nat /\ pc \in Nat
    BY <1>0 DEF RetriesTypeOK
  <2>2. DOMAIN subtasks = 1 .. Len(subtasks) /\ DOMAIN subtasks' = 1 .. Len(subtasks')
    BY <1>0 DEF RetriesTypeOK
  <2>3. DOMAIN subtasks \subseteq DOMAIN subtasks'
    BY <2>1, <2>2
  <2>4. \A j \in DOMAIN subtasks : subtasks[j].of \in Instructions /\ subtasks[j].of < pc
    BY <1>0, SubtaskFacts DEF OwnersInv
  <2> QED BY <2>1, <2>3, <2>4 DEF Instructions
<1>2. /\ frames' \in Seq(Frames)
      /\ \A n \in DOMAIN frames' :
           \/ n \in DOMAIN frames /\ frames'[n] = frames[n]
           \/ /\ n = Len(frames) + 1 /\ frames'[n].at = "delay" /\ frames'[n].task = k
              /\ frames'[n].on \in DOMAIN subtasks'
              /\ subtasks[id].kind = "attempt" /\ program[k].call = "retriable" /\ AttemptsLeft(k)
  <2>1. frames \in Seq(Frames)
    BY <1>0 DEF RetriesTypeOK
  <2>2. CASE frames' = frames
    BY <2>1, <2>2
  <2>3. ASSUME NEW frame \in Frames, frames' = Append(frames, frame)
        PROVE  /\ frames' \in Seq(Frames)
               /\ \A n \in DOMAIN frames' : \/ n \in DOMAIN frames /\ frames'[n] = frames[n]
                                            \/ n = Len(frames) + 1 /\ frames'[n] = frame
    BY <2>1, <2>3
  <2> QED BY <2>2, <2>3
<1>3. RetriesTypeOK'
  <2>1. childTask \in [Instructions -> 0 .. Len(subtasks')]
    BY <1>0, <1>1 DEF RetriesTypeOK
  <2> QED BY <1>0, <1>1, <1>2, <2>1 DEF RetriesTypeOK, Frames, Subtasks
<1>4. OwnersInv'
  <2>1. \A j \in DOMAIN subtasks' :
          /\ subtasks'[j].kind = "timer" <=> program[subtasks'[j].of].call = "timer"
          /\ subtasks'[j].kind = "delay" => program[subtasks'[j].of].call = "retriable"
    BY <1>0 DEF OwnersInv
  <2>2. \A j \in Instructions : j >= pc => outcome'[j] = "open"
    <3> SUFFICES ASSUME NEW j \in Instructions, j >= pc
                 PROVE  outcome'[j] = "open"
      OBVIOUS
    <3>1. j \in Nat /\ k \in Nat
      BY <1>0, <1>1, ProgramFacts
    <3>2. j # k
      BY <1>1, <3>1
    <3> QED BY <1>0, <3>2 DEF OwnersInv
  <2> QED BY <1>0, <1>1, <2>1, <2>2 DEF OwnersInv
<1>5. FramesInv'
  BY <1>0, <1>1, <1>2 DEF FramesInv, Instruction
<1>6. DelaysInv'
  <2>1. ASSUME NEW id1 \in DOMAIN subtasks', NEW id2 \in DOMAIN subtasks',
               subtasks'[id1].kind = "attempt", subtasks'[id1].state = "open",
               subtasks'[id2].kind = "attempt", subtasks'[id2].state = "open",
               subtasks'[id1].of = subtasks'[id2].of
        PROVE  id1 = id2
    BY <1>0, <2>1 DEF DelaysInv
  <2>2. ASSUME NEW n \in DOMAIN frames', frames'[n].at = "delay"
        PROVE  /\ AttemptsLeft(frames'[n].task)
               /\ \A j \in DOMAIN subtasks' :
                    subtasks'[j].of = frames'[n].task /\ subtasks'[j].kind = "attempt" =>
                      subtasks'[j].state # "open"
    <3>1. CASE n \in DOMAIN frames /\ frames'[n] = frames[n]
      <4>1. /\ AttemptsLeft(frames[n].task)
            /\ \A j \in DOMAIN subtasks :
                 subtasks[j].of = frames[n].task /\ subtasks[j].kind = "attempt" =>
                   subtasks[j].state # "open"
        BY <1>0, <2>2, <3>1 DEF DelaysInv
      <4>2. AttemptsLeft(frames'[n].task)
        BY <3>1, <4>1
      <4> QED BY <3>1, <4>1, <4>2
    <3>2. CASE /\ frames'[n].task = k /\ subtasks[id].kind = "attempt" /\ AttemptsLeft(k)
      <4>1. \A j \in DOMAIN subtasks :
              subtasks[j].of = k /\ subtasks[j].kind = "attempt" /\ subtasks[j].state = "open" =>
                j = id
        BY <1>0, <3>2 DEF DelaysInv
      <4> QED BY <3>2, <4>1
    <3> QED BY <1>2, <3>1, <3>2
  <2>3. ASSUME NEW n \in DOMAIN frames', frames'[n].at = "delay",
               NEW m \in DOMAIN frames', frames'[m].at = "delay",
               frames'[m].task = frames'[n].task
        PROVE  m = n
    BY <1>0, <1>2, <2>3 DEF DelaysInv
  <2> QED BY <2>1, <2>2, <2>3 DEF DelaysInv, AttemptsLeft
<1>7. CountsInv'
  <2>1. ASSUME NEW j PROVE Attempts(j)' = Attempts(j)
    BY <1>1 DEF Attempts
  <2> QED BY <1>0, <1>1, <2>1 DEF CountsInv
<1>8. ChainsInv'
  <2> SUFFICES ASSUME NEW id1 \in DOMAIN subtasks', subtasks'[id1].kind = "timer"
               PROVE  /\ \A id2 \in DOMAIN subtasks' : subtasks'[id2].of = subtasks'[id1].of =>
                           subtasks'[id2].finalFireAt = subtasks'[id1].finalFireAt
                      /\ outcome'[subtasks'[id1].of] = "done" =>
                           currentInstant + Second > subtasks'[id1].finalFireAt
    BY DEF ChainsInv
  <2>1. PICK old \in DOMAIN subtasks :
          /\ subtasks[old].kind = "timer" /\ subtasks[old].of = subtasks'[id1].of
          /\ subtasks[old].finalFireAt = subtasks'[id1].finalFireAt
          /\ subtasks[id].kind = "timer" /\ k = subtasks[old].of =>
               subtasks[id].finalFireAt = subtasks[old].finalFireAt
    BY <1>0 DEF ChainsInv
  <2>2. ASSUME NEW id2 \in DOMAIN subtasks', subtasks'[id2].of = subtasks'[id1].of
        PROVE  subtasks'[id2].finalFireAt = subtasks'[id1].finalFireAt
    <3>1. CASE id2 \in DOMAIN subtasks
      <4>1. subtasks[id2].of = subtasks[old].of
        BY <2>1, <2>2, <3>1
      <4>2. subtasks[id2].finalFireAt = subtasks[old].finalFireAt
        BY <1>0, <2>1, <3>1, <4>1 DEF ChainsInv
      <4> QED BY <2>1, <3>1, <4>2
    <3>2. CASE id2 \notin DOMAIN subtasks
      <4>1. /\ subtasks'[id2].of = k
            /\ subtasks'[id2].kind = "timer" <=> subtasks[id].kind = "timer"
            /\ subtasks'[id2].kind # "attempt"
            /\ subtasks'[id2].kind = "delay" => program[k].call = "retriable"
            /\ subtasks'[id2].kind = "timer" => subtasks'[id2].finalFireAt = subtasks[id].finalFireAt
        BY <3>2
      <4>2. k = subtasks[old].of
        BY <2>1, <2>2, <4>1
      <4>3. program[k].call = "timer"
        BY <1>0, <2>1, <4>2 DEF OwnersInv
      <4>4. subtasks[id].kind = "timer"
        BY <1>0, <4>3 DEF OwnersInv
      <4> QED BY <2>1, <4>1, <4>2, <4>4
    <3> QED BY <3>1, <3>2
  <2>3. outcome'[subtasks'[id1].of] = "done" => currentInstant + Second > subtasks'[id1].finalFireAt
    <3>1. CASE subtasks[old].of # k
      <4>1. outcome'[subtasks[old].of] = outcome[subtasks[old].of]
        BY <1>0, <3>1, SubtaskFacts
      <4>2. outcome[subtasks[old].of] = "done" => currentInstant + Second > subtasks[old].finalFireAt
        BY <1>0, <2>1 DEF ChainsInv
      <4> QED BY <2>1, <4>1, <4>2
    <3>2. CASE subtasks[old].of = k
      <4>1. subtasks[id].kind = "timer"
        BY <1>0, <2>1, <3>2 DEF OwnersInv
      <4> QED BY <1>0, <2>1, <3>2, <4>1 DEF ChainsInv
    <3> QED BY <3>1, <3>2
  <2> QED BY <2>2, <2>3
<1> QED BY <1>3, <1>4, <1>5, <1>6, <1>7, <1>8 DEF RetriesInv

\* A subtask ends and another is asked for, or none.
LEMMA EndedFacts ==
  ASSUME RetriesTypeOK, NEW id \in DOMAIN subtasks, NEW state \in States \ {"open"},
         \/ subtasks' = Ended(id, state)
         \/ \E new \in Subtasks :
              /\ subtasks' = Append(Ended(id, state), new)
              /\ new.of = subtasks[id].of /\ new.kind # "attempt"
              /\ new.kind = "timer" <=> subtasks[id].kind = "timer"
              /\ new.kind = "delay" => program[subtasks[id].of].call = "retriable"
              /\ new.kind = "timer" => new.finalFireAt = subtasks[id].finalFireAt
  PROVE  /\ subtasks' \in Seq(Subtasks) /\ Len(subtasks') >= Len(subtasks)
         /\ subtasks' # Ended(id, state) => NextId \in DOMAIN subtasks'
         /\ \A j \in DOMAIN subtasks :
              /\ subtasks'[j].of = subtasks[j].of /\ subtasks'[j].kind = subtasks[j].kind
              /\ subtasks'[j].finalFireAt = subtasks[j].finalFireAt
              /\ subtasks'[j].state = "open" => j # id /\ subtasks[j].state = "open"
         /\ \A j \in DOMAIN subtasks' : j \in DOMAIN subtasks \/
              /\ subtasks'[j].of = subtasks[id].of /\ subtasks'[j].kind # "attempt"
              /\ subtasks'[j].kind = "timer" <=> subtasks[id].kind = "timer"
              /\ subtasks'[j].kind = "delay" => program[subtasks[id].of].call = "retriable"
              /\ subtasks'[j].kind = "timer" =>
                   subtasks'[j].finalFireAt = subtasks[id].finalFireAt
<1> DEFINE ended == Ended(id, state)
<1>1. /\ ended \in Seq(Subtasks) /\ Len(ended) = Len(subtasks) /\ Len(subtasks) \in Nat
      /\ DOMAIN ended = DOMAIN subtasks /\ NextId = Len(ended) + 1
      /\ \A j \in DOMAIN subtasks :
           /\ ended[j].of = subtasks[j].of /\ ended[j].kind = subtasks[j].kind
           /\ ended[j].finalFireAt = subtasks[j].finalFireAt
           /\ ended[j].state = "open" => j # id /\ subtasks[j].state = "open"
  <2>1. subtasks \in Seq(Subtasks)
    BY DEF RetriesTypeOK
  <2>2. ended \in Seq(Subtasks) /\ Len(ended) = Len(subtasks)
    BY EndedType
  <2>3. DOMAIN ended = DOMAIN subtasks /\ Len(subtasks) \in Nat
    BY <2>1, <2>2
  <2> QED BY <2>2, <2>3, EndedType DEF NextId
<1> HIDE DEF ended
<1>2. CASE subtasks' = ended
  BY <1>1, <1>2 DEF ended
<1>3. ASSUME NEW new \in Subtasks, subtasks' = Append(ended, new)
      PROVE  /\ subtasks' \in Seq(Subtasks) /\ Len(subtasks') = Len(ended) + 1
             /\ NextId \in DOMAIN subtasks'
             /\ \A j \in DOMAIN subtasks' :
                  \/ j \in DOMAIN subtasks /\ subtasks'[j] = ended[j]
                  \/ j \notin DOMAIN subtasks /\ subtasks'[j] = new
             /\ \A j \in DOMAIN subtasks : j \in DOMAIN subtasks'
  BY <1>1, <1>3
<1> QED
  BY <1>1, <1>2, <1>3 DEF ended

LEMMA OutcomeFacts ==
  ASSUME RetriesTypeOK, NEW k \in Instructions, NEW result \in {"done", "failed"}, Done(k, result)
  PROVE  /\ outcome' \in [Instructions -> {"open", "done", "failed"}]
         /\ \A j \in Instructions : j # k => outcome'[j] = outcome[j]
BY DEF Done, RetriesTypeOK

LEMMA AttemptEndsKeeps ==
  ASSUME RetriesInv, NEW id \in DOMAIN subtasks, AttemptEnds(id)
  PROVE  RetriesInv'
<1> DEFINE k == subtasks[id].of
<1>0. RetriesTypeOK /\ FramesInv
  BY DEF RetriesInv
<1>1. /\ frames # <<>> /\ subtasks[id].state = "open" /\ subtasks[id].kind = "attempt"
      /\ UNCHANGED <<program, pc, currentInstant, childTask, attemptNumber, observed>>
      /\ k \in Instructions /\ k \in Nat
      /\ outcome \in [Instructions -> {"open", "done", "failed"}]
  <2>1. /\ Blocked /\ subtasks[id].state = "open" /\ subtasks[id].kind = "attempt"
        /\ UNCHANGED <<program, pc, currentInstant, childTask, attemptNumber, observed>>
    BY DEF AttemptEnds, TaskCompleted, TaskCompletedUnreadable, TaskFailed, Answered
  <2>2. k \in Instructions /\ k \in Nat
    BY <1>0, SubtaskFacts, ProgramFacts
  <2> QED BY <1>0, <2>1, <2>2 DEF Blocked, RetriesTypeOK
<1> DEFINE OutcomeOK == /\ outcome' \in [Instructions -> {"open", "done", "failed"}]
                        /\ \A j \in Instructions : j # k => outcome'[j] = outcome[j]
<1>2. ASSUME NEW state \in States \ {"open"}, subtasks' = Ended(id, state), frames' = frames,
             outcome' = outcome \/ Done(k, "done") \/ Done(k, "failed")
      PROVE  RetriesInv'
  <2>1. OutcomeOK
    BY <1>0, <1>1, <1>2, OutcomeFacts
  <2> QED BY <1>0, <1>1, <1>2, <2>1, EndedFacts, EndKeeps
<1>3. CASE TaskCompleted(id)
  BY <1>2, <1>3 DEF TaskCompleted, States
<1>4. CASE TaskCompletedUnreadable(id)
  BY <1>2, <1>4 DEF TaskCompletedUnreadable, States
<1>5. CASE TaskFailed(id)
  <2>1. PICK nonRetriable \in BOOLEAN :
          \/ program[k].call = "retriable" /\ AttemptsLeft(k) /\ TryRetry(id, k)
          \/ /\ subtasks' = Ended(id, IF nonRetriable THEN "nonRetriable" ELSE "failed")
             /\ Done(k, "failed") /\ frames' = frames
    BY <1>5 DEF TaskFailed
  <2>2. CASE /\ subtasks' = Ended(id, IF nonRetriable THEN "nonRetriable" ELSE "failed")
             /\ Done(k, "failed") /\ frames' = frames
    BY <1>2, <2>2 DEF States
  <2>3. CASE program[k].call = "retriable" /\ AttemptsLeft(k) /\ TryRetry(id, k)
            /\ subtasks' = Ended(id, "failed") /\ frames' = frames
    BY <1>2, <2>3 DEF States, TryRetry
  <2>4. CASE program[k].call = "retriable" /\ AttemptsLeft(k) /\ TryRetry(id, k)
            /\ subtasks' = Ended(id, "failed") /\ frames' = Append(frames, InDelay(k, id))
    <3> DEFINE frame == InDelay(k, id)
    <3>1. frame \in Frames /\ frame.at = "delay" /\ frame.task = k /\ frame.on = id
      <4>1. id \in Nat
        BY <1>0 DEF RetriesTypeOK
      <4> QED BY <1>1, <4>1 DEF InDelay, Frames
    <3> HIDE DEF frame
    <3>2. frames' = Append(frames, frame) /\ outcome' = outcome
      BY <2>4 DEF TryRetry, frame
    <3>3. "failed" \in States \ {"open"}
      BY DEF States
    <3>4. /\ subtasks' \in Seq(Subtasks) /\ Len(subtasks') >= Len(subtasks)
          /\ \A j \in DOMAIN subtasks :
               /\ subtasks'[j].of = subtasks[j].of /\ subtasks'[j].kind = subtasks[j].kind
               /\ subtasks'[j].finalFireAt = subtasks[j].finalFireAt
               /\ subtasks'[j].state = "open" => j # id /\ subtasks[j].state = "open"
          /\ \A j \in DOMAIN subtasks' : j \in DOMAIN subtasks \/
               /\ subtasks'[j].of = k /\ subtasks'[j].kind # "attempt"
               /\ subtasks'[j].kind = "timer" <=> subtasks[id].kind = "timer"
               /\ subtasks'[j].kind = "delay" => program[k].call = "retriable"
               /\ subtasks'[j].kind = "timer" =>
                    subtasks'[j].finalFireAt = subtasks[id].finalFireAt
      BY <1>0, <2>4, <3>3, EndedFacts
    <3>5. id \in DOMAIN subtasks'
      <4>1. subtasks \in Seq(Subtasks)
        BY <1>0 DEF RetriesTypeOK
      <4> QED BY <3>4, <4>1
    <3>6. /\ outcome' \in [Instructions -> {"open", "done", "failed"}]
          /\ \A j \in Instructions : j # k => outcome'[j] = outcome[j]
          /\ subtasks[id].kind = "attempt" /\ program[k].call = "retriable" /\ AttemptsLeft(k)
      BY <1>1, <2>4, <3>2
    <3>7. \E f \in Frames :
            /\ frames' = Append(frames, f) /\ f.at = "delay" /\ f.task = k
            /\ f.on \in DOMAIN subtasks'
      BY <3>1, <3>2, <3>5
    <3> HIDE DEF k
    <3>8. k = subtasks[id].of
      BY DEF k
    <3>9. /\ frames # <<>> /\ subtasks[id].state = "open"
          /\ UNCHANGED <<program, pc, currentInstant, childTask, attemptNumber, observed>>
      BY <1>1
    <3>10. subtasks[id].kind = "timer" /\ outcome'[k] = "done" /\ outcome[k] # "done" =>
             currentInstant + Second > subtasks[id].finalFireAt
      BY <3>6
    <3> QED BY <3>4, <3>6, <3>7, <3>8, <3>9, <3>10, EndKeeps
  <2>5. CASE /\ program[k].call = "retriable" /\ AttemptsLeft(k) /\ TryRetry(id, k)
             /\ subtasks' = Append(Ended(id, "failed"),
                                   TimerUntil("delay", k, currentInstant + GetNextDelay(k)))
             /\ frames' = Append(frames, InDelay(k, NextId))
    <3> DEFINE new == TimerUntil("delay", k, currentInstant + GetNextDelay(k))
               frame == InDelay(k, NextId)
    <3>1. currentInstant + GetNextDelay(k) \in Nat
      <4>1. GetNextDelay(k) \in Nat
        BY <1>0, <1>1, <2>5, DelayType
      <4>2. currentInstant \in Nat
        BY <1>0 DEF RetriesTypeOK
      <4> QED BY <4>1, <4>2
    <3>2. new \in Subtasks /\ new.of = k /\ new.kind = "delay"
      BY <1>0, <1>1, <3>1, TimerType
    <3>3. frame \in Frames /\ frame.at = "delay" /\ frame.task = k /\ frame.on = NextId
      BY <1>0, <1>1 DEF InDelay, Frames, NextId, RetriesTypeOK
    <3> HIDE DEF new, frame
    <3>4. /\ subtasks' = Append(Ended(id, "failed"), new) /\ frames' = Append(frames, frame)
          /\ outcome' = outcome
      BY <2>5 DEF TryRetry, new, frame
    <3>5. Ended(id, "failed") \in Seq(Subtasks) /\ Len(Ended(id, "failed")) \in Nat
      BY <1>0, EndedType DEF States
    <3>6. Len(subtasks') = Len(Ended(id, "failed")) + 1
      BY <3>2, <3>4, <3>5
    <3>7. subtasks' # Ended(id, "failed")
      BY <3>5, <3>6
    <3>8. "failed" \in States \ {"open"}
      BY DEF States
    <3>9. subtasks[id].kind = "attempt"
      BY <1>1
    <3>10. /\ subtasks' \in Seq(Subtasks) /\ Len(subtasks') >= Len(subtasks)
           /\ NextId \in DOMAIN subtasks'
           /\ \A j \in DOMAIN subtasks :
                /\ subtasks'[j].of = subtasks[j].of /\ subtasks'[j].kind = subtasks[j].kind
                /\ subtasks'[j].finalFireAt = subtasks[j].finalFireAt
                /\ subtasks'[j].state = "open" => j # id /\ subtasks[j].state = "open"
           /\ \A j \in DOMAIN subtasks' : j \in DOMAIN subtasks \/
                /\ subtasks'[j].of = k /\ subtasks'[j].kind # "attempt"
                /\ subtasks'[j].kind = "timer" <=> subtasks[id].kind = "timer"
                /\ subtasks'[j].kind = "delay" => program[k].call = "retriable"
                /\ subtasks'[j].kind = "timer" =>
                     subtasks'[j].finalFireAt = subtasks[id].finalFireAt
      BY <1>0, <2>5, <3>2, <3>4, <3>7, <3>8, <3>9, EndedFacts
    <3>11. \E f \in Frames :
             /\ frames' = Append(frames, f) /\ f.at = "delay" /\ f.task = k
             /\ f.on \in DOMAIN subtasks'
      BY <3>3, <3>4, <3>10
    <3>12. /\ outcome' \in [Instructions -> {"open", "done", "failed"}]
           /\ \A j \in Instructions : j # k => outcome'[j] = outcome[j]
           /\ ~(subtasks[id].kind = "timer")
           /\ program[k].call = "retriable" /\ AttemptsLeft(k)
      BY <1>1, <2>5, <3>4
    <3> HIDE DEF k
    <3>13. k = subtasks[id].of
      BY DEF k
    <3>14. /\ frames # <<>> /\ subtasks[id].state = "open"
           /\ UNCHANGED <<program, pc, currentInstant, childTask, attemptNumber, observed>>
      BY <1>1
    <3>15. subtasks[id].kind = "timer" /\ outcome'[k] = "done" /\ outcome[k] # "done" =>
           currentInstant + Second > subtasks[id].finalFireAt
      BY <3>12
    <3>16. \/ frames' = frames
           \/ /\ subtasks[id].kind = "attempt" /\ program[k].call = "retriable" /\ AttemptsLeft(k)
              /\ \E f \in Frames :
                   /\ frames' = Append(frames, f) /\ f.at = "delay" /\ f.task = k
                   /\ f.on \in DOMAIN subtasks'
      BY <3>12, <3>11, <1>1
    <3> QED BY <3>10, <3>12, <3>13, <3>14, <3>15, <3>16, EndKeeps
  <2> QED BY <2>1, <2>2, <2>3, <2>4, <2>5 DEF TryRetry
<1> QED BY <1>3, <1>4, <1>5 DEF AttemptEnds

\* What is not in an earlier second is less than a second earlier.
LEMMA WithinASecond ==
  ASSUME NEW a \in Nat, NEW b \in Nat, Second \in Nat \ {0}, SecondOf(a) >= SecondOf(b)
  PROVE  a + Second > b
<1>1. a % Second \in 0 .. Second - 1 /\ b % Second \in 0 .. Second - 1
  OBVIOUS
<1> QED BY <1>1 DEF SecondOf

LEMMA TimerFiredKeeps ==
  ASSUME RetriesInv, NEW id \in DOMAIN subtasks, TimerFired(id)
  PROVE  RetriesInv'
<1> DEFINE timer == subtasks[id]
           new == TimerUntil(timer.kind, timer.of, timer.finalFireAt)
<1>0. RetriesTypeOK /\ FramesInv /\ OwnersInv
  BY DEF RetriesInv
<1>1. /\ frames # <<>> /\ timer.state = "open" /\ timer.kind \in {"timer", "delay"}
      /\ timer.of \in Instructions /\ timer.finalFireAt \in Nat
      /\ UNCHANGED <<program, pc, currentInstant, childTask, attemptNumber, frames, observed>>
      /\ outcome \in [Instructions -> {"open", "done", "failed"}]
      /\ timer.kind = "delay" => program[timer.of].call = "retriable"
  <2>1. /\ Blocked /\ timer.state = "open" /\ timer.kind # "attempt"
        /\ UNCHANGED <<program, pc, currentInstant, childTask, attemptNumber, frames, observed>>
    BY DEF TimerFired, Answered
  <2> QED BY <1>0, <2>1, SubtaskFacts DEF Blocked, RetriesTypeOK, OwnersInv
<1>2. /\ new \in Subtasks /\ new.of = timer.of /\ new.kind = timer.kind
      /\ new.finalFireAt = timer.finalFireAt
  BY <1>0, <1>1, TimerType
<1>3. subtasks' = Ended(id, "done") \/ subtasks' = Append(Ended(id, "done"), new)
  BY DEF TimerFired
<1>4. /\ outcome' \in [Instructions -> {"open", "done", "failed"}]
      /\ \A j \in Instructions : j # timer.of => outcome'[j] = outcome[j]
      /\ timer.kind = "timer" /\ outcome'[timer.of] = "done" /\ outcome[timer.of] # "done" =>
           currentInstant + Second > timer.finalFireAt
  <2>1. \/ TimeIsUp(timer) /\ Done(timer.of, "done")
        \/ outcome' = outcome
    BY DEF TimerFired
  <2>2. TimeIsUp(timer) => currentInstant + Second > timer.finalFireAt
    BY <1>0, <1>1, WithinASecond, ProgramFacts DEF TimeIsUp, RetriesTypeOK
  <2> QED BY <1>0, <1>1, <2>1, <2>2, OutcomeFacts
<1>5. "done" \in States \ {"open"}
  BY DEF States
<1> HIDE DEF new
<1> QED BY <1>0, <1>1, <1>2, <1>3, <1>4, <1>5, EndedFacts, EndKeeps

LEMMA WorkflowStartedKeeps ==
  ASSUME RetriesInv, WorkflowStarted
  PROVE  RetriesInv'
<1>0. RetriesTypeOK /\ OwnersInv /\ FramesInv /\ DelaysInv /\ CountsInv /\ ChainsInv
  BY DEF RetriesInv
<1>1. /\ UNCHANGED <<program, pc, childTask, outcome, attemptNumber, frames, observed>>
      /\ subtasks' = [id \in DOMAIN subtasks |-> [subtasks[id] EXCEPT !.asked = TRUE]]
      /\ Instructions' = Instructions
  BY DEF WorkflowStarted, Instructions
<1>2. currentInstant' \in Nat /\ currentInstant' >= currentInstant
  <2>1. PICK t \in {currentInstant} \union
                  {subtasks[id].fireAt + late : id \in DOMAIN subtasks, late \in 0 .. MaxLate} :
          t >= currentInstant /\ currentInstant' = t
    BY DEF WorkflowStarted
  <2>2. \A id \in DOMAIN subtasks, late \in 0 .. MaxLate : subtasks[id].fireAt + late \in Nat
    BY <1>0, SubtaskFacts, ProgramFacts
  <2> QED BY <1>0, <2>1, <2>2 DEF RetriesTypeOK
<1>3. /\ subtasks' \in Seq(Subtasks) /\ Len(subtasks') = Len(subtasks)
      /\ DOMAIN subtasks' = DOMAIN subtasks
      /\ \A id \in DOMAIN subtasks :
           /\ subtasks'[id].of = subtasks[id].of /\ subtasks'[id].kind = subtasks[id].kind
           /\ subtasks'[id].state = subtasks[id].state
           /\ subtasks'[id].finalFireAt = subtasks[id].finalFireAt
  <2>1. \A id \in DOMAIN subtasks : subtasks[id] \in Subtasks
    BY <1>0, SubtaskFacts
  <2>2. \A id \in DOMAIN subtasks :
          /\ subtasks'[id] \in Subtasks
          /\ subtasks'[id].of = subtasks[id].of /\ subtasks'[id].kind = subtasks[id].kind
          /\ subtasks'[id].state = subtasks[id].state
          /\ subtasks'[id].finalFireAt = subtasks[id].finalFireAt
    BY <1>1, <2>1 DEF Subtasks
  <2>3. DOMAIN subtasks = 1 .. Len(subtasks) /\ Len(subtasks) \in Nat
    BY <1>0 DEF RetriesTypeOK
  <2>4. subtasks' = [id \in 1 .. Len(subtasks) |-> subtasks'[id]]
    BY <1>1, <2>3
  <2> HIDE DEF Subtasks
  <2>5. subtasks' \in Seq(Subtasks) /\ Len(subtasks') = Len(subtasks)
    BY <2>2, <2>3, <2>4
  <2> QED BY <1>1, <2>2, <2>5
<1>4. RetriesTypeOK'
  BY <1>0, <1>1, <1>2, <1>3 DEF RetriesTypeOK, Frames, Subtasks
<1>5. OwnersInv' /\ FramesInv' /\ DelaysInv'
  BY <1>0, <1>1, <1>3 DEF OwnersInv, FramesInv, DelaysInv, AttemptsLeft, Instruction
<1>6. CountsInv'
  <2>1. ASSUME NEW k PROVE Attempts(k)' = Attempts(k)
    BY <1>3 DEF Attempts
  <2> QED BY <1>0, <1>1, <2>1 DEF CountsInv
<1>7. ChainsInv'
  <2>1. ASSUME NEW id \in DOMAIN subtasks, subtasks[id].kind = "timer",
               outcome[subtasks[id].of] = "done"
        PROVE  currentInstant' + Second > subtasks[id].finalFireAt
    <3>1. currentInstant + Second > subtasks[id].finalFireAt
      BY <1>0, <2>1 DEF ChainsInv
    <3>2. Second \in Nat /\ subtasks[id].finalFireAt \in Nat /\ currentInstant \in Nat
      BY <1>0, SubtaskFacts, RetriesAssumption DEF RetriesTypeOK
    <3> QED BY <1>2, <3>1, <3>2
  <2> QED BY <1>0, <1>1, <1>3, <2>1 DEF ChainsInv
<1> QED BY <1>4, <1>5, <1>6, <1>7 DEF RetriesInv

LEMMA DelayReturnsKeeps ==
  ASSUME RetriesInv, DelayReturns
  PROVE  RetriesInv'
<1> DEFINE k == Top.task
           frame == [at |-> "attempt", task |-> k, on |-> NextId, of |-> {}]
<1>0. RetriesTypeOK /\ OwnersInv /\ FramesInv /\ DelaysInv /\ CountsInv /\ ChainsInv
  BY DEF RetriesInv
<1>1. /\ frames # <<>> /\ Top.at = "delay" /\ Instructions' = Instructions
      /\ UNCHANGED <<program, pc, currentInstant, outcome, observed>>
  BY DEF DelayReturns, Resumable, Instructions
<1>2. /\ Len(frames) \in DOMAIN frames /\ Top = frames[Len(frames)] /\ Top \in Frames
      /\ Len(frames) \in Nat \ {0}
      /\ Front(frames) \in Seq(Frames) /\ Len(Front(frames)) = Len(frames) - 1
      /\ \A n \in DOMAIN Front(frames) :
           /\ n \in DOMAIN frames /\ n # Len(frames) /\ Front(frames)[n] = frames[n]
      /\ k \in Instructions /\ k < pc /\ program[k].call = "retriable"
  BY <1>0, <1>1, TopFacts
<1>3. /\ AttemptsLeft(k)
      /\ \A id \in DOMAIN subtasks :
           subtasks[id].of = k /\ subtasks[id].kind = "attempt" => subtasks[id].state # "open"
      /\ \A n \in DOMAIN Front(frames) : frames[n].at = "delay" => frames[n].task # k
  BY <1>0, <1>1, <1>2 DEF DelaysInv
<1>4. CASE /\ frames' = Front(frames)
           /\ UNCHANGED <<subtasks, childTask, attemptNumber>>
  <2>1. RetriesTypeOK'
    BY <1>0, <1>1, <1>2, <1>4 DEF RetriesTypeOK, Frames, Subtasks
  <2>2. OwnersInv' /\ CountsInv' /\ ChainsInv'
    BY <1>0, <1>1, <1>4 DEF OwnersInv, CountsInv, ChainsInv, Attempts
  <2>3. FramesInv'
    BY <1>0, <1>1, <1>2, <1>4 DEF FramesInv, Instruction
  <2>4. DelaysInv'
    BY <1>0, <1>1, <1>2, <1>4 DEF DelaysInv, AttemptsLeft
  <2> QED BY <2>1, <2>2, <2>3, <2>4 DEF RetriesInv
<1>5. CASE /\ attemptNumber[k] > 0
           /\ subtasks' = Append(subtasks, Attempt(k))
           /\ childTask' = [childTask EXCEPT ![k] = NextId]
           /\ attemptNumber' = Counted({k})
           /\ frames' = Append(Front(frames), frame)
  <2> DEFINE new == Attempt(k)
  <2>1. new \in Subtasks /\ new.of = k /\ new.kind = "attempt" /\ new.state = "open"
    BY <1>0, <1>2, AttemptType
  <2> HIDE DEF new
  <2>2. /\ subtasks' \in Seq(Subtasks) /\ Len(subtasks') = Len(subtasks) + 1
        /\ DOMAIN subtasks' = DOMAIN subtasks \union {NextId} /\ Len(subtasks) \in Nat
        /\ NextId \notin DOMAIN subtasks /\ NextId = Len(subtasks) + 1
        /\ \A id \in DOMAIN subtasks' :
             \/ id \in DOMAIN subtasks /\ id # NextId /\ subtasks'[id] = subtasks[id]
             \/ id = NextId /\ subtasks'[id] = new
    BY <1>0, <1>5, <2>1 DEF RetriesTypeOK, NextId, new
  <2>3. /\ attemptNumber' \in [Instructions -> Nat] /\ attemptNumber[k] \in Nat
        /\ attemptNumber'[k] = attemptNumber[k] + 1
        /\ \A j \in Instructions : j # k => attemptNumber'[j] = attemptNumber[j]
    BY <1>0, <1>2, <1>5 DEF Counted, RetriesTypeOK
  <2>4. frame \in Frames /\ frame.at = "attempt" /\ frame.task = k /\ frame.on = NextId
    BY <1>2, <2>2 DEF Frames
  <2> HIDE DEF frame
  <2>5. /\ frames' \in Seq(Frames) /\ frames # <<>>
        /\ \A n \in DOMAIN frames' :
             \/ n \in DOMAIN frames /\ n \in DOMAIN Front(frames) /\ frames'[n] = frames[n]
             \/ frames'[n] = frame
    BY <1>1, <1>2, <1>5, <2>4
  <2>6. RetriesTypeOK'
    <3>1. childTask' \in [Instructions -> 0 .. Len(subtasks')]
      BY <1>0, <1>2, <1>5, <2>2 DEF RetriesTypeOK
    <3> QED BY <1>0, <1>1, <2>2, <2>3, <2>5, <3>1 DEF RetriesTypeOK, Frames, Subtasks
  <2>7. OwnersInv'
    <3>1. \A id \in DOMAIN subtasks' :
            /\ subtasks'[id].of < pc
            /\ subtasks'[id].kind = "timer" <=> program[subtasks'[id].of].call = "timer"
            /\ subtasks'[id].kind = "delay" => program[subtasks'[id].of].call = "retriable"
      BY <1>0, <1>2, <2>1, <2>2 DEF OwnersInv
    <3>2. \A j \in Instructions : j < pc /\ program[j].call \notin Awaits => childTask'[j] > 0
      BY <1>0, <1>2, <1>5, <2>2 DEF OwnersInv, RetriesTypeOK
    <3> QED BY <1>0, <1>1, <3>1, <3>2 DEF OwnersInv
  <2>8. FramesInv'
    BY <1>0, <1>1, <1>2, <2>2, <2>4, <2>5 DEF FramesInv, Instruction
  <2>9. DelaysInv'
    <3>1. ASSUME NEW id1 \in DOMAIN subtasks', NEW id2 \in DOMAIN subtasks',
                 subtasks'[id1].kind = "attempt", subtasks'[id1].state = "open",
                 subtasks'[id2].kind = "attempt", subtasks'[id2].state = "open",
                 subtasks'[id1].of = subtasks'[id2].of
          PROVE  id1 = id2
      BY <1>0, <1>3, <2>1, <2>2, <3>1 DEF DelaysInv
    <3>2. ASSUME NEW n \in DOMAIN frames', frames'[n].at = "delay"
          PROVE  /\ n \in DOMAIN Front(frames) /\ n \in DOMAIN frames /\ frames'[n] = frames[n]
                 /\ frames[n].task # k /\ frames[n].task \in Instructions
      BY <1>0, <1>3, <2>4, <2>5, <3>2 DEF FramesInv
    <3>3. ASSUME NEW n \in DOMAIN frames', frames'[n].at = "delay"
          PROVE  /\ attemptNumber'[frames'[n].task] <
                      program'[frames'[n].task].policy.maxNumberOfAttempts
                 /\ \A id \in DOMAIN subtasks' :
                      subtasks'[id].of = frames'[n].task /\ subtasks'[id].kind = "attempt" =>
                        subtasks'[id].state # "open"
                 /\ \A m \in DOMAIN frames' :
                      frames'[m].at = "delay" /\ frames'[m].task = frames'[n].task => m = n
      <4>1. /\ n \in DOMAIN frames /\ frames'[n] = frames[n] /\ frames[n].at = "delay"
            /\ frames[n].task # k /\ frames[n].task \in Instructions
        BY <3>2, <3>3
      <4>2. AttemptsLeft(frames[n].task)
        BY <1>0, <4>1 DEF DelaysInv
      <4>3. attemptNumber'[frames[n].task] = attemptNumber[frames[n].task] /\ program' = program
        BY <1>1, <2>3, <4>1
      <4>4. attemptNumber'[frames'[n].task] < program'[frames'[n].task].policy.maxNumberOfAttempts
        BY <4>1, <4>2, <4>3 DEF AttemptsLeft
      <4>5. \A id \in DOMAIN subtasks' :
              subtasks'[id].of = frames'[n].task /\ subtasks'[id].kind = "attempt" =>
                subtasks'[id].state # "open"
        BY <1>0, <2>1, <2>2, <4>1 DEF DelaysInv
      <4>6. \A m \in DOMAIN frames' :
              frames'[m].at = "delay" /\ frames'[m].task = frames'[n].task => m = n
        BY <1>0, <3>2, <4>1 DEF DelaysInv
      <4> QED BY <4>4, <4>5, <4>6
    <3> QED BY <3>1, <3>3 DEF DelaysInv, AttemptsLeft
  <2>10. CountsInv'
    <3> SUFFICES ASSUME NEW j \in Instructions, program[j].call = "retriable"
                 PROVE  /\ Cardinality(Attempts(j)') <= program[j].policy.maxNumberOfAttempts
                        /\ \/ Cardinality(Attempts(j)') <= 1
                           \/ Cardinality(Attempts(j)') <= attemptNumber'[j]
      BY <1>1 DEF CountsInv
    <3>1. CASE j # k
      <4>1. Attempts(j)' = Attempts(j)
        BY <2>1, <2>2, <3>1 DEF Attempts
      <4> QED BY <1>0, <2>3, <3>1, <4>1 DEF CountsInv
    <3>2. CASE j = k
      <4>1. Attempts(j)' = Attempts(j) \union {NextId}
        BY <2>1, <2>2, <3>2 DEF Attempts
      <4>2. Attempts(j) \subseteq 1 .. Len(subtasks) /\ NextId \notin Attempts(j)
        BY <1>0, <2>2, AttemptsFinite DEF Attempts
      <4>3. Cardinality(Attempts(j)) \in Nat
            /\ Cardinality(Attempts(j)') = Cardinality(Attempts(j)) + 1
        BY <2>2, <4>1, <4>2, OneMore
      <4>4. Cardinality(Attempts(j)) <= 1 \/ Cardinality(Attempts(j)) <= attemptNumber[k]
        BY <1>0, <3>2 DEF CountsInv
      <4>5. /\ attemptNumber[k] < program[k].policy.maxNumberOfAttempts
            /\ program[k].policy.maxNumberOfAttempts \in Nat
        BY <1>0, <1>2, <1>3, ProgramFacts DEF AttemptsLeft, Policies, Awaits
      <4> QED BY <1>5, <2>3, <3>2, <4>3, <4>4, <4>5
    <3> QED BY <3>1, <3>2
  <2>11. ChainsInv'
    <3>1. \A id \in DOMAIN subtasks : subtasks[id].kind = "timer" => subtasks[id].of # k
      BY <1>0, <1>2 DEF OwnersInv
    <3> QED BY <1>0, <1>1, <2>1, <2>2, <3>1 DEF ChainsInv
  <2> QED BY <2>6, <2>7, <2>8, <2>9, <2>10, <2>11 DEF RetriesInv
<1> QED BY <1>4, <1>5 DEF DelayReturns

-----------------------------------------------------------------------------
(* Theorems *)

LEMMA RetriesInit ==
  ASSUME Init
  PROVE  RetriesInv
<1>1. /\ program \in Programs /\ Instructions = 1 .. Len(program) /\ Len(program) \in Nat
  BY RetriesAssumption DEF Init, Instructions
<1>2. /\ pc = 1 /\ currentInstant = 0 /\ subtasks = <<>> /\ frames = <<>>
      /\ DOMAIN subtasks = {} /\ DOMAIN frames = {} /\ Len(subtasks) = 0
  BY DEF Init
<1>3. RetriesTypeOK
  <2>1. subtasks \in Seq(Subtasks) /\ frames \in Seq(Frames)
    BY <1>2
  <2> QED BY <1>1, <1>2, <2>1 DEF Init, RetriesTypeOK
<1>4. OwnersInv
  BY <1>1, <1>2 DEF Init, OwnersInv
<1>5. FramesInv /\ DelaysInv /\ ChainsInv
  BY <1>2 DEF FramesInv, DelaysInv, ChainsInv
<1>6. CountsInv
  <2> SUFFICES ASSUME NEW k \in Instructions, program[k].call = "retriable"
               PROVE  /\ Cardinality(Attempts(k)) <= program[k].policy.maxNumberOfAttempts
                      /\ Cardinality(Attempts(k)) <= 1
    BY DEF CountsInv
  <2>1. Attempts(k) = {}
    BY <1>2 DEF Attempts
  <2>2. Cardinality(Attempts(k)) = 0
    BY <2>1, FS_EmptySet
  <2>3. program[k].policy.maxNumberOfAttempts \in Nat
    BY <1>3, ProgramFacts DEF Awaits, Policies
  <2> QED BY <2>2, <2>3
<1> QED BY <1>3, <1>4, <1>5, <1>6 DEF RetriesInv

LEMMA RetriesStep ==
  ASSUME RetriesInv, [Next]_vars
  PROVE  RetriesInv'
<1>1. CASE CodeStep
  BY <1>1, CreateTaskKeeps, AwaitKeeps, ReturnsKeep, DelayReturnsKeeps DEF CodeStep
<1>2. CASE WorkflowStarted
  BY <1>2, WorkflowStartedKeeps
<1>3. ASSUME NEW id \in DOMAIN subtasks, AttemptEnds(id) \/ TimerFired(id)
      PROVE  RetriesInv'
  BY <1>3, AttemptEndsKeeps, TimerFiredKeeps
<1>4. CASE UNCHANGED vars
  <2>1. UNCHANGED <<program, pc, currentInstant, subtasks, childTask, outcome, attemptNumber,
                    frames, observed>>
    BY <1>4 DEF vars
  <2>2. RetriesTypeOK'
    BY <2>1 DEF RetriesInv, RetriesTypeOK, Instructions, Subtasks, Frames
  <2>3. OwnersInv' /\ ChainsInv'
    BY <2>1 DEF RetriesInv, OwnersInv, ChainsInv, Instructions
  <2>4. FramesInv'
    BY <2>1 DEF RetriesInv, FramesInv, Instructions, Instruction
  <2>5. DelaysInv'
    BY <2>1 DEF RetriesInv, DelaysInv, AttemptsLeft
  <2>6. CountsInv'
    BY <2>1 DEF RetriesInv, CountsInv, Instructions, Attempts
  <2> QED
    BY <2>2, <2>3, <2>4, <2>5, <2>6 DEF RetriesInv
<1> QED BY <1>1, <1>2, <1>3, <1>4 DEF Next, Rest

\* The strengthening is an invariant.
THEOREM RetriesInvariant == Spec => []RetriesInv
<1>1. Init => RetriesInv
  BY RetriesInit
<1>2. RetriesInv /\ [Next]_vars => RetriesInv'
  BY RetriesStep
<1> QED BY <1>1, <1>2, PTL DEF Spec

-----------------------------------------------------------------------------
(* The last attempt: what the handlers of a task's failures are about *)

\* The current attempt of a task is its last; those before it failed; its end is the task's.
AttemptsInv ==
  \A k \in Instructions : IsRetriable(k) /\ k < pc =>
    /\ childTask[k] \in Attempts(k)
    /\ \A id \in Attempts(k) :
         id <= childTask[k] /\ (id # childTask[k] => subtasks[id].state = "failed")
    /\ outcome[k] # "open" =>
         /\ subtasks[childTask[k]].state # "open"
         /\ outcome[k] = "done" <=> subtasks[childTask[k]].state = "done"

\* The await of the code is below those of the handlers.  While the current attempt of a task is
\* under way, whoever awaits an earlier one waits for a handler that awaits it; so the attempt that
\* is current when an await of the task goes on is over.
NestingInv ==
  \A n \in DOMAIN frames :
    /\ \/ n = 1 /\ frames[n].at \in {"allOf", "anyOf"} /\ Instruction.call # "await"
       \/ n = 1 /\ frames[n].at = "task" /\ \A k \in Instruction.of : ~IsRetriable(k)
       \/ n = 1 /\ frames[n].at \in {"attempt", "result"} /\ Instruction.of = {frames[n].task}
       \/ n > 1 /\ frames[n].at \in {"attempt", "result", "delay"}
    /\ frames[n].at = "attempt" /\ subtasks[childTask[frames[n].task]].state = "open" =>
         \E m \in DOMAIN frames :
           /\ m >= n /\ frames[m].at = "attempt" /\ frames[m].task = frames[n].task
           /\ frames[m].on = childTask[frames[n].task]
    /\ frames[n].at = "result" =>
         /\ n = Len(frames) /\ frames[n].on = childTask[frames[n].task]
         /\ subtasks[frames[n].on].state # "open"

\* The delay that getNextDelay computes for so many attempts.
DelayAfter(k, number) ==
  LET policy == program[k].policy
      delay == policy.firstRetryInterval * Power(policy, number)
  IN IF policy.maxRetryInterval > 0 THEN Lesser(delay, policy.maxRetryInterval) ELSE delay

Wait(k, number) == Lesser(DelayAfter(k, number), MaximumTimerInterval)

Number(a, k) == Cardinality({c \in Attempts(k) : c <= a})

\* DelaysAreKept, but for the states, which AttemptsInv knows.
KeptInv ==
  \A k \in Instructions : IsRetriable(k) =>
    \A a, b \in Attempts(k) :
      a < b /\ (\A c \in Attempts(k) : c <= a \/ b <= c) =>
        subtasks[b].created >= subtasks[a].ended + Wait(k, Number(a, k))

\* A handler awaits a delay that is long enough, unless none is asked for, or no other attempt will
\* be made: the task was never awaited.
DelayAwaited(frame, k) ==
  attemptNumber[k] > 0 =>
    \/ Wait(k, Cardinality(Attempts(k))) = 0
    \/ /\ subtasks[frame.on].kind = "delay"
       /\ subtasks[frame.on].fireAt
            >= subtasks[childTask[k]].ended + Wait(k, Cardinality(Attempts(k)))

\* ... and timers do not fire early; what has ended did so in the past.
DelayedInv ==
  /\ \A n \in DOMAIN frames : frames[n].at = "delay" =>
       LET k == frames[n].task
       IN /\ outcome[k] = "open" /\ subtasks[childTask[k]].state = "failed"
          /\ DelayAwaited(frames[n], k)
  /\ \A id \in DOMAIN subtasks :
       /\ subtasks[id].ended <= currentInstant
       /\ subtasks[id].kind # "attempt" /\ subtasks[id].state # "open" =>
            subtasks[id].fireAt <= currentInstant

\* What an await returned is what the last attempt came to, and there is no handler left that
\* could make another.
ObservedInv ==
  \A i \in Instructions : observed[i].result # "none" =>
    /\ i < pc
    /\ program[i].call = "await" => \A k \in program[i].of : IsRetriable(k) =>
         /\ observed[i].result = subtasks[childTask[k]].state
         /\ subtasks[childTask[k]].state # "open"
         /\ \A n \in DOMAIN frames : frames[n].at = "delay" => frames[n].task # k

AwaitedBy(k) == {i \in Instructions : program[i].call \in Awaits /\ k \in program[i].of}

\* A task counts nothing before it is awaited, and what is awaited by one instruction counts no
\* more than its attempts.
SpentInv ==
  \A k \in Instructions : IsRetriable(k) =>
    /\ (\A i \in AwaitedBy(k) : i > pc \/ (i = pc /\ frames = <<>>)) => attemptNumber[k] = 0
    /\ k < pc /\ (\A i, j \in AwaitedBy(k) : i = j) =>
         /\ attemptNumber[k] <= Cardinality(Attempts(k))
         /\ outcome[k] = "failed" /\ program[k].policy.retryTimeout = 0 =>
              \/ subtasks[childTask[k]].state = "nonRetriable"
              \/ Cardinality(Attempts(k)) = program[k].policy.maxNumberOfAttempts

LastInv ==
  AttemptsInv /\ NestingInv /\ KeptInv /\ DelayedInv /\ ObservedInv /\ SpentInv

LEMMA CurrentFacts ==
  ASSUME RetriesInv, AttemptsInv, NEW k \in Instructions, IsRetriable(k), k < pc
  PROVE  /\ childTask[k] \in DOMAIN subtasks /\ childTask[k] \in Nat
         /\ subtasks[childTask[k]].of = k /\ subtasks[childTask[k]].kind = "attempt"
         /\ subtasks[childTask[k]].ended \in Nat /\ subtasks[childTask[k]].state \in States
         /\ \A id \in DOMAIN subtasks :
              /\ subtasks[id].of = k /\ subtasks[id].kind = "attempt" => id <= childTask[k]
              /\ subtasks[id].of = k /\ subtasks[id].kind = "attempt"
                   /\ subtasks[id].state = "open" => id = childTask[k]
         /\ Cardinality(Attempts(k)) \in Nat /\ Cardinality(Attempts(k)) >= 1
         /\ Cardinality(Attempts(k)) <= program[k].policy.maxNumberOfAttempts
<1>0. RetriesTypeOK /\ CountsInv
  BY DEF RetriesInv
<1>1. childTask[k] \in Attempts(k)
  BY DEF AttemptsInv
<1>2. /\ childTask[k] \in DOMAIN subtasks
      /\ subtasks[childTask[k]].of = k /\ subtasks[childTask[k]].kind = "attempt"
  BY <1>1 DEF Attempts
<1>3. \A id \in DOMAIN subtasks :
        /\ subtasks[id].of = k /\ subtasks[id].kind = "attempt" => id <= childTask[k]
        /\ subtasks[id].of = k /\ subtasks[id].kind = "attempt" /\ subtasks[id].state = "open" =>
             id = childTask[k]
  BY DEF AttemptsInv, Attempts
<1>4. Cardinality(Attempts(k)) \in Nat /\ Cardinality(Attempts(k)) >= 1
  <2>1. IsFiniteSet(Attempts(k)) /\ Cardinality(Attempts(k)) \in Nat
    BY <1>0, AttemptsFinite
  <2>2. Cardinality(Attempts(k)) # 0
    BY <1>1, <2>1, FS_EmptySet
  <2> QED BY <2>1, <2>2
<1>5. Cardinality(Attempts(k)) <= program[k].policy.maxNumberOfAttempts
  BY <1>0 DEF CountsInv, IsRetriable
<1>6. childTask[k] \in Nat
  BY <1>0 DEF RetriesTypeOK
<1>7. subtasks[childTask[k]].ended \in Nat /\ subtasks[childTask[k]].state \in States
  BY <1>0, <1>2, SubtaskFacts
<1> QED BY <1>2, <1>3, <1>4, <1>5, <1>6, <1>7

\* A delay for fewer attempts than were counted is not longer.
LEMMA DelaysGrow ==
  ASSUME RetriesTypeOK, NEW k \in Instructions, IsRetriable(k), AttemptsLeft(k), ~NoNextDelay(k),
         NEW number \in 0 .. attemptNumber[k]
  PROVE  /\ DelayAfter(k, number) \in Nat /\ GetNextDelay(k) \in Nat
         /\ DelayAfter(k, number) <= GetNextDelay(k)
<1> DEFINE policy == program[k].policy
           counted == attemptNumber[k]
           one == Power(policy, number)
           two == Power(policy, counted)
           less == policy.firstRetryInterval * one
           more == policy.firstRetryInterval * two
           cap == policy.maxRetryInterval
<1>1. counted \in 0 .. policy.maxNumberOfAttempts /\ number \in 0 .. policy.maxNumberOfAttempts
  <2>1. policy \in Policies
    BY ProgramFacts DEF Awaits, IsRetriable
  <2>2. policy.maxNumberOfAttempts \in Nat /\ counted \in Nat
    BY <2>1 DEF RetriesTypeOK, Policies
  <2> QED BY <2>2 DEF AttemptsLeft
<1>2. /\ one \in Nat /\ two \in Nat /\ one <= two /\ less \in Nat /\ more \in Nat
      /\ policy.firstRetryInterval \in Nat /\ cap \in Nat
  BY <1>1, PowerType DEF IsRetriable
<1>3. less <= more
  <2>1. ASSUME NEW a \in Nat, NEW b \in Nat, NEW c \in Nat, b <= c
        PROVE  a * b <= a * c
    <3>1. a * (c - b) \in Nat /\ a * c = a * b + a * (c - b)
      BY <2>1
    <3>2. a * b \in Nat /\ a * c \in Nat
      OBVIOUS
    <3> QED BY <3>1, <3>2
  <2> HIDE DEF one, two
  <2> QED BY <1>2, <2>1
<1>4. /\ DelayAfter(k, number) = IF cap > 0 THEN Lesser(less, cap) ELSE less
      /\ GetNextDelay(k) = IF Overflows(policy, counted) THEN cap
                           ELSE IF cap > 0 THEN Lesser(more, cap) ELSE more
      /\ Overflows(policy, counted) => cap # 0
  BY DEF DelayAfter, GetNextDelay, NoNextDelay
<1> HIDE DEF policy, counted, one, two, less, more, cap
<1> QED BY <1>2, <1>3, <1>4 DEF Lesser

LEMMA WaitType ==
  ASSUME RetriesTypeOK, NEW k \in Instructions, IsRetriable(k),
         NEW number \in 1 .. program[k].policy.maxNumberOfAttempts
  PROVE  Wait(k, number) \in Nat
<1> DEFINE policy == program[k].policy
           delay == policy.firstRetryInterval * Power(policy, number)
<1>1. number \in 0 .. policy.maxNumberOfAttempts
  OBVIOUS
<1>2. delay \in Nat /\ policy.maxRetryInterval \in Nat
  BY <1>1, PowerType DEF IsRetriable
<1>3. DelayAfter(k, number) = IF policy.maxRetryInterval > 0
                              THEN Lesser(delay, policy.maxRetryInterval) ELSE delay
  BY DEF DelayAfter
<1> HIDE DEF policy, delay
<1>4. DelayAfter(k, number) \in Nat /\ MaximumTimerInterval \in Nat
  BY <1>2, <1>3, RetriesAssumption DEF Lesser
<1> QED BY <1>4 DEF Wait, Lesser

\* A step that asks for no attempt and ends none.
LEMMA AttemptsUndisturbed ==
  ASSUME RetriesInv, LastInv,
         UNCHANGED <<program, childTask>>, pc' \in {pc, pc + 1},
         pc' # pc => Instruction.call \in Awaits,
         DOMAIN subtasks \subseteq DOMAIN subtasks',
         \A id \in DOMAIN subtasks :
           /\ subtasks'[id].of = subtasks[id].of /\ subtasks'[id].kind = subtasks[id].kind
           /\ subtasks[id].kind = "attempt" =>
                /\ subtasks'[id].state = subtasks[id].state
                /\ subtasks'[id].ended = subtasks[id].ended
                /\ subtasks'[id].created = subtasks[id].created,
         \A id \in DOMAIN subtasks' : id \in DOMAIN subtasks \/ subtasks'[id].kind # "attempt",
         \A k \in Instructions : IsRetriable(k) => outcome'[k] = outcome[k]
  PROVE  /\ AttemptsInv' /\ KeptInv' /\ Instructions' = Instructions
         /\ \A k : Attempts(k)' = Attempts(k)
         /\ \A k \in Instructions : IsRetriable(k) => (k < pc <=> k < pc')
         /\ \A k \in Instructions : IsRetriable(k) /\ k < pc =>
              /\ subtasks'[childTask[k]].state = subtasks[childTask[k]].state
              /\ subtasks'[childTask[k]].ended = subtasks[childTask[k]].ended
<1>0. RetriesTypeOK /\ AttemptsInv /\ KeptInv
  BY DEF RetriesInv, LastInv
<1>1. Instructions' = Instructions /\ Instructions = 1 .. Len(program) /\ pc \in Nat
  BY <1>0, ProgramFacts DEF Instructions, RetriesTypeOK
<1>2. \A k : Attempts(k)' = Attempts(k)
  BY DEF Attempts
<1>3. ASSUME NEW k \in Instructions, IsRetriable(k)
      PROVE  k < pc <=> k < pc'
  <2>1. CASE pc' = pc
    BY <2>1
  <2>2. CASE pc' = pc + 1 /\ Instruction.call \in Awaits
    <3>1. k # pc
      BY <1>3, <2>2 DEF IsRetriable, Instruction, Awaits
    <3> QED BY <1>1, <2>2, <3>1
  <2> QED BY <2>1, <2>2
<1>4. ASSUME NEW k \in Instructions, IsRetriable(k), k < pc
      PROVE  /\ subtasks'[childTask[k]].state = subtasks[childTask[k]].state
             /\ subtasks'[childTask[k]].ended = subtasks[childTask[k]].ended
  <2>1. childTask[k] \in DOMAIN subtasks /\ subtasks[childTask[k]].kind = "attempt"
    BY <1>0, <1>4 DEF AttemptsInv, Attempts
  <2> QED BY <2>1
<1>5. AttemptsInv'
  <2> SUFFICES ASSUME NEW k \in Instructions, IsRetriable(k), k < pc'
               PROVE  /\ childTask[k] \in Attempts(k)
                      /\ \A id \in Attempts(k) :
                           /\ id <= childTask[k]
                           /\ id # childTask[k] => subtasks'[id].state = "failed"
                      /\ outcome'[k] # "open" =>
                           /\ subtasks'[childTask[k]].state # "open"
                           /\ outcome'[k] = "done" <=> subtasks'[childTask[k]].state = "done"
    BY <1>1, <1>2 DEF AttemptsInv, IsRetriable
  <2>1. k < pc
    BY <1>3
  <2>2. \A id \in Attempts(k) : subtasks'[id].state = subtasks[id].state
    BY DEF Attempts
  <2> QED BY <1>0, <1>4, <2>1, <2>2 DEF AttemptsInv
<1>6. KeptInv'
  <2> SUFFICES ASSUME NEW k \in Instructions, IsRetriable(k),
                      NEW a \in Attempts(k), NEW b \in Attempts(k), a < b,
                      \A c \in Attempts(k) : c <= a \/ b <= c
               PROVE  subtasks'[b].created >= subtasks'[a].ended + Wait(k, Number(a, k))
    BY <1>1, <1>2 DEF KeptInv, IsRetriable, Number, Wait, DelayAfter
  <2>1. /\ subtasks'[a].ended = subtasks[a].ended
        /\ subtasks'[b].created = subtasks[b].created
    BY DEF Attempts
  <2> QED BY <1>0, <2>1 DEF KeptInv
<1> QED BY <1>1, <1>2, <1>3, <1>4, <1>5, <1>6

\* What awaits, returns and throws leave alone of what is known of delays.
LEMMA DelaysUndisturbed ==
  ASSUME RetriesInv, LastInv,
         UNCHANGED <<program, childTask, subtasks, outcome, currentInstant>>,
         \A n \in DOMAIN frames' : frames'[n].at = "delay" =>
           /\ n \in DOMAIN frames /\ frames'[n] = frames[n]
           /\ attemptNumber'[frames[n].task] = attemptNumber[frames[n].task]
  PROVE  DelayedInv'
<1>1. DelayedInv
  BY DEF LastInv
<1>2. \A k : /\ Attempts(k)' = Attempts(k)
             /\ Wait(k, Cardinality(Attempts(k)))' = Wait(k, Cardinality(Attempts(k)))
  BY DEF Attempts, Wait, DelayAfter
<1> QED BY <1>1, <1>2 DEF DelayedInv, DelayAwaited

LEMMA AwaitLast ==
  ASSUME RetriesInv, LastInv, Await \/ AwaitCompound
  PROVE  LastInv'
<1>0. /\ RetriesTypeOK /\ OwnersInv
      /\ AttemptsInv /\ NestingInv /\ KeptInv /\ DelayedInv /\ ObservedInv /\ SpentInv
  BY DEF RetriesInv, LastInv
<1>1. /\ frames = <<>> /\ pc <= Len(program) /\ attemptNumber' = Counted(Instruction.of)
      /\ Instruction.call \in Awaits /\ program' = program
      /\ UNCHANGED <<program, pc, currentInstant, subtasks, childTask, outcome, observed>>
  BY DEF Await, AwaitCompound, Runs, Awaits
<1>2. /\ pc \in Instructions /\ Instruction = program[pc] /\ Instructions' = Instructions
      /\ Instructions = 1 .. Len(program) /\ Instruction.of \subseteq 1 .. pc - 1 /\ pc \in Nat
      /\ Instruction.call = "await" => \E k \in Instructions : Instruction.of = {k}
      /\ Len(program) \in Nat /\ Instruction' = Instruction
  <2>1. /\ Instructions = 1 .. Len(program) /\ Len(program) \in Nat /\ pc \in Nat /\ pc >= 1
        /\ Instruction = program[pc] /\ Instructions' = Instructions /\ Instruction' = Instruction
    BY <1>0, <1>1, ProgramFacts DEF RetriesTypeOK, Instructions, Instruction
  <2>2. pc \in Instructions
    BY <1>1, <2>1
  <2>3. /\ Instruction.of \subseteq 1 .. pc - 1
        /\ Instruction.call = "await" => \E k \in 1 .. pc - 1 : Instruction.of = {k}
    BY <1>0, <1>1, <2>1, <2>2, ProgramFacts DEF Awaits
  <2>4. 1 .. pc - 1 \subseteq Instructions
    BY <2>1, <2>2
  <2> QED BY <2>1, <2>2, <2>3, <2>4
<1>3. PICK frame :
        /\ frames' = <<frame>>
        /\ \/ frame.at \in {"allOf", "anyOf"} /\ Instruction.call # "await"
           \/ frame.at = "task" /\ \A k \in Instruction.of : ~IsRetriable(k)
           \/ /\ frame.at = "attempt" /\ Instruction.of = {frame.task}
              /\ frame.on = childTask[frame.task]
  <2>1. CASE Await
    <3>1. PICK k \in Instruction.of :
            frames' = <<Waiting(IF program[k].call = "retriable" THEN "attempt" ELSE "task", k)>>
      BY <2>1 DEF Await
    <3>2. Instruction.of = {k}
      BY <1>2, <2>1, <3>1 DEF Await
    <3> QED BY <3>1, <3>2 DEF Waiting, IsRetriable
  <2>2. CASE AwaitCompound
    BY <2>2 DEF AwaitCompound
  <2> QED BY <2>1, <2>2
<1>4. DOMAIN frames' = {1} /\ frames'[1] = frame /\ Len(frames') = 1 /\ frame.at # "delay"
  BY <1>3
<1>5. AttemptsInv' /\ KeptInv'
  BY <1>1, AttemptsUndisturbed
<1>6. NestingInv'
  BY <1>1, <1>2, <1>3, <1>4 DEF NestingInv, IsRetriable
<1>7. DelayedInv'
  BY <1>1, <1>4, DelaysUndisturbed
<1>8. ObservedInv'
  BY <1>0, <1>1, <1>2, <1>4 DEF ObservedInv, IsRetriable
<1>9. SpentInv'
  <2> SUFFICES ASSUME NEW k \in Instructions, IsRetriable(k)
               PROVE  /\ (\A i \in AwaitedBy(k) : i > pc) => attemptNumber'[k] = 0
                      /\ k < pc /\ (\A i, j \in AwaitedBy(k) : i = j) =>
                           /\ attemptNumber'[k] <= Cardinality(Attempts(k))
                           /\ outcome[k] = "failed" /\ program[k].policy.retryTimeout = 0 =>
                                \/ subtasks[childTask[k]].state = "nonRetriable"
                                \/ Cardinality(Attempts(k)) = program[k].policy.maxNumberOfAttempts
    <3>1. \A k : Attempts(k)' = Attempts(k) /\ AwaitedBy(k)' = AwaitedBy(k)
      BY <1>1, <1>2 DEF Attempts, AwaitedBy
    <3>2. frames' # <<>>
      BY <1>3
    <3> QED BY <1>1, <1>2, <3>1, <3>2 DEF SpentInv, IsRetriable
  <2>1. k \in Instruction.of <=> pc \in AwaitedBy(k)
    BY <1>1, <1>2 DEF AwaitedBy
  <2>2. attemptNumber[k] \in Nat
    BY <1>0 DEF RetriesTypeOK
  <2>3. attemptNumber'[k] = IF k \in Instruction.of THEN attemptNumber[k] + 1 ELSE attemptNumber[k]
    BY <1>1 DEF Counted, IsRetriable
  <2>4. (\A i \in AwaitedBy(k) : i > pc) => attemptNumber'[k] = 0
    BY <1>0, <1>2, <2>1, <2>3 DEF SpentInv
  <2>5. ASSUME k < pc, \A i, j \in AwaitedBy(k) : i = j
        PROVE  attemptNumber'[k] <= Cardinality(Attempts(k))
    <3>1. CASE k \in Instruction.of
      <4>1. \A i \in AwaitedBy(k) : i = pc
        BY <2>1, <2>5, <3>1
      <4>2. attemptNumber[k] = 0
        BY <1>0, <1>1, <4>1 DEF SpentInv
      <4>3. Cardinality(Attempts(k)) \in Nat /\ Cardinality(Attempts(k)) >= 1
        BY <1>0, <2>5, CurrentFacts
      <4> QED BY <2>3, <3>1, <4>2, <4>3
    <3>2. CASE k \notin Instruction.of
      BY <1>0, <2>3, <2>5, <3>2 DEF SpentInv
    <3> QED BY <3>1, <3>2
  <2> QED BY <1>0, <2>4, <2>5 DEF SpentInv
<1> QED BY <1>5, <1>6, <1>7, <1>8, <1>9 DEF LastInv

\* Once the innermost await is over, so is the current attempt of its task.
LEMMA CurrentOver ==
  ASSUME RetriesInv, LastInv, frames # <<>>, FutureDone(Top), Top.at = "attempt"
  PROVE  subtasks[childTask[Top.task]].state # "open"
<1>1. Len(frames) \in DOMAIN frames /\ Top = frames[Len(frames)] /\ Len(frames) \in Nat
  BY TopFacts DEF RetriesInv
<1>2. subtasks[Top.on].state # "open"
  BY DEF FutureDone
<1>3. SUFFICES ASSUME subtasks[childTask[Top.task]].state = "open"
               PROVE  FALSE
  OBVIOUS
<1>4. PICK m \in DOMAIN frames : /\ m >= Len(frames) /\ frames[m].on = childTask[Top.task]
  BY <1>1, <1>3 DEF LastInv, NestingInv
<1>5. m = Len(frames)
  BY <1>1, <1>4 DEF RetriesInv, RetriesTypeOK
<1> QED BY <1>1, <1>2, <1>3, <1>4, <1>5

\* Who is not yet awaited was not yet awaited.
LEMMA SpentUndisturbed ==
  ASSUME RetriesInv, LastInv, UNCHANGED <<program, childTask, attemptNumber>>,
         \A k \in Instructions : IsRetriable(k) => outcome'[k] = outcome[k],
         (pc' = pc /\ (frames' = <<>> => frames = <<>>)) \/ pc' = pc + 1,
         \A k : Attempts(k)' = Attempts(k),
         \A k \in Instructions : IsRetriable(k) => (k < pc <=> k < pc'),
         \A k \in Instructions : IsRetriable(k) /\ k < pc =>
           subtasks'[childTask[k]].state = subtasks[childTask[k]].state
  PROVE  SpentInv'
<1>1. SpentInv /\ pc \in Nat /\ Instructions = 1 .. Len(program) /\ Instructions' = Instructions
  BY ProgramFacts DEF RetriesInv, LastInv, RetriesTypeOK, Instructions
<1>2. \A k : AwaitedBy(k)' = AwaitedBy(k) /\ AwaitedBy(k) \subseteq Nat
  BY <1>1 DEF AwaitedBy
<1> SUFFICES ASSUME NEW k \in Instructions, IsRetriable(k)
             PROVE  /\ (\A i \in AwaitedBy(k) : i > pc' \/ (i = pc' /\ frames' = <<>>)) =>
                         attemptNumber[k] = 0
                    /\ k < pc /\ (\A i, j \in AwaitedBy(k) : i = j) =>
                         /\ attemptNumber[k] <= Cardinality(Attempts(k))
                         /\ outcome[k] = "failed" /\ program[k].policy.retryTimeout = 0 =>
                              \/ subtasks'[childTask[k]].state = "nonRetriable"
                              \/ Cardinality(Attempts(k)) = program[k].policy.maxNumberOfAttempts
  BY <1>1, <1>2 DEF SpentInv, IsRetriable
<1>3. ASSUME \A i \in AwaitedBy(k) : i > pc' \/ (i = pc' /\ frames' = <<>>)
      PROVE  \A i \in AwaitedBy(k) : i > pc \/ (i = pc /\ frames = <<>>)
  BY <1>1, <1>2, <1>3
<1> QED BY <1>1, <1>3 DEF SpentInv

LEMMA ReturnsLast ==
  ASSUME RetriesInv, LastInv, CodeReturns \/ AttemptReturns \/ ResultReturns
  PROVE  LastInv'
<1>0. /\ RetriesTypeOK /\ FramesInv
      /\ AttemptsInv /\ NestingInv /\ KeptInv /\ DelayedInv /\ ObservedInv /\ SpentInv
  BY DEF RetriesInv, LastInv
<1>1. /\ frames # <<>> /\ FutureDone(Top)
      /\ UNCHANGED <<program, currentInstant, subtasks, childTask, outcome, attemptNumber>>
      /\ Instructions' = Instructions /\ Instructions = 1 .. Len(program)
      /\ Len(program) \in Nat
  BY <1>0, ProgramFacts DEF CodeReturns, AttemptReturns, ResultReturns, Resumable, Instructions
<1> DEFINE last == Len(frames)
<1>2. /\ last \in DOMAIN frames /\ Top = frames[last] /\ last \in Nat \ {0}
      /\ Front(frames) \in Seq(Frames) /\ Len(Front(frames)) = last - 1
      /\ \A n \in DOMAIN Front(frames) :
           n \in DOMAIN frames /\ n # last /\ Front(frames)[n] = frames[n]
      /\ pc \in Instructions /\ pc \in Nat /\ Instruction.call \in Awaits
  BY <1>0, <1>1, TopFacts
<1>3. /\ \/ /\ Top.at \in {"task", "allOf", "anyOf"} /\ frames' = <<>>
            /\ \E result : CodeGoesOn(result)
         \/ /\ Top.at = "attempt" /\ UNCHANGED <<pc, observed>>
            /\ frames' = Append(Front(frames), Waiting("result", Top.task))
         \/ /\ Top.at = "result" /\ frames' = Front(frames) /\ last = 1
            /\ CodeGoesOn(subtasks[Top.on].state)
         \/ /\ Top.at = "result" /\ frames' = Front(frames) /\ last > 1
            /\ UNCHANGED <<pc, observed>>
  BY DEF CodeReturns, AttemptReturns, ResultReturns, Resumable
<1>4. /\ pc' = pc \/ pc' = pc + 1
      /\ pc' # pc => frames' = <<>>
      /\ frames' = <<>> => pc' = pc + 1
      /\ \A n \in DOMAIN frames' :
           \/ n \in DOMAIN frames /\ n # last /\ frames'[n] = frames[n]
           \/ /\ n = last /\ Top.at = "attempt" /\ frames'[n] = Waiting("result", Top.task)
              /\ Len(frames') = last
      /\ \A n \in DOMAIN frames : n # last /\ pc' = pc => n \in DOMAIN frames' /\ frames'[n] = frames[n]
  <2>1. CASE frames' = <<>> /\ \E result : CodeGoesOn(result)
    BY <1>2, <2>1 DEF CodeGoesOn
  <2>2. CASE /\ frames' = Append(Front(frames), Waiting("result", Top.task))
             /\ Top.at = "attempt" /\ UNCHANGED <<pc, observed>>
    BY <1>1, <1>2, <2>2
  <2>3. CASE frames' = Front(frames) /\ last = 1 /\ CodeGoesOn(subtasks[Top.on].state)
    <3>1. frames' = <<>>
      BY <1>2, <2>3, EmptySeq
    <3> QED BY <1>2, <2>3, <3>1 DEF CodeGoesOn
  <2>4. CASE frames' = Front(frames) /\ last > 1 /\ UNCHANGED <<pc, observed>>
    BY <1>1, <1>2, <2>4
  <2> QED BY <1>3, <2>1, <2>2, <2>3, <2>4
<1>5. /\ AttemptsInv' /\ KeptInv' /\ \A k : Attempts(k)' = Attempts(k)
      /\ \A k \in Instructions : IsRetriable(k) => (k < pc <=> k < pc')
  BY <1>1, <1>2, <1>4, AttemptsUndisturbed
<1>6. NestingInv'
  <2> SUFFICES ASSUME NEW n \in DOMAIN frames'
               PROVE  /\ \/ /\ n = 1 /\ frames'[n].at \in {"allOf", "anyOf"}
                            /\ Instruction.call # "await"
                         \/ /\ n = 1 /\ frames'[n].at = "task"
                            /\ \A k \in Instruction.of : ~IsRetriable(k)
                         \/ /\ n = 1 /\ frames'[n].at \in {"attempt", "result"}
                            /\ Instruction.of = {frames'[n].task}
                         \/ n > 1 /\ frames'[n].at \in {"attempt", "result", "delay"}
                      /\ (/\ frames'[n].at = "attempt"
                          /\ subtasks[childTask[frames'[n].task]].state = "open") =>
                           \E m \in DOMAIN frames' :
                             /\ m >= n /\ frames'[m].at = "attempt"
                             /\ frames'[m].task = frames'[n].task
                             /\ frames'[m].on = childTask[frames'[n].task]
                      /\ frames'[n].at = "result" =>
                           /\ n = Len(frames') /\ frames'[n].on = childTask[frames'[n].task]
                           /\ subtasks[frames'[n].on].state # "open"
    <3>1. frames' # <<>> => Instruction' = Instruction
      BY <1>1, <1>4 DEF Instruction
    <3> QED BY <1>1, <3>1 DEF NestingInv, IsRetriable
  <2>1. pc' = pc
    BY <1>4
  <2>2. CASE n \in DOMAIN frames /\ n # last /\ frames'[n] = frames[n]
    <3>1. frames[n].at # "result"
      BY <1>0, <2>2 DEF NestingInv
    <3>2. ASSUME frames[n].at = "attempt", subtasks[childTask[frames[n].task]].state = "open"
          PROVE  \E m \in DOMAIN frames' :
                   /\ m >= n /\ frames'[m].at = "attempt" /\ frames'[m].task = frames[n].task
                   /\ frames'[m].on = childTask[frames[n].task]
      <4>1. PICK m \in DOMAIN frames :
              /\ m >= n /\ frames[m].at = "attempt" /\ frames[m].task = frames[n].task
              /\ frames[m].on = childTask[frames[n].task]
        BY <1>0, <2>2, <3>2 DEF NestingInv
      <4>2. m # last
        BY <1>1, <1>2, <3>2, <4>1 DEF FutureDone
      <4> QED BY <1>4, <2>1, <4>1, <4>2
    <3> QED BY <1>0, <2>2, <3>1, <3>2 DEF NestingInv
  <2>3. CASE /\ n = last /\ Top.at = "attempt" /\ frames'[n] = Waiting("result", Top.task)
             /\ Len(frames') = last
    <3>1. /\ frames'[n].at = "result" /\ frames'[n].task = Top.task
          /\ frames'[n].on = childTask[Top.task]
      BY <2>3 DEF Waiting
    <3>2. subtasks[childTask[Top.task]].state # "open"
      BY <1>1, <2>3, CurrentOver
    <3>3. (n = 1 /\ Instruction.of = {Top.task}) \/ n > 1
      BY <1>0, <1>2, <2>3 DEF NestingInv
    <3> QED BY <2>3, <3>1, <3>2, <3>3
  <2> QED BY <1>4, <2>2, <2>3
<1>7. DelayedInv'
  BY <1>1, <1>4, DelaysUndisturbed DEF Waiting
<1>8. ObservedInv'
  <2> SUFFICES ASSUME NEW i \in Instructions, observed'[i].result # "none"
               PROVE  /\ i < pc'
                      /\ program[i].call = "await" => \A k \in program[i].of : IsRetriable(k) =>
                           /\ observed'[i].result = subtasks[childTask[k]].state
                           /\ subtasks[childTask[k]].state # "open"
                           /\ \A n \in DOMAIN frames' : frames'[n].at = "delay" => frames'[n].task # k
    BY <1>1 DEF ObservedInv, IsRetriable
  <2>1. CASE observed'[i] = observed[i]
    <3>1. /\ i < pc
          /\ program[i].call = "await" => \A k \in program[i].of : IsRetriable(k) =>
               /\ observed[i].result = subtasks[childTask[k]].state
               /\ subtasks[childTask[k]].state # "open"
               /\ \A n \in DOMAIN frames : frames[n].at = "delay" => frames[n].task # k
      BY <1>0, <2>1 DEF ObservedInv
    <3>2. i < pc'
      BY <1>1, <1>2, <1>4, <3>1
    <3>3. \A n \in DOMAIN frames' :
            frames'[n].at = "delay" => n \in DOMAIN frames /\ frames'[n] = frames[n]
      BY <1>4 DEF Waiting
    <3> QED BY <2>1, <3>1, <3>2, <3>3
  <2>2. CASE observed'[i] # observed[i]
    <3>1. i = pc /\ pc' = pc + 1 /\ frames' = <<>> /\ \E result : CodeGoesOn(result)
      <4>1. observed' # observed
        BY <2>2
      <4>2. frames' = <<>> /\ \E result : CodeGoesOn(result)
        <5>1. CASE frames' = Front(frames) /\ last = 1 /\ CodeGoesOn(subtasks[Top.on].state)
          BY <1>2, <5>1, EmptySeq
        <5> QED BY <1>3, <4>1, <5>1
      <4>3. PICK result : CodeGoesOn(result)
        BY <4>2
      <4>4. observed' = [observed EXCEPT ![pc] = [result |-> result, at |-> currentInstant]]
        BY <4>3 DEF CodeGoesOn
      <4>5. i = pc
        BY <1>0, <2>2, <4>4 DEF RetriesTypeOK
      <4> QED BY <1>4, <4>2, <4>5
    <3>2. observed'[pc].result = subtasks[Top.on].state \/ Top.at \in {"task", "allOf", "anyOf"}
      BY <1>0, <1>2, <1>3, <3>1, <2>2 DEF CodeGoesOn, RetriesTypeOK
    <3>3. CASE Top.at = "task"
      BY <1>0, <1>2, <3>1, <3>3 DEF NestingInv, Instruction
    <3>4. CASE Top.at \in {"allOf", "anyOf"}
      BY <1>0, <1>2, <3>1, <3>4 DEF NestingInv, Instruction
    <3>5. CASE Top.at = "result" /\ last = 1 /\ observed'[pc].result = subtasks[Top.on].state
      <4>1. frames[1].at = "result" /\ Top = frames[1] /\ 1 \in DOMAIN frames
        BY <1>2, <3>5
      <4>2. /\ Instruction.of = {Top.task} /\ Top.on = childTask[Top.task]
            /\ subtasks[Top.on].state # "open"
        BY <1>0, <4>1 DEF NestingInv
      <4>3. \A k \in program[i].of : k = Top.task
        BY <3>1, <4>2 DEF Instruction
      <4>4. observed'[i].result = subtasks[childTask[Top.task]].state
        BY <3>1, <3>5, <4>2
      <4>5. i < pc' /\ DOMAIN frames' = {}
        BY <1>2, <3>1
      <4> QED BY <4>2, <4>3, <4>4, <4>5
    <3> QED BY <1>3, <2>2, <3>1, <3>2, <3>3, <3>4, <3>5
  <2> QED BY <2>1, <2>2
<1>9. SpentInv'
  BY <1>1, <1>4, <1>5, SpentUndisturbed
<1> QED BY <1>5, <1>6, <1>7, <1>8, <1>9 DEF LastInv

LEMMA CreateTaskLast ==
  ASSUME RetriesInv, LastInv, CreateTask
  PROVE  LastInv'
<1>0. /\ RetriesTypeOK /\ OwnersInv
      /\ AttemptsInv /\ NestingInv /\ KeptInv /\ DelayedInv /\ ObservedInv /\ SpentInv
  BY DEF RetriesInv, LastInv
<1> DEFINE new == IF Instruction.call = "timer"
                  THEN TimerUntil("timer", pc, currentInstant + Instruction.delay)
                  ELSE Attempt(pc)
<1>1. /\ subtasks' = Append(subtasks, new)
      /\ childTask' = [childTask EXCEPT ![pc] = NextId] /\ pc' = pc + 1 /\ frames = <<>>
      /\ UNCHANGED <<program, currentInstant, outcome, attemptNumber, frames, observed>>
      /\ Instruction.call \notin Awaits /\ Instruction = program[pc] /\ pc <= Len(program)
      /\ Instructions' = Instructions
  BY DEF CreateTask, Runs, Instruction, Instructions
<1>2. /\ pc \in Instructions /\ pc \in Nat /\ Instructions = 1 .. Len(program)
      /\ Len(program) \in Nat /\ Len(subtasks) \in Nat
      /\ Instruction.call = "timer" => Instruction.delay \in Nat
      /\ \A i \in Instructions : program[i].call \in Awaits => program[i].of \subseteq 1 .. i - 1
  <2>1. /\ pc \in Nat /\ pc >= 1 /\ Instructions = 1 .. Len(program)
        /\ Len(program) \in Nat /\ Len(subtasks) \in Nat
    BY <1>0, ProgramFacts DEF RetriesTypeOK
  <2>2. pc \in Instructions
    BY <1>1, <2>1
  <2>3. Instruction.call = "timer" => Instruction.delay \in Nat
    BY <1>0, <1>1, <2>2, ProgramFacts
  <2>4. \A i \in Instructions : program[i].call \in Awaits => program[i].of \subseteq 1 .. i - 1
    BY <1>0, ProgramFacts DEF Awaits
  <2> QED BY <2>1, <2>2, <2>3, <2>4
<1>3. /\ new.of = pc /\ new.state = "open" /\ new \in Subtasks
      /\ new.kind = "attempt" <=> Instruction.call # "timer"
      /\ new.ended = 0 /\ 0 <= currentInstant
  <2>1. Instruction.call = "timer" => currentInstant + Instruction.delay \in Nat
    BY <1>0, <1>2 DEF RetriesTypeOK
  <2>2. new.ended = 0 /\ 0 <= currentInstant
    BY <1>0 DEF TimerUntil, Attempt, Subtask, RetriesTypeOK
  <2> QED BY <1>0, <1>2, <2>1, <2>2, TimerType, AttemptType
<1> HIDE DEF new
<1>4. /\ DOMAIN subtasks' = DOMAIN subtasks \union {NextId} /\ NextId \notin DOMAIN subtasks
      /\ \A id \in DOMAIN subtasks : subtasks'[id] = subtasks[id]
      /\ subtasks'[NextId] = new /\ NextId \in Nat
  <2>1. subtasks \in Seq(Subtasks) /\ NextId = Len(subtasks) + 1 /\ NextId \in Nat
    BY <1>0, <1>2 DEF RetriesTypeOK, NextId
  <2>2. DOMAIN subtasks = 1 .. Len(subtasks) /\ DOMAIN subtasks' = 1 .. NextId
    BY <1>1, <1>2, <1>3, <2>1
  <2>3. /\ \A id \in 1 .. Len(subtasks) : subtasks'[id] = subtasks[id]
        /\ subtasks'[NextId] = new
    BY <1>1, <1>2, <1>3, <2>1
  <2> QED BY <1>2, <2>1, <2>2, <2>3
<1>5. /\ \A k \in Instructions : k # pc => childTask'[k] = childTask[k]
      /\ childTask'[pc] = NextId
  BY <1>0, <1>1, <1>2 DEF RetriesTypeOK
<1>6. /\ \A k : k # pc => Attempts(k)' = Attempts(k)
      /\ \A k : k = pc /\ program[k].call = "retriable" => Attempts(k)' = {NextId}
      /\ \A k : AwaitedBy(k)' = AwaitedBy(k)
  <2>1. \A id \in DOMAIN subtasks : subtasks[id].of # pc
    BY <1>0, <1>2, SubtaskFacts DEF OwnersInv
  <2>2. \A k : AwaitedBy(k)' = AwaitedBy(k)
    BY <1>1 DEF AwaitedBy
  <2>3. ASSUME NEW k, k # pc
        PROVE  Attempts(k)' = Attempts(k)
    BY <1>3, <1>4, <2>3 DEF Attempts
  <2>4. ASSUME NEW k, k = pc, program[k].call = "retriable"
        PROVE  Attempts(k)' = {NextId}
    BY <1>1, <1>3, <1>4, <2>1, <2>4 DEF Attempts
  <2> QED BY <2>2, <2>3, <2>4
<1>7. ASSUME NEW k \in Instructions, IsRetriable(k), k # pc
      PROVE  /\ k < pc' <=> k < pc
             /\ k < pc => /\ childTask'[k] = childTask[k]
                          /\ subtasks'[childTask[k]] = subtasks[childTask[k]]
  <2>1. k < pc' <=> k < pc
    BY <1>1, <1>2, <1>7
  <2>2. k < pc => childTask[k] \in DOMAIN subtasks
    BY <1>0, <1>7 DEF AttemptsInv, Attempts
  <2> QED BY <1>4, <1>5, <1>7, <2>1, <2>2
<1>8. AttemptsInv'
  <2> SUFFICES ASSUME NEW k \in Instructions, IsRetriable(k), k < pc'
               PROVE  /\ childTask'[k] \in Attempts(k)'
                      /\ \A id \in Attempts(k)' :
                           /\ id <= childTask'[k]
                           /\ id # childTask'[k] => subtasks'[id].state = "failed"
                      /\ outcome[k] # "open" =>
                           /\ subtasks'[childTask'[k]].state # "open"
                           /\ outcome[k] = "done" <=> subtasks'[childTask'[k]].state = "done"
    BY <1>1 DEF AttemptsInv, IsRetriable
  <2>1. CASE k = pc
    <3>1. outcome[k] = "open"
      BY <1>0, <1>2, <2>1 DEF OwnersInv
    <3> QED BY <1>4, <1>5, <1>6, <2>1, <3>1 DEF IsRetriable
  <2>2. CASE k # pc
    <3>1. \A id \in Attempts(k) : subtasks'[id] = subtasks[id]
      BY <1>4 DEF Attempts
    <3> QED BY <1>0, <1>6, <1>7, <2>2, <3>1 DEF AttemptsInv
  <2> QED BY <2>1, <2>2
<1>9. NestingInv'
  BY <1>1 DEF NestingInv
<1>10. KeptInv'
  <2> SUFFICES ASSUME NEW k \in Instructions, IsRetriable(k),
                      NEW a \in Attempts(k)', NEW b \in Attempts(k)', a < b,
                      \A c \in Attempts(k)' : c <= a \/ b <= c
               PROVE  subtasks'[b].created >= subtasks'[a].ended + Wait(k, Number(a, k)')
    BY <1>1 DEF KeptInv, IsRetriable, Wait, DelayAfter
  <2>1. k # pc
    BY <1>4, <1>6 DEF IsRetriable
  <2>2. Attempts(k)' = Attempts(k) /\ Number(a, k)' = Number(a, k)
    BY <1>6, <2>1 DEF Number
  <2>3. subtasks'[a] = subtasks[a] /\ subtasks'[b] = subtasks[b]
    BY <1>4, <2>2 DEF Attempts
  <2> QED BY <1>0, <2>2, <2>3 DEF KeptInv
<1>11. DelayedInv'
  <2>1. \A id \in DOMAIN subtasks' :
          /\ subtasks'[id].ended <= currentInstant
          /\ subtasks'[id].kind # "attempt" /\ subtasks'[id].state # "open" =>
               subtasks'[id].fireAt <= currentInstant
    BY <1>0, <1>3, <1>4 DEF DelayedInv
  <2> QED BY <1>1, <2>1 DEF DelayedInv
<1>12. ObservedInv'
  <2> SUFFICES ASSUME NEW i \in Instructions, observed[i].result # "none"
               PROVE  /\ i < pc'
                      /\ program[i].call = "await" => \A k \in program[i].of : IsRetriable(k) =>
                           /\ observed[i].result = subtasks'[childTask'[k]].state
                           /\ subtasks'[childTask'[k]].state # "open"
    <3>1. /\ program' = program /\ observed' = observed /\ Instructions' = Instructions
          /\ DOMAIN frames' = {}
      BY <1>1
    <3> QED BY <3>1 DEF ObservedInv, IsRetriable
  <2>1. i < pc
    BY <1>0 DEF ObservedInv
  <2>2. ASSUME program[i].call = "await", NEW k \in program[i].of, IsRetriable(k)
        PROVE  /\ childTask'[k] = childTask[k]
               /\ subtasks'[childTask[k]] = subtasks[childTask[k]]
    <3>1. k \in Instructions /\ k < pc
      BY <1>2, <2>1, <2>2 DEF Awaits
    <3> QED BY <1>2, <1>7, <2>2, <3>1
  <2>3. i < pc'
    BY <1>1, <1>2, <2>1
  <2> QED BY <1>0, <2>2, <2>3 DEF ObservedInv
<1>13. SpentInv'
  <2> SUFFICES ASSUME NEW k \in Instructions, IsRetriable(k)
               PROVE  /\ (\A i \in AwaitedBy(k) : i > pc' \/ (i = pc' /\ frames = <<>>)) =>
                           attemptNumber[k] = 0
                      /\ k < pc' /\ (\A i, j \in AwaitedBy(k) : i = j) =>
                           /\ attemptNumber[k] <= Cardinality(Attempts(k)')
                           /\ outcome[k] = "failed" /\ program[k].policy.retryTimeout = 0 =>
                                \/ subtasks'[childTask'[k]].state = "nonRetriable"
                                \/ Cardinality(Attempts(k)') =
                                     program[k].policy.maxNumberOfAttempts
    BY <1>1, <1>6 DEF SpentInv, IsRetriable
  <2>1. AwaitedBy(k) \subseteq Nat
    BY <1>2 DEF AwaitedBy
  <2>2. (\A i \in AwaitedBy(k) : i > pc' \/ (i = pc' /\ frames = <<>>)) => attemptNumber[k] = 0
    BY <1>0, <1>1, <1>2, <2>1 DEF SpentInv
  <2>3. CASE k = pc
    <3>1. \A i \in AwaitedBy(k) : i > pc
      BY <1>2, <2>3 DEF AwaitedBy
    <3>2. attemptNumber[k] = 0
      BY <1>0, <3>1 DEF SpentInv
    <3>3. outcome[k] = "open"
      BY <1>0, <1>2, <2>3 DEF OwnersInv
    <3>4. Cardinality(Attempts(k)') = 1
      BY <1>6, <2>3, FS_Singleton DEF IsRetriable
    <3> QED BY <2>2, <3>2, <3>3, <3>4
  <2>4. CASE k # pc
    BY <1>0, <1>6, <1>7, <2>2, <2>4 DEF SpentInv
  <2> QED BY <2>3, <2>4
<1> QED BY <1>8, <1>9, <1>10, <1>11, <1>12, <1>13 DEF LastInv

\* The number of an attempt that another follows does not change.
LEMMA NumberOfEarlier ==
  ASSUME NEW S, NEW id \in Nat, NEW a \in Nat, a < id
  PROVE  {c \in S \union {id} : c <= a} = {c \in S : c <= a}
OBVIOUS

LEMMA DelayReturnsLast ==
  ASSUME RetriesInv, LastInv, DelayReturns
  PROVE  LastInv'
<1> DEFINE k == Top.task
           last == Len(frames)
           frame == [at |-> "attempt", task |-> k, on |-> NextId, of |-> {}]
<1>0. /\ RetriesTypeOK /\ OwnersInv /\ FramesInv /\ DelaysInv
      /\ AttemptsInv /\ NestingInv /\ KeptInv /\ DelayedInv /\ ObservedInv /\ SpentInv
  BY DEF RetriesInv, LastInv
<1>1. /\ frames # <<>> /\ Top.at = "delay" /\ FutureDone(Top) /\ Instructions' = Instructions
      /\ UNCHANGED <<program, pc, currentInstant, outcome, observed>>
      /\ Instruction' = Instruction
  BY DEF DelayReturns, Resumable, Instructions, Instruction
<1>2. /\ last \in DOMAIN frames /\ Top = frames[last] /\ last \in Nat \ {0}
      /\ Front(frames) \in Seq(Frames) /\ Len(Front(frames)) = last - 1
      /\ \A n \in DOMAIN Front(frames) :
           n \in DOMAIN frames /\ n # last /\ Front(frames)[n] = frames[n]
      /\ k \in Instructions /\ k < pc /\ IsRetriable(k) /\ Top.on \in DOMAIN subtasks
      /\ DOMAIN frames = 1 .. last
  <2>1. frames \in Seq(Frames)
    BY <1>0 DEF RetriesTypeOK
  <2> QED BY <1>0, <1>1, <2>1, TopFacts DEF IsRetriable
<1>3. last > 1
  BY <1>0, <1>1, <1>2 DEF NestingInv
<1>4. \A n \in DOMAIN frames : n # last =>
        /\ n \in DOMAIN Front(frames) /\ frames[n].at # "result"
        /\ frames[n].at = "delay" => frames[n].task # k
  BY <1>0, <1>1, <1>2 DEF NestingInv, DelaysInv
<1>5. /\ outcome[k] = "open" /\ subtasks[childTask[k]].state = "failed"
      /\ DelayAwaited(Top, k)
  BY <1>0, <1>1, <1>2 DEF DelayedInv
<1>6. CASE frames' = Front(frames) /\ UNCHANGED <<subtasks, childTask, attemptNumber>>
  <2>1. /\ \A n \in DOMAIN frames' : n \in DOMAIN frames /\ n # last /\ frames'[n] = frames[n]
        /\ \A n \in DOMAIN frames : n # last => n \in DOMAIN frames' /\ frames'[n] = frames[n]
        /\ frames' # <<>>
    BY <1>2, <1>3, <1>4, <1>6
  <2>2. AttemptsInv' /\ KeptInv' /\ \A j : Attempts(j)' = Attempts(j)
    BY <1>1, <1>6, AttemptsUndisturbed
  <2>3. NestingInv'
    <3> SUFFICES ASSUME NEW n \in DOMAIN frames', frames[n].at = "attempt",
                        subtasks[childTask[frames[n].task]].state = "open"
                 PROVE  \E m \in DOMAIN frames' :
                          /\ m >= n /\ frames'[m].at = "attempt" /\ frames'[m].task = frames[n].task
                          /\ frames'[m].on = childTask[frames[n].task]
      BY <1>0, <1>1, <1>4, <1>6, <2>1 DEF NestingInv, IsRetriable
    <3>1. PICK m \in DOMAIN frames :
            /\ m >= n /\ frames[m].at = "attempt" /\ frames[m].task = frames[n].task
            /\ frames[m].on = childTask[frames[n].task]
      BY <1>0, <2>1 DEF NestingInv
    <3>2. m # last
      BY <1>1, <1>2, <3>1
    <3> QED BY <2>1, <3>1, <3>2
  <2>4. DelayedInv'
    BY <1>1, <1>6, <2>1, DelaysUndisturbed
  <2>5. ObservedInv'
    BY <1>0, <1>1, <1>6, <2>1 DEF ObservedInv, IsRetriable
  <2>6. SpentInv'
    BY <1>1, <1>6, <2>1, <2>2, SpentUndisturbed
  <2> QED BY <2>2, <2>3, <2>4, <2>5, <2>6 DEF LastInv
<1>7. CASE /\ attemptNumber[k] > 0
           /\ subtasks' = Append(subtasks, Attempt(k))
           /\ childTask' = [childTask EXCEPT ![k] = NextId]
           /\ attemptNumber' = Counted({k})
           /\ frames' = Append(Front(frames), frame)
  <2> DEFINE new == Attempt(k)
  <2>1. /\ new \in Subtasks /\ new.of = k /\ new.kind = "attempt" /\ new.state = "open"
        /\ new.created = currentInstant
    BY <1>0, <1>2, AttemptType
  <2> HIDE DEF new
  <2>2. /\ DOMAIN subtasks' = DOMAIN subtasks \union {NextId} /\ NextId \notin DOMAIN subtasks
        /\ \A id \in DOMAIN subtasks : subtasks'[id] = subtasks[id] /\ id < NextId
        /\ subtasks'[NextId] = new /\ NextId \in Nat /\ DOMAIN subtasks \subseteq Nat
    BY <1>0, <1>7, <2>1 DEF RetriesTypeOK, NextId, new
  <2>3. /\ \A j \in Instructions : j # k => childTask'[j] = childTask[j]
        /\ childTask'[k] = NextId
        /\ \A j \in Instructions : j # k => attemptNumber'[j] = attemptNumber[j]
        /\ attemptNumber'[k] = attemptNumber[k] + 1 /\ attemptNumber[k] \in Nat
    BY <1>0, <1>2, <1>7 DEF RetriesTypeOK, Counted, IsRetriable
  <2>4. frame.at = "attempt" /\ frame.task = k /\ frame.on = NextId
    OBVIOUS
  <2> HIDE DEF frame
  <2>5. /\ \A n \in DOMAIN frames' :
             \/ n \in DOMAIN frames /\ n # last /\ frames'[n] = frames[n]
             \/ n = last /\ frames'[n] = frame
        /\ \A n \in DOMAIN frames : n # last => n \in DOMAIN frames' /\ frames'[n] = frames[n]
        /\ last \in DOMAIN frames' /\ frames'[last] = frame /\ Len(frames') = last
        /\ frames' # <<>>
    BY <1>2, <1>3, <1>4, <1>7
  <2>6. ASSUME NEW j, j # k
        PROVE  Attempts(j)' = Attempts(j)
    BY <2>1, <2>2, <2>6 DEF Attempts
  <2>7. ASSUME NEW j, j = k
        PROVE  Attempts(j)' = Attempts(j) \union {NextId}
    BY <2>1, <2>2, <2>7 DEF Attempts
  <2>8. \A j : \A id \in Attempts(j) : subtasks'[id] = subtasks[id] /\ id < NextId /\ id \in Nat
    BY <2>2 DEF Attempts
  <2>9. ASSUME NEW j \in Instructions, IsRetriable(j), j < pc, j # k
        PROVE  /\ childTask'[j] = childTask[j]
               /\ subtasks'[childTask[j]] = subtasks[childTask[j]]
    BY <1>0, <2>3, <2>8, <2>9 DEF AttemptsInv
  <2>10. AttemptsInv'
    <3> SUFFICES ASSUME NEW j \in Instructions, IsRetriable(j), j < pc
                 PROVE  /\ childTask'[j] \in Attempts(j)'
                        /\ \A id \in Attempts(j)' :
                             /\ id <= childTask'[j]
                             /\ id # childTask'[j] => subtasks'[id].state = "failed"
                        /\ outcome[j] # "open" =>
                             /\ subtasks'[childTask'[j]].state # "open"
                             /\ outcome[j] = "done" <=> subtasks'[childTask'[j]].state = "done"
      BY <1>1 DEF AttemptsInv, IsRetriable
    <3>1. CASE j = k
      <4>1. \A id \in Attempts(j) : subtasks[id].state = "failed"
        BY <1>0, <1>5, <3>1 DEF AttemptsInv
      <4> QED BY <1>5, <2>2, <2>3, <2>7, <2>8, <3>1, <4>1
    <3>2. CASE j # k
      BY <1>0, <2>6, <2>8, <2>9, <3>2 DEF AttemptsInv
    <3> QED BY <3>1, <3>2
  <2>11. NestingInv'
    <3> SUFFICES ASSUME NEW n \in DOMAIN frames'
                 PROVE  /\ \/ /\ n = 1 /\ frames'[n].at \in {"allOf", "anyOf"}
                              /\ Instruction.call # "await"
                           \/ /\ n = 1 /\ frames'[n].at = "task"
                              /\ \A j \in Instruction.of : ~IsRetriable(j)
                           \/ /\ n = 1 /\ frames'[n].at \in {"attempt", "result"}
                              /\ Instruction.of = {frames'[n].task}
                           \/ n > 1 /\ frames'[n].at \in {"attempt", "result", "delay"}
                        /\ frames'[n].at = "attempt"
                           /\ subtasks'[childTask'[frames'[n].task]].state = "open" =>
                             \E m \in DOMAIN frames' :
                               /\ m >= n /\ frames'[m].at = "attempt"
                               /\ frames'[m].task = frames'[n].task
                               /\ frames'[m].on = childTask'[frames'[n].task]
                        /\ frames'[n].at # "result"
      BY <1>1 DEF NestingInv, IsRetriable
    <3>1. CASE n = last /\ frames'[n] = frame
      BY <1>2, <1>3, <2>3, <2>4, <3>1
    <3>2. CASE n \in DOMAIN frames /\ n # last /\ frames'[n] = frames[n]
      <4>1. ASSUME frames[n].at = "attempt",
                   subtasks'[childTask'[frames[n].task]].state = "open"
            PROVE  \E m \in DOMAIN frames' :
                     /\ m >= n /\ frames'[m].at = "attempt" /\ frames'[m].task = frames[n].task
                     /\ frames'[m].on = childTask'[frames[n].task]
        <5>1. CASE frames[n].task = k
          <6>1. n <= last
            BY <1>2, <3>2
          <6> QED BY <1>2, <2>3, <2>4, <2>5, <5>1, <6>1
        <5>2. CASE frames[n].task # k
          <6>1. /\ frames[n].task \in Instructions /\ frames[n].task < pc
                /\ IsRetriable(frames[n].task)
            BY <1>0, <3>2, <4>1 DEF FramesInv, IsRetriable
          <6>2. /\ childTask'[frames[n].task] = childTask[frames[n].task]
                /\ subtasks[childTask[frames[n].task]].state = "open"
            BY <2>9, <4>1, <5>2, <6>1
          <6>3. PICK m \in DOMAIN frames :
                  /\ m >= n /\ frames[m].at = "attempt" /\ frames[m].task = frames[n].task
                  /\ frames[m].on = childTask[frames[n].task]
            BY <1>0, <3>2, <4>1, <6>2 DEF NestingInv
          <6>4. m # last
            BY <1>1, <1>2, <6>3
          <6> QED BY <2>5, <6>2, <6>3, <6>4
        <5> QED BY <5>1, <5>2
      <4> QED BY <1>0, <1>4, <3>2, <4>1 DEF NestingInv
    <3> QED BY <2>5, <3>1, <3>2
  <2>12. KeptInv'
    <3> SUFFICES ASSUME NEW j \in Instructions, IsRetriable(j),
                        NEW a \in Attempts(j)', NEW b \in Attempts(j)', a < b,
                        \A c \in Attempts(j)' : c <= a \/ b <= c
                 PROVE  subtasks'[b].created >= subtasks'[a].ended + Wait(j, Number(a, j)')
      BY <1>1 DEF KeptInv, IsRetriable, Wait, DelayAfter
    <3>1. CASE j # k
      <4>1. Attempts(j)' = Attempts(j) /\ Number(a, j)' = Number(a, j)
        BY <2>6, <3>1 DEF Number
      <4> QED BY <1>0, <2>8, <4>1 DEF KeptInv
    <3>2. CASE j = k /\ b # NextId
      <4>1. a \in Attempts(j) /\ b \in Attempts(j) /\ a < NextId /\ a \in Nat
        BY <2>2, <2>7, <2>8, <3>2
      <4>2. Number(a, j)' = Number(a, j)
        <5>1. Attempts(j)' = Attempts(j) \union {NextId} /\ NextId \in Nat
          BY <2>2, <2>7, <3>2
        <5>2. {c \in Attempts(j)' : c <= a} = {c \in Attempts(j) : c <= a}
          BY <4>1, <5>1, NumberOfEarlier
        <5> QED BY <5>2 DEF Number
      <4> QED BY <1>0, <2>7, <2>8, <3>2, <4>1, <4>2 DEF KeptInv
    <3>3. CASE j = k /\ b = NextId
      <4>1. a \in Attempts(j) /\ a < NextId /\ a \in Nat
        BY <2>2, <2>7, <2>8, <3>3
      <4>2. a = childTask[k]
        <5>1. childTask[k] \in Attempts(k) /\ a <= childTask[k]
          BY <1>0, <1>2, <3>3, <4>1 DEF AttemptsInv
        <5>2. childTask[k] <= a
          <6>1. childTask[k] \in Attempts(j)' /\ childTask[k] < NextId /\ childTask[k] \in Nat
            BY <2>7, <2>8, <3>3, <5>1
          <6>2. childTask[k] <= a \/ NextId <= childTask[k]
            BY <3>3, <6>1
          <6> QED BY <2>2, <6>1, <6>2
        <5> QED BY <2>8, <4>1, <5>1, <5>2
      <4>3. Number(a, j)' = Cardinality(Attempts(k))
        <5>1. {c \in Attempts(j) \union {NextId} : c <= a} = Attempts(k)
          <6>1. \A c \in Attempts(j) : c <= a
            BY <1>0, <1>2, <3>3, <4>2 DEF AttemptsInv
          <6>2. ~(NextId <= a)
            BY <2>2, <4>1
          <6> QED BY <3>3, <6>1, <6>2
        <5> QED BY <2>7, <3>3, <5>1 DEF Number
      <4>4. \/ Wait(k, Cardinality(Attempts(k))) = 0
            \/ /\ currentInstant >= subtasks[Top.on].fireAt
               /\ subtasks[Top.on].fireAt
                    >= subtasks[childTask[k]].ended + Wait(k, Cardinality(Attempts(k)))
        BY <1>0, <1>1, <1>2, <1>5, <1>7 DEF FutureDone, DelayedInv, DelayAwaited
      <4>5. /\ subtasks[Top.on].fireAt \in Nat /\ currentInstant \in Nat
            /\ subtasks[childTask[k]].ended \in Nat
            /\ subtasks[childTask[k]].ended <= currentInstant
        BY <1>0, <1>2, CurrentFacts, SubtaskFacts DEF RetriesTypeOK, DelayedInv
      <4>6. Wait(k, Cardinality(Attempts(k))) \in Nat
        <5>1. /\ Cardinality(Attempts(k)) \in 1 .. program[k].policy.maxNumberOfAttempts
          <6>1. /\ Cardinality(Attempts(k)) \in Nat /\ Cardinality(Attempts(k)) >= 1
                /\ Cardinality(Attempts(k)) <= program[k].policy.maxNumberOfAttempts
            BY <1>0, <1>2, CurrentFacts
          <6>2. program[k].policy.maxNumberOfAttempts \in Nat
            BY <1>0, <1>2, ProgramFacts DEF Awaits, IsRetriable, Policies
          <6> QED BY <6>1, <6>2
        <5> QED BY <1>0, <1>2, <5>1, WaitType
      <4>7. subtasks'[b].created = currentInstant /\ subtasks'[a].ended = subtasks[a].ended
        BY <2>1, <2>2, <2>8, <3>3, <4>1
      <4>8. currentInstant >= subtasks[childTask[k]].ended + Wait(k, Cardinality(Attempts(k)))
        BY <4>4, <4>5, <4>6
      <4> QED BY <3>3, <4>2, <4>3, <4>7, <4>8
    <3> QED BY <3>1, <3>2, <3>3
  <2>13. DelayedInv'
    <3>1. ASSUME NEW n \in DOMAIN frames', frames'[n].at = "delay", NEW j, j = frames'[n].task
          PROVE  /\ outcome[j] = "open" /\ subtasks'[childTask'[j]].state = "failed"
                 /\ attemptNumber'[j] > 0 =>
                      \/ Wait(j, Cardinality(Attempts(j)')) = 0
                      \/ /\ subtasks'[frames'[n].on].kind = "delay"
                         /\ subtasks'[frames'[n].on].fireAt
                              >= subtasks'[childTask'[j]].ended + Wait(j, Cardinality(Attempts(j)'))
      <4>1. n \in DOMAIN frames /\ n # last /\ frames'[n] = frames[n] /\ frames[n].at = "delay"
        BY <2>4, <2>5, <3>1
      <4>2. /\ j \in Instructions /\ j < pc /\ IsRetriable(j) /\ frames[n].on \in DOMAIN subtasks
            /\ j # k
        BY <1>0, <1>4, <3>1, <4>1 DEF FramesInv, IsRetriable
      <4>3. /\ Attempts(j)' = Attempts(j) /\ childTask'[j] = childTask[j]
            /\ subtasks'[childTask[j]] = subtasks[childTask[j]]
            /\ subtasks'[frames[n].on] = subtasks[frames[n].on]
            /\ attemptNumber'[j] = attemptNumber[j]
        BY <2>2, <2>3, <2>6, <2>9, <4>2
      <4>4. /\ outcome[j] = "open" /\ subtasks[childTask[j]].state = "failed"
            /\ DelayAwaited(frames[n], j)
        BY <1>0, <3>1, <4>1 DEF DelayedInv
      <4> QED BY <4>1, <4>3, <4>4 DEF DelayAwaited
    <3>2. \A j, number : Wait(j, number)' = Wait(j, number)
      BY <1>1 DEF Wait, DelayAfter
    <3>3. \A id \in DOMAIN subtasks' :
            /\ subtasks'[id].ended <= currentInstant
            /\ subtasks'[id].kind # "attempt" /\ subtasks'[id].state # "open" =>
                 subtasks'[id].fireAt <= currentInstant
      <4>1. new.ended = 0 /\ 0 <= currentInstant
        BY <1>0 DEF new, Attempt, Subtask, RetriesTypeOK
      <4> QED BY <1>0, <2>1, <2>2, <4>1 DEF DelayedInv
    <3>4. \A j : Wait(j, Cardinality(Attempts(j)))' = Wait(j, Cardinality(Attempts(j)'))
      BY <3>2
    <3> QED BY <1>1, <3>1, <3>3, <3>4 DEF DelayedInv, DelayAwaited
  <2>14. ObservedInv'
    <3> SUFFICES ASSUME NEW i \in Instructions, observed[i].result # "none"
                 PROVE  /\ i < pc
                        /\ program[i].call = "await" => \A j \in program[i].of : IsRetriable(j) =>
                             /\ observed[i].result = subtasks'[childTask'[j]].state
                             /\ subtasks'[childTask'[j]].state # "open"
                             /\ \A n \in DOMAIN frames' :
                                  frames'[n].at = "delay" => frames'[n].task # j
      BY <1>1 DEF ObservedInv, IsRetriable
    <3>1. i < pc
      BY <1>0 DEF ObservedInv
    <3>2. ASSUME program[i].call = "await", NEW j \in program[i].of, IsRetriable(j)
          PROVE  /\ observed[i].result = subtasks'[childTask'[j]].state
                 /\ subtasks'[childTask'[j]].state # "open"
                 /\ \A n \in DOMAIN frames' : frames'[n].at = "delay" => frames'[n].task # j
      <4>1. /\ observed[i].result = subtasks[childTask[j]].state
            /\ subtasks[childTask[j]].state # "open"
            /\ \A n \in DOMAIN frames : frames[n].at = "delay" => frames[n].task # j
        BY <1>0, <3>2 DEF ObservedInv
      <4>2. j # k
        BY <1>1, <1>2, <4>1
      <4>3. j \in Instructions /\ j < pc
        <5>1. program[i].of \subseteq 1 .. i - 1
          BY <1>0, <3>2, ProgramFacts DEF Awaits
        <5>2. Instructions = 1 .. Len(program) /\ Len(program) \in Nat /\ pc \in Nat
          BY <1>0, ProgramFacts DEF RetriesTypeOK
        <5> QED BY <3>1, <3>2, <5>1, <5>2
      <4> QED BY <2>4, <2>5, <2>9, <3>2, <4>1, <4>2, <4>3
    <3> QED BY <3>1, <3>2
  <2>15. SpentInv'
    <3> SUFFICES ASSUME NEW j \in Instructions, IsRetriable(j)
                 PROVE  /\ (\A i \in AwaitedBy(j) : i > pc) => attemptNumber'[j] = 0
                        /\ j < pc /\ (\A i, l \in AwaitedBy(j) : i = l) =>
                             /\ attemptNumber'[j] <= Cardinality(Attempts(j)')
                             /\ outcome[j] = "failed" /\ program[j].policy.retryTimeout = 0 =>
                                  \/ subtasks'[childTask'[j]].state = "nonRetriable"
                                  \/ Cardinality(Attempts(j)') =
                                       program[j].policy.maxNumberOfAttempts
      <4>1. \A j : AwaitedBy(j)' = AwaitedBy(j)
        BY <1>1 DEF AwaitedBy
      <4> QED BY <1>1, <2>5, <4>1 DEF SpentInv, IsRetriable
    <3>1. CASE j # k
      BY <1>0, <2>3, <2>6, <2>9, <3>1 DEF SpentInv
    <3>2. CASE j = k
      <4>1. ~(\A i \in AwaitedBy(j) : i > pc)
        BY <1>0, <1>7, <3>2 DEF SpentInv
      <4>2. Cardinality(Attempts(j)') = Cardinality(Attempts(j)) + 1
            /\ Cardinality(Attempts(j)) \in Nat
        <5>1. Attempts(j) \subseteq 1 .. Len(subtasks) /\ Len(subtasks) \in Nat
          BY <1>0, AttemptsFinite DEF RetriesTypeOK
        <5>2. NextId \notin Attempts(j)
          BY <2>2 DEF Attempts
        <5> QED BY <2>7, <3>2, <5>1, <5>2, OneMore
      <4> QED BY <1>0, <1>2, <1>5, <2>3, <3>2, <4>1, <4>2 DEF SpentInv
    <3> QED BY <3>1, <3>2
  <2> QED BY <2>10, <2>11, <2>12, <2>13, <2>14, <2>15 DEF LastInv
<1> QED BY <1>6, <1>7 DEF DelayReturns

\* A turn begins, or a timer fires.
LEMMA EventUndisturbed ==
  ASSUME RetriesInv, LastInv,
         UNCHANGED <<program, pc, childTask, attemptNumber, frames, observed>>,
         currentInstant' \in Nat,
         DOMAIN subtasks \subseteq DOMAIN subtasks',
         \A id \in DOMAIN subtasks :
           /\ subtasks'[id].of = subtasks[id].of /\ subtasks'[id].kind = subtasks[id].kind
           /\ subtasks'[id].fireAt = subtasks[id].fireAt
           /\ subtasks[id].kind = "attempt" =>
                /\ subtasks'[id].state = subtasks[id].state
                /\ subtasks'[id].ended = subtasks[id].ended
                /\ subtasks'[id].created = subtasks[id].created,
         \A id \in DOMAIN subtasks' : id \in DOMAIN subtasks \/ subtasks'[id].kind # "attempt",
         \A id \in DOMAIN subtasks' :
           /\ subtasks'[id].ended <= currentInstant'
           /\ subtasks'[id].kind # "attempt" /\ subtasks'[id].state # "open" =>
                subtasks'[id].fireAt <= currentInstant',
         \A k \in Instructions : IsRetriable(k) => outcome'[k] = outcome[k]
  PROVE  LastInv'
<1>0. /\ RetriesTypeOK /\ FramesInv
      /\ AttemptsInv /\ NestingInv /\ KeptInv /\ DelayedInv /\ ObservedInv /\ SpentInv
  BY DEF RetriesInv, LastInv
<1>1. /\ AttemptsInv' /\ KeptInv' /\ Instructions' = Instructions
      /\ \A k : Attempts(k)' = Attempts(k)
      /\ \A k \in Instructions : IsRetriable(k) => (k < pc <=> k < pc')
      /\ \A k \in Instructions : IsRetriable(k) /\ k < pc =>
           /\ subtasks'[childTask[k]].state = subtasks[childTask[k]].state
           /\ subtasks'[childTask[k]].ended = subtasks[childTask[k]].ended
  BY AttemptsUndisturbed
<1>2. \A n \in DOMAIN frames : frames[n].at \notin {"task", "allOf", "anyOf"} =>
        /\ frames[n].task \in Instructions /\ frames[n].task < pc /\ IsRetriable(frames[n].task)
        /\ frames[n].on \in DOMAIN subtasks
  BY <1>0 DEF FramesInv, IsRetriable
<1>3. NestingInv'
  <2>1. Instruction' = Instruction
    BY DEF Instruction
  <2>2. \A n \in DOMAIN frames : frames[n].at \in {"attempt", "result"} =>
          subtasks'[childTask[frames[n].task]].state = subtasks[childTask[frames[n].task]].state
    BY <1>1, <1>2
  <2> QED BY <1>0, <2>1, <2>2 DEF NestingInv, IsRetriable
<1>4. DelayedInv'
  <2>1. ASSUME NEW n \in DOMAIN frames, frames[n].at = "delay", NEW k, k = frames[n].task
        PROVE  /\ outcome'[k] = "open" /\ subtasks'[childTask[k]].state = "failed"
               /\ attemptNumber[k] > 0 =>
                    \/ Wait(k, Cardinality(Attempts(k))) = 0
                    \/ /\ subtasks'[frames[n].on].kind = "delay"
                       /\ subtasks'[frames[n].on].fireAt
                            >= subtasks'[childTask[k]].ended + Wait(k, Cardinality(Attempts(k)))
    BY <1>0, <1>1, <1>2, <2>1 DEF DelayedInv, DelayAwaited
  <2>2. \A k : Wait(k, Cardinality(Attempts(k)))' = Wait(k, Cardinality(Attempts(k)))
    BY <1>1 DEF Wait, DelayAfter
  <2> QED BY <1>1, <2>1, <2>2 DEF DelayedInv, DelayAwaited
<1>5. ObservedInv'
  <2> SUFFICES ASSUME NEW i \in Instructions, observed[i].result # "none"
               PROVE  /\ i < pc
                      /\ program[i].call = "await" => \A k \in program[i].of : IsRetriable(k) =>
                           /\ observed[i].result = subtasks'[childTask[k]].state
                           /\ subtasks'[childTask[k]].state # "open"
                           /\ \A n \in DOMAIN frames : frames[n].at = "delay" => frames[n].task # k
    BY <1>1 DEF ObservedInv, IsRetriable
  <2>1. i < pc
    BY <1>0 DEF ObservedInv
  <2>2. ASSUME program[i].call = "await", NEW k \in program[i].of, IsRetriable(k)
        PROVE  k \in Instructions /\ k < pc
    <3>1. program[i].of \subseteq 1 .. i - 1
      BY <1>0, <2>2, ProgramFacts DEF Awaits
    <3>2. Instructions = 1 .. Len(program) /\ Len(program) \in Nat /\ pc \in Nat
      BY <1>0, ProgramFacts DEF RetriesTypeOK
    <3> QED BY <2>1, <2>2, <3>1, <3>2
  <2> QED BY <1>0, <1>1, <2>1, <2>2 DEF ObservedInv
<1>6. SpentInv'
  BY <1>1, SpentUndisturbed
<1> QED BY <1>1, <1>3, <1>4, <1>5, <1>6 DEF LastInv

LEMMA WorkflowStartedLast ==
  ASSUME RetriesInv, LastInv, WorkflowStarted
  PROVE  LastInv'
<1>0. RetriesTypeOK /\ DelayedInv
  BY DEF RetriesInv, LastInv
<1>1. /\ UNCHANGED <<program, pc, childTask, outcome, attemptNumber, frames, observed>>
      /\ subtasks' = [id \in DOMAIN subtasks |-> [subtasks[id] EXCEPT !.asked = TRUE]]
  BY DEF WorkflowStarted
<1>2. currentInstant' \in Nat /\ currentInstant' >= currentInstant /\ currentInstant \in Nat
  <2>1. PICK t \in {currentInstant} \union
                  {subtasks[id].fireAt + late : id \in DOMAIN subtasks, late \in 0 .. MaxLate} :
          t >= currentInstant /\ currentInstant' = t
    BY DEF WorkflowStarted
  <2>2. \A id \in DOMAIN subtasks, late \in 0 .. MaxLate : subtasks[id].fireAt + late \in Nat
    BY <1>0, SubtaskFacts, ProgramFacts
  <2> QED BY <1>0, <2>1, <2>2 DEF RetriesTypeOK
<1>3. /\ DOMAIN subtasks' = DOMAIN subtasks
      /\ \A id \in DOMAIN subtasks :
           /\ subtasks'[id].of = subtasks[id].of /\ subtasks'[id].kind = subtasks[id].kind
           /\ subtasks'[id].fireAt = subtasks[id].fireAt
           /\ subtasks'[id].state = subtasks[id].state
           /\ subtasks'[id].ended = subtasks[id].ended
           /\ subtasks'[id].created = subtasks[id].created
           /\ subtasks[id].fireAt \in Nat /\ subtasks[id].ended \in Nat
  <2>1. \A id \in DOMAIN subtasks : subtasks[id] \in Subtasks
    BY <1>0, SubtaskFacts
  <2> QED BY <1>1, <2>1 DEF Subtasks
<1>4. \A id \in DOMAIN subtasks' :
        /\ subtasks'[id].ended <= currentInstant'
        /\ subtasks'[id].kind # "attempt" /\ subtasks'[id].state # "open" =>
             subtasks'[id].fireAt <= currentInstant'
  BY <1>0, <1>2, <1>3 DEF DelayedInv
<1> QED BY <1>1, <1>2, <1>3, <1>4, EventUndisturbed

LEMMA TimerFiredLast ==
  ASSUME RetriesInv, LastInv, NEW id \in DOMAIN subtasks, TimerFired(id)
  PROVE  LastInv'
<1> DEFINE timer == subtasks[id]
           new == TimerUntil(timer.kind, timer.of, timer.finalFireAt)
<1>0. RetriesTypeOK /\ OwnersInv /\ DelayedInv
  BY DEF RetriesInv, LastInv
<1>1. /\ timer.kind \in {"timer", "delay"} /\ timer.fireAt <= currentInstant
      /\ timer.of \in Instructions /\ timer.finalFireAt \in Nat /\ currentInstant \in Nat
      /\ UNCHANGED <<program, pc, currentInstant, childTask, attemptNumber, frames, observed>>
      /\ subtasks' = Ended(id, "done") \/ subtasks' = Append(Ended(id, "done"), new)
  <2>1. /\ timer.kind # "attempt" /\ timer.fireAt <= currentInstant
        /\ UNCHANGED <<program, pc, currentInstant, childTask, attemptNumber, frames, observed>>
        /\ subtasks' = Ended(id, "done") \/ subtasks' = Append(Ended(id, "done"), new)
    BY DEF TimerFired
  <2>2. /\ timer.kind \in {"attempt", "timer", "delay"} /\ timer.of \in Instructions
        /\ timer.finalFireAt \in Nat /\ currentInstant \in Nat
    BY <1>0, SubtaskFacts DEF RetriesTypeOK
  <2> QED BY <2>1, <2>2
<1>2. /\ new.kind # "attempt" /\ new.state = "open" /\ new \in Subtasks /\ new.ended = 0
  BY <1>0, <1>1, TimerType DEF TimerUntil, Subtask
<1> HIDE DEF new
<1>3. /\ Ended(id, "done") \in Seq(Subtasks) /\ Len(Ended(id, "done")) = Len(subtasks)
      /\ DOMAIN Ended(id, "done") = DOMAIN subtasks
      /\ \A j \in DOMAIN subtasks :
           /\ Ended(id, "done")[j].of = subtasks[j].of
           /\ Ended(id, "done")[j].kind = subtasks[j].kind
           /\ Ended(id, "done")[j].fireAt = subtasks[j].fireAt
           /\ j # id => /\ Ended(id, "done")[j].state = subtasks[j].state
                        /\ Ended(id, "done")[j].ended = subtasks[j].ended
           /\ j = id => Ended(id, "done")[j].ended = currentInstant
           /\ Ended(id, "done")[j].created = subtasks[j].created
  <2>1. subtasks \in Seq(Subtasks) /\ "done" \in States
    BY <1>0 DEF RetriesTypeOK, States
  <2>2. Ended(id, "done") \in Seq(Subtasks) /\ Len(Ended(id, "done")) = Len(subtasks)
    BY <1>0, <2>1, EndedType
  <2>3. DOMAIN Ended(id, "done") = DOMAIN subtasks
    BY <2>1, <2>2
  <2> QED BY <1>0, <2>1, <2>2, <2>3, EndedType
<1>4. /\ DOMAIN subtasks \subseteq DOMAIN subtasks'
      /\ \A j \in DOMAIN subtasks : subtasks'[j] = Ended(id, "done")[j]
      /\ \A j \in DOMAIN subtasks' : j \in DOMAIN subtasks \/ subtasks'[j] = new
  BY <1>1, <1>2, <1>3
<1>5. \A j \in DOMAIN subtasks' :
        /\ subtasks'[j].ended <= currentInstant
        /\ subtasks'[j].kind # "attempt" /\ subtasks'[j].state # "open" =>
             subtasks'[j].fireAt <= currentInstant
  <2>1. ASSUME NEW j \in DOMAIN subtasks
        PROVE  /\ subtasks[j].ended <= currentInstant
               /\ subtasks[j].kind # "attempt" /\ subtasks[j].state # "open" =>
                    subtasks[j].fireAt <= currentInstant
    BY <1>0 DEF DelayedInv
  <2>2. ASSUME NEW j \in DOMAIN subtasks
        PROVE  /\ subtasks'[j].ended <= currentInstant
               /\ subtasks'[j].kind # "attempt" /\ subtasks'[j].state # "open" =>
                    subtasks'[j].fireAt <= currentInstant
    <3>1. CASE j = id
      BY <1>1, <1>3, <1>4, <3>1
    <3>2. CASE j # id
      BY <1>3, <1>4, <2>1, <3>2
    <3> QED BY <3>1, <3>2
  <2>3. 0 <= currentInstant
    BY <1>1
  <2> QED BY <1>2, <1>4, <2>2, <2>3
<1>6. \A k \in Instructions : IsRetriable(k) => outcome'[k] = outcome[k]
  <2>1. timer.kind = "timer" => ~IsRetriable(timer.of)
    BY <1>0 DEF OwnersInv, IsRetriable
  <2>2. \/ timer.kind = "timer" /\ Done(timer.of, "done")
        \/ outcome' = outcome
    BY DEF TimerFired
  <2> QED BY <1>0, <1>1, <2>1, <2>2, OutcomeFacts
<1>7. \A j \in DOMAIN subtasks :
        /\ subtasks'[j].of = subtasks[j].of /\ subtasks'[j].kind = subtasks[j].kind
        /\ subtasks'[j].fireAt = subtasks[j].fireAt
        /\ subtasks[j].kind = "attempt" =>
             /\ subtasks'[j].state = subtasks[j].state
             /\ subtasks'[j].ended = subtasks[j].ended
             /\ subtasks'[j].created = subtasks[j].created
  BY <1>1, <1>3, <1>4
<1>8. \A j \in DOMAIN subtasks' : j \in DOMAIN subtasks \/ subtasks'[j].kind # "attempt"
  BY <1>2, <1>4
<1> HIDE DEF timer
<1> QED BY <1>1, <1>4, <1>5, <1>6, <1>7, <1>8, EventUndisturbed

\* The current attempt of a task ends: the last one, or a handler is in the delay before the next.
LEMMA EndLast ==
  ASSUME RetriesInv, LastInv, Blocked, NEW id \in DOMAIN subtasks, NEW k, k = subtasks[id].of,
         subtasks[id].state = "open", subtasks[id].kind = "attempt",
         NEW state \in States \ {"open"},
         UNCHANGED <<program, pc, currentInstant, childTask, attemptNumber, observed>>,
         DOMAIN subtasks \subseteq DOMAIN subtasks',
         \A j \in DOMAIN subtasks :
           /\ subtasks'[j].of = subtasks[j].of /\ subtasks'[j].kind = subtasks[j].kind
           /\ subtasks'[j].created = subtasks[j].created
           /\ subtasks'[j].fireAt = subtasks[j].fireAt
           /\ subtasks'[j].state = IF j = id THEN state ELSE subtasks[j].state
           /\ subtasks'[j].ended = IF j = id THEN currentInstant ELSE subtasks[j].ended,
         \A j \in DOMAIN subtasks' :
           \/ j \in DOMAIN subtasks
           \/ /\ subtasks'[j].kind # "attempt" /\ subtasks'[j].state = "open"
              /\ subtasks'[j].ended = 0,
         \A j \in Instructions : j # k => outcome'[j] = outcome[j],
         IsRetriable(k) => (outcome'[k] # "open" => (outcome'[k] = "done" <=> state = "done")),
         IsRetriable(k) /\ outcome'[k] = "failed" /\ program[k].policy.retryTimeout = 0 =>
           state = "nonRetriable" \/ ~AttemptsLeft(k),
         \/ frames' = frames
         \/ /\ IsRetriable(k) /\ state = "failed" /\ outcome'[k] = outcome[k]
            /\ \E frame \in Frames :
                 /\ frames' = Append(frames, frame) /\ frame.at = "delay" /\ frame.task = k
                 /\ attemptNumber[k] > 0 =>
                      \/ Wait(k, Cardinality(Attempts(k))) = 0
                      \/ /\ subtasks'[frame.on].kind = "delay"
                         /\ subtasks'[frame.on].fireAt
                              >= currentInstant + Wait(k, Cardinality(Attempts(k)))
  PROVE  LastInv'
<1>0. /\ RetriesTypeOK /\ OwnersInv /\ FramesInv /\ DelaysInv
      /\ AttemptsInv /\ NestingInv /\ KeptInv /\ DelayedInv /\ ObservedInv /\ SpentInv
  BY DEF RetriesInv, LastInv
<1>1. /\ Instructions' = Instructions /\ Instruction' = Instruction /\ frames # <<>>
      /\ ~FutureDone(Top) /\ frames' # <<>>
  <2>1. frames \in Seq(Frames) /\ frames # <<>> /\ ~FutureDone(Top)
    BY <1>0 DEF Blocked, RetriesTypeOK
  <2>2. frames' # <<>>
    BY <2>1
  <2> QED BY <2>1, <2>2 DEF Instructions, Instruction
<1>2. /\ frames \in Seq(Frames) /\ Len(frames) \in Nat \ {0} /\ DOMAIN frames = 1 .. Len(frames)
      /\ Top = frames[Len(frames)] /\ Len(frames) \in DOMAIN frames
  <2>1. frames \in Seq(Frames)
    BY <1>0 DEF RetriesTypeOK
  <2> QED BY <1>0, <1>1, <2>1, TopFacts
<1>3. k \in Instructions /\ k < pc /\ pc \in Nat
  BY <1>0, SubtaskFacts DEF OwnersInv, RetriesTypeOK
<1>4. IsRetriable(k) =>
        /\ childTask[k] = id /\ outcome[k] = "open"
        /\ \A n \in DOMAIN frames : frames[n].at = "delay" => frames[n].task # k
  <2>1. IsRetriable(k) => childTask[k] = id
    BY <1>0, <1>3, CurrentFacts
  <2> QED BY <1>0, <1>3, <2>1 DEF AttemptsInv, DelaysInv
<1>5. /\ \A n \in DOMAIN frames : n \in DOMAIN frames' /\ frames'[n] = frames[n]
      /\ \A n \in DOMAIN frames' :
           \/ n \in DOMAIN frames /\ frames'[n] = frames[n]
           \/ /\ n > 1 /\ frames'[n].at = "delay" /\ frames'[n].task = k
              /\ IsRetriable(k) /\ state = "failed" /\ outcome'[k] = outcome[k]
              /\ attemptNumber[k] > 0 =>
                   \/ Wait(k, Cardinality(Attempts(k))) = 0
                   \/ /\ subtasks'[frames'[n].on].kind = "delay"
                      /\ subtasks'[frames'[n].on].fireAt
                           >= currentInstant + Wait(k, Cardinality(Attempts(k)))
  <2>1. ASSUME NEW frame \in Frames, frames' = Append(frames, frame)
        PROVE  /\ \A n \in DOMAIN frames : n \in DOMAIN frames' /\ frames'[n] = frames[n]
               /\ \A n \in DOMAIN frames' :
                    \/ n \in DOMAIN frames /\ frames'[n] = frames[n]
                    \/ n > 1 /\ frames'[n] = frame
    <3>1. /\ \A n \in DOMAIN frames : n \in DOMAIN frames' /\ frames'[n] = frames[n]
          /\ \A n \in DOMAIN frames' : \/ n \in DOMAIN frames /\ frames'[n] = frames[n]
                                       \/ n = Len(frames) + 1 /\ frames'[n] = frame
      <4>1. frames \in Seq(Frames)
        BY <1>2
      <4> QED BY <2>1, <4>1
    <3> QED BY <1>2, <3>1
  <2> QED BY <2>1
<1>6. \A j : Attempts(j)' = Attempts(j)
  BY DEF Attempts
<1>7. ASSUME NEW j \in Instructions, IsRetriable(j), j < pc, j # k
      PROVE  /\ subtasks'[childTask[j]].state = subtasks[childTask[j]].state
             /\ subtasks'[childTask[j]].ended = subtasks[childTask[j]].ended
             /\ outcome'[j] = outcome[j]
  BY <1>0, <1>7, CurrentFacts
<1>8. \A n \in DOMAIN frames : frames[n].at \notin {"task", "allOf", "anyOf"} =>
        /\ frames[n].task \in Instructions /\ frames[n].task < pc /\ IsRetriable(frames[n].task)
        /\ frames[n].on \in DOMAIN subtasks
  BY <1>0 DEF FramesInv, IsRetriable
<1>9. AttemptsInv'
  <2> SUFFICES ASSUME NEW j \in Instructions, IsRetriable(j), j < pc
               PROVE  /\ childTask[j] \in Attempts(j)
                      /\ \A a \in Attempts(j) :
                           /\ a <= childTask[j]
                           /\ a # childTask[j] => subtasks'[a].state = "failed"
                      /\ outcome'[j] # "open" =>
                           /\ subtasks'[childTask[j]].state # "open"
                           /\ outcome'[j] = "done" <=> subtasks'[childTask[j]].state = "done"
    BY <1>1, <1>6 DEF AttemptsInv, IsRetriable
  <2>1. CASE j # k
    <3>1. \A a \in Attempts(j) : subtasks'[a].state = subtasks[a].state
      BY <2>1 DEF Attempts
    <3> QED BY <1>0, <1>7, <2>1, <3>1 DEF AttemptsInv
  <2>2. CASE j = k
    <3>1. \A a \in Attempts(j) : a # id => subtasks'[a].state = subtasks[a].state
      BY DEF Attempts
    <3>2. subtasks'[childTask[j]].state = state
      BY <1>4, <2>2
    <3> QED BY <1>0, <1>4, <2>2, <3>1, <3>2 DEF AttemptsInv
  <2> QED BY <2>1, <2>2
<1>10. NestingInv'
  <2> SUFFICES ASSUME NEW n \in DOMAIN frames'
               PROVE  /\ \/ /\ n = 1 /\ frames'[n].at \in {"allOf", "anyOf"}
                            /\ Instruction.call # "await"
                         \/ /\ n = 1 /\ frames'[n].at = "task"
                            /\ \A j \in Instruction.of : ~IsRetriable(j)
                         \/ /\ n = 1 /\ frames'[n].at \in {"attempt", "result"}
                            /\ Instruction.of = {frames'[n].task}
                         \/ n > 1 /\ frames'[n].at \in {"attempt", "result", "delay"}
                      /\ (/\ frames'[n].at = "attempt"
                          /\ subtasks'[childTask[frames'[n].task]].state = "open") =>
                           \E m \in DOMAIN frames' :
                             /\ m >= n /\ frames'[m].at = "attempt"
                             /\ frames'[m].task = frames'[n].task
                             /\ frames'[m].on = childTask[frames'[n].task]
                      /\ frames'[n].at # "result"
    BY <1>1 DEF NestingInv, IsRetriable
  <2>1. CASE n \in DOMAIN frames /\ frames'[n] = frames[n]
    <3>1. frames[n].at # "result"
      BY <1>0, <1>1, <1>2, <2>1 DEF NestingInv, FutureDone
    <3>2. ASSUME frames[n].at = "attempt", subtasks'[childTask[frames[n].task]].state = "open"
          PROVE  \E m \in DOMAIN frames' :
                   /\ m >= n /\ frames'[m].at = "attempt" /\ frames'[m].task = frames[n].task
                   /\ frames'[m].on = childTask[frames[n].task]
      <4>1. frames[n].task # k
        BY <1>4, <1>8, <2>1, <3>2
      <4>2. subtasks[childTask[frames[n].task]].state = "open"
        BY <1>7, <1>8, <2>1, <3>2, <4>1
      <4> QED BY <1>0, <1>5, <2>1, <3>2, <4>2 DEF NestingInv
    <3> QED BY <1>0, <2>1, <3>1, <3>2 DEF NestingInv
  <2>2. CASE n > 1 /\ frames'[n].at = "delay"
    BY <2>2
  <2> QED BY <1>5, <2>1, <2>2
<1>11. KeptInv'
  <2> SUFFICES ASSUME NEW j \in Instructions, IsRetriable(j),
                      NEW a \in Attempts(j), NEW b \in Attempts(j), a < b,
                      \A c \in Attempts(j) : c <= a \/ b <= c
               PROVE  subtasks'[b].created >= subtasks'[a].ended + Wait(j, Number(a, j))
    BY <1>1, <1>6 DEF KeptInv, IsRetriable, Number, Wait, DelayAfter
  <2>1. a # id
    <3>1. SUFFICES ASSUME a = id
                   PROVE  FALSE
      OBVIOUS
    <3>2. j = k
      BY <3>1 DEF Attempts
    <3>3. b <= id /\ id \in Nat /\ b \in Nat
      BY <1>0, <1>3, <1>4, <3>2 DEF AttemptsInv, Attempts, RetriesTypeOK
    <3> QED BY <3>1, <3>3
  <2>2. /\ subtasks'[a].ended = subtasks[a].ended
        /\ subtasks'[b].created = subtasks[b].created
    BY <2>1 DEF Attempts
  <2> QED BY <1>0, <2>2 DEF KeptInv
<1>12. DelayedInv'
  <2>1. ASSUME NEW n \in DOMAIN frames', frames'[n].at = "delay", NEW j, j = frames'[n].task
        PROVE  /\ outcome'[j] = "open" /\ subtasks'[childTask[j]].state = "failed"
               /\ attemptNumber[j] > 0 =>
                    \/ Wait(j, Cardinality(Attempts(j))) = 0
                    \/ /\ subtasks'[frames'[n].on].kind = "delay"
                       /\ subtasks'[frames'[n].on].fireAt
                            >= subtasks'[childTask[j]].ended + Wait(j, Cardinality(Attempts(j)))
    <3>1. CASE n \in DOMAIN frames /\ frames'[n] = frames[n]
      <4>1. j \in Instructions /\ j < pc /\ IsRetriable(j) /\ frames[n].on \in DOMAIN subtasks
        BY <1>8, <2>1, <3>1
      <4>2. j # k
        BY <1>4, <2>1, <3>1, <4>1
      <4>3. /\ outcome[j] = "open" /\ subtasks[childTask[j]].state = "failed"
            /\ DelayAwaited(frames[n], j)
        BY <1>0, <2>1, <3>1 DEF DelayedInv
      <4> QED BY <1>7, <3>1, <4>1, <4>2, <4>3 DEF DelayAwaited
    <3>2. CASE ~(n \in DOMAIN frames /\ frames'[n] = frames[n])
      <4>1. /\ j = k /\ IsRetriable(k) /\ state = "failed" /\ outcome'[k] = outcome[k]
            /\ attemptNumber[k] > 0 =>
                 \/ Wait(k, Cardinality(Attempts(k))) = 0
                 \/ /\ subtasks'[frames'[n].on].kind = "delay"
                    /\ subtasks'[frames'[n].on].fireAt
                         >= currentInstant + Wait(k, Cardinality(Attempts(k)))
        BY <1>5, <2>1, <3>2
      <4>2. subtasks'[childTask[k]].ended = currentInstant /\ subtasks'[childTask[k]].state = state
        BY <1>4, <4>1
      <4> QED BY <1>4, <4>1, <4>2
    <3> QED BY <3>1, <3>2
  <2>2. \A j : Wait(j, Cardinality(Attempts(j)))' = Wait(j, Cardinality(Attempts(j)))
    BY <1>6 DEF Wait, DelayAfter
  <2>3. \A j \in DOMAIN subtasks' :
          /\ subtasks'[j].ended <= currentInstant
          /\ subtasks'[j].kind # "attempt" /\ subtasks'[j].state # "open" =>
               subtasks'[j].fireAt <= currentInstant
    <3>1. 0 <= currentInstant /\ currentInstant <= currentInstant
      BY <1>0 DEF RetriesTypeOK
    <3> QED BY <1>0, <3>1 DEF DelayedInv
  <2> QED BY <1>6, <2>1, <2>2, <2>3 DEF DelayedInv, DelayAwaited
<1>13. ObservedInv'
  <2> SUFFICES ASSUME NEW i \in Instructions, observed[i].result # "none"
               PROVE  /\ i < pc
                      /\ program[i].call = "await" => \A j \in program[i].of : IsRetriable(j) =>
                           /\ observed[i].result = subtasks'[childTask[j]].state
                           /\ subtasks'[childTask[j]].state # "open"
                           /\ \A n \in DOMAIN frames' :
                                frames'[n].at = "delay" => frames'[n].task # j
    BY <1>1 DEF ObservedInv, IsRetriable
  <2>1. i < pc
    BY <1>0 DEF ObservedInv
  <2>2. ASSUME program[i].call = "await", NEW j \in program[i].of, IsRetriable(j)
        PROVE  /\ observed[i].result = subtasks'[childTask[j]].state
               /\ subtasks'[childTask[j]].state # "open"
               /\ \A n \in DOMAIN frames' : frames'[n].at = "delay" => frames'[n].task # j
    <3>1. /\ observed[i].result = subtasks[childTask[j]].state
          /\ subtasks[childTask[j]].state # "open"
          /\ \A n \in DOMAIN frames : frames[n].at = "delay" => frames[n].task # j
      BY <1>0, <2>2 DEF ObservedInv
    <3>2. j # k
      BY <1>4, <2>2, <3>1
    <3>3. j \in Instructions /\ j < pc
      <4>1. program[i].of \subseteq 1 .. i - 1
        BY <1>0, <2>2, ProgramFacts DEF Awaits
      <4>2. Instructions = 1 .. Len(program) /\ Len(program) \in Nat
        BY <1>0, ProgramFacts
      <4> QED BY <1>3, <2>1, <2>2, <4>1, <4>2
    <3> QED BY <1>5, <1>7, <2>2, <3>1, <3>2, <3>3
  <2> QED BY <2>1, <2>2
<1>14. SpentInv'
  <2> SUFFICES ASSUME NEW j \in Instructions, IsRetriable(j)
               PROVE  /\ (\A i \in AwaitedBy(j) : i > pc) => attemptNumber[j] = 0
                      /\ j < pc /\ (\A i, l \in AwaitedBy(j) : i = l) =>
                           /\ attemptNumber[j] <= Cardinality(Attempts(j))
                           /\ outcome'[j] = "failed" /\ program[j].policy.retryTimeout = 0 =>
                                \/ subtasks'[childTask[j]].state = "nonRetriable"
                                \/ Cardinality(Attempts(j)) = program[j].policy.maxNumberOfAttempts
    <3>1. \A j : AwaitedBy(j)' = AwaitedBy(j)
      BY <1>1 DEF AwaitedBy
    <3> QED BY <1>1, <1>6, <3>1 DEF SpentInv, IsRetriable
  <2>1. CASE j # k
    BY <1>0, <1>7, <2>1 DEF SpentInv
  <2>2. CASE j = k
    <3>1. (\A i \in AwaitedBy(j) : i > pc) => attemptNumber[j] = 0
      BY <1>0 DEF SpentInv
    <3>2. (\A i, l \in AwaitedBy(j) : i = l) => attemptNumber[j] <= Cardinality(Attempts(j))
      BY <1>0, <1>3, <2>2 DEF SpentInv
    <3>3. /\ Cardinality(Attempts(j)) \in Nat
          /\ Cardinality(Attempts(j)) <= program[j].policy.maxNumberOfAttempts
          /\ program[j].policy.maxNumberOfAttempts \in Nat /\ attemptNumber[j] \in Nat
      <4>1. program[j].policy.maxNumberOfAttempts \in Nat
        BY <1>0, ProgramFacts DEF Awaits, IsRetriable, Policies
      <4> QED BY <1>0, <1>3, <2>2, <4>1, CurrentFacts DEF RetriesTypeOK
    <3>4. subtasks'[childTask[j]].state = state
      BY <1>4, <2>2
    <3>5. outcome'[j] = "failed" /\ program[j].policy.retryTimeout = 0 =>
            state = "nonRetriable" \/ attemptNumber[j] >= program[j].policy.maxNumberOfAttempts
      BY <2>2, <3>3 DEF AttemptsLeft
    <3> QED BY <3>1, <3>2, <3>3, <3>4, <3>5
  <2> QED BY <2>1, <2>2
<1> QED BY <1>9, <1>10, <1>11, <1>12, <1>13, <1>14 DEF LastInv

LEMMA AttemptEndsLast ==
  ASSUME RetriesInv, LastInv, NEW id \in DOMAIN subtasks, AttemptEnds(id)
  PROVE  LastInv'
<1> DEFINE k == subtasks[id].of
<1>0. RetriesTypeOK /\ OwnersInv /\ AttemptsInv
  BY DEF RetriesInv, LastInv
<1>1. /\ Blocked /\ subtasks[id].state = "open" /\ subtasks[id].kind = "attempt"
      /\ UNCHANGED <<program, pc, currentInstant, childTask, attemptNumber, observed>>
  BY DEF AttemptEnds, TaskCompleted, TaskCompletedUnreadable, TaskFailed, Answered
<1>2. /\ k \in Instructions /\ k < pc /\ outcome \in [Instructions -> {"open", "done", "failed"}]
      /\ subtasks \in Seq(Subtasks) /\ DOMAIN subtasks = 1 .. Len(subtasks)
      /\ Len(subtasks) \in Nat
  BY <1>0, SubtaskFacts DEF OwnersInv, RetriesTypeOK
<1>3. IsRetriable(k) => outcome[k] = "open"
  <2>1. IsRetriable(k) => childTask[k] = id
    <3>1. RetriesInv /\ AttemptsInv
      BY <1>0
    <3> QED BY <1>1, <1>2, <3>1, CurrentFacts
  <2> QED BY <1>0, <1>1, <1>2, <2>1 DEF AttemptsInv
<1>4. ASSUME NEW state \in States \ {"open"}
      PROVE  /\ Ended(id, state) \in Seq(Subtasks) /\ Len(Ended(id, state)) = Len(subtasks)
             /\ DOMAIN Ended(id, state) = DOMAIN subtasks
             /\ \A j \in DOMAIN subtasks :
                  /\ Ended(id, state)[j].of = subtasks[j].of
                  /\ Ended(id, state)[j].kind = subtasks[j].kind
                  /\ Ended(id, state)[j].created = subtasks[j].created
                  /\ Ended(id, state)[j].fireAt = subtasks[j].fireAt
                  /\ Ended(id, state)[j].state = IF j = id THEN state ELSE subtasks[j].state
                  /\ Ended(id, state)[j].ended =
                       IF j = id THEN currentInstant ELSE subtasks[j].ended
  <2>1. Ended(id, state) \in Seq(Subtasks) /\ Len(Ended(id, state)) = Len(subtasks)
    BY <1>0, EndedType
  <2>2. DOMAIN Ended(id, state) = DOMAIN subtasks
    BY <1>2, <2>1
  <2> QED BY <1>0, <2>1, <2>2, EndedType
<1>5. ASSUME NEW state \in States \ {"open"}, subtasks' = Ended(id, state), frames' = frames,
             \/ outcome' = outcome /\ IsRetriable(k)
             \/ Done(k, "done") /\ state = "done"
             \/ /\ Done(k, "failed") /\ (IsRetriable(k) => state # "done")
                /\ IsRetriable(k) /\ program[k].policy.retryTimeout = 0 =>
                     state = "nonRetriable" \/ ~AttemptsLeft(k)
      PROVE  LastInv'
  <2>1. \A j \in Instructions : j # k => outcome'[j] = outcome[j]
    BY <1>0, <1>2, <1>5, OutcomeFacts
  <2>2. Done(k, "done") => outcome'[k] = "done"
    BY <1>2 DEF Done
  <2>3. Done(k, "failed") => outcome'[k] = "failed"
    BY <1>2 DEF Done
  <2>4. /\ IsRetriable(k) => (outcome'[k] # "open" => (outcome'[k] = "done" <=> state = "done"))
        /\ IsRetriable(k) /\ outcome'[k] = "failed" /\ program[k].policy.retryTimeout = 0 =>
             state = "nonRetriable" \/ ~AttemptsLeft(k)
    BY <1>3, <1>5, <2>2, <2>3
  <2> HIDE DEF k
  <2>5. k = subtasks[id].of
    BY DEF k
  <2>6. /\ DOMAIN subtasks \subseteq DOMAIN subtasks'
        /\ \A j \in DOMAIN subtasks' : j \in DOMAIN subtasks
    BY <1>4, <1>5
  <2>7. \A j \in DOMAIN subtasks :
          /\ subtasks'[j].of = subtasks[j].of /\ subtasks'[j].kind = subtasks[j].kind
          /\ subtasks'[j].created = subtasks[j].created
          /\ subtasks'[j].fireAt = subtasks[j].fireAt
          /\ subtasks'[j].state = IF j = id THEN state ELSE subtasks[j].state
          /\ subtasks'[j].ended = IF j = id THEN currentInstant ELSE subtasks[j].ended
    BY <1>4, <1>5
  <2> QED BY <1>1, <1>5, <2>1, <2>4, <2>5, <2>6, <2>7, EndLast
<1>6. CASE TaskCompleted(id)
  BY <1>1, <1>5, <1>6 DEF TaskCompleted, States
<1>7. CASE TaskCompletedUnreadable(id)
  BY <1>1, <1>5, <1>7 DEF TaskCompletedUnreadable, States, IsRetriable
<1>8. CASE TaskFailed(id)
  <2>1. PICK nonRetriable \in BOOLEAN :
          \/ program[k].call = "retriable" /\ AttemptsLeft(k) /\ TryRetry(id, k)
          \/ /\ subtasks' = Ended(id, IF nonRetriable THEN "nonRetriable" ELSE "failed")
             /\ Done(k, "failed") /\ frames' = frames
             /\ ~(~nonRetriable /\ program[k].call = "retriable" /\ AttemptsLeft(k) /\ InTime(k))
    BY <1>8 DEF TaskFailed
  <2>2. CASE /\ subtasks' = Ended(id, IF nonRetriable THEN "nonRetriable" ELSE "failed")
             /\ Done(k, "failed") /\ frames' = frames
             /\ ~(~nonRetriable /\ program[k].call = "retriable" /\ AttemptsLeft(k) /\ InTime(k))
    <3> DEFINE state == IF nonRetriable THEN "nonRetriable" ELSE "failed"
    <3>1. state \in States \ {"open"} /\ state # "done" /\ (nonRetriable => state = "nonRetriable")
      BY DEF States
    <3>2. program[k].policy.retryTimeout = 0 => InTime(k)
      BY DEF InTime
    <3>3. IsRetriable(k) /\ program[k].policy.retryTimeout = 0 =>
            state = "nonRetriable" \/ ~AttemptsLeft(k)
      BY <2>2, <3>1, <3>2 DEF IsRetriable
    <3> QED BY <1>5, <2>2, <3>1, <3>3
  <2>3. CASE /\ program[k].call = "retriable" /\ AttemptsLeft(k) /\ TryRetry(id, k)
             /\ subtasks' = Ended(id, "failed") /\ frames' = frames
    BY <1>5, <2>3 DEF TryRetry, States, IsRetriable
  <2> DEFINE number == Cardinality(Attempts(k))
  <2>4. CASE /\ program[k].call = "retriable" /\ AttemptsLeft(k) /\ TryRetry(id, k)
             /\ ~NoNextDelay(k) /\ frames' # frames
    <3>1. /\ GetNextDelay(k) \in Nat /\ currentInstant \in Nat
          /\ currentInstant + GetNextDelay(k) \in Nat
      <4>1. GetNextDelay(k) \in Nat /\ currentInstant \in Nat
        BY <1>0, <1>2, <2>4, DelayType DEF RetriesTypeOK
      <4> QED BY <4>1
    <3>2. attemptNumber[k] > 0 =>
            DelayAfter(k, number) \in Nat /\ DelayAfter(k, number) <= GetNextDelay(k)
      <4>1. attemptNumber[k] > 0 => number \in 0 .. attemptNumber[k]
        <5>1. number \in Nat
          <6>1. RetriesInv /\ AttemptsInv
            BY <1>0
          <6> QED BY <1>2, <2>4, <6>1, CurrentFacts DEF IsRetriable
        <5>2. number <= 1 \/ number <= attemptNumber[k]
          BY <1>2, <2>4 DEF RetriesInv, CountsInv
        <5>3. attemptNumber[k] \in Nat
          BY <1>0, <1>2 DEF RetriesTypeOK
        <5> QED BY <5>1, <5>2, <5>3
      <4> HIDE DEF number
      <4> QED BY <1>0, <1>2, <2>4, <4>1, DelaysGrow DEF IsRetriable
    <3>3. MaximumTimerInterval \in Nat
      BY RetriesAssumption
    <3>4. /\ IsRetriable(k) /\ outcome'[k] = "open" /\ outcome' = outcome
          /\ "failed" \in States \ {"open"}
      BY <1>3, <2>4 DEF IsRetriable, States, TryRetry
    <3>5. CASE /\ GetNextDelay(k) = 0
               /\ subtasks' = Ended(id, "failed") /\ frames' = Append(frames, InDelay(k, id))
      <4> DEFINE frame == InDelay(k, id)
      <4>1. /\ frame \in Frames /\ frame.at = "delay" /\ frame.task = k
        <5>1. k \in Nat /\ id \in Nat
          BY <1>0, <1>2, ProgramFacts
        <5> QED BY <5>1 DEF Frames, InDelay
      <4>2. attemptNumber[k] > 0 => Wait(k, number) = 0
        <5> HIDE DEF number
        <5> QED BY <3>1, <3>2, <3>3, <3>5 DEF Wait, Lesser
      <4>3. /\ DOMAIN subtasks \subseteq DOMAIN subtasks' /\ DOMAIN subtasks' \subseteq DOMAIN subtasks
            /\ \A j \in DOMAIN subtasks :
                 /\ subtasks'[j].of = subtasks[j].of /\ subtasks'[j].kind = subtasks[j].kind
                 /\ subtasks'[j].created = subtasks[j].created
                 /\ subtasks'[j].fireAt = subtasks[j].fireAt
                 /\ subtasks'[j].state = IF j = id THEN "failed" ELSE subtasks[j].state
                 /\ subtasks'[j].ended = IF j = id THEN currentInstant ELSE subtasks[j].ended
        BY <1>4, <3>4, <3>5
      <4>4. \E f \in Frames :
              /\ frames' = Append(frames, f) /\ f.at = "delay" /\ f.task = k
              /\ attemptNumber[k] > 0 => Wait(k, Cardinality(Attempts(k))) = 0
        BY <3>5, <4>1, <4>2
      <4>5. \A j \in DOMAIN subtasks' : j \in DOMAIN subtasks
        BY <4>3
      <4>6. \A j \in Instructions : outcome'[j] = outcome[j]
        BY <3>4
      <4> HIDE DEF k, frame, number
      <4>7. k = subtasks[id].of
        BY DEF k
      <4> QED BY <1>1, <3>4, <4>3, <4>4, <4>5, <4>6, <4>7, EndLast
    <3>6. CASE /\ subtasks' = Append(Ended(id, "failed"),
                                     TimerUntil("delay", k, currentInstant + GetNextDelay(k)))
               /\ frames' = Append(frames, InDelay(k, NextId))
      <4> DEFINE new == TimerUntil("delay", k, currentInstant + GetNextDelay(k))
                 frame == InDelay(k, NextId)
      <4>1. /\ new \in Subtasks /\ new.kind = "delay" /\ new.state = "open" /\ new.ended = 0
            /\ new.fireAt = IF currentInstant + GetNextDelay(k) - currentInstant > MaximumTimerInterval
                            THEN currentInstant + MaximumTimerInterval
                            ELSE currentInstant + GetNextDelay(k)
        BY <1>0, <1>2, <3>1, TimerType DEF TimerUntil, Subtask
      <4>2. attemptNumber[k] > 0 => new.fireAt >= currentInstant + Wait(k, number)
        <5> HIDE DEF new, number
        <5> QED BY <3>1, <3>2, <3>3, <4>1 DEF Wait, Lesser
      <4>3. frame \in Frames /\ frame.at = "delay" /\ frame.task = k /\ frame.on = NextId
        <5>1. k \in Nat /\ NextId \in Nat
          BY <1>0, <1>2, ProgramFacts DEF NextId
        <5> QED BY <5>1 DEF Frames, InDelay
      <4> HIDE DEF new, frame
      <4>4. subtasks' = Append(Ended(id, "failed"), new) /\ frames' = Append(frames, frame)
        BY <3>6 DEF new, frame
      <4>5. /\ DOMAIN subtasks \subseteq DOMAIN subtasks'
            /\ \A j \in DOMAIN subtasks : subtasks'[j] = Ended(id, "failed")[j]
            /\ \A j \in DOMAIN subtasks' : j \in DOMAIN subtasks \/ subtasks'[j] = new
            /\ subtasks'[NextId] = new
        <5> DEFINE ended == Ended(id, "failed")
        <5>1. /\ ended \in Seq(Subtasks) /\ Len(ended) = Len(subtasks)
              /\ DOMAIN ended = DOMAIN subtasks
          BY <1>4, <3>4
        <5>2. subtasks' = Append(ended, new)
          BY <4>4
        <5> HIDE DEF ended
        <5>3. /\ DOMAIN subtasks \subseteq DOMAIN subtasks'
              /\ \A j \in DOMAIN subtasks : subtasks'[j] = ended[j]
              /\ \A j \in DOMAIN subtasks' : j \in DOMAIN subtasks \/ subtasks'[j] = new
              /\ subtasks'[NextId] = new
          BY <1>2, <4>1, <5>1, <5>2 DEF NextId
        <5> QED BY <5>3 DEF ended
      <4>6. \A j \in DOMAIN subtasks :
              /\ subtasks'[j].of = subtasks[j].of /\ subtasks'[j].kind = subtasks[j].kind
              /\ subtasks'[j].created = subtasks[j].created
              /\ subtasks'[j].fireAt = subtasks[j].fireAt
              /\ subtasks'[j].state = IF j = id THEN "failed" ELSE subtasks[j].state
              /\ subtasks'[j].ended = IF j = id THEN currentInstant ELSE subtasks[j].ended
        BY <1>4, <3>4, <4>5
      <4>7. \A j \in DOMAIN subtasks' :
              \/ j \in DOMAIN subtasks
              \/ /\ subtasks'[j].kind # "attempt" /\ subtasks'[j].state = "open"
                 /\ subtasks'[j].ended = 0
        BY <4>1, <4>5
      <4>8. \E f \in Frames :
              /\ frames' = Append(frames, f) /\ f.at = "delay" /\ f.task = k
              /\ attemptNumber[k] > 0 =>
                   /\ subtasks'[f.on].kind = "delay"
                   /\ subtasks'[f.on].fireAt >= currentInstant + Wait(k, Cardinality(Attempts(k)))
        BY <4>1, <4>2, <4>3, <4>4, <4>5
      <4>9. \A j \in Instructions : outcome'[j] = outcome[j]
        BY <3>4
      <4> HIDE DEF k, number
      <4>10. k = subtasks[id].of
        BY DEF k
      <4> QED BY <1>1, <3>4, <4>5, <4>6, <4>7, <4>8, <4>9, <4>10, EndLast
    <3> QED BY <2>4, <3>5, <3>6 DEF TryRetry
  <2> QED BY <2>1, <2>2, <2>3, <2>4 DEF TryRetry
<1> QED BY <1>6, <1>7, <1>8 DEF AttemptEnds

LEMMA LastInit ==
  ASSUME Init, RetriesInv
  PROVE  LastInv
<1>1. /\ pc = 1 /\ DOMAIN subtasks = {} /\ DOMAIN frames = {} /\ Instructions = 1 .. Len(program)
      /\ Len(program) \in Nat
      /\ \A k \in Instructions :
           outcome[k] = "open" /\ attemptNumber[k] = 0 /\ observed[k].result = "none"
  BY ProgramFacts DEF RetriesInv, Init
<1>2. \A k \in Instructions : ~(k < pc)
  BY <1>1
<1>3. \A k : Attempts(k) = {}
  BY <1>1 DEF Attempts
<1>4. AttemptsInv /\ NestingInv /\ DelayedInv /\ ObservedInv
  BY <1>1, <1>2 DEF AttemptsInv, NestingInv, DelayedInv, ObservedInv
<1>5. KeptInv
  BY <1>3 DEF KeptInv
<1>6. SpentInv
  BY <1>1, <1>2 DEF SpentInv
<1> QED BY <1>4, <1>5, <1>6 DEF LastInv

LEMMA LastStep ==
  ASSUME RetriesInv, LastInv, [Next]_vars
  PROVE  LastInv'
<1>1. CASE CodeStep
  BY <1>1, CreateTaskLast, AwaitLast, ReturnsLast, DelayReturnsLast DEF CodeStep
<1>2. CASE WorkflowStarted
  BY <1>2, WorkflowStartedLast
<1>3. ASSUME NEW id \in DOMAIN subtasks, AttemptEnds(id) \/ TimerFired(id)
      PROVE  LastInv'
  BY <1>3, AttemptEndsLast, TimerFiredLast
<1>4. CASE UNCHANGED vars
  <2>1. UNCHANGED <<program, pc, currentInstant, subtasks, childTask, outcome, attemptNumber,
                    frames, observed>>
    BY <1>4 DEF vars
  <2>2. currentInstant' \in Nat
    BY <2>1 DEF RetriesInv, RetriesTypeOK
  <2>3. \A id \in DOMAIN subtasks' :
          /\ subtasks'[id].ended <= currentInstant'
          /\ subtasks'[id].kind # "attempt" /\ subtasks'[id].state # "open" =>
               subtasks'[id].fireAt <= currentInstant'
    BY <2>1 DEF LastInv, DelayedInv
  <2> QED BY <2>1, <2>2, <2>3, EventUndisturbed
<1> QED BY <1>1, <1>2, <1>3, <1>4 DEF Next, Rest

\* What is known of the last attempts is an invariant too.
THEOREM LastInvariant == Spec => [](RetriesInv /\ LastInv)
<1>1. Init => RetriesInv /\ LastInv
  BY RetriesInit, LastInit
<1>2. (RetriesInv /\ LastInv) /\ [Next]_vars => (RetriesInv /\ LastInv)'
  BY RetriesStep, LastStep
<1> QED BY <1>1, <1>2, PTL DEF Spec

\* TaskOrchestrationExecutor.RetriableTask.getNextDelay: whatever the policy, coefficients with a
\* fraction and products that overflow included, between two attempts there is the delay computed
\* for the number of attempts made, or the longest interval of a timer if that is shorter, although
\* the task may count more attempts than it makes.
THEOREM DelaysAreObserved == Spec => []DelaysAreKept
<1>1. RetriesInv /\ LastInv => DelaysAreKept
  <2> SUFFICES ASSUME RetriesInv, AttemptsInv, KeptInv, NEW k \in Instructions, IsRetriable(k),
                      NEW a \in Attempts(k), NEW b \in Attempts(k), a < b,
                      \A c \in Attempts(k) : c <= a \/ b <= c
               PROVE  /\ subtasks[a].state = "failed"
                      /\ subtasks[b].created >= subtasks[a].ended + Wait(k, Number(a, k))
    BY DEF DelaysAreKept, LastInv, Wait, Number, DelayAfter
  <2>1. k < pc /\ a \in Nat /\ b \in Nat /\ childTask[k] \in Nat
    <3>1. RetriesTypeOK /\ OwnersInv
      BY DEF RetriesInv
    <3>2. a \in DOMAIN subtasks /\ subtasks[a].of = k /\ b \in DOMAIN subtasks
      BY DEF Attempts
    <3>3. DOMAIN subtasks = 1 .. Len(subtasks) /\ Len(subtasks) \in Nat
      BY <3>1 DEF RetriesTypeOK
    <3>4. childTask[k] \in Nat
      BY <3>1, <3>3 DEF RetriesTypeOK
    <3> QED BY <3>1, <3>2, <3>3, <3>4 DEF OwnersInv
  <2>2. b <= childTask[k]
    BY <2>1 DEF AttemptsInv
  <2>3. subtasks[a].state = "failed"
    BY <2>1, <2>2 DEF AttemptsInv
  <2> QED BY <2>3 DEF KeptInv
<1> QED BY <1>1, LastInvariant, PTL

\* TaskOrchestrationExecutor.RetriableTask.shouldRetry: a task that is awaited before anything else,
\* and once, fails only when its attempts are spent, or one of them said that retries are of no use.
THEOREM NoAttemptIsLost == Spec => []FailsWhenSpent
<1>1. RetriesInv /\ LastInv => FailsWhenSpent
  <2> SUFFICES ASSUME RetriesInv, LastInv, NEW k \in Instructions, IsRetriable(k),
                      outcome[k] = "failed", AwaitedFirst(k), program[k].policy.retryTimeout = 0
               PROVE  \/ subtasks[childTask[k]].state = "nonRetriable"
                      \/ Cardinality(Attempts(k)) = program[k].policy.maxNumberOfAttempts
    BY DEF FailsWhenSpent
  <2>1. k < pc
    <3>1. k \in Nat /\ pc \in Nat
      <4>1. RetriesTypeOK
        BY DEF RetriesInv
      <4>2. Instructions \subseteq Nat
        BY <4>1, ProgramFacts
      <4> QED BY <4>1, <4>2 DEF RetriesTypeOK
    <3> QED BY <3>1 DEF RetriesInv, OwnersInv
  <2>2. PICK first \in Instructions :
          \A j \in Instructions \ {first} :
            program[j].call \in Awaits => j < k \/ (j > first /\ k \notin program[j].of)
    BY DEF AwaitedFirst
  <2>3. \A j \in Instructions : program[j].call \in Awaits /\ k \in program[j].of => k < j
    <3>1. /\ \A j \in Instructions : program[j].call \in Awaits => program[j].of \subseteq 1 .. j - 1
          /\ Instructions \subseteq Nat
      BY ProgramFacts DEF RetriesInv, Awaits
    <3> QED BY <3>1
  <2>4. \A i \in AwaitedBy(k) : i = first
    <3>1. Instructions \subseteq Nat
      BY ProgramFacts DEF RetriesInv
    <3> QED BY <2>2, <2>3, <3>1 DEF AwaitedBy
  <2> QED BY <2>1, <2>4 DEF LastInv, SpentInv
<1> QED BY <1>1, LastInvariant, PTL

\* TaskOrchestrationExecutor.RetriableTask.await: however awaits nest, and in whatever order the
\* attempts end, the code gets what the last attempt came to, and the task's own future says the same.
THEOREM CodeGetsTheLastAttempt == Spec => []LastAttemptCounts
<1>1. RetriesInv /\ LastInv => LastAttemptCounts
  <2> SUFFICES ASSUME RetriesInv, LastInv
               PROVE  LastAttemptCounts
    OBVIOUS
  <2>1. \A i \in Instructions :
          observed[i].result # "none" /\ program[i].call = "await" =>
            \A k \in program[i].of :
              IsRetriable(k) => observed[i].result = subtasks[childTask[k]].state
    BY DEF LastInv, ObservedInv
  <2>2. ASSUME NEW k \in Instructions, IsRetriable(k), outcome[k] # "open"
        PROVE  /\ outcome[k] = "done" <=> subtasks[childTask[k]].state = "done"
               /\ \A id \in Attempts(k) : id <= childTask[k] /\ subtasks[id].state # "open"
    <3>1. k \in Nat /\ pc \in Nat
      <4>1. RetriesTypeOK
        BY DEF RetriesInv
      <4>2. Instructions \subseteq Nat
        BY <4>1, ProgramFacts
      <4> QED BY <4>1, <4>2 DEF RetriesTypeOK
    <3>2. k < pc
      BY <2>2, <3>1 DEF RetriesInv, OwnersInv
    <3> QED BY <2>2, <3>2 DEF LastInv, AttemptsInv
  <2> QED BY <2>1, <2>2 DEF LastAttemptCounts
<1> QED BY <1>1, LastInvariant, PTL

\* Types, for every program.
THEOREM RetriesTypeCorrect == Spec => []RetriesTypeOK
<1>1. RetriesInv => RetriesTypeOK
  BY DEF RetriesInv
<1> QED BY <1>1, RetriesInvariant, PTL

\* TaskOrchestrationExecutor.RetriableTask: whatever the policy, and however awaits nest, no task
\* is attempted more often than its policy says.
THEOREM AttemptsWithinPolicy == Spec => []AttemptsAreBounded
<1>1. RetriesInv => AttemptsAreBounded
  BY DEF RetriesInv, CountsInv, AttemptsAreBounded, IsRetriable
<1> QED BY <1>1, RetriesInvariant, PTL

\* TaskOrchestrationExecutor.handleSubTimerSuccess: whatever the delay and the longest interval,
\* the future of a timer is not done a second before its time.
THEOREM TimersAreNotEarly == Spec => []RacesWaitForTimers
<1>1. RetriesInv => RacesWaitForTimers
  BY DEF RetriesInv, ChainsInv, RacesWaitForTimers
<1> QED BY <1>1, RetriesInvariant, PTL

=============================================================================
