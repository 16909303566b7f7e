# Verification of the Dapr Java SDK

TLA+ models of the parts of this repository that carry state and concurrency, the TLC runs that
check them on small instances, and TLAPS proofs for every instance. The centre is the durable
workflow engine in `durabletask-client`: deterministic replay of workflow code over a history,
and the worker that receives turns from the Dapr sidecar, caches histories and answers.

Check a run with `tlc -config <cfg> <module>` and a proof with `tlapm <module>.tla`; `PROJECT.json`
lists the runs, the mutants of each property, the lines each definition models and the hazards.

## 1. The system

| component | state | operations | interacts with | what is hard | what makes it correct |
|---|---|---|---|---|---|
| workflow turn executor (`TaskOrchestrationExecutor`) | position in past and new events, pending actions, open tasks, outstanding waits, buffered events, deferred events, patches, completion | one handler per history event; calls of the workflow context (activity, child, timer, event, wait, patch, complete, continueAsNew); await, implicit completion | runs the user's code inside a handler; awaits pump events re-entrantly; its result goes to the runner | replay after a lost turn, duplicates, events before or after their wait, suspension with deferred events, termination of what is complete, histories of older releases | replay is deterministic; each piece of work is asked for once; each event is received once, in order; one completion; every item answered |
| work-item stream (`DurableTaskGrpcWorker`, `OrchestratorRunner`) | the stream and its cancellable context, the pool's runners | connect, receive, resolve history, execute, update cache, answer, tear down | sidecar (stream, GetInstanceHistory, completeOrchestratorTask), executor, cache | redelivery while an old runner goes on, reconnection, failed fetches | an answer that counts is computed from the committed history; no instance is left waiting for a lease |
| workflow history cache (`WorkflowHistoryCache`) | entries with byte sizes and last access, byte total, newest token per instance | get, put, remove, reset, sweep, noteDispatch, isLatestDispatch, forgetDispatch | runners and janitor, concurrently | eviction by count, bytes and time; replaced entries | total equals contents; within bounds |
| activity runner (`ActivityRunner`, `TaskActivityExecutor`) | the item, the outcome | run the activity, answer with result or failure | sidecar, pool | failing activities, failing answers | every execution is answered |
| workflow registry (`TaskOrchestrationFactories`) | factories by name, by name and version, latest versions | add, look up | executor | latest flag against recorded version | an instance keeps its version |
| workflow client (`DurableTaskGrpcClient`), SDK layer (`sdk-workflows`) | none beyond channels | start, raise, suspend, resume, terminate, wait, purge, rerun | sidecar | deadlines | requests say what was asked |
| actors (`ActorManager`, `AbstractActor`, `ActorStateManager`, `ActorRuntime`) | active actors, started flag, change tracker | activate, deactivate, invoke, timers, reminders; add, get, set, remove, save, clear | sidecar calls, state store | chains of hooks, rollback, method and save; failures half-way; lost answers of saves; overlapping calls and operations | no call is refused for nothing; reads see writes at once, a save commits all of them, a call that succeeds has committed what it wrote |
| streaming subscriptions (`Subscription`, `EventSubscriberStreamObserver`) | queue of acknowledgements, stream reference, running flag, backoff | receive, acknowledge, reconnect, close | gRPC threads, acker and receiver threads, listener | reconnection, full queue, close while blocked | every event gets an acknowledgement or is redelivered; close ends both threads |
| client resiliency, Dapr client, configuration, Spring, testcontainers, stubs | none that several steps share | wrap calls, build requests, parse settings | — | — | — |

The sidecar's workflow engine is not in the repository. Where the models need it (histories, work
items, redelivery, recording of actions) they take what the code and tests of this repository
assume of it; these definitions are marked external in `PROJECT.json`.

## 2. Modules

```
DurableWorkflow            what durable execution promises (abstract)
      ^ refined by
WorkflowTurns ------------ the backend: history, inbox, turns, upgrades (external)
      | EXTENDS
TaskOrchestrationExecutor  one turn: events, handlers, code, completion
      ^ EXTENDS
AnyHistory --------------- one turn over histories of any content
      ^ proved in ExecutorProofs, AnyHistoryProofs; WorkflowTurns in WorkflowProofs, ReplayProofs

WorkflowHistoryCache <---- StatefulHistory: stream, runners, sidecar
      ^ both proved in HistoryProofs

TransactionalState         what the state of an actor promises (abstract)
      ^ refined by
ActorStateManager          change tracker and store
      ^ EXTENDS
ActorTurns --------------- activation, calls, deactivation of one actor
      ^ proved in ActorProofs

RetriesAndTimers           tasks made of several: retries, chains of timers
      ^ proved in RetriesProofs

Subscription               a stream of events, its threads and acknowledgements
      ^ proved in SubscriptionProofs

MCWorkflowTurns, MCAnyHistory, MCStatefulHistory, MCActorTurns, MCRetriesAndTimers: instances for TLC
```

**TaskOrchestrationExecutor** models `TaskOrchestrationExecutor.ContextImplTask` and its tasks.
The variables carry the names of the fields. The user's code is a straight-line program whose
instructions are calls of `TaskOrchestrationContext`; a task is named by the instruction that made
it. `control` says who runs: nobody, the loop of `execute`, the code (which runs inside the handler
of ExecutionStarted), or how `execute` ended ("done": a result, "crash": an exception escaped).
There is one action per `case` of `processEvent` (`HandleTaskScheduled` ... ) and one per call of
the code (`CallActivity`, `WaitForExternalEvent`, `IsPatched`, `Await` ...). `Read` is
`OrchestrationHistoryIterator.moveNext`; it happens when the loop of `execute` runs or an await is
not over. Handlers end in `Returns` or `Throws`, which send the exception where the code does: an
await ignores it, the loop of `execute` fails the workflow, and failing a workflow that is complete
escapes. `draining` is the loop of `handleExecutionResumed`, which handles deferred events inside
the handler of the resume; `Confirm` and `ShiftDown` are the confirmation of actions with
`dropOptionalExternalEventTimerAt`. Payloads are numbers, one of which cannot be deserialized;
`LinkedHashMap` order is the order of the ids.

**WorkflowTurns** puts one instance into a backend: events arrive between turns (during a turn they
would only wait in the inbox), a work item is dispatched, the turn runs, its result is committed to
the history or lost. It also deploys the SDK release whose indefinite waits emit an optional timer,
and code guarded by `isPatched`. `scenario` is the program of an instance with the bounds of what may
happen to it. **DurableWorkflow** is the abstract promise; `RunsOnce` is the
refinement, with the counts of requests as `asked` and the observations of the last committed turn
as `known`.

**AnyHistory** gives the executor one work item of any content (of the set `WorkItems`): events
that match no task, come twice or come from another release. The only assumption is that
ExecutionStarted is the second event, and only that.

**RetriesAndTimers** models `RetriableTask`, `TimerTask` and `CompoundTask`, whose awaits run inside
each other: a handler of a failure awaits the delay and the next attempt, inside the await that handed
it the event. `frames` is that stack, innermost last; only the innermost await takes events, and a frame
goes when the future it waits for is done. Where the code has two futures the model has both: the one an
await of the task waits for (a frame "on" a subtask) and the task's own, which `allOf` and `anyOf` look
at (`outcome`). One run of the code over a growing history stands for its replays, which WorkflowTurns
checks; a turn begins at a time at which something is due, or later. Programs name tasks by the
instruction that made them, as there. Time is in milliseconds (`Duration.toMillis`), and timers are
compared by whole seconds (`SecondOf`), as the chain does. A policy's coefficient, a double of 1.0 or more
(`setBackoffCoefficient`), is a ratio of two numbers; `Power` is its power cast to long, which drops the
fraction and stops at the largest long; `Overflows` is where `powExact` or `multiplyExact` throw, which
`getNextDelay` answers with the maximum, or, without one, with an ArithmeticException out of the handler
(`NoNextDelay`). A delay of zero makes no timer. `MaxLong`, `MaxDouble` and `Second` are constants, so that
small instances reach these limits.

**WorkflowHistoryCache** has one operator per method. Time is the order of last use, so a sweep drops some
first part of that order; an event is one byte. **StatefulHistory** is the worker around it: `Receive` is
the loop of `startAndBlock`, and a runner goes through `ResolvePastEvents`, `GetInstanceHistory` or
`FetchFails`, `Execute`, `UpdateHistoryCache`, `Forget` and `CompleteOrchestratorTask`, with other runners
and the janitor in between wherever the code holds no lock. An execution may throw (`ExecuteThrows`; `run`
has no handler) and an answer may fail (`AnswerFails`; `run` logs it and keeps the stream): the runner is
gone then, and its item is among the `unanswered` until its lease lapses. An answer that arrived and whose
acknowledgement was lost is a success. An event is represented by the generation that wrote it, which is
what tells a stale prefix from a good one of the same length.

**ActorStateManager** has one action per method of the class, in two halves where the method asks the
store: `Get(n)` answers from the tracker or asks, `StoreReads` is the sidecar's read, `Finish` the rest
of the method with what was read. `Save`, `StoreApplies`, `Flush` are `save()`; `SaveFails` also stands
for an answer that is lost after the transaction was applied. A value is what the serializer makes of
it, so that "no state" is one value (`NoValue`) for null and for empty. **TransactionalState** is the
abstract state: `IsTransactional` maps its `view` to the tracker in front of the store.

**ActorTurns** is a request for one actor, from `ActorManager.activateActor` and `invoke` through the
hooks of `AbstractActor` to the save at the end. Chains of Reactor are built before they run, and
building them calls the hooks and a method that returns a Mono: `phase` tells where user code may run
while a chain is built ("construct", "assemble", "dismantle") and while it runs ("onActivate",
"method", "onPost", "onDeactivate"); between these are the steps of the SDK. An exception anywhere ends
the request and rolls nothing back (the `onErrorMap` of `invoke` guards only the rollback itself); the
next call's `rollback(true)` does. The sidecar makes one request for an actor at a time.

**Subscription** is the class of that name: `ReceiverStep` and `AckerStep` are its two threads (the head
of a loop belongs to the step before it, since nothing happens in between), `OnNext`, `Answer`, `PutAck`
and `EndOfStream` the callbacks of the stream and the listener's Mono, `Close`, `Release` and `Interrupt`
the steps of whoever calls `close()`. gRPC calls an observer once at a time, so a listener that answers
within the call, or an acknowledgement that finds no room, holds up what comes after it, the end of the
stream included. The sidecar delivers on a stream whose request it has seen, and forgets what it delivered
with the stream.

## 3. Runs

| run | asks | bounds and why they are enough |
|---|---|---|
| `tasks` | refinement of the abstract workflow, every item answered, the workflow ends | six programs: sequence, fan-out, race of task and timer, child, sent event, wait with and without timer; one repeated completion, one lost turn, one event. A lost or repeated step matters against at most two tasks in flight. |
| `life` | replay agrees, each event once and in order, none starves, nothing asked twice, no false non-determinism, continueAsNew carries what was not received, a termination is not used up | eleven programs with a scenario each: five with up to three waits of one name, where three events (one cannot be deserialized) meet a full queue, a buffer and a cancelled wait over one lost turn and two generations; two that are suspended, resumed and terminated in all orders; four upgraded between any two turns |
| `any_history` | type, fresh ids, one completion, nobody waits for what is done, outcomes are final, nothing moves while suspended | four programs, all histories of up to two events from a list of twenty after the opening, split in all ways into past and new; what it checks is proved for any length (section 5) |
| `stateful_history` | a runner whose answer counts replays the committed history; every workflow gets on | one instance, four turns, one lease that lapses too soon or broken stream, two failures (of a fetch, an answer or an execution), one continueAsNew, a cache of one entry and two bytes. Two runners of one instance, one redelivery and one generation are what a stale prefix takes; two failures follow each other on one item, or on the item and its redelivery. |
| `history_cache` | byte total and order of use are right, bounds are kept | three instances, two entries, four bytes, histories of up to three bytes: replacement, eviction by count, by bytes, and an entry too large by itself |
| `actor_turns` | refinement of the transactional state, no call refused, a successful call has committed what its chain wrote | two names, two values, any content of the store, three requests (activation and call, a failed one, the next), three operations or saves each: write, overwrite or remove, save. Proved for any numbers (section 5). |
| `retries` | attempts are bounded, delays kept, a task fails when its attempts are spent, its last attempt counts, races wait for the end of a timer, the code comes to its end | eleven programs: one task with three attempts and a growing, capped delay; two awaited together, in turn, one late, one with a timeout; races with a timer of three intervals; a coefficient of 1.5, whose powers are cut off; no delay at all; products beyond the largest long with a maximum and without, and a power beyond the largest double. Two retried tasks suffice to nest delays in delays; turns begin up to one unit after the last timer is due. A second is two units and the largest numbers are 10, so that each limit is met within three attempts. |
| `subscription` | no event finds no stream, one stream at a time, what is settled was answered, `close()` ends both threads, every event is settled | two messages, a queue of one acknowledgement, two streams that break, two failures: with one of each a queue is full while its acker sleeps and a leftover acknowledgement meets the next stream |

`any_history` and the runs of turns, of retries and of actors stop by themselves; `Rest` says where the system may
stay as it is, so that deadlock is checked everywhere. All runs together take about seven minutes.
`actor_turns` uses the symmetry of names and of values: its properties are safety properties and tell
neither apart.

Violations, each a finding of `PROJECT.json`:

| run | what TLC shows |
|---|---|
| `terminate_poison` | ExecutionTerminated completes the workflow inside an await, an event behind it in the same batch ends the await, and the code's next call (`callActivity`) throws: `execute` catches it, `fail()` throws again because the workflow is complete, out of `execute`; the item is not answered and comes back with the same events |
| `history_overtaken` | the check of the token and the write of the cache are two calls; a dispatch overtaken in between, or writing after forgetDispatch, leaves its prefix, and after continueAsNew a delta is replayed on it |
| `long_timer` | `await()` of a timer longer than the maximum interval returns when the first timer of its chain has fired |
| `retry_before_await` | a retriable task that fails before the code awaits it is not retried: after the delay a NullPointerException, which an await ignores |

`ReplaysTheCommittedUnlessOvertaken` is the property that holds: `overtaken` records that a dispatch
wrote after the window between check and write was used, so that it says the window (and the missing
marker) is the only way to go wrong: the length check, the reset on reconnection and the token
catch everything else. In the same way `OnlyEarlyWritesAreLost` excludes the writes made while
a chain is built and no others, `FailsWhenSpent` the tasks that are not awaited first, and `CodeEnds` the
code that waits for a future that nobody will complete (`Stuck`).

## 4. Fairness

`tasks` assumes weak fairness of the executor's steps (a thread of the pool runs on), of dispatch and commit
(the sidecar delivers and records), of the completion of started work, and of raising the event the programs
wait for. Nothing is assumed of lost turns and duplicates, and a lease or a worker may fail at any time
within the bounds. `stateful_history` assumes weak fairness of the loop of `startAndBlock` (it reconnects
for ever), of the pool's threads and of the sidecar's dispatch, and that the lease of an item lapses in the
end whose execution threw or whose answer was lost (`LapseUnanswered`): nothing else makes up for these,
since the stream is kept. Of other leases it assumes nothing: `EveryTurnEnds` holds without one lapsing
because a failed fetch drops the stream. Failures are bounded: an execution that throws whenever it is
repeated, as in `terminate_poison`, never ends its turn. `retries` assumes that the code runs on, that turns
begin while something is asked for, and that activities are answered and timers fire. `subscription` assumes
that its threads run, that gRPC calls back, that a listener answers each event and that the sidecar
delivers; streams break and listeners fail within the bounds, and nobody need call `close()`, but whoever
does goes through with it.

## 5. Proofs

`AnyHistoryProofs` proves for every set of programs, names and work items, histories of any length
included, from `ProgramsAssumption` (programs await tasks they have made) and
`WorkItemsAssumption` (the events of a work item have the types of events; the proofs use no more of it):

| theorem | says |
|---|---|
| `TypeCorrect` | `Spec => []ExecutorTypeOK` |
| `FreshIds` | `Spec => []IdsAreFresh` |
| `SingleCompletion` | `Spec => []OneCompletion` |
| `NothingAfter` | `Spec => NothingAfterCompletion` |
| `NobodyWaits` | `Spec => []NobodyWaitsForTheDone` |
| `CaughtUp` | `Spec => []ResumedCatchesUp` |
| `FinalOutcomes` | `Spec => OutcomesAreFinal` |
| `Frozen` | `Spec => SuspendedIsFrozen` |

These are all the properties of the run `any_history`. The argument is one inductive invariant,
`FullInv`, in three parts.

`ExecutorInv` is `ExecutorTypeOK`, `IdsAreFresh` and `OneCompletion`. None of them is inductive by
itself: `IdsAreFresh` needs the ids of `ShiftDown` to be integers; `OneCompletion` needs fresh ids (a
completion must not overwrite, and nothing may overwrite it) and that no handler but those of the
completion writes the map; the type of `draining` needs that a drained queue is not empty.
`ExecutorProofs` has one lemma per idea the actions share (`TaskStep` for actions on the two maps,
`EventIsRead`, `RemainingGood`, `TasksKept`, `NothingAdded`, `FailExecutionType`, `ThrowsType`,
`HandlerType`, ...) and one step per action.

`WaitInv` adds to `NobodyWaitsForTheDone` that whoever is waited for is named by an instruction the
code has passed, that nothing ahead of the code is done, and that a queue holds waits of its own name
only. With the first two a call of the code cannot make a task that is done or waited for already;
with the last, an event that completes the first waiter of one queue leaves no trace of it in another.
`WaitStep` sorts the actions into five ways to change who waits; `WaitKept` takes them one by one and
gives both the invariant and `OutcomesAreFinal`.

`FrozenInv` says that the code of a suspended workflow is in an await that is not over, that requests
to suspend, resume or terminate are never deferred, and that a workflow that is not suspended has
deferred events only while it drains them. The second part is what the others hang on: a request to
suspend that came out of the drained queue could suspend code that is about to go on.

`ActorProofs` proves the four properties of `actor_turns`, for any names, values, bounds and initial
content of the store, from `NoValueAssumption` (no state is not a value) and `RequestsAssumption` (the
bounds are numbers):

| theorem | says |
|---|---|
| `ActorTypeCorrect` | `Spec => []ActorTypeOK` |
| `CallsAreNotRefused` | `Spec => []NeverRefused` |
| `CallsCommitTheirWrites` | `Spec => []OnlyEarlyWritesAreLost` |
| `StateIsTransactional` | `Spec => IsTransactional` |

`StateInv` says what tracker, operations and save know of the store: an entry of kind NONE holds what
the store holds, an operation that was answered has read what the store still holds and (unless it is
an add) its name is not tracked, a save sends the changes the tracker has, and after it was applied
every entry is as in the store. With it each step of the manager is a step of `TransactionalState`
(`GetGood`, ... `FlushGood`, `ClearGood`). `TurnInv` adds the request: what a chain wrote while it ran
is what reads return until the request is over, and is in the store already where the tracker is
cleared; `started` is reset before it is looked at. `WritesAreSeen` carries the first through any step
of user code by its abstract step alone. The inductive invariant is `Inv`: the type, `StateInv` and
`TurnInv`.

`RetriesProofs` proves for all programs, policies and intervals, from `RetriesAssumption` (programs await
tasks they have made) and `PowersAssumption` (what is left of a power of a coefficient when it is cast to
long is a number, and does not shrink as the exponent grows, which the provers do not know):

| theorem | says |
|---|---|
| `RetriesTypeCorrect` | `Spec => []RetriesTypeOK` |
| `AttemptsWithinPolicy` | `Spec => []AttemptsAreBounded` |
| `TimersAreNotEarly` | `Spec => []RacesWaitForTimers` |
| `DelaysAreObserved` | `Spec => []DelaysAreKept` |
| `NoAttemptIsLost` | `Spec => []FailsWhenSpent` |
| `CodeGetsTheLastAttempt` | `Spec => []LastAttemptCounts` |

The bound on attempts is not inductive: what stops an attempt is `attemptNumber`, which awaits raise and
which says nothing of a task that nobody awaits. `RetriesInv` relates the two: a task has at most one
attempt, or counts at least as many as it has; it has one attempt under way or one delay, with attempts
left, and its delay is in the stack of awaits once (`DelaysInv`), so that no second handler makes an attempt
between the check and the delay's end. `ChainsInv` says that all timers of a chain have one end. `EndKeeps`
is the lemma behind all answers, `LowerFramesKeep` behind all returns.

The other three theorems rest on a second invariant, `LastInv`. `childTask` names the last attempt of a
task, and the attempts before it have failed (`AttemptsInv`). Who still awaits an earlier attempt, because a
handler on top of it made another, waits below that handler in the stack of awaits (`NestingInv`), so that
it returns only after the last attempt has ended. A delay under way is as long as the policy asks of the
number of attempts there are: what the handler computes with is `attemptNumber`, which is at least that
number for a task that will be attempted again, and powers do not shrink (`DelaysGrow`). Whether the delay is
a timer, or nothing because it is zero (`DelayAwaited`), it has passed when the handler goes on, since no
timer fires early (`DelayedInv`); what it was when the next attempt was made stays true of the pair
(`KeptInv`). For a task that is awaited first and once, `attemptNumber` is no more than
the attempts, so that a handler that gives up has none left (`SpentInv`).

`SubscriptionProofs` proves for any messages and bounds, from `SubscriptionAssumption`:

| theorem | says |
|---|---|
| `SubscriptionTypeCorrect` | `Spec => []SubscriptionTypeOK` |
| `EventsFindAStream` | `Spec => []NoEventRefused` |
| `StreamsDoNotOverlap` | `Spec => []OneStreamAtATime` |
| `SettledEventsWereAnswered` | `Spec => []SettledWasAnswered` |

The invariant counts permits: there is one for the stream that is over and was not yet taken, and one that
`close()` released, which is of no use because the flag is down before it. What is settled was answered
because every acknowledgement of success, in a handler's hands, in the queue or in the acker's, is of a
message that was answered.

`HistoryProofs` proves, for any instances, histories, limits, runners and breaks of the
stream, from the assumptions on the bounds in `WorkflowHistoryCache` and `StatefulHistory`:

| theorem | says |
|---|---|
| `TotalsAreRight` | `CacheSpec => []CacheConsistent` |
| `CacheIsBounded` | `CacheSpec => []CacheWithinBounds` |
| `WorkersKeepCachesInBounds` | `Spec => [](CacheConsistent /\ CacheWithinBounds)` |
| `HistoriesStayPrefixes` | `Spec => []HistoryInv` |
| `AnswersRestOnTheCommitted` | `Spec => []ReplaysTheCommittedUnlessOvertaken` |

The byte total is compared with a fold over the entries, whose order nobody names. The module first
shows that there is a function that adds elements up in whatever order, and that the fold is that function.
Both go by induction over finite sets; since the library's induction theorem takes an operator, the
induction is written with the set of those subsets the claim holds of (`SubsetInduction`, from the
well-foundedness of strict inclusion). Then each operation (`PutKeeps`, `GetKeeps`, `RemoveKeeps`,
`SweepKeeps`, `ResetKeeps`) keeps the total, the order of use and the limits; eviction is a choice of the
shortest run of oldest entries whose loss is enough, and `FirstOfInterval` says there is one.

`HistoryInv` orders the dispatches of an instance by their tokens: those on the stream are newer than
those received, the marker holds the last one received, and what the sidecar waits for is the last one
given out (`TokensInv`). Then a delta on the stream, or with the newest runner, still continues the committed
history, since nobody else's answer can have been accepted since it was made (`DeltasInv`), and entries
are prefixes of the committed histories (`PrefixInv`). The last part holds until a dispatch is overtaken
between `isLatestDispatch` and the write, which is what the run `history_overtaken` shows: the theorem has
the same condition as the property.

`WorkflowProofs` proves of an instance over all its turns, for any programs, names and scenarios, from
`ProgramsAssumption` and `ScenariosAssumption`:

| theorem | says |
|---|---|
| `InstanceInvariant` | `Spec => []InstanceInv`: over the histories the backend and the code make together, whatever is deployed between turns, the executor's `FullInv` holds |
| `FlowInvariant` | `Spec => [](InstanceInv /\ FlowInv)` |
| `NeverStarves` | `Spec => []NoWaitStarves` |
| `EachEventIsOnce` | `Spec => []EachEventOnce` |
| `ServesInOrder` | `NamesDiffer` implies `Spec => [](thrown = {} => ServedInOrder)` |
| `CarriesWhatNobodyGot` | `Spec => [](~isReplaying /\ thrown = {} => CarriesTheUnreceived)` |
| `TerminationIsHonoured` | `Spec => [](generation = 1 => TerminateIsHonoured)` |

`EventFlow` is the lemma they share: whatever the code is, a step of the executor does one of six things
with external events. It touches none (or only cancels a wait), defers the next event, buffers it, serves
the first of a queue with it, lets a wait take one from the buffer, or queues a wait; and its event, if it
has one, is the next of the list or the first deferred one. `FlowInv` then follows an event on its way.
`PlacesInv` says that what has been read of the work item is in the buffer, deferred or with a wait, each
event in one place only and nothing else anywhere; it needs that raised events differ across history and
inbox (`RaisedInv`: dispatch, loss, commit and continueAsNew neither repeat nor invent one, by the
embedding of one sequence of events in another). `DoneInv` says that a turn ends without a completion only
when everything has been read, which makes `EachEventOnce` of `PlacesInv`. `StarveInv` is `NoWaitStarves`
with the type of what is buffered: an event is buffered when the queue of its name is empty, a wait queued
when the buffer has nothing for it. `OrderInv` keeps three stages of events in order (handled, deferred,
unread) and, name by name, the waits that were served before those in the queue. `TerminateInv` says that
a request that has been read has completed the workflow.

The conditions of the last three are those under which the claims are true of any program, where the runs
have them by their scenarios:

- `ServesInOrder`: when two names differ only in case, the buffer takes them for one name and the queues
  for two, so that an older event can wait in the buffer while a younger one is served. An exception
  thrown by the handler of a deferred event leaves the others deferred while what follows is handled.
- `CarriesWhatNobodyGot`: the position in the history is compared with the new events, so a code that
  continues as new in the middle of a replay carries too few or too many. That the code does not, where
  replay agrees, is the theorem `CarriedOver` below.
- `TerminationIsHonoured`: the turn that continues as new drops a request behind the point it has read.

`ReplayProofs` proves what a turn has to do with the ones before it, for any programs, names, payloads and
bounds, from the same assumptions:

| theorem | says |
|---|---|
| `ReplayInvariant` | `Spec => []Replays`: the inductive invariant |
| `ReplayAgrees` | `Spec => [](Steady(scenario) => ReplaysAgree)` |
| `NeverMistaken` | `Spec => [](Steady(scenario) => NoFalseAlarm)` |
| `WorkIsAskedForOnce` | `Spec => [](Steady(scenario) => AskedOnce)` |
| `ExecutionIsDurable` | `Spec /\ Steady(scenario) => RunsOnce`: the refinement of `DurableWorkflow`, step by step |
| `CarriedOver` | `Spec => [](Steady(scenario) /\ thrown = {} => CarriesTheUnreceived)` |
| `EveryTurnIsAnswered` | `Spec => [](Undisturbed(scenario) => AlwaysAnswers)` |

These are claims about two executions of the code, and no predicate on one state of the executor is
inductive for them. The invariant therefore speaks of runs. A `Snap` is what a turn has come to after so
many events (actions, tasks, waits, buffer, place and observations of the code, exceptions), and `After` is
the executor restated as a function from one snap to the next over a list of events. `ExecutorFollows`
shows, action by action, that a step of the executor takes `Now`, the snap of the present state, to
`After(Now, Given)` or ends the turn. `HistInv` says that the committed history *remembers* the last turn
(`Memory`): the function takes `Begin` through the history, with no exception for non-determinism on the
way, to a place where the code waits, has observed `committed`, and has nothing pending but sent events. A
turn under way is then in one of four phases (`PhaseInv`): it is `Replaying` such a run, `GoingOn` behind
it, `Stopped`, or `Over`; in the last three it is `Settled`: what was committed has been observed, and what
is pending is in a slot never asked for. The turn that follows the same function over the same list is in
the same states, which makes `ReplayGoesOn`; the end of the memory is where the new events begin, which
makes `ReplayEnds`.

The commit has to show that the longer history is a memory again (`TurnRemembered`). The recorded turn ends
in confirmations, which the last turn did not read: `RunThroughConfirmations` takes them one after the
other, each finds its action (ids are fresh, and `Ids` lists them in order), removes it and leaves the code
where it waits. A patch met live is recorded with the WorkflowStarted of its turn, so that `isPatched` says
yes in the next replay too (`PatchInv`, `PatchSeen`).

`Steady` says that the instance starts under the current releases, that nobody may suspend it, and that code
which sends events ends with `complete` or `continueAsNew`. Each part is needed. A release that makes other
actions shifts the ids, and `isPatched` may answer no. A suspended turn defers its confirmations and the
next one asks again. An `EventSent` that execute's own loop reads, when the code has returned, fails the
workflow with the confirmations behind it unread. The theorems say nothing of such instances, nor does TLC
find them wrong in `life`; with suspension, `NoFalseAlarm` and `AskedOnce` themselves except it. All
scenarios of `tasks` and `terminate_poison` are steady, and the `EventScenarios` of `life`.

`Undisturbed` adds that no client may terminate the instance and that no instruction follows a `complete` or
`continueAsNew`. A request to terminate that completes a workflow whose code goes on, as `terminate_poison`
shows, or meets one that is complete, makes an exception leave `execute()`, and so does a call after
`complete` (`CallWhenComplete`). The invariant (`AnswerInv`) is that code which has completed is at its end
with its completion among the actions. By `Settled` replay is over then, so that what is still read has just
arrived, and no handler of such an event throws; `NothingLeft` fails, so that implicit completion does not
complete a second time.

Only model-checked: replay of instances that are upgraded or suspended, and liveness (`Ends`,
`EveryTurnEnds`, `CodeEnds`, `CloseEnds`, `EveryEventSettles`), which is out of the prover's reach, as is
`ENABLED`. Every safety property of a passing run is stated by a theorem, under the conditions named above.

## 6. What is not modelled, and what the code does there

In the executor: retry handlers, versions of workflow names, custom status, routing, propagated history;
`WorkflowTurns` has neither retries nor chains of timers, which have a module of their own. Programs branch
only on `isPatched` and on exceptions. Known of these parts, and of corners no run covers:

- what waits in the delay of a retry is the handler, and with it the await that handed it the event: an
  `anyOf` of a retried task and a timer returns after the retries of the task, and of two retried tasks the
  one that failed first waits for the other.
- the delay before attempt n + 1 is the first interval times the coefficient to the n, so that the first
  delay is already multiplied; it is awaited like any timer, so it is over after the first sub-timer.
  `RetryPolicy.java` (lines 35 and 62) promises the first interval itself between the first two attempts:
  `DelaysAreKept` states what the code computes, which is no less than that.
- the power of the coefficient is cast to long before it is multiplied: with 1.1 the delay stays one
  interval until the power reaches 2. That `Math.pow` rounds is left out of the model, and so is NaN, which
  `setBackoffCoefficient` accepts and whose powers are cast to 0.
- a delay that overflows without a maximum interval throws out of the handler of the failure: the await
  ignores it, the task is not attempted again, and its own future stays open (`Stuck` in `allOf`).
- `setMaxRetryInterval(null)` is documented as the way to remove the maximum; `getNextDelay` throws a
  NullPointerException on it. The model has no such policy.
- the guard against Integer.MAX_VALUE attempts is behind `maxNumberOfAttempts`, an int, and out of reach.
- timers are compared by whole seconds: one of several sub-timers may be over up to a second early.
- `anyOf` and then `await` of a retried task counts an attempt twice.
- an attempt whose result cannot be deserialized ends in a ClassCastException, and the future of the
  retried task stays open.
- while a workflow is suspended its confirmations are deferred like any event: each of its turns returns
  its unconfirmed actions again, `AskedOnce` and `NoFalseAlarm` leave suspended instances out.
- outstanding waits are looked up by exact name and buffered events ignoring case, so that an event spelled
  in another case completes a later wait, never one that is waiting.
- two indefinite waits in a row in a history of the older release are taken for non-determinism: one
  optional timer is dropped per mismatch (the programs of `life` have one such wait at a time).
- an event sent by the code stays pending in every turn and `EventSent` has no case: the exception is
  ignored by an await and fails the workflow in the loop; `AskedOnce` leaves sent events out.
- a Terminated or Suspended event behind the point where the code continues as new is dropped.
- carried-over events pass through a `HashSet`: equal ones merge and the order is lost.
- an anyOf that leaves a wait outstanding keeps the workflow running after its code has returned.
- an activity that throws an exception without a message is never answered (`setErrorMessage(null)`).
- `latestTokens` keeps an entry for each instance that moved to another worker.

In the actors: requests that overlap, and operations that overlap on one name or with a save (methods
are taken to compose what concerns one state). What the code does there:

- what the body of a hook, or of a method that returns a Mono, writes while the chain of a call is built is
  cleared by the rollback or reset at the chain's start, and the call succeeds.
- `invoke` resets `started` before it looks at it, so that the look never finds a call under way: a
  second call that the sidecar sends after a timeout of the first drops the first one's changes.
- `save()` sends a snapshot and marks every entry as stored when the answer comes: what was set
  meanwhile is taken for stored. `get` puts what it loaded over what was set meanwhile.
- a state set to null is tracked but `get` asks the store all the same and then drops the pending change.
- a failed call leaves its changes in the tracker until the next rollback; `saveState()` called by the
  body of the next call, while its chain is built, saves them.
- the result is serialized after the state was saved: a result that cannot be fails a committed call.
- what `onDeactivate` writes is not saved.

In the subscriptions: an exception of `stream.onNext` when the request is sent (it throws on a call that was
cancelled or half-closed by its own side, which nothing in the code does), how long threads sleep, events
without an id, a listener whose `onError` throws (the receiver would wait for ever), and
`EventSubscriberStreamObserver`. `close()` does not end the stream: the listener may hear events after both
threads have ended.

Outside these: section 1 lists what has no module; the note of each component in
`PROJECT.json` gives the reason, and hazards without a property say why.

## 7. What could come next

1. **Actors**: requests that overlap (activations that make two actors, calls that drop each other's
   changes) and operations during a save.
2. Retries inside `WorkflowTurns`, so that the ids of attempts and timers made by handlers are under replay.
3. **ActivityRunner** and **TaskOrchestrationFactories** with STALLED.
4. **Proofs**: replay of instances that are suspended, where the memory of a history has deferred
   confirmations in it, and of upgraded ones, where the function differs from turn to turn.

Runs that differ in programs and bounds only share one run (as `life` does, by scenarios), so that each
component has room for its own.
