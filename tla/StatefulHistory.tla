---------------------------- MODULE StatefulHistory ----------------------------
(***************************************************************************)
(* Work items as deltas: DurableTaskGrpcWorker receives them from a stream, *)
(* an OrchestratorRunner per work item rebuilds the committed history from  *)
(* WorkflowHistoryCache, executes the turn, updates the cache and answers.  *)
(* The runners of one worker run concurrently, also for one instance: the   *)
(* sidecar redelivers a turn that takes too long or whose stream is gone.   *)
(*                                                                         *)
(* The sidecar is not in this repository: its actions are what the code and *)
(* the tests say of it.  An event is represented by the generation of the   *)
(* instance that wrote it: continueAsNew starts the next one.               *)
(***************************************************************************)
EXTENDS WorkflowHistoryCache

CONSTANTS
  MaxTurns,       \* bound: instance -> its turns
  MaxTroubles,    \* bound: leases that lapse while the turn goes on, and streams that break
                  \* by themselves, together
  MaxFailures,    \* bound: executions that throw, and calls of the sidecar that fail, together
  MaxContinues    \* bound: continueAsNew of an instance

ASSUME BoundsAssumption ==
  /\ MaxTurns \in [Instances -> Nat] /\ MaxTroubles \in Nat /\ MaxFailures \in Nat /\ MaxContinues \in Nat

VARIABLES
  committed,    \* instance -> the history the sidecar has committed
  generation,   \* instance -> its generation
  turns,        \* instance -> turns committed
  ended,        \* the instances that have ended
  pending,      \* instance -> token of the work item the sidecar waits for, 0 for none
  watermark,    \* instance -> length of the history the stream is believed to hold
  tokens,       \* the last token given out
  connected, connection,  \* the stream, and how many there have been
  stream,       \* work items on their way
  runners,      \* the runners of the worker pool
  unanswered,   \* tokens waited for whose runner is gone, and did not drop its stream
  troubles, failures,  \* counted against the bounds
  newest,       \* instance -> the last token received (for the properties)
  overtaken     \* a dispatch that was, or passed for, the newest wrote after a newer one

sidecarVars == <<committed, generation, turns, ended, pending, watermark, tokens>>
streamVars == <<connected, connection, stream>>
boundVars == <<troubles, failures>>
vars == <<cacheVars, sidecarVars, streamVars, runners, unanswered, boundVars, newest, overtaken>>

Init ==
  /\ CacheInit
  /\ committed = [i \in Instances |-> <<>>] /\ generation = [i \in Instances |-> 1]
  /\ turns = [i \in Instances |-> 0] /\ ended = {}
  /\ pending = [i \in Instances |-> 0] /\ watermark = [i \in Instances |-> 0] /\ tokens = 0
  /\ connected = FALSE /\ connection = 0 /\ stream = <<>>
  /\ runners = {} /\ unanswered = {}
  /\ troubles = 0 /\ failures = 0
  /\ newest = [i \in Instances |-> 0] /\ overtaken = FALSE

-----------------------------------------------------------------------------
(* The sidecar *)

\* A turn is dispatched: only what the stream is not believed to hold, if that is something.
\* From then on the stream is believed to hold the history of this dispatch.
Dispatch(i) ==
  /\ connected /\ pending[i] = 0 /\ i \notin ended /\ turns[i] < MaxTurns[i]
  /\ tokens' = tokens + 1
  /\ pending' = [pending EXCEPT ![i] = tokens + 1]
  /\ watermark' = [watermark EXCEPT ![i] = Len(committed[i])]
  /\ LET held == IF watermark[i] <= Len(committed[i]) THEN watermark[i] ELSE 0
     IN stream' = Append(stream, [instance |-> i, token |-> tokens + 1, eventCount |-> held,
                                  pastEvents |-> SubSeq(committed[i], held + 1,
                                                        Len(committed[i]))])
  /\ UNCHANGED <<cacheVars, committed, generation, turns, ended, connected, connection, runners,
                 unanswered, boundVars, newest, overtaken>>

\* The lease of a turn lapses: it will be dispatched again.
Lapses(i) ==
  /\ pending' = [pending EXCEPT ![i] = 0]
  /\ UNCHANGED <<cacheVars, committed, generation, turns, ended, watermark, tokens, streamVars,
                 runners, unanswered, failures, newest, overtaken>>

\* Nobody will answer.
LapseUnanswered(i) ==
  /\ pending[i] \in unanswered
  /\ Lapses(i)
  /\ UNCHANGED troubles

\* The turn takes too long.
LapseTooSoon(i) ==
  /\ pending[i] \notin unanswered \union {0} /\ troubles < MaxTroubles
  /\ troubles' = troubles + 1
  /\ Lapses(i)

\* The stream is gone, and with it what is on its way; its turns will be dispatched again.
Break ==
  /\ connected' = FALSE /\ stream' = <<>>
  /\ pending' = [i \in Instances |-> 0] /\ watermark' = [i \in Instances |-> 0]
  /\ UNCHANGED <<committed, generation, turns, ended, tokens, connection>>

Disconnect ==
  /\ connected /\ troubles < MaxTroubles
  /\ troubles' = troubles + 1
  /\ Break
  /\ UNCHANGED <<cacheVars, runners, unanswered, failures, newest, overtaken>>

\* A turn is committed if it is the one waited for.  A new generation starts with nothing.
Accept(i, end) ==
  /\ pending' = [pending EXCEPT ![i] = 0]
  /\ turns' = [turns EXCEPT ![i] = @ + 1]
  /\ \/ /\ end = "no"
        /\ committed' = [committed EXCEPT ![i] = Append(@, generation[i])]
        /\ UNCHANGED <<generation, ended, watermark>>
     \/ /\ end = "continuedAsNew"
        /\ committed' = [committed EXCEPT ![i] = <<>>]
        /\ generation' = [generation EXCEPT ![i] = @ + 1]
        /\ watermark' = [watermark EXCEPT ![i] = 0]
        /\ UNCHANGED ended
     \/ /\ end = "completed"
        /\ ended' = ended \union {i}
        /\ UNCHANGED <<committed, generation, watermark>>
  /\ UNCHANGED tokens

-----------------------------------------------------------------------------
(* DurableTaskGrpcWorker.startAndBlock *)

\* A fresh stream starts cold.
Connect ==
  /\ ~connected
  /\ Reset
  /\ connected' = TRUE /\ connection' = connection + 1
  /\ UNCHANGED <<sidecarVars, stream, runners, unanswered, boundVars, newest, overtaken>>

\* The next work item is noted and handed to the worker pool.
Receive ==
  /\ stream # <<>>
  /\ LET item == Head(stream)
     IN /\ NoteDispatch(item.instance, item.token)
        /\ runners' = runners \union
             {[instance |-> item.instance, token |-> item.token, connection |-> connection,
               eventCount |-> item.eventCount, history |-> item.pastEvents, end |-> "no",
               at |-> "resolve", passes |-> FALSE]}
        /\ newest' = [newest EXCEPT ![item.instance] = item.token]
  /\ stream' = Tail(stream)
  /\ UNCHANGED <<sidecarVars, connected, connection, unanswered, boundVars, overtaken>>

\* The janitor
Janitor ==
  /\ SweepExpired
  /\ UNCHANGED <<sidecarVars, streamVars, runners, unanswered, boundVars, newest, overtaken>>

-----------------------------------------------------------------------------
(* OrchestratorRunner.run *)

\* The runner gets on with these fields.
Becomes(r, next) == runners' = (runners \ {r}) \union {next}

\* The cached history is the one the sidecar left out.
Hit(r) ==
  /\ r.instance \in DOMAIN entries
  /\ Len(entries[r.instance].events) = r.eventCount

\* resolvePastEvents: all was sent (an eventCount of 0 stands for no cachedHistory), or the cache
\* has what was not, or the sidecar is asked.
ResolvePastEvents(r) ==
  /\ r.at = "resolve"
  /\ \/ /\ r.eventCount = 0
        /\ Becomes(r, [r EXCEPT !.at = "execute"])
        /\ UNCHANGED cacheVars
     \/ /\ r.eventCount > 0
        /\ Get(r.instance)
        /\ \/ /\ Hit(r)
              /\ Becomes(r, [r EXCEPT !.at = "execute",
                                      !.history = entries[r.instance].events \o @])
           \/ /\ ~Hit(r)
              /\ Becomes(r, [r EXCEPT !.at = "fetch"])
  /\ UNCHANGED <<sidecarVars, streamVars, unanswered, boundVars, newest, overtaken>>

GetInstanceHistory(r) ==
  /\ r.at = "fetch"
  /\ Becomes(r, [r EXCEPT !.at = "execute", !.history = committed[r.instance]])
  /\ UNCHANGED <<cacheVars, sidecarVars, streamVars, unanswered, boundVars, newest, overtaken>>

\* A mistake the runs must notice: the work item is abandoned and its stream is kept.
FetchFailsQuietly(r) ==
  /\ r.at = "fetch" /\ failures < MaxFailures
  /\ failures' = failures + 1
  /\ runners' = runners \ {r}
  /\ UNCHANGED <<cacheVars, sidecarVars, streamVars, unanswered, troubles, newest, overtaken>>

\* No answer, and the stream the work item came from is dropped if it is still there.
FetchFails(r) ==
  /\ r.at = "fetch" /\ failures < MaxFailures
  /\ failures' = failures + 1
  /\ runners' = runners \ {r}
  /\ \/ /\ connected /\ r.connection = connection
        /\ Break
     \/ /\ ~connected \/ r.connection # connection
        /\ UNCHANGED <<sidecarVars, streamVars>>
  /\ UNCHANGED <<cacheVars, unanswered, troubles, newest, overtaken>>

\* The turn ends in some way, and updateHistoryCache looks whether it is the newest.
Execute(r) ==
  /\ r.at = "execute"
  /\ \E end \in {"no", "completed", "continuedAsNew"} :
       /\ end = "continuedAsNew" => generation[r.instance] <= MaxContinues
       /\ LET latest == IsLatestDispatch(r.instance, r.token)
          IN Becomes(r, [r EXCEPT
               !.end = end,
               !.at = IF latest THEN "update" ELSE "answer",
               !.passes = \/ newest[r.instance] = r.token
                          \/ r.instance \notin DOMAIN latestTokens])
  /\ UNCHANGED <<cacheVars, sidecarVars, streamVars, unanswered, boundVars, newest, overtaken>>

\* The runner ends without an answer, and the stream is kept: the item waits for its lease.
LeavesUnanswered(r) ==
  /\ failures < MaxFailures
  /\ failures' = failures + 1
  /\ runners' = runners \ {r}
  /\ unanswered' = IF pending[r.instance] = r.token THEN unanswered \union {r.token} ELSE unanswered
  /\ UNCHANGED <<cacheVars, sidecarVars, streamVars, troubles, newest, overtaken>>

\* An exception out of the executor, which nobody handles: no update of the cache either.
ExecuteThrows(r) == r.at = "execute" /\ LeavesUnanswered(r)

Overtakes(r) == overtaken' = (overtaken \/ (r.passes /\ newest[r.instance] # r.token))

\* The check has passed, the write is a call of its own.
UpdateHistoryCache(r) ==
  /\ r.at = "update"
  /\ \/ /\ r.end = "no"
        /\ PutHistory(r.instance, r.history)
        /\ Becomes(r, [r EXCEPT !.at = "answer"])
     \/ /\ r.end # "no"
        /\ RemoveHistory(r.instance)
        /\ Becomes(r, [r EXCEPT !.at = "forget"])
  /\ Overtakes(r)
  /\ UNCHANGED <<sidecarVars, streamVars, unanswered, boundVars, newest>>

Forget(r) ==
  /\ r.at = "forget"
  /\ ForgetDispatch(r.instance)
  /\ Becomes(r, [r EXCEPT !.at = "answer"])
  /\ Overtakes(r)
  /\ UNCHANGED <<sidecarVars, streamVars, unanswered, boundVars, newest>>

\* completeOrchestratorTask: the sidecar discards an answer it does not wait for.
CompleteOrchestratorTask(r) ==
  /\ r.at = "answer"
  /\ runners' = runners \ {r}
  /\ \/ /\ pending[r.instance] = r.token
        /\ Accept(r.instance, r.end)
     \/ /\ pending[r.instance] # r.token
        /\ UNCHANGED sidecarVars
  /\ UNCHANGED <<cacheVars, streamVars, unanswered, boundVars, newest, overtaken>>

\* The call fails, which is logged, before the sidecar has the answer; if it fails after that, the
\* answer counts.
AnswerFails(r) == r.at = "answer" /\ LeavesUnanswered(r)

\* There is nothing more to do but to wait for a lease to lapse.
Rest ==
  /\ \A i \in Instances : i \in ended \/ turns[i] = MaxTurns[i] \/ pending[i] # 0
  /\ runners = {} /\ stream = <<>>
  /\ UNCHANGED vars

RunnerStep(r) ==
  \/ ResolvePastEvents(r) \/ GetInstanceHistory(r) \/ FetchFails(r)
  \/ Execute(r) \/ ExecuteThrows(r) \/ UpdateHistoryCache(r) \/ Forget(r)
  \/ CompleteOrchestratorTask(r) \/ AnswerFails(r)

Next ==
  \/ \E i \in Instances : Dispatch(i) \/ LapseUnanswered(i) \/ LapseTooSoon(i)
  \/ Disconnect \/ Connect \/ Receive \/ Janitor
  \/ \E r \in runners : RunnerStep(r)
  \/ Rest

Spec == Init /\ [][Next]_vars

\* The worker's loop, its pool and the sidecar keep going.  The leases of items that nobody will
\* answer lapse in the end; no other need do so.
FairSpec ==
  /\ Spec
  /\ WF_vars(Connect) /\ WF_vars(Receive)
  /\ \A i \in Instances : WF_vars(Dispatch(i)) /\ WF_vars(LapseUnanswered(i))
  /\ WF_vars(\E r \in runners : RunnerStep(r))

-----------------------------------------------------------------------------
(* Properties *)

\* What a runner executes whose answer the sidecar will accept is the committed history.
ReplaysTheCommitted ==
  \A r \in runners :
    r.at \notin {"resolve", "fetch"} /\ pending[r.instance] = r.token
      => r.history = committed[r.instance]

\* The same, unless a dispatch was overtaken between the check of its token and its write, or
\* wrote when a completed turn had dropped the marker.
ReplaysTheCommittedUnlessOvertaken == ~overtaken => ReplaysTheCommitted

\* However often histories are evicted, expire or cannot be fetched, every workflow gets on, and no
\* lease has to lapse for that but those of items whose execution threw or whose answer was lost.
EveryTurnEnds == <>(\A i \in Instances : i \in ended \/ turns[i] = MaxTurns[i])
=============================================================================
