------------------------------- MODULE ActorTurns -------------------------------
(***************************************************************************)
(* ActorRuntime, ActorManager and AbstractActor: activation, calls (also of *)
(* timers and reminders) and deactivation of one actor, over its state.     *)
(*                                                                         *)
(* The sidecar makes one request for an actor at a time.                    *)
(***************************************************************************)
EXTENDS ActorStateManager

CONSTANTS
  MaxRequests,   \* bound: requests of the sidecar
  MaxOperations  \* bound: operations and saves the actor's code makes for one request

ASSUME RequestsAssumption == MaxRequests \in Nat /\ MaxOperations \in Nat

VARIABLES
  phase,       \* what the request under way has come to
  active,      \* the actor is in activeActors
  started,     \* its field of that name
  result,      \* how the last request ended
  written,     \* what the request has written so far: names -> [value, early]
  requests, calls  \* counters against the bounds

turnVars == <<phase, active, started, result, written, requests, calls>>
vars == <<stateVars, turnVars>>

\* Where code of the actor's class runs.  Chains are built before they run, and to build them
\* the hooks and a method that returns a Mono are called outright: their bodies run in
\* "construct" (with the constructor), "assemble" and "dismantle", what they return in the
\* other phases.
EarlyPhases == {"construct", "assemble", "dismantle"}
UserPhases == EarlyPhases \union {"onActivate", "method", "onPost", "onDeactivate"}
Phases == UserPhases \union {"idle", "activated", "rolledBack", "posted"}

NothingWritten == [n \in {} |-> [value |-> NoValue, early |-> FALSE]]

Init ==
  /\ StateInit
  /\ phase = "idle" /\ active = FALSE /\ started = FALSE
  /\ result = "none" /\ written = NothingWritten /\ requests = 0 /\ calls = 0

Quiet == saving.stage = "no" /\ DOMAIN operations = {}

GoTo(p) == phase' = p
End(how) == phase' = "idle" /\ result' = how

-----------------------------------------------------------------------------
(* Requests *)

Arrive ==
  /\ phase = "idle" /\ requests < MaxRequests
  /\ requests' = requests + 1 /\ calls' = 0
  /\ written' = NothingWritten /\ result' = "none"

\* invoke(), invokeTimer(), invokeReminder() activate the actor first: a new one.
Activate ==
  /\ ~active
  /\ Arrive
  /\ GoTo("construct")
  /\ Clear
  /\ started' = FALSE
  /\ UNCHANGED active

Invoke ==
  /\ active
  /\ Arrive
  /\ GoTo("assemble")
  /\ UNCHANGED <<store, stateChangeTracker, operations, saving, active, started>>
  /\ answer' = <<>>

Deactivate ==
  /\ active
  /\ Arrive
  /\ GoTo("dismantle")
  /\ active' = FALSE
  /\ answer' = <<>>
  /\ UNCHANGED <<store, stateChangeTracker, operations, saving, started>>

-----------------------------------------------------------------------------
(* The code of the actor *)

WriteOps == {"set", "add", "remove"}

\* Writes that were answered are noted, with the phase they were made in.
Noted ==
  written' = IF answer' # <<>> /\ answer'[1] \in WriteOps
             THEN With(written, answer'[2], [value |-> answer'[3], early |-> phase \in EarlyPhases])
             ELSE written

UserOperation ==
  /\ phase \in UserPhases /\ calls < MaxOperations
  /\ calls' = calls + 1
  /\ Operation
  /\ Noted
  /\ UNCHANGED <<phase, active, started, result, requests>>

UserSave ==
  /\ phase \in UserPhases /\ calls < MaxOperations
  /\ calls' = calls + 1
  /\ Save
  /\ UNCHANGED <<phase, active, started, result, written, requests>>

\* The store answers the code; an exception may be caught.
StoreAnswersUser ==
  /\ phase \in UserPhases
  /\ StoreAnswers \/ Flush \/ SaveFails
  /\ Noted
  /\ UNCHANGED <<phase, active, started, result, requests, calls>>

StoreAppliesSave == StoreApplies /\ UNCHANGED turnVars

-----------------------------------------------------------------------------
(* The request *)

\* An actor that is not in activeActors, or is on its way out, is forgotten with its state.
Forgotten ==
  IF active
  THEN /\ operations' = NoOperations /\ saving' = NotSaving /\ answer' = <<>>
       /\ UNCHANGED <<store, stateChangeTracker>>
  ELSE Clear

\* The code throws, or an error reaches the end of its chain; nothing is rolled back.
Throw ==
  /\ phase \in UserPhases /\ saving.stage = "no"
  /\ End("failed")
  /\ Forgotten
  /\ UNCHANGED <<active, started, written, requests, calls>>

SaveOfRequestFails ==
  /\ phase \in {"activated", "posted"}
  /\ saving.stage # "no" /\ DOMAIN saving.changes # {}
  /\ End("failed")
  /\ Forgotten
  /\ UNCHANGED <<active, started, written, requests, calls>>

\* onActivateInternal() and onDeactivateInternal() begin by resetting the state.
ResetState ==
  /\ phase \in {"construct", "dismantle"} /\ Quiet
  /\ Clear
  /\ GoTo(IF phase = "construct" THEN "onActivate" ELSE "onDeactivate")
  /\ UNCHANGED <<active, started, result, written, requests, calls>>

\* Activation ends by saving; then the actor is put into activeActors.
SaveActivated ==
  /\ phase = "onActivate"
  /\ Save
  /\ GoTo("activated")
  /\ UNCHANGED <<active, started, result, written, requests, calls>>

\* A reminder goes no further if the actor's class takes none.
OnActivatedActor ==
  /\ phase = "activated"
  /\ Flush
  /\ active' = TRUE
  /\ GoTo("assemble") \/ GoTo("idle")
  /\ UNCHANGED <<started, result, written, requests, calls>>

\* A mistake the runs must notice: a call that failed leaves the actor in it.
RollbackKeepsStarted ==
  /\ phase = "assemble" /\ Quiet
  /\ Clear
  /\ GoTo("rolledBack")
  /\ UNCHANGED <<active, started, result, written, requests, calls>>

\* rollback(true).
Rollback ==
  /\ phase = "assemble" /\ Quiet
  /\ Clear
  /\ started' = FALSE
  /\ GoTo("rolledBack")
  /\ UNCHANGED <<active, result, written, requests, calls>>

OnPreActorMethodInternal ==
  /\ phase = "rolledBack"
  /\ \/ ~started /\ started' = TRUE /\ GoTo("method") /\ UNCHANGED result
     \/ started /\ End("refused") /\ UNCHANGED started
  /\ answer' = <<>>
  /\ UNCHANGED <<store, stateChangeTracker, operations, saving, active, written, requests, calls>>

\* The method is over and its actor still in a call.
OnPostActorMethodInternal ==
  /\ phase = "method" /\ Quiet
  /\ \/ started /\ GoTo("onPost") /\ UNCHANGED result
     \/ ~started /\ End("refused")
  /\ answer' = <<>>
  /\ UNCHANGED <<store, stateChangeTracker, operations, saving, active, started, written, requests,
                 calls>>

SavePosted ==
  /\ phase = "onPost"
  /\ Save
  /\ GoTo("posted")
  /\ UNCHANGED <<active, started, result, written, requests, calls>>

Complete ==
  /\ phase = "posted"
  /\ Flush
  /\ started' = FALSE
  /\ End("ok")
  /\ UNCHANGED <<active, written, requests, calls>>

\* What onDeactivate() wrote is not saved.
Deactivated ==
  /\ phase = "onDeactivate" /\ Quiet
  /\ End("deactivated")
  /\ Clear
  /\ UNCHANGED <<active, started, written, requests, calls>>

\* The sidecar may make no further request.
Rest == phase = "idle" /\ UNCHANGED vars

Next ==
  \/ Activate \/ Invoke \/ Deactivate
  \/ UserOperation \/ UserSave \/ StoreAnswersUser \/ StoreAppliesSave
  \/ Throw \/ SaveOfRequestFails
  \/ ResetState \/ SaveActivated \/ OnActivatedActor \/ Rollback \/ OnPreActorMethodInternal
  \/ OnPostActorMethodInternal \/ SavePosted \/ Complete \/ Deactivated
  \/ Rest

Spec == Init /\ [][Next]_vars

-----------------------------------------------------------------------------
(* Properties *)

\* The state has its type: one type invariant for the actor.
ActorTypeOK ==
  /\ StateTypeOK
  /\ phase \in Phases /\ active \in BOOLEAN /\ started \in BOOLEAN
  /\ result \in {"none", "ok", "failed", "refused", "deactivated"}
  /\ DOMAIN written \subseteq StateNames
  /\ \A n \in DOMAIN written : written[n] \in [value : Stored, early : BOOLEAN]
  /\ requests \in 0..MaxRequests /\ calls \in 0..MaxOperations

\* With one request at a time the checks of `started` never refuse one, also after requests
\* that failed half-way and left the flag set.
NeverRefused == result # "refused"

\* A call that succeeded has all it wrote in the store, but for writes made while a chain was
\* built, by the body of a hook or of a method that returns a Mono: the reset or rollback at the
\* beginning of the chain forgets them.
OnlyEarlyWritesAreLost ==
  result = "ok" =>
    \A n \in DOMAIN written : written[n].early \/ store[n] = written[n].value
=============================================================================
