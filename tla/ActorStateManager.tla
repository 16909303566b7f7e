--------------------------- MODULE ActorStateManager ---------------------------
(***************************************************************************)
(* ActorStateManager: the tracker of an actor's state changes, in front of  *)
(* the state store of the sidecar (DaprStateAsyncProvider).                 *)
(*                                                                         *)
(* An operation that must ask the store waits in `operations` and goes on   *)
(* when the store has answered; meanwhile others may run.  The methods of   *)
(* an actor are taken to compose what concerns one state (then, flatMap):   *)
(* one operation at a time for each name, and none during a save.           *)
(***************************************************************************)
EXTENDS Naturals, FiniteSets

CONSTANTS
  StateNames,  \* names of states
  Values,      \* what a state may hold (serialized: not empty)
  NoValue      \* no state: null, an empty Mono

ASSUME NoValueAssumption == NoValue \notin Values

VARIABLES
  store,               \* external: name -> value or NoValue
  stateChangeTracker,  \* some names -> [kind, value]
  operations,          \* names with an operation that waits -> [op, value, answered, read]
  saving,              \* [stage, changes] of save(): "no", "applying", "applied"
  answer               \* what the last step answered its caller, or <<>>

stateVars == <<store, stateChangeTracker, operations, saving, answer>>

Stored == Values \union {NoValue}
Metadata ==
  [kind : {"NONE", "ADD", "UPDATE"}, value : Values] \union [kind : {"REMOVE"}, value : {NoValue}]

NoChanges == [n \in {} |-> NoValue]
NotSaving == [stage |-> "no", changes |-> NoChanges]

EmptyTracker == [n \in {} |-> [kind |-> "NONE", value |-> NoValue]]
NoOperations == [n \in {} |-> [op |-> "get", value |-> NoValue, answered |-> FALSE,
                               read |-> NoValue]]

StateInit ==
  /\ store \in [StateNames -> Stored]
  /\ stateChangeTracker = EmptyTracker /\ operations = NoOperations
  /\ saving = NotSaving /\ answer = <<>>

Tracked(n) == n \in DOMAIN stateChangeTracker
Kind(n) == stateChangeTracker[n].kind
Cached(n) == stateChangeTracker[n].value

With(f, n, r) == [m \in DOMAIN f \union {n} |-> IF m = n THEN r ELSE f[m]]
Without(f, n) == [m \in DOMAIN f \ {n} |-> f[m]]

Put(n, kind, value) ==
  stateChangeTracker' = With(stateChangeTracker, n, [kind |-> kind, value |-> value])

Answer(op, n, v) == answer' = <<op, n, v>>

-----------------------------------------------------------------------------
(* Operations: those the tracker can answer, and those that ask the store *)

Idle(n) == saving.stage = "no" /\ n \notin DOMAIN operations

Ask(op, n, v) ==
  /\ operations' = With(operations, n, [op |-> op, value |-> v, answered |-> FALSE,
                                        read |-> NoValue])
  /\ answer' = <<>>
  /\ UNCHANGED <<store, stateChangeTracker, saving>>

\* A name that is marked for removal reads as one that is not there.
Get(n) ==
  /\ Idle(n)
  /\ \/ /\ Tracked(n)
        /\ Answer("get", n, IF Kind(n) = "REMOVE" THEN NoValue ELSE Cached(n))
        /\ UNCHANGED <<store, stateChangeTracker, operations, saving>>
     \/ ~Tracked(n) /\ Ask("get", n, NoValue)

Contains(n) ==
  /\ Idle(n)
  /\ \/ /\ Tracked(n)
        /\ Answer("contains", n, Kind(n) # "REMOVE")
        /\ UNCHANGED <<store, stateChangeTracker, operations, saving>>
     \/ ~Tracked(n) /\ Ask("contains", n, NoValue)

\* A mistake the runs must notice: a value that was read and then set counts as unchanged.
KindKept(kind) == kind

KindOnSet(kind) == IF kind \in {"NONE", "REMOVE"} THEN "UPDATE" ELSE kind

Set(n, v) ==
  /\ Idle(n)
  /\ \/ /\ Tracked(n)
        /\ Put(n, KindOnSet(Kind(n)), v)
        /\ Answer("set", n, v)
        /\ UNCHANGED <<store, operations, saving>>
     \/ ~Tracked(n) /\ Ask("set", n, v)

\* add() asks the store first, whatever is tracked.
Add(n, v) == Idle(n) /\ Ask("add", n, v)

\* A mistake the runs must notice: an entry that was added is only dropped.
AddedIsDropped(n) ==
  IF Tracked(n) /\ Kind(n) = "ADD"
  THEN stateChangeTracker' = Without(stateChangeTracker, n)
  ELSE Put(n, "REMOVE", NoValue)

\* An entry that was added is dropped, then marked for removal all the same.
MarkRemoved(n) == Put(n, "REMOVE", NoValue)

Remove(n) ==
  /\ Idle(n)
  /\ \/ /\ Tracked(n)
        /\ MarkRemoved(n)
        /\ Answer("remove", n, NoValue)
        /\ UNCHANGED <<store, operations, saving>>
     \/ ~Tracked(n) /\ Ask("remove", n, NoValue)

Operation ==
  \E n \in StateNames :
    \/ Get(n) \/ Contains(n) \/ Remove(n)
    \/ \E v \in Values : Set(n, v) \/ Add(n, v)

-----------------------------------------------------------------------------
(* Answers of the store *)

\* The sidecar reads the state.
StoreReads(n) ==
  /\ ~operations[n].answered
  /\ operations' = [operations EXCEPT ![n].answered = TRUE, ![n].read = store[n]]
  /\ answer' = <<>>
  /\ UNCHANGED <<store, stateChangeTracker, saving>>

\* The answer is an error, or is cancelled: the operation is over and did nothing.
StoreFails(n) ==
  /\ operations' = Without(operations, n)
  /\ answer' = <<>>
  /\ UNCHANGED <<store, stateChangeTracker, saving>>

\* A mistake the runs must notice: that there is no state is cached.
AbsenceIsCached(n, read) == Put(n, "NONE", read) /\ Answer("get", n, read)

\* A state that is not there is an error, and not cached.
FinishGet(n, read) ==
  /\ IF read = NoValue THEN UNCHANGED stateChangeTracker ELSE Put(n, "NONE", read)
  /\ Answer("get", n, read)

FinishContains(n, read) ==
  Answer("contains", n, read # NoValue) /\ UNCHANGED stateChangeTracker

FinishSet(n, v, read) ==
  Put(n, IF read = NoValue THEN "ADD" ELSE "UPDATE", v) /\ Answer("set", n, v)

FinishAdd(n, v, read) ==
  IF Tracked(n)
  THEN IF Kind(n) = "REMOVE"
       THEN Put(n, "UPDATE", v) /\ Answer("add", n, v)
       ELSE Answer("duplicate", n, v) /\ UNCHANGED stateChangeTracker
  ELSE IF read # NoValue
       THEN Answer("duplicate", n, v) /\ UNCHANGED stateChangeTracker
       ELSE Put(n, "ADD", v) /\ Answer("add", n, v)

FinishRemove(n, read) ==
  /\ IF read = NoValue THEN UNCHANGED stateChangeTracker ELSE MarkRemoved(n)
  /\ Answer("remove", n, NoValue)

\* The operation goes on with what was read.
Finish(n) ==
  LET o == operations[n]
  IN /\ o.answered
     /\ operations' = Without(operations, n)
     /\ UNCHANGED <<store, saving>>
     /\ \/ o.op = "get" /\ FinishGet(n, o.read)
        \/ o.op = "contains" /\ FinishContains(n, o.read)
        \/ o.op = "set" /\ FinishSet(n, o.value, o.read)
        \/ o.op = "add" /\ FinishAdd(n, o.value, o.read)
        \/ o.op = "remove" /\ FinishRemove(n, o.read)

StoreAnswers ==
  \E n \in DOMAIN operations : StoreReads(n) \/ StoreFails(n) \/ Finish(n)

-----------------------------------------------------------------------------
(* Saving *)

\* ADD and UPDATE upsert the value, REMOVE deletes: its value is null.
Changes ==
  [n \in {m \in DOMAIN stateChangeTracker : Kind(m) # "NONE"} |-> Cached(n)]

\* save() with nothing to change does not call the store.
Save ==
  /\ saving.stage = "no" /\ DOMAIN operations = {}
  /\ saving' = [stage |-> IF DOMAIN Changes = {} THEN "applied" ELSE "applying",
                changes |-> Changes]
  /\ answer' = <<>>
  /\ UNCHANGED <<store, stateChangeTracker, operations>>

\* External: one transaction.
StoreApplies ==
  /\ saving.stage = "applying"
  /\ store' = [n \in StateNames |->
                 IF n \in DOMAIN saving.changes THEN saving.changes[n] ELSE store[n]]
  /\ saving' = [saving EXCEPT !.stage = "applied"]
  /\ answer' = <<>>
  /\ UNCHANGED <<stateChangeTracker, operations>>

\* flush(): what was removed is forgotten, the rest is as in the store.
Flush ==
  /\ saving.stage = "applied"
  /\ stateChangeTracker' =
       [n \in {m \in DOMAIN stateChangeTracker : Kind(m) # "REMOVE"} |->
          [kind |-> "NONE", value |-> Cached(n)]]
  /\ saving' = NotSaving
  /\ answer' = <<>>
  /\ UNCHANGED <<store, operations>>

\* The transaction fails, or its answer is lost after it was applied: nothing is flushed.
SaveFails ==
  /\ saving.stage # "no" /\ DOMAIN saving.changes # {}
  /\ saving' = NotSaving
  /\ answer' = <<>>
  /\ UNCHANGED <<store, stateChangeTracker, operations>>

\* clear(); operations that were under way are cancelled with their call.
Clear ==
  /\ stateChangeTracker' = EmptyTracker
  /\ operations' = NoOperations /\ saving' = NotSaving
  /\ answer' = <<>>
  /\ UNCHANGED store

-----------------------------------------------------------------------------
\* What a read returns: the tracker in front of the store.
View == [n \in StateNames |-> IF Tracked(n) THEN Cached(n) ELSE store[n]]

StateTypeOK ==
  /\ store \in [StateNames -> Stored]
  /\ DOMAIN stateChangeTracker \subseteq StateNames
  /\ \A n \in DOMAIN stateChangeTracker : stateChangeTracker[n] \in Metadata
  /\ DOMAIN operations \subseteq StateNames
  /\ \A n \in DOMAIN operations :
       operations[n] \in
         [op : {"get", "contains", "remove"}, value : {NoValue}, answered : BOOLEAN, read : Stored]
           \union [op : {"set", "add"}, value : Values, answered : BOOLEAN, read : Stored]
  /\ saving = [stage |-> saving.stage, changes |-> saving.changes]
  /\ saving.stage \in {"no", "applying", "applied"}
  /\ DOMAIN saving.changes \subseteq StateNames
  /\ \A n \in DOMAIN saving.changes : saving.changes[n] \in Stored

Promise == INSTANCE TransactionalState WITH committed <- store, view <- View

\* The tracker in front of the store behaves like one state that reads see at once and saves
\* commit as a whole, whatever operations overlap and whichever answers of the store are lost.
IsTransactional == Promise!Spec
=============================================================================
