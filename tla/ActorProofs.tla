------------------------------ MODULE ActorProofs ------------------------------
(***************************************************************************)
(* The state of an actor is transactional, whatever its names, its values   *)
(* and its requests; calls are never refused, and commit what they wrote.   *)
(***************************************************************************)
EXTENDS ActorTurns, TLAPS

\* What the tracker, the operations under way and a save know of the store.
StateInv ==
  /\ \A n \in DOMAIN stateChangeTracker : Kind(n) = "NONE" => Cached(n) = store[n]
  /\ \A n \in DOMAIN operations :
       /\ operations[n].op # "add" => ~Tracked(n)
       /\ operations[n].answered => operations[n].read = store[n]
  /\ saving.stage # "no" => DOMAIN operations = {} /\ saving.changes = Changes
  /\ saving.stage = "applied" => \A n \in DOMAIN stateChangeTracker : Cached(n) = store[n]

StateGood == StateTypeOK /\ StateInv

\* The abstract steps that do not discard what was written.
Continue ==
  \/ \E n \in StateNames :
       \/ Promise!Get(n) \/ Promise!Contains(n) \/ Promise!Write("remove", n, NoValue)
       \/ \E v \in Values :
            Promise!Write("set", n, v) \/ Promise!Add(n, v) \/ Promise!Duplicate(n, v)
  \/ Promise!Save \/ Promise!Wait

\* A step of the state manager keeps its invariant and is one of these.
Good == StateGood' /\ Continue

-----------------------------------------------------------------------------
(* The view *)

LEMMA ViewSame ==
  ASSUME UNCHANGED <<store, stateChangeTracker>>
  PROVE  View' = View
BY DEF View, Tracked, Cached

LEMMA ViewAt ==
  ASSUME NEW n \in StateNames
  PROVE  View[n] = IF Tracked(n) THEN Cached(n) ELSE store[n]
BY DEF View

LEMMA ViewPut ==
  ASSUME NEW n \in StateNames, NEW kind, NEW v, Put(n, kind, v), UNCHANGED store
  PROVE  View' = [View EXCEPT ![n] = v]
<1>1. /\ DOMAIN stateChangeTracker' = DOMAIN stateChangeTracker \union {n}
      /\ stateChangeTracker'[n] = [kind |-> kind, value |-> v]
      /\ \A m \in DOMAIN stateChangeTracker :
           m # n => stateChangeTracker'[m] = stateChangeTracker[m]
  BY DEF Put, With
<1>2. ASSUME NEW m \in StateNames
      PROVE  View'[m] = IF m = n THEN v ELSE View[m]
  BY <1>1, <1>2 DEF View, Tracked, Cached
<1> QED BY <1>2 DEF View

\* To put what is read already changes nothing of what is read.
LEMMA ViewPutSame ==
  ASSUME NEW n \in StateNames, NEW kind, Put(n, kind, View[n]), UNCHANGED store
  PROVE  View' = View
<1>1. View' = [View EXCEPT ![n] = View[n]]
  BY ViewPut
<1> QED BY <1>1 DEF View

LEMMA StoreTyped ==
  ASSUME StateTypeOK, NEW n \in StateNames
  PROVE  store[n] \in Stored
BY DEF StateTypeOK

\* The tracker keeps its type and its invariant when an entry is put that is a change, or the
\* value of the store, under a name with no operation.
LEMMA PutGood ==
  ASSUME StateGood, NEW n \in StateNames, NEW kind, NEW v, Put(n, kind, v),
         [kind |-> kind, value |-> v] \in Metadata,
         kind = "NONE" => v = store[n],
         saving.stage = "no",
         operations' = operations \/ operations' = Without(operations, n),
         n \in DOMAIN operations => operations' = Without(operations, n),
         UNCHANGED <<store, saving>>
  PROVE  StateGood'
<1>1. /\ DOMAIN stateChangeTracker' = DOMAIN stateChangeTracker \union {n}
      /\ stateChangeTracker'[n] = [kind |-> kind, value |-> v]
      /\ \A m \in DOMAIN stateChangeTracker :
           m # n => stateChangeTracker'[m] = stateChangeTracker[m]
  BY DEF Put, With
<1>2. /\ DOMAIN operations' \subseteq DOMAIN operations \ {n}
      /\ \A m \in DOMAIN operations' : operations'[m] = operations[m]
  BY DEF Without
<1>3. StateTypeOK'
  BY <1>1, <1>2 DEF StateGood, StateTypeOK
<1>4. \A m \in DOMAIN stateChangeTracker' : (Kind(m) = "NONE" => Cached(m) = store[m])'
  BY <1>1 DEF StateGood, StateInv, Kind, Cached
<1>5. \A m \in DOMAIN operations' :
        /\ operations'[m].op # "add" => ~(Tracked(m)')
        /\ operations'[m].answered => operations'[m].read = store'[m]
  BY <1>1, <1>2 DEF StateGood, StateInv, Tracked
<1> QED BY <1>3, <1>4, <1>5 DEF StateGood, StateInv

\* Nor does it matter that operations end or begin while the tracker stays.
LEMMA SameGood ==
  ASSUME StateGood, UNCHANGED <<store, stateChangeTracker, saving>>, saving.stage = "no",
         NEW n \in StateNames,
         operations' = operations \/ operations' = Without(operations, n)
  PROVE  StateGood'
<1>1. /\ DOMAIN operations' \subseteq DOMAIN operations
      /\ \A m \in DOMAIN operations' : operations'[m] = operations[m]
  BY DEF Without
<1>2. StateTypeOK'
  BY <1>1 DEF StateGood, StateTypeOK
<1>3. \A m \in DOMAIN stateChangeTracker' : (Kind(m) = "NONE" => Cached(m) = store[m])'
  BY DEF StateGood, StateInv, Kind, Cached
<1>4. \A m \in DOMAIN operations' :
        /\ operations'[m].op # "add" => ~(Tracked(m)')
        /\ operations'[m].answered => operations'[m].read = store'[m]
  BY <1>1 DEF StateGood, StateInv, Tracked
<1> QED BY <1>2, <1>3, <1>4 DEF StateGood, StateInv

-----------------------------------------------------------------------------
(* Operations *)

\* To ask the store is to wait.
LEMMA AskGood ==
  ASSUME StateGood, NEW n \in StateNames, Idle(n), NEW op, NEW v, Ask(op, n, v),
         \/ op \in {"get", "contains", "remove"} /\ v = NoValue
         \/ op \in {"set", "add"} /\ v \in Values,
         op # "add" => ~Tracked(n)
  PROVE  Good
<1> DEFINE o == [op |-> op, value |-> v, answered |-> FALSE, read |-> NoValue]
<1>1. /\ DOMAIN operations' = DOMAIN operations \union {n}
      /\ operations'[n] = o
      /\ \A m \in DOMAIN operations : m # n => operations'[m] = operations[m]
  BY DEF Ask, With
<1>2. UNCHANGED <<store, stateChangeTracker, saving>> /\ saving.stage = "no" /\ answer' = <<>>
  BY DEF Ask, Idle
<1>3. o \in [op : {"get", "contains", "remove"}, value : {NoValue}, answered : BOOLEAN,
             read : Stored]
        \union [op : {"set", "add"}, value : Values, answered : BOOLEAN, read : Stored]
  BY DEF Stored
<1> HIDE DEF o
<1>4. StateTypeOK'
  BY <1>1, <1>2, <1>3 DEF StateGood, StateTypeOK
<1>5. \A m \in DOMAIN stateChangeTracker' : (Kind(m) = "NONE" => Cached(m) = store[m])'
  BY <1>2 DEF StateGood, StateInv, Kind, Cached
<1>6. \A m \in DOMAIN operations' :
        /\ operations'[m].op # "add" => ~(Tracked(m)')
        /\ operations'[m].answered => operations'[m].read = store'[m]
  BY <1>1, <1>2 DEF StateGood, StateInv, Tracked, o
<1>7. StateGood'
  BY <1>2, <1>4, <1>5, <1>6 DEF StateGood, StateInv
<1>8. Promise!Wait
  BY <1>2, ViewSame DEF Promise!Wait
<1> QED BY <1>7, <1>8 DEF Good, Continue

\* What is cached is what a read returns.
LEMMA CachedIsRead ==
  ASSUME StateGood, NEW n \in StateNames, Tracked(n)
  PROVE  /\ View[n] = Cached(n)
         /\ Kind(n) \in {"NONE", "ADD", "UPDATE", "REMOVE"}
         /\ Kind(n) = "REMOVE" <=> View[n] = NoValue
         /\ Kind(n) # "REMOVE" => Cached(n) \in Values
<1>1. stateChangeTracker[n] \in Metadata
  BY DEF StateGood, StateTypeOK, Tracked
<1> QED BY <1>1, ViewAt, NoValueAssumption DEF Metadata, Kind, Cached

LEMMA GetGood ==
  ASSUME StateGood, NEW n \in StateNames, Get(n)
  PROVE  Good
<1>1. CASE Tracked(n) /\ UNCHANGED <<store, stateChangeTracker, operations, saving>>
           /\ Answer("get", n, IF Kind(n) = "REMOVE" THEN NoValue ELSE Cached(n))
  <2>1. StateGood'
    BY <1>1, SameGood DEF Get, Idle
  <2>2. answer' = <<"get", n, View[n]>>
    BY <1>1, CachedIsRead DEF Answer
  <2> QED BY <1>1, <2>1, <2>2, ViewSame DEF Good, Continue, Promise!Get
<1>2. CASE ~Tracked(n) /\ Ask("get", n, NoValue)
  BY <1>2, AskGood DEF Get
<1> QED BY <1>1, <1>2 DEF Get

LEMMA ContainsGood ==
  ASSUME StateGood, NEW n \in StateNames, Contains(n)
  PROVE  Good
<1>1. CASE Tracked(n) /\ UNCHANGED <<store, stateChangeTracker, operations, saving>>
           /\ Answer("contains", n, Kind(n) # "REMOVE")
  <2>1. StateGood'
    BY <1>1, SameGood DEF Contains, Idle
  <2>2. (Kind(n) # "REMOVE") = (View[n] # NoValue)
    BY <1>1, CachedIsRead
  <2>3. answer' = <<"contains", n, View[n] # NoValue>>
    BY <1>1, <2>2 DEF Answer
  <2> QED BY <1>1, <2>1, <2>3, ViewSame DEF Good, Continue, Promise!Contains
<1>2. CASE ~Tracked(n) /\ Ask("contains", n, NoValue)
  BY <1>2, AskGood DEF Contains
<1> QED BY <1>1, <1>2 DEF Contains

LEMMA SetGood ==
  ASSUME StateGood, NEW n \in StateNames, NEW v \in Values, Set(n, v)
  PROVE  Good
<1>1. CASE Tracked(n) /\ Put(n, KindOnSet(Kind(n)), v) /\ Answer("set", n, v)
           /\ UNCHANGED <<store, operations, saving>>
  <2>1. KindOnSet(Kind(n)) \in {"ADD", "UPDATE"}
    BY <1>1, CachedIsRead DEF KindOnSet
  <2>2. [kind |-> KindOnSet(Kind(n)), value |-> v] \in Metadata
    BY <2>1 DEF Metadata
  <2>3. StateGood'
    BY <1>1, <2>1, <2>2, PutGood DEF Set, Idle
  <2>4. Promise!Write("set", n, v)
    BY <1>1, ViewPut DEF Promise!Write, Answer
  <2> QED BY <2>3, <2>4 DEF Good, Continue
<1>2. CASE ~Tracked(n) /\ Ask("set", n, v)
  BY <1>2, AskGood DEF Set
<1> QED BY <1>1, <1>2 DEF Set

LEMMA RemoveGood ==
  ASSUME StateGood, NEW n \in StateNames, Remove(n)
  PROVE  Good
<1>1. CASE Tracked(n) /\ MarkRemoved(n) /\ Answer("remove", n, NoValue)
           /\ UNCHANGED <<store, operations, saving>>
  <2>1. [kind |-> "REMOVE", value |-> NoValue] \in Metadata
    BY DEF Metadata
  <2>2. StateGood'
    BY <1>1, <2>1, PutGood DEF Remove, Idle, MarkRemoved
  <2>3. Promise!Write("remove", n, NoValue)
    BY <1>1, ViewPut DEF Promise!Write, Answer, MarkRemoved
  <2> QED BY <2>2, <2>3 DEF Good, Continue
<1>2. CASE ~Tracked(n) /\ Ask("remove", n, NoValue)
  BY <1>2, AskGood DEF Remove
<1> QED BY <1>1, <1>2 DEF Remove

LEMMA OperationGood ==
  ASSUME StateGood, Operation
  PROVE  Good
<1>1. ASSUME NEW n \in StateNames, NEW v \in Values, Add(n, v)
      PROVE  Good
  BY <1>1, AskGood DEF Add
<1> QED BY <1>1, GetGood, ContainsGood, RemoveGood, SetGood DEF Operation

-----------------------------------------------------------------------------
(* Answers of the store *)

\* While an operation waits nothing is saved.
LEMMA NoSaveMeanwhile ==
  ASSUME StateGood, NEW n \in DOMAIN operations
  PROVE  /\ saving.stage = "no" /\ n \in StateNames
         /\ operations[n].op # "add" => ~Tracked(n)
         /\ operations[n].answered => operations[n].read = store[n]
         /\ operations[n].op \in {"set", "add"} => operations[n].value \in Values
         /\ operations[n].op \in {"get", "contains", "set", "add", "remove"}
BY DEF StateGood, StateTypeOK, StateInv

LEMMA StoreReadsGood ==
  ASSUME StateGood, NEW n \in DOMAIN operations, StoreReads(n)
  PROVE  Good
<1>1. saving.stage = "no" /\ n \in StateNames
  BY NoSaveMeanwhile
<1>2. /\ DOMAIN operations' = DOMAIN operations
      /\ operations'[n] = [operations[n] EXCEPT !.answered = TRUE, !.read = store[n]]
      /\ \A m \in DOMAIN operations : m # n => operations'[m] = operations[m]
  BY DEF StoreReads
<1>3. operations[n] \in
        [op : {"get", "contains", "remove"}, value : {NoValue}, answered : BOOLEAN, read : Stored]
          \union [op : {"set", "add"}, value : Values, answered : BOOLEAN, read : Stored]
  BY DEF StateGood, StateTypeOK
<1>4. store[n] \in Stored
  BY <1>1, StoreTyped DEF StateGood
<1>5. /\ operations'[n] \in
           [op : {"get", "contains", "remove"}, value : {NoValue}, answered : BOOLEAN,
            read : Stored]
             \union [op : {"set", "add"}, value : Values, answered : BOOLEAN, read : Stored]
      /\ operations'[n].op = operations[n].op /\ operations'[n].read = store[n]
  BY <1>2, <1>3, <1>4
<1>6. StateTypeOK'
  BY <1>2, <1>5 DEF StateGood, StateTypeOK, StoreReads
<1>7. \A m \in DOMAIN stateChangeTracker' : (Kind(m) = "NONE" => Cached(m) = store[m])'
  BY DEF StateGood, StateInv, Kind, Cached, StoreReads
<1>8. \A m \in DOMAIN operations' :
        /\ operations'[m].op # "add" => ~(Tracked(m)')
        /\ operations'[m].answered => operations'[m].read = store'[m]
  BY <1>2, <1>5 DEF StateGood, StateInv, Tracked, StoreReads
<1>9. StateGood'
  BY <1>1, <1>6, <1>7, <1>8 DEF StateGood, StateInv, StoreReads
<1> QED BY <1>9, ViewSame DEF Good, StoreReads, Continue, Promise!Wait

LEMMA StoreFailsGood ==
  ASSUME StateGood, NEW n \in DOMAIN operations, StoreFails(n)
  PROVE  Good
<1>1. saving.stage = "no" /\ n \in StateNames
  BY NoSaveMeanwhile
<1>2. StateGood'
  BY <1>1, SameGood DEF StoreFails
<1> QED BY <1>2, ViewSame DEF Good, StoreFails, Continue, Promise!Wait

\* An operation that goes on is taken to happen now: no other has changed what it read.
LEMMA FinishGood ==
  ASSUME StateGood, NEW n \in DOMAIN operations, Finish(n)
  PROVE  Good
<1> DEFINE o == operations[n]
<1>1. /\ saving.stage = "no" /\ n \in StateNames
      /\ o.op # "add" => ~Tracked(n)
      /\ o.read = store[n]
      /\ o.op \in {"set", "add"} => o.value \in Values
      /\ operations' = Without(operations, n)
      /\ UNCHANGED <<store, saving>>
  BY NoSaveMeanwhile DEF Finish
<1>2. o.op # "add" => View[n] = o.read
  BY <1>1, ViewAt
<1>3. o.read \in Values \/ o.read = NoValue
  BY <1>1, StoreTyped DEF StateGood, Stored
<1> HIDE DEF o
<1>4. CASE o.op = "get" /\ FinishGet(n, o.read)
  <2>1. CASE o.read = NoValue /\ UNCHANGED stateChangeTracker
    BY <1>1, <1>2, <1>4, <2>1, SameGood, ViewSame
       DEF FinishGet, Answer, Good, Continue, Promise!Get
  <2>2. CASE o.read # NoValue /\ Put(n, "NONE", o.read)
    <3>1. [kind |-> "NONE", value |-> o.read] \in Metadata
      BY <1>3, <2>2 DEF Metadata
    <3>2. StateGood'
      BY <1>1, <2>2, <3>1, PutGood
    <3>3. View' = View
      BY <1>1, <1>2, <1>4, <2>2, ViewPutSame
    <3> QED BY <1>1, <1>2, <1>4, <3>2, <3>3
            DEF FinishGet, Answer, Good, Continue, Promise!Get
  <2> QED BY <1>4, <2>1, <2>2 DEF FinishGet
<1>5. CASE o.op = "contains" /\ FinishContains(n, o.read)
  BY <1>1, <1>2, <1>5, SameGood, ViewSame
     DEF FinishContains, Answer, Good, Continue, Promise!Contains
<1>6. CASE o.op = "set" /\ FinishSet(n, o.value, o.read)
  <2> DEFINE kind == IF o.read = NoValue THEN "ADD" ELSE "UPDATE"
  <2>1. o.value \in Values /\ Put(n, kind, o.value) /\ Answer("set", n, o.value)
    BY <1>1, <1>6 DEF FinishSet
  <2>2. [kind |-> kind, value |-> o.value] \in Metadata
    BY <2>1 DEF Metadata
  <2>3. kind # "NONE"
    OBVIOUS
  <2> HIDE DEF kind
  <2>4. StateGood'
    BY <1>1, <2>1, <2>2, <2>3, PutGood
  <2>5. Promise!Write("set", n, o.value)
    BY <1>1, <2>1, ViewPut DEF Answer, Promise!Write
  <2> QED BY <1>1, <2>1, <2>4, <2>5 DEF Good, Continue
<1>7. CASE o.op = "add" /\ FinishAdd(n, o.value, o.read)
  <2>1. o.value \in Values
    BY <1>1, <1>7
  <2>2. ((Tracked(n) /\ Kind(n) = "REMOVE") \/ (~Tracked(n) /\ o.read = NoValue))
          <=> (View[n] = NoValue)
    BY <1>1, CachedIsRead, ViewAt
  <2>3. ASSUME NEW kind \in {"ADD", "UPDATE"}, Put(n, kind, o.value), Answer("add", n, o.value),
               View[n] = NoValue
        PROVE  Good
    <3>1. [kind |-> kind, value |-> o.value] \in Metadata
      BY <2>1 DEF Metadata
    <3>2. StateGood'
      BY <1>1, <2>3, <3>1, PutGood
    <3>3. Promise!Write("add", n, o.value)
      BY <1>1, <2>3, ViewPut DEF Answer, Promise!Write
    <3> QED BY <1>1, <2>1, <2>3, <3>2, <3>3 DEF Good, Continue, Promise!Add
  <2>4. ASSUME UNCHANGED stateChangeTracker, Answer("duplicate", n, o.value), View[n] # NoValue
        PROVE  Good
    <3>1. StateGood'
      BY <1>1, <2>4, SameGood
    <3>2. Promise!Duplicate(n, o.value)
      BY <1>1, <2>4, ViewSame DEF Answer, Promise!Duplicate
    <3> QED BY <1>1, <2>1, <3>1, <3>2 DEF Good, Continue
  <2> QED BY <1>7, <2>2, <2>3, <2>4 DEF FinishAdd
<1>8. CASE o.op = "remove" /\ FinishRemove(n, o.read)
  <2>1. CASE o.read = NoValue /\ UNCHANGED stateChangeTracker
    <3>1. StateGood'
      BY <1>1, <2>1, SameGood
    <3>2. View[n] = NoValue
      BY <1>2, <1>8, <2>1
    <3>3. View' = View
      BY <1>1, <2>1, ViewSame
    <3>4. [View EXCEPT ![n] = NoValue] = View
      BY <3>2 DEF View
    <3>5. Promise!Write("remove", n, NoValue)
      BY <1>1, <1>8, <3>3, <3>4 DEF FinishRemove, Answer, Promise!Write
    <3> QED BY <1>1, <3>1, <3>5 DEF Good, Continue
  <2>2. CASE o.read # NoValue /\ MarkRemoved(n)
    <3>1. [kind |-> "REMOVE", value |-> NoValue] \in Metadata
      BY DEF Metadata
    <3>2. StateGood'
      BY <1>1, <2>2, <3>1, PutGood DEF MarkRemoved
    <3>3. Promise!Write("remove", n, NoValue)
      BY <1>1, <1>8, <2>2, ViewPut DEF FinishRemove, Answer, Promise!Write, MarkRemoved
    <3> QED BY <1>1, <3>2, <3>3 DEF Good, Continue
  <2> QED BY <1>8, <2>1, <2>2 DEF FinishRemove
<1> QED BY <1>4, <1>5, <1>6, <1>7, <1>8 DEF Finish, o

LEMMA StoreAnswersGood ==
  ASSUME StateGood, StoreAnswers
  PROVE  Good
BY StoreReadsGood, StoreFailsGood, FinishGood DEF StoreAnswers

-----------------------------------------------------------------------------
(* Saving *)

LEMMA SaveGood ==
  ASSUME StateGood, Save
  PROVE  Good
<1>1. /\ saving'.stage \in {"applied", "applying"} /\ saving'.changes = Changes
      /\ saving' = [stage |-> saving'.stage, changes |-> saving'.changes]
      /\ saving'.stage = "applied" => DOMAIN Changes = {}
      /\ UNCHANGED <<store, stateChangeTracker, operations>> /\ DOMAIN operations = {}
  BY DEF Save
<1>2. /\ DOMAIN Changes \subseteq StateNames
      /\ \A n \in DOMAIN Changes : Changes[n] \in Stored
  BY DEF Changes, StateGood, StateTypeOK, Cached, Metadata, Stored
<1>3. Changes' = Changes
  BY <1>1 DEF Changes, Kind, Cached
<1>4. StateTypeOK'
  BY <1>1, <1>2 DEF StateGood, StateTypeOK
<1>5. \A n \in DOMAIN stateChangeTracker' : (Kind(n) = "NONE" => Cached(n) = store[n])'
  BY <1>1 DEF StateGood, StateInv, Kind, Cached
<1>6. DOMAIN Changes = {} => \A n \in DOMAIN stateChangeTracker : Cached(n) = store[n]
  BY DEF Changes, StateGood, StateInv
<1>7. saving'.stage = "applied" => \A n \in DOMAIN stateChangeTracker' : (Cached(n) = store[n])'
  BY <1>1, <1>6 DEF Cached
<1>8. StateGood'
  BY <1>1, <1>3, <1>4, <1>5, <1>7 DEF StateGood, StateInv
<1> QED BY <1>1, <1>8, ViewSame DEF Save, Good, Continue, Promise!Wait

\* What is applied is what reads return.
LEMMA StoreAppliesGood ==
  ASSUME StateGood, StoreApplies
  PROVE  Good /\ View' = View /\ store' = View
<1>1. /\ saving.stage = "applying" /\ saving.changes = Changes
      /\ DOMAIN operations = {}
      /\ UNCHANGED <<stateChangeTracker, operations>>
      /\ store' = [n \in StateNames |->
                     IF n \in DOMAIN saving.changes THEN saving.changes[n] ELSE store[n]]
  BY DEF StoreApplies, StateGood, StateInv
<1>2. /\ saving'.stage = "applied" /\ saving'.changes = saving.changes
      /\ saving' = [stage |-> saving'.stage, changes |-> saving'.changes]
  BY DEF StoreApplies, StateGood, StateTypeOK
<1>3. ASSUME NEW n \in StateNames
      PROVE  store'[n] = View[n]
  <2>1. CASE n \in DOMAIN Changes
    BY <1>1, <2>1, ViewAt DEF Changes, Tracked
  <2>2. CASE n \notin DOMAIN Changes /\ Tracked(n)
    BY <1>1, <2>2, ViewAt DEF Changes, Tracked, StateGood, StateInv
  <2>3. CASE ~Tracked(n)
    BY <1>1, <2>3, ViewAt DEF Changes, Tracked
  <2> QED BY <2>1, <2>2, <2>3
<1>4. store' = View
  BY <1>1, <1>3 DEF View
<1>5. View' = View
  BY <1>1, <1>3 DEF View, Tracked, Cached
<1>6. store' \in [StateNames -> Stored]
  BY <1>1 DEF StateGood, StateTypeOK
<1>7. StateTypeOK'
  BY <1>1, <1>2, <1>6 DEF StateGood, StateTypeOK
<1>8. \A n \in DOMAIN stateChangeTracker' : (Cached(n) = store[n])'
  BY <1>1, <1>3 DEF Cached, View, Tracked, StateGood, StateTypeOK
<1>9. Changes' = Changes
  BY <1>1 DEF Changes, Kind, Cached
<1>10. StateGood'
  BY <1>1, <1>2, <1>7, <1>8, <1>9 DEF StateGood, StateInv
<1> QED BY <1>4, <1>5, <1>10 DEF StoreApplies, Good, Continue, Promise!Save

\* After a flush reads return what is in the store.
LEMMA FlushGood ==
  ASSUME StateGood, Flush
  PROVE  Good /\ View' = View /\ store' = View /\ UNCHANGED operations /\ saving'.stage = "no"
<1>1. /\ \A n \in DOMAIN stateChangeTracker : Cached(n) = store[n]
      /\ DOMAIN operations = {}
      /\ saving' = NotSaving /\ UNCHANGED <<store, operations>>
      /\ DOMAIN stateChangeTracker' \subseteq DOMAIN stateChangeTracker
      /\ \A n \in DOMAIN stateChangeTracker' :
           /\ Kind(n) # "REMOVE"
           /\ stateChangeTracker'[n] = [kind |-> "NONE", value |-> Cached(n)]
  BY DEF Flush, StateGood, StateInv
<1>2. \A n \in DOMAIN stateChangeTracker' : stateChangeTracker'[n] \in Metadata
  BY <1>1 DEF Metadata, StateGood, StateTypeOK, Kind, Cached
<1>3. StateTypeOK'
  BY <1>1, <1>2 DEF StateGood, StateTypeOK, NotSaving, NoChanges
<1>4. StateGood'
  BY <1>1, <1>3 DEF StateGood, StateInv, NotSaving, Kind, Cached
<1>5. View = store
  BY <1>1 DEF View, Tracked, StateGood, StateTypeOK
<1>6. View' = store
  BY <1>1 DEF View, Tracked, Cached, StateGood, StateTypeOK
<1> QED BY <1>1, <1>4, <1>5, <1>6 DEF Flush, Good, Continue, Promise!Wait, NotSaving

\* The tracker keeps what was not applied, and what was.
LEMMA SaveFailsGood ==
  ASSUME StateGood, SaveFails
  PROVE  Good
<1>1. DOMAIN operations = {} /\ UNCHANGED <<store, stateChangeTracker, operations>>
  BY DEF SaveFails, StateGood, StateInv
<1>2. StateTypeOK'
  BY DEF SaveFails, StateGood, StateTypeOK, NotSaving, NoChanges
<1>3. StateGood'
  BY <1>1, <1>2 DEF SaveFails, StateGood, StateInv, NotSaving, Kind, Cached
<1> QED BY <1>1, <1>3, ViewSame DEF SaveFails, Good, Continue, Promise!Wait

\* Clearing the tracker discards what was not saved.
LEMMA ClearGood ==
  ASSUME StateGood, Clear
  PROVE  StateGood' /\ View' = store /\ store' = store /\ Promise!Discard
<1>1. /\ DOMAIN stateChangeTracker' = {} /\ DOMAIN operations' = {}
      /\ saving' = NotSaving /\ store' = store /\ answer' = <<>>
  BY DEF Clear, EmptyTracker, NoOperations
<1>2. StateTypeOK'
  BY <1>1 DEF StateGood, StateTypeOK, NotSaving, NoChanges
<1>3. StateGood'
  BY <1>1, <1>2 DEF StateGood, StateInv, NotSaving
<1>4. View' = store
  BY <1>1 DEF View, Tracked, StateGood, StateTypeOK
<1> QED BY <1>1, <1>3, <1>4 DEF Promise!Discard

\* A call that ends with an error while it saves nothing forgets its operations.
LEMMA ForgetGood ==
  ASSUME StateGood, operations' = NoOperations, saving' = NotSaving, answer' = <<>>,
         UNCHANGED <<store, stateChangeTracker>>
  PROVE  Good
<1>1. DOMAIN operations' = {}
  BY DEF NoOperations
<1>2. StateTypeOK'
  BY <1>1 DEF StateGood, StateTypeOK, NotSaving, NoChanges
<1>3. StateGood'
  BY <1>1, <1>2 DEF StateGood, StateInv, NotSaving, Kind, Cached
<1> QED BY <1>3, ViewSame DEF Good, Continue, Promise!Wait

\* A step that leaves the state alone.
LEMMA AloneGood ==
  ASSUME StateGood, answer' = <<>>, UNCHANGED <<store, stateChangeTracker, operations, saving>>
  PROVE  Good
<1>1. Changes' = Changes
  BY DEF Changes, Kind, Cached
<1>2. StateGood'
  BY <1>1 DEF StateGood, StateTypeOK, StateInv, Kind, Cached, Tracked
<1> QED BY <1>2, ViewSame DEF Good, Continue, Promise!Wait

-----------------------------------------------------------------------------
(* What the actor's code sees of these steps *)

\* A write that is answered is what reads return from then on, and nothing else changes them.
LEMMA WritesAreSeen ==
  ASSUME StateTypeOK, Continue
  PROVE  /\ answer' # <<>> /\ answer'[1] \in WriteOps =>
              /\ answer'[2] \in StateNames /\ answer'[3] \in Stored
              /\ View' = [View EXCEPT ![answer'[2]] = answer'[3]]
         /\ ~(answer' # <<>> /\ answer'[1] \in WriteOps) => View' = View
<1>1. ASSUME NEW n \in StateNames, NEW op, NEW v, Promise!Write(op, n, v), op \in WriteOps,
             v \in Stored
      PROVE  /\ answer' # <<>> /\ answer'[1] \in WriteOps
             /\ answer'[2] \in StateNames /\ answer'[3] \in Stored
             /\ View' = [View EXCEPT ![answer'[2]] = answer'[3]]
  BY <1>1 DEF Promise!Write
<1>2. ASSUME NEW n \in StateNames, NEW v, NEW op \in {"get", "contains", "duplicate"},
             answer' = <<op, n, v>>
      PROVE  ~(answer'[1] \in WriteOps)
  BY <1>2 DEF WriteOps
<1>3. ASSUME NEW n \in StateNames, NEW v \in Values,
             Promise!Write("set", n, v) \/ Promise!Add(n, v)
      PROVE  /\ answer' # <<>> /\ answer'[1] \in WriteOps
             /\ answer'[2] \in StateNames /\ answer'[3] \in Stored
             /\ View' = [View EXCEPT ![answer'[2]] = answer'[3]]
  <2>1. "set" \in WriteOps /\ "add" \in WriteOps /\ v \in Stored
    BY DEF WriteOps, Stored
  <2> QED BY <1>1, <1>3, <2>1 DEF Promise!Add
<1>4. ASSUME NEW n \in StateNames, Promise!Write("remove", n, NoValue)
      PROVE  /\ answer' # <<>> /\ answer'[1] \in WriteOps
             /\ answer'[2] \in StateNames /\ answer'[3] \in Stored
             /\ View' = [View EXCEPT ![answer'[2]] = answer'[3]]
  <2>1. "remove" \in WriteOps /\ NoValue \in Stored
    BY DEF WriteOps, Stored
  <2> QED BY <1>1, <1>4, <2>1
<1>5. ASSUME NEW n \in StateNames, NEW v \in Values,
             Promise!Get(n) \/ Promise!Contains(n) \/ Promise!Duplicate(n, v)
      PROVE  ~(answer'[1] \in WriteOps) /\ View' = View
  BY <1>2, <1>5 DEF Promise!Get, Promise!Contains, Promise!Duplicate
<1>6. ASSUME NEW n \in StateNames, Promise!Get(n) \/ Promise!Contains(n)
      PROVE  ~(answer'[1] \in WriteOps) /\ View' = View
  BY <1>2, <1>6 DEF Promise!Get, Promise!Contains
<1>7. ASSUME Promise!Save \/ Promise!Wait
      PROVE  answer' = <<>> /\ View' = View
  BY <1>7 DEF Promise!Save, Promise!Wait
<1> QED BY <1>3, <1>4, <1>5, <1>6, <1>7 DEF Continue

-----------------------------------------------------------------------------
(* Requests *)

\* Writes that are to last: not made while a chain was built.
Lasting(n) == n \in DOMAIN written /\ ~written[n].early

\* Reads return them until the request is over.
Returned == \A n \in StateNames : Lasting(n) => View[n] = written[n].value

\* At the times the tracker is cleared they are in the store.
Durable == \A n \in StateNames : Lasting(n) => store[n] = written[n].value

TurnInv ==
  /\ phase = "construct" => \A n \in StateNames : ~Lasting(n)
  /\ phase \in {"onActivate", "activated", "assemble", "rolledBack", "method", "onPost", "posted"}
       => Returned
  /\ phase \in {"assemble", "rolledBack"} => Durable
  /\ phase = "idle" => saving.stage = "no"
  /\ phase = "rolledBack" => ~started
  /\ phase \in {"method", "onPost", "posted"} => started
  /\ NeverRefused
  /\ result = "ok" => phase = "idle" /\ Durable

Inv == ActorTypeOK /\ StateInv /\ TurnInv

LEMMA InitGood ==
  ASSUME Init
  PROVE  Inv /\ Promise!Init
<1>1. StateTypeOK
  BY DEF Init, StateInit, StateTypeOK, EmptyTracker, NoOperations, NotSaving, NoChanges
<1>2. StateInv
  BY DEF Init, StateInit, StateInv, EmptyTracker, NoOperations, NotSaving
<1>3. ActorTypeOK
  <2>1. DOMAIN written = {}
    BY DEF Init, NothingWritten
  <2>2. requests \in 0..MaxRequests /\ calls \in 0..MaxOperations
    BY RequestsAssumption DEF Init
  <2> QED BY <1>1, <2>1, <2>2 DEF Init, ActorTypeOK, Phases
<1>4. TurnInv
  BY DEF Init, StateInit, NotSaving, TurnInv, NeverRefused
<1>5. View = store
  BY DEF View, Tracked, Init, StateInit, EmptyTracker
<1> QED BY <1>2, <1>3, <1>4, <1>5
        DEF Inv, Init, StateInit, Promise!Init, Promise!Contents, Stored

\* What was written keeps being returned, and kept, by steps that write nothing.
LEMMA NothingNew ==
  ASSUME UNCHANGED written
  PROVE  /\ View' = View => (Returned => Returned')
         /\ store' = store => (Durable => Durable')
         /\ store' = View => (Returned => Durable')
         /\ View' = store => (Durable => Returned')
         /\ \A n \in StateNames : Lasting(n)' = Lasting(n)
BY DEF Returned, Durable, Lasting

\* Where a request has nothing that is to last.
LEMMA NothingLasting ==
  ASSUME \A n \in StateNames : ~(Lasting(n)')
  PROVE  Returned' /\ Durable'
BY DEF Returned, Durable

\* The code of the actor goes on.
LEMMA NotedGood ==
  ASSUME Inv, Good, Noted, phase \in UserPhases, store' = store, calls' \in 0..MaxOperations,
         UNCHANGED <<phase, active, started, result, requests>>
  PROVE  Inv'
<1> DEFINE writes == answer' # <<>> /\ answer'[1] \in WriteOps
           entry == [value |-> answer'[3], early |-> phase \in EarlyPhases]
<1>1. /\ writes => /\ answer'[2] \in StateNames /\ answer'[3] \in Stored
                   /\ View' = [View EXCEPT ![answer'[2]] = answer'[3]]
      /\ ~writes => View' = View
  BY WritesAreSeen DEF Good, Inv, ActorTypeOK
<1>2. /\ writes => written' = With(written, answer'[2], entry)
      /\ ~writes => written' = written
  BY DEF Noted
<1>3. CASE writes
  <2> PICK w \in StateNames : w = answer'[2]
    BY <1>1, <1>3
  <2>1. /\ DOMAIN written' = DOMAIN written \union {w}
        /\ written'[w] = entry
        /\ \A n \in DOMAIN written : n # w => written'[n] = written[n]
    BY <1>2, <1>3 DEF With
  <2> HIDE DEF writes
  <2>2. \A n \in StateNames : n # w => ((Lasting(n)' <=> Lasting(n)) /\ View'[n] = View[n])
    BY <1>1, <1>3, <2>1 DEF Lasting, View
  <2>3. View'[w] = answer'[3]
    BY <1>1, <1>3 DEF View
  <2>4. /\ written'[w].value = answer'[3]
        /\ written'[w].early <=> phase \in EarlyPhases
    <3>1. CASE phase \in EarlyPhases
      <4>1. entry = [value |-> answer'[3], early |-> TRUE]
        BY <3>1, Zenon
      <4> QED BY <2>1, <3>1, <4>1
    <3>2. CASE ~(phase \in EarlyPhases)
      <4>0. (phase \in EarlyPhases) = FALSE
        BY <3>2
      <4>1. entry = [value |-> answer'[3], early |-> FALSE]
        BY <4>0, Zenon
      <4> QED BY <2>1, <3>2, <4>1
    <3> QED BY <3>1, <3>2
  <2>5. entry \in [value : Stored, early : BOOLEAN]
    BY <1>1, <1>3
  <2> HIDE DEF entry
  <2>6. \A n \in DOMAIN written' : written'[n] \in [value : Stored, early : BOOLEAN]
    BY <2>1, <2>5 DEF Inv, ActorTypeOK
  <2>7. DOMAIN written' \subseteq StateNames
    BY <2>1 DEF Inv, ActorTypeOK
  <2>8. Returned => Returned'
    <3> SUFFICES ASSUME Returned, NEW n \in StateNames, Lasting(n)'
                 PROVE  View'[n] = written'[n].value
      BY DEF Returned
    <3> QED BY <2>1, <2>2, <2>3, <2>4 DEF Returned, Lasting
  <2>9. ASSUME phase \in EarlyPhases, NEW n \in StateNames, Lasting(n)'
        PROVE  n # w /\ Lasting(n) /\ written'[n] = written[n]
    BY <2>1, <2>2, <2>4, <2>9 DEF Lasting
  <2>10. phase \in EarlyPhases => (Durable => Durable')
    BY <2>9 DEF Durable
  <2>11. phase \in EarlyPhases <=> phase \in {"construct", "assemble", "dismantle"}
    BY DEF EarlyPhases
  <2>12. phase # "idle" /\ phase # "rolledBack"
    BY DEF UserPhases, EarlyPhases
  <2>13. TurnInv'
    BY <2>8, <2>9, <2>10, <2>11, <2>12 DEF Inv, TurnInv, NeverRefused
  <2> QED BY <2>6, <2>7, <2>13 DEF Inv, ActorTypeOK, Good, StateGood
<1>4. CASE ~writes
  <2>1. written' = written /\ View' = View
    BY <1>1, <1>2, <1>4
  <2>2. phase # "idle"
    BY DEF UserPhases, EarlyPhases
  <2>3. TurnInv'
    BY <2>1, <2>2, NothingNew DEF Inv, TurnInv, NeverRefused
  <2> QED BY <2>1, <2>3 DEF Inv, ActorTypeOK, Good, StateGood
<1> QED BY <1>3, <1>4

\* The store applies a save.
LEMMA AppliesGood ==
  ASSUME Inv, StoreAppliesSave
  PROVE  Inv' /\ Continue
<1>1. Good /\ View' = View /\ store' = View /\ UNCHANGED turnVars
  BY StoreAppliesGood DEF StoreAppliesSave, Inv, StateGood, ActorTypeOK
<1>2. phase # "idle"
  BY DEF StoreAppliesSave, StoreApplies, Inv, TurnInv
<1>3. TurnInv'
  BY <1>1, <1>2, NothingNew DEF Inv, TurnInv, NeverRefused, turnVars
<1> QED BY <1>1, <1>3 DEF Inv, ActorTypeOK, Good, StateGood, turnVars

\* Steps that forget everything that is not saved.
LEMMA ClearedGood ==
  ASSUME Inv, Clear
  PROVE  StateGood' /\ View' = store /\ store' = store /\ Promise!Discard /\ saving'.stage = "no"
BY ClearGood DEF Inv, StateGood, ActorTypeOK, Clear, NotSaving

\* A request that begins has written nothing.
LEMMA ArriveGood ==
  ASSUME Inv, Arrive
  PROVE  /\ DOMAIN written' = {} /\ \A n \in StateNames : ~(Lasting(n)')
         /\ requests' \in 0..MaxRequests /\ calls' \in 0..MaxOperations
         /\ result' = "none" /\ saving.stage = "no"
<1>1. DOMAIN written' = {}
  BY DEF Arrive, NothingWritten
<1>2. requests' \in 0..MaxRequests /\ calls' \in 0..MaxOperations
  BY RequestsAssumption DEF Arrive, Inv, ActorTypeOK
<1> QED BY <1>1, <1>2 DEF Arrive, Lasting, Inv, TurnInv

LEMMA RequestGood ==
  ASSUME Inv, Activate \/ Invoke \/ Deactivate
  PROVE  Inv' /\ Promise!Next
<1>1. CASE Activate
  <2>1. StateGood' /\ Promise!Discard /\ saving'.stage = "no"
    BY <1>1, ClearedGood DEF Activate
  <2>2. /\ DOMAIN written' = {} /\ \A n \in StateNames : ~(Lasting(n)')
        /\ requests' \in 0..MaxRequests /\ calls' \in 0..MaxOperations /\ result' = "none"
    BY <1>1, ArriveGood DEF Activate
  <2>3. phase' = "construct" /\ active' = active /\ started' = FALSE
    BY <1>1 DEF Activate, GoTo
  <2>4. TurnInv'
    BY <2>2, <2>3 DEF TurnInv, NeverRefused
  <2> QED BY <2>1, <2>2, <2>3, <2>4
          DEF Inv, StateGood, ActorTypeOK, Phases, UserPhases, EarlyPhases, Promise!Next
<1>2. CASE Invoke
  <2>1. Good
    BY <1>2, AloneGood DEF Invoke, Inv, StateGood, ActorTypeOK
  <2>2. /\ DOMAIN written' = {} /\ \A n \in StateNames : ~(Lasting(n)')
        /\ requests' \in 0..MaxRequests /\ calls' \in 0..MaxOperations /\ result' = "none"
    BY <1>2, ArriveGood DEF Invoke
  <2>3. phase' = "assemble" /\ UNCHANGED <<active, started>>
    BY <1>2 DEF Invoke, GoTo
  <2>4. TurnInv'
    BY <2>2, <2>3, NothingLasting DEF TurnInv, NeverRefused
  <2> QED BY <2>1, <2>2, <2>3, <2>4
          DEF Inv, Good, Continue, StateGood, ActorTypeOK, Phases, UserPhases, EarlyPhases,
              Promise!Next
<1>3. CASE Deactivate
  <2>1. Good
    BY <1>3, AloneGood DEF Deactivate, Inv, StateGood, ActorTypeOK
  <2>2. /\ DOMAIN written' = {} /\ \A n \in StateNames : ~(Lasting(n)')
        /\ requests' \in 0..MaxRequests /\ calls' \in 0..MaxOperations /\ result' = "none"
    BY <1>3, ArriveGood DEF Deactivate
  <2>3. phase' = "dismantle" /\ active' = FALSE /\ started' = started
    BY <1>3 DEF Deactivate, GoTo
  <2>4. TurnInv'
    BY <2>2, <2>3, NothingLasting DEF TurnInv, NeverRefused
  <2> QED BY <2>1, <2>2, <2>3, <2>4
          DEF Inv, Good, Continue, StateGood, ActorTypeOK, Phases, UserPhases, EarlyPhases,
              Promise!Next
<1> QED BY <1>1, <1>2, <1>3

\* The code of the actor: an operation, a save, an answer.
LEMMA UserGood ==
  ASSUME Inv, UserOperation \/ UserSave \/ StoreAnswersUser
  PROVE  Inv' /\ Continue
<1>1. StateGood /\ calls \in 0..MaxOperations
  BY DEF Inv, StateGood, ActorTypeOK
<1>2. CASE UserOperation
  <2>1. Good
    BY <1>1, <1>2, OperationGood DEF UserOperation
  <2>2. calls' \in 0..MaxOperations
    BY <1>1, <1>2, RequestsAssumption DEF UserOperation
  <2>3. store' = store
    BY <1>2 DEF UserOperation, Operation, Get, Contains, Set, Add, Remove, Ask
  <2> QED BY <1>2, <2>1, <2>2, <2>3, NotedGood DEF UserOperation, Good
<1>3. CASE UserSave
  <2>1. Good /\ View' = View /\ store' = store
    BY <1>1, <1>3, SaveGood, ViewSame DEF UserSave, Save
  <2>2. calls' \in 0..MaxOperations
    BY <1>1, <1>3, RequestsAssumption DEF UserSave
  <2>3. phase # "idle" /\ UNCHANGED <<phase, active, started, result, written, requests>>
    BY <1>3 DEF UserSave, UserPhases, EarlyPhases
  <2>4. TurnInv'
    BY <2>1, <2>3, NothingNew DEF Inv, TurnInv, NeverRefused
  <2> QED BY <2>1, <2>2, <2>3, <2>4 DEF Inv, ActorTypeOK, Good, StateGood
<1>4. CASE StoreAnswersUser
  <2>1. Good
    BY <1>1, <1>4, StoreAnswersGood, FlushGood, SaveFailsGood DEF StoreAnswersUser
  <2>2. store' = store
    BY <1>4 DEF StoreAnswersUser, StoreAnswers, StoreReads, StoreFails, Finish, Flush, SaveFails
  <2> QED BY <1>1, <1>4, <2>1, <2>2, NotedGood DEF StoreAnswersUser, Good
<1> QED BY <1>2, <1>3, <1>4

\* A request that fails.
LEMMA FailureGood ==
  ASSUME Inv, Throw \/ SaveOfRequestFails
  PROVE  Inv' /\ Promise!Next
<1>1. /\ Forgotten /\ phase' = "idle" /\ result' = "failed"
      /\ UNCHANGED <<active, started, written, requests, calls>>
  BY DEF Throw, SaveOfRequestFails, End
<1>2. StateGood' /\ Promise!Next /\ saving'.stage = "no"
  <2>1. CASE active
    BY <1>1, <2>1, ForgetGood
       DEF Forgotten, Good, Continue, Promise!Next, Inv, StateGood, ActorTypeOK, NotSaving
  <2>2. CASE ~active
    BY <1>1, <2>2, ClearedGood DEF Forgotten, Promise!Next
  <2> QED BY <2>1, <2>2
<1>3. TurnInv'
  BY <1>1, <1>2 DEF TurnInv, NeverRefused
<1> QED BY <1>1, <1>2, <1>3
        DEF Inv, StateGood, ActorTypeOK, Phases, UserPhases, EarlyPhases

\* Activation, up to the call that waits for it.
LEMMA ActivationGood ==
  ASSUME Inv, ResetState \/ SaveActivated \/ OnActivatedActor
  PROVE  Inv' /\ Promise!Next
<1>1. CASE ResetState
  <2>1. StateGood' /\ Promise!Discard /\ saving'.stage = "no"
    BY <1>1, ClearedGood DEF ResetState
  <2>2. /\ phase' = IF phase = "construct" THEN "onActivate" ELSE "onDeactivate"
        /\ phase \in {"construct", "dismantle"}
        /\ UNCHANGED <<active, started, result, written, requests, calls>>
    BY <1>1 DEF ResetState, GoTo
  <2>3. phase = "construct" => Returned'
    BY <2>2, NothingNew, NothingLasting DEF Inv, TurnInv
  <2>4. TurnInv'
    BY <2>2, <2>3 DEF Inv, TurnInv, NeverRefused
  <2> QED BY <2>1, <2>2, <2>4
          DEF Inv, StateGood, ActorTypeOK, Phases, UserPhases, EarlyPhases, Promise!Next
<1>2. CASE SaveActivated
  <2>1. Good /\ View' = View
    BY <1>2, SaveGood, ViewSame DEF SaveActivated, Save, Inv, StateGood, ActorTypeOK
  <2>2. /\ phase = "onActivate" /\ phase' = "activated"
        /\ UNCHANGED <<active, started, result, written, requests, calls>>
    BY <1>2 DEF SaveActivated, GoTo
  <2>3. TurnInv'
    BY <2>1, <2>2, NothingNew DEF Inv, TurnInv, NeverRefused
  <2> QED BY <2>1, <2>2, <2>3
          DEF Inv, Good, Continue, StateGood, ActorTypeOK, Phases, Promise!Next
<1>3. CASE OnActivatedActor
  <2>1. Good /\ View' = View /\ store' = View /\ saving'.stage = "no"
    BY <1>3, FlushGood DEF OnActivatedActor, Inv, StateGood, ActorTypeOK
  <2>2. /\ phase = "activated" /\ phase' \in {"assemble", "idle"} /\ active' = TRUE
        /\ UNCHANGED <<started, result, written, requests, calls>>
    BY <1>3 DEF OnActivatedActor, GoTo
  <2>3. TurnInv'
    BY <2>1, <2>2, NothingNew DEF Inv, TurnInv, NeverRefused
  <2> QED BY <2>1, <2>2, <2>3
          DEF Inv, Good, Continue, StateGood, ActorTypeOK, Phases, UserPhases, EarlyPhases,
              Promise!Next
<1> QED BY <1>1, <1>2, <1>3

\* A call, from its rollback to the end.
LEMMA CallGood ==
  ASSUME Inv, Rollback \/ OnPreActorMethodInternal \/ OnPostActorMethodInternal \/ SavePosted
                \/ Complete \/ Deactivated
  PROVE  Inv' /\ Promise!Next
<1>1. CASE Rollback
  <2>1. StateGood' /\ View' = store /\ store' = store /\ Promise!Discard
    BY <1>1, ClearedGood DEF Rollback
  <2>2. /\ phase = "assemble" /\ phase' = "rolledBack" /\ started' = FALSE
        /\ UNCHANGED <<active, result, written, requests, calls>>
    BY <1>1 DEF Rollback, GoTo
  <2>3. TurnInv'
    BY <2>1, <2>2, NothingNew DEF Inv, TurnInv, NeverRefused
  <2> QED BY <2>1, <2>2, <2>3 DEF Inv, StateGood, ActorTypeOK, Phases, Promise!Next
<1>2. CASE OnPreActorMethodInternal
  <2>1. Good /\ View' = View
    BY <1>2, AloneGood, ViewSame DEF OnPreActorMethodInternal, Inv, StateGood, ActorTypeOK
  <2>2. /\ phase = "rolledBack" /\ phase' = "method" /\ started' = TRUE
        /\ UNCHANGED <<active, result, written, requests, calls>>
    BY <1>2 DEF OnPreActorMethodInternal, GoTo, Inv, TurnInv
  <2>3. TurnInv'
    BY <2>1, <2>2, NothingNew DEF Inv, TurnInv, NeverRefused
  <2> QED BY <2>1, <2>2, <2>3
          DEF Inv, Good, Continue, StateGood, ActorTypeOK, Phases, UserPhases, Promise!Next
<1>3. CASE OnPostActorMethodInternal
  <2>1. Good /\ View' = View
    BY <1>3, AloneGood, ViewSame DEF OnPostActorMethodInternal, Inv, StateGood, ActorTypeOK
  <2>2. /\ phase = "method" /\ phase' = "onPost"
        /\ UNCHANGED <<active, started, result, written, requests, calls>>
    BY <1>3 DEF OnPostActorMethodInternal, GoTo, Inv, TurnInv
  <2>3. TurnInv'
    BY <2>1, <2>2, NothingNew DEF Inv, TurnInv, NeverRefused
  <2> QED BY <2>1, <2>2, <2>3
          DEF Inv, Good, Continue, StateGood, ActorTypeOK, Phases, UserPhases, Promise!Next
<1>4. CASE SavePosted
  <2>1. Good /\ View' = View
    BY <1>4, SaveGood, ViewSame DEF SavePosted, Save, Inv, StateGood, ActorTypeOK
  <2>2. /\ phase = "onPost" /\ phase' = "posted"
        /\ UNCHANGED <<active, started, result, written, requests, calls>>
    BY <1>4 DEF SavePosted, GoTo
  <2>3. TurnInv'
    BY <2>1, <2>2, NothingNew DEF Inv, TurnInv, NeverRefused
  <2> QED BY <2>1, <2>2, <2>3
          DEF Inv, Good, Continue, StateGood, ActorTypeOK, Phases, Promise!Next
<1>5. CASE Complete
  <2>1. Good /\ View' = View /\ store' = View /\ saving'.stage = "no"
    BY <1>5, FlushGood DEF Complete, Inv, StateGood, ActorTypeOK
  <2>2. /\ phase = "posted" /\ phase' = "idle" /\ result' = "ok" /\ started' = FALSE
        /\ UNCHANGED <<active, written, requests, calls>>
    BY <1>5 DEF Complete, End
  <2>3. TurnInv'
    BY <2>1, <2>2, NothingNew DEF Inv, TurnInv, NeverRefused
  <2> QED BY <2>1, <2>2, <2>3
          DEF Inv, Good, Continue, StateGood, ActorTypeOK, Phases, Promise!Next
<1>6. CASE Deactivated
  <2>1. StateGood' /\ Promise!Discard /\ saving'.stage = "no"
    BY <1>6, ClearedGood DEF Deactivated
  <2>2. /\ phase' = "idle" /\ result' = "deactivated"
        /\ UNCHANGED <<active, started, written, requests, calls>>
    BY <1>6 DEF Deactivated, End
  <2>3. TurnInv'
    BY <2>1, <2>2 DEF TurnInv, NeverRefused
  <2> QED BY <2>1, <2>2, <2>3 DEF Inv, StateGood, ActorTypeOK, Phases, Promise!Next
<1> QED BY <1>1, <1>2, <1>3, <1>4, <1>5, <1>6

\* Nothing happens.
LEMMA StutterGood ==
  ASSUME Inv, UNCHANGED vars
  PROVE  Inv' /\ UNCHANGED Promise!vars
<1>1. Changes' = Changes /\ View' = View
  BY ViewSame DEF vars, stateVars, Changes, Kind, Cached
<1>2. StateTypeOK' /\ StateInv'
  BY <1>1 DEF Inv, ActorTypeOK, StateTypeOK, StateInv, vars, stateVars, Kind, Cached, Tracked
<1>3. TurnInv'
  BY <1>1, NothingNew DEF Inv, TurnInv, NeverRefused, vars, stateVars, turnVars
<1> QED BY <1>1, <1>2, <1>3
        DEF Inv, ActorTypeOK, vars, stateVars, turnVars, Promise!vars

LEMMA StepGood ==
  ASSUME Inv, [Next]_vars
  PROVE  Inv' /\ [Promise!Next]_(Promise!vars)
<1>1. Continue => Promise!Next
  BY DEF Continue, Promise!Next
<1> QED BY <1>1, RequestGood, UserGood, AppliesGood, FailureGood, ActivationGood, CallGood,
           StutterGood
        DEF Next, Rest

-----------------------------------------------------------------------------
(* Theorems *)

LEMMA Invariance == Spec => []Inv
<1>1. Init => Inv
  BY InitGood
<1>2. Inv /\ [Next]_vars => Inv'
  BY StepGood
<1> QED BY <1>1, <1>2, PTL DEF Spec

\* The state of the actor has its type in every reachable state.
THEOREM ActorTypeCorrect == Spec => []ActorTypeOK
<1>1. Inv => ActorTypeOK
  BY DEF Inv
<1> QED BY <1>1, Invariance, PTL

\* With one request at a time no call is refused because an actor is thought to be in another:
\* neither after failures of calls, of hooks or of the store, nor after reactivations.
THEOREM CallsAreNotRefused == Spec => []NeverRefused
<1>1. Inv => NeverRefused
  BY DEF Inv, TurnInv
<1> QED BY <1>1, Invariance, PTL

\* A call that succeeds has in the store whatever its chain wrote while it ran, for any set of
\* names and any number of operations.
THEOREM CallsCommitTheirWrites == Spec => []OnlyEarlyWritesAreLost
<1>1. Inv => OnlyEarlyWritesAreLost
  BY DEF Inv, TurnInv, OnlyEarlyWritesAreLost, Durable, Lasting, ActorTypeOK
<1> QED BY <1>1, Invariance, PTL

\* Every step of the tracker, the store and the requests is a step of the state they promise, or
\* leaves it alone.
THEOREM StateIsTransactional == Spec => IsTransactional
<1>1. Init => Promise!Init
  BY InitGood
<1>2. Inv /\ [Next]_vars => [Promise!Next]_(Promise!vars)
  BY StepGood
<1> QED BY <1>1, <1>2, Invariance, PTL DEF Spec, IsTransactional, Promise!Spec
=============================================================================
