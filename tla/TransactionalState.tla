-------------------------- MODULE TransactionalState --------------------------
(***************************************************************************)
(* What the state of an actor promises: reads see the writes made before    *)
(* them, a save commits all of them at once, and what was not saved is      *)
(* discarded as a whole.                                                   *)
(***************************************************************************)
CONSTANTS StateNames, Values, NoValue

VARIABLES
  committed,  \* what the store holds
  view,       \* what a read returns
  answer      \* what the last step answered: <<operation, name, value>>, or nothing: <<>>

vars == <<committed, view, answer>>

Contents == [StateNames -> Values \union {NoValue}]

Init == committed \in Contents /\ view = committed /\ answer = <<>>

Get(n) == answer' = <<"get", n, view[n]>> /\ UNCHANGED <<committed, view>>

Contains(n) ==
  answer' = <<"contains", n, view[n] # NoValue>> /\ UNCHANGED <<committed, view>>

Write(op, n, v) ==
  /\ view' = [view EXCEPT ![n] = v]
  /\ answer' = <<op, n, v>>
  /\ UNCHANGED committed

Add(n, v) == view[n] = NoValue /\ Write("add", n, v)

Duplicate(n, v) ==
  /\ view[n] # NoValue
  /\ answer' = <<"duplicate", n, v>>
  /\ UNCHANGED <<committed, view>>

Save == committed' = view /\ answer' = <<>> /\ UNCHANGED view

Discard == view' = committed /\ answer' = <<>> /\ UNCHANGED committed

Wait == answer' = <<>> /\ UNCHANGED <<committed, view>>

Next ==
  \/ \E n \in StateNames :
       \/ Get(n) \/ Contains(n) \/ Write("remove", n, NoValue)
       \/ \E v \in Values : Write("set", n, v) \/ Add(n, v) \/ Duplicate(n, v)
  \/ Save \/ Discard \/ Wait

Spec == Init /\ [][Next]_vars
=============================================================================
