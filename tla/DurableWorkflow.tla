---------------------------- MODULE DurableWorkflow ----------------------------
(***************************************************************************)
(* What durable execution promises of one workflow instance: its code runs  *)
(* as if once.  Each piece of work is asked for at most once, what the code *)
(* has observed never changes, and nothing happens after the end.           *)
(***************************************************************************)
EXTENDS Naturals

CONSTANT Slots

VARIABLES
  asked,   \* slot -> how often the backend was asked for its work
  known,   \* slot -> what the code has observed there
  ended

vars == <<asked, known, ended>>

Extends(f, g) == \A s \in DOMAIN g : s \in DOMAIN f /\ f[s] = g[s]

Init ==
  /\ asked = [s \in Slots |-> 0]
  /\ known = [s \in {} |-> 0]
  /\ ended = FALSE

\* The workflow gets on: asks for work not asked for before, observes more, may end.
Advance ==
  /\ ~ended
  /\ \A s \in Slots : asked'[s] \in {asked[s], 1}
  /\ Extends(known', known)
  /\ ended' \in BOOLEAN

\* continueAsNew: everything starts over.
StartOver ==
  /\ ~ended
  /\ asked' = [s \in Slots |-> 0] /\ known' = [s \in {} |-> 0] /\ ended' = FALSE

Next == Advance \/ StartOver

Spec == Init /\ [][Next]_vars
=============================================================================
