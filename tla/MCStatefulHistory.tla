--------------------------- MODULE MCStatefulHistory ---------------------------
(* StatefulHistory on one instance of four or five turns. *)
EXTENDS StatefulHistory

FiveTurns == [i \in Instances |-> 5]
FourTurns == [i \in Instances |-> 4]
=============================================================================
