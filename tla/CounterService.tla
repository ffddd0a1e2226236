--------------------------- MODULE CounterService ---------------------------
(***************************************************************************)
(* What the device promises its clients: a counter that goes on by itself  *)
(* in the direction of its mode, commands and reads that each take effect  *)
(* at one instant, and no count after a command that stops it.             *)
(***************************************************************************)
EXTENDS Integers

VARIABLES mode, value, seen

vars == <<mode, value, seen>>

Init == mode = "COUNT_STOP" /\ value = 0 /\ seen = 0

Count ==
  /\ \/ mode = "COUNT_UP" /\ value' = value + 1
     \/ mode = "COUNT_DOWN" /\ value' = value - 1
  /\ UNCHANGED <<mode, seen>>

Command ==
  /\ mode' \in {"COUNT_STOP", "COUNT_UP", "COUNT_DOWN"}
  /\ \/ UNCHANGED value
     \/ mode' = "COUNT_STOP" /\ value' = 0
  /\ UNCHANGED seen

Read == seen' = value /\ UNCHANGED <<mode, value>>

Next == Count \/ Command \/ Read

Spec == Init /\ [][Next]_vars

=============================================================================
