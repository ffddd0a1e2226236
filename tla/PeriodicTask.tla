---------------------------- MODULE PeriodicTask ----------------------------
(***************************************************************************)
(* What a thread that sleeps on an absolute, accumulated wake time         *)
(* promises: its jobs run one after the other, and job k (counted from 0)  *)
(* is not released before k periods have passed.  A job that overruns      *)
(* delays the next one but not the release times after it, so the jobs     *)
(* catch up with the clock and never run ahead of it.                      *)
(***************************************************************************)
EXTENDS Integers

CONSTANTS Jobs, Period

VARIABLES
  now,       \* the clock
  released,  \* jobs released so far
  finished   \* jobs finished so far

vars == <<now, released, finished>>

Init == now = 0 /\ released = 0 /\ finished = 0

Release ==
  /\ released = finished
  /\ released < Jobs
  /\ now >= released * Period
  /\ released' = released + 1
  /\ UNCHANGED <<now, finished>>

Finish ==
  /\ finished < released
  /\ finished' = finished + 1
  /\ UNCHANGED <<now, released>>

Tick == now' = now + 1 /\ UNCHANGED <<released, finished>>

Next == Release \/ Finish \/ Tick

Spec == Init /\ [][Next]_vars

=============================================================================
