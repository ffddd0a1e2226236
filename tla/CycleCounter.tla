---------------------------- MODULE CycleCounter ----------------------------
(***************************************************************************)
(* Delays and timeouts of ex03 (cycle_counter.h, busy_delay.c, delay.c).    *)
(* They count processor cycles in a register that wraps around; interrupts  *)
(* and whatever else the program does come between two looks at it.         *)
(***************************************************************************)
EXTENDS Integers

CONSTANTS
  Wrap,     \* 2^32, what the count and an unsigned long are taken modulo
  Hz,       \* the frequency of the processor
  Delays,   \* pairs of a number and the parts of a second it counts
  MaxGap,   \* bound: cycles between two looks at the count
  MaxTime   \* bound on the time

VARIABLES
  now,      \* cycles since the start
  timer,    \* t_cpu_time: delay_start_cycle, delay_end_cycle, timer_state
  asked,    \* the delay, and when it began
  looked    \* when the timer was last looked at

vars == <<now, timer, asked, looked>>

Count == now % Wrap
Idle  == [n |-> 0, parts |-> 1, from |-> 0]

Init ==
  /\ now = 0
  /\ timer = [start |-> 0, end |-> 0, state |-> "stopped"]
  /\ asked = Idle /\ looked = 0

(* The product is taken with 64 bits, the result is cut to 32.  A delay in  *)
(* cycles has as many parts of a second as there are cycles.                *)
Cycles(n, parts) == ((n * Hz + parts - 1) \div parts) % Wrap

(* And back, rounded up as well. *)
Parts(cycles, parts) == ((cycles * parts + Hz - 1) \div Hz) % Wrap

cpu_is_timer_stopped == timer.state = "stopped"

cpu_set_timeout(n, parts) ==
  /\ cpu_is_timer_stopped
  /\ timer' = [start |-> Count, end |-> (Count + Cycles(n, parts)) % Wrap, state |-> "started"]
  /\ asked' = [n |-> n, parts |-> parts, from |-> now]
  /\ looked' = now /\ UNCHANGED now

NotWrapped(count) == count > timer.end  \* MUTANT: the count never wraps

(* The end of the timeout may come after the count has wrapped around.      *)
IsPast(count) ==
  IF timer.start > timer.end THEN count < timer.start /\ count > timer.end
  ELSE count < timer.start \/ count > timer.end

cpu_is_timeout ==
  /\ timer.state = "started"
  /\ timer' = [timer EXCEPT !.state = IF IsPast(Count) THEN "reached" ELSE @]
  /\ looked' = now /\ UNCHANGED <<now, asked>>

(* A delay ends here, a timeout of a program when it has dealt with it, or   *)
(* no longer needs it.                                                      *)
cpu_stop_timeout ==
  /\ ~cpu_is_timer_stopped
  /\ timer' = [timer EXCEPT !.state = "stopped"]
  /\ UNCHANGED <<now, asked, looked>>

(* The time between two looks, and any time while no timer runs. *)
Pass(cycles) ==
  /\ now + cycles <= MaxTime
  /\ IF cpu_is_timer_stopped THEN looked' = now + cycles
     ELSE timer.state = "started" /\ now = looked /\ UNCHANGED looked
  /\ now' = now + cycles
  /\ UNCHANGED <<timer, asked>>

Next ==
  \/ \E d \in Delays : cpu_set_timeout(d[1], d[2])
  \/ cpu_is_timeout \/ cpu_stop_timeout
  \/ \E cycles \in 1..MaxGap : Pass(cycles)

Spec == Init /\ [][Next]_vars

-----------------------------------------------------------------------------
Fits    == asked.n * Hz <= (Wrap - 1) * asked.parts
Elapsed == looked - asked.from

(* A timeout that the count can hold is reached when the time has passed,    *)
(* never before, and it is not missed by a look that comes late, unless the  *)
(* count has been all the way round: wherever it stood at the start.  One    *)
(* that is too long for the count ends too early.  Converted back, the cycles *)
(* of a delay are the delay, or more by what a cycle is too long for it.     *)
(* (cpu_set_timeout, cpu_is_timeout, cpu_ms_2_cy, cpu_cy_2_ms)               *)
TimeoutsInTime ==
  Fits =>
    /\ timer.state = "reached" => Elapsed * asked.parts >= asked.n * Hz
    /\ timer.state = "started" =>
         Elapsed >= Wrap \/ Elapsed <= Cycles(asked.n, asked.parts)
    /\ Parts(Cycles(asked.n, asked.parts), asked.parts) \in asked.n..(asked.n + asked.parts \div Hz + 1)

=============================================================================
