------------------------------ MODULE Timespec ------------------------------
(***************************************************************************)
(* The time arithmetic of ex01/TaskA/timespec.c (tasks B and C, the        *)
(* miniproject and ex05 have copies of it) and the busy wait that TaskA     *)
(* makes of it.  A timespec is a record of seconds and nanoseconds;         *)
(* timespec_normalized() is a pair of loops, here one step for each round.  *)
(***************************************************************************)
EXTENDS Integers

CONSTANTS
  Giga,      \* nanoseconds in a second
  MaxSec,    \* bound on the seconds of the operands
  MaxClock   \* bound on the clock, from which on it stands still

ASSUME TimespecAssumption == Giga \in Nat \ {0} /\ MaxSec \in Nat /\ MaxClock \in Nat

Normal == [tv_sec : Int, tv_nsec : 0..(Giga - 1)]
Nanos(t) == t.tv_sec * Giga + t.tv_nsec

Operands == [tv_sec : 0..MaxSec, tv_nsec : 0..(Giga - 1)]
Later(t) ==  \* a nanosecond later
  IF t.tv_nsec + 1 < Giga THEN [t EXCEPT !.tv_nsec = @ + 1]
  ELSE [tv_sec |-> t.tv_sec + 1, tv_nsec |-> 0]

SecondsOnly(l, r) == l.tv_sec - r.tv_sec  \* MUTANT: the nanoseconds are not compared
timespec_cmp(l, r) ==
  IF l.tv_sec < r.tv_sec THEN -1 ELSE IF l.tv_sec > r.tv_sec THEN 1 ELSE l.tv_nsec - r.tv_nsec

VARIABLES
  op,         \* what the arithmetic is for: busy_wait or a subtraction
  lhs, rhs,   \* the operands; the one on the right is the time to wait
  sec, nsec,  \* the parameters of timespec_normalized()
  then,       \* its result
  now,        \* the last reading of the clock
  clock,      \* CLOCK_MONOTONIC
  pc

vars == <<op, lhs, rhs, sec, nsec, then, now, clock, pc>>

Init ==
  /\ op \in {"busy_wait", "sub"}
  /\ lhs \in Operands /\ rhs \in Operands
  /\ op = "busy_wait" => Nanos(lhs) + Nanos(rhs) <= MaxClock
  /\ sec = 0 /\ nsec = 0
  /\ then = [tv_sec |-> 0, tv_nsec |-> 0]
  /\ now = lhs /\ clock = lhs
  /\ pc = "call"

Busy == op = "busy_wait"

(* timespec_add() and timespec_sub() *)
Call ==
  /\ pc = "call"
  /\ sec' = IF Busy THEN lhs.tv_sec + rhs.tv_sec ELSE lhs.tv_sec - rhs.tv_sec
  /\ nsec' = IF Busy THEN lhs.tv_nsec + rhs.tv_nsec ELSE lhs.tv_nsec - rhs.tv_nsec
  /\ pc' = "normalize"
  /\ UNCHANGED <<op, lhs, rhs, then, now, clock>>

TooLong == nsec >= Giga

Carry ==
  /\ pc = "normalize" /\ TooLong
  /\ nsec' = nsec - Giga /\ sec' = sec + 1
  /\ UNCHANGED <<op, lhs, rhs, then, now, clock, pc>>

Borrowed == sec - 1

Borrow ==
  /\ pc = "normalize" /\ ~TooLong /\ nsec < 0
  /\ nsec' = nsec + Giga /\ sec' = Borrowed
  /\ UNCHANGED <<op, lhs, rhs, then, now, clock, pc>>

Return ==
  /\ pc = "normalize" /\ ~TooLong /\ nsec >= 0
  /\ then' = [tv_sec |-> sec, tv_nsec |-> nsec]
  /\ pc' = IF Busy THEN "compare" ELSE "returned"
  /\ UNCHANGED <<op, lhs, rhs, sec, nsec, now, clock>>

Compare ==
  /\ pc = "compare"
  /\ pc' = IF timespec_cmp(now, then) < 0 THEN "gettime" ELSE "returned"
  /\ UNCHANGED <<op, lhs, rhs, sec, nsec, then, now, clock>>

Reading == clock

ClockGettime ==
  /\ pc = "gettime"
  /\ now' = Reading
  /\ pc' = "compare"
  /\ UNCHANGED <<op, lhs, rhs, sec, nsec, then, clock>>

busy_wait == Call \/ Carry \/ Borrow \/ Return \/ Compare \/ ClockGettime

(* The program may be kept from the CPU for any time. *)
Tick ==
  /\ Busy /\ Nanos(clock) < MaxClock
  /\ clock' = Later(clock)
  /\ UNCHANGED <<op, lhs, rhs, sec, nsec, then, now, pc>>

Next == pc # "returned" /\ (busy_wait \/ Tick)

Spec ==
  /\ Init /\ [][Next]_vars
  /\ WF_vars(pc # "returned" /\ busy_wait) /\ WF_vars(pc # "returned" /\ Tick)

-----------------------------------------------------------------------------
TypeOK ==
  /\ op \in {"busy_wait", "sub"}
  /\ lhs \in Operands /\ rhs \in Operands
  /\ sec \in Int /\ nsec \in (-Giga)..(2 * Giga)
  /\ then \in Normal /\ now \in Normal
  /\ clock \in Normal
  /\ pc \in {"call", "normalize", "compare", "gettime", "returned"}

Finished == pc \in {"compare", "gettime", "returned"}

(* What the loops compute is the sum or the difference, with the            *)
(* nanoseconds below a second, also when the difference is negative.        *)
Arithmetic ==
  Finished =>
    /\ then \in Normal
    /\ Nanos(then) = IF Busy THEN Nanos(lhs) + Nanos(rhs) ELSE Nanos(lhs) - Nanos(rhs)

(* busy_wait() does not return before its time, whenever the clock advances *)
(* between the readings and whichever side of a second they are on.         *)
WaitsLongEnough == Busy /\ pc = "returned" => Nanos(clock) >= Nanos(lhs) + Nanos(rhs)

=============================================================================
