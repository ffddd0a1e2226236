------------------------------ MODULE Histogram ------------------------------
(***************************************************************************)
(* The clock measurements of ex01's tasks B and C: two readings of a clock  *)
(* one after the other, in task C with a sched_yield() in between, and a    *)
(* histogram of their differences.  The processor is lost for any time.     *)
(***************************************************************************)
EXTENDS Integers

CONSTANTS
  CyclesPer,  \* so many cycles of the time stamp counter
  NanosPer,   \* take so many nanoseconds: 2659.829 take 1000
  Second,     \* nanoseconds in a second
  ClockTick,  \* nanoseconds between two ticks of times()
  IntMax,     \* the largest int
  Short, Long, \* ns_max: 50 and 300
  MaxLost,    \* bound: cycles between two readings
  MaxCycles,  \* bound on the time
  MaxSamples  \* bound: times round the loop

VARIABLES
  run,        \* the program and the test chosen on its command line
  cycles,     \* the time
  first,      \* the cycle of the first reading, or None
  histogram,
  samples,
  last        \* history: the cycles of the last sample's readings, and what it was counted as

vars == <<run, cycles, first, histogram, samples, last>>

None    == -1  \* not read, not counted
Tests   == {"A", "B", "C"}
TaskB   == [ns_max |-> [t \in Tests |-> Short]]
TaskC   == [ns_max |-> [t \in Tests |-> IF t = "C" THEN Short ELSE Long]]

Ns(c) == (c * NanosPer) \div CyclesPer

(* A double that no int can hold becomes the least one. *)
ToInt(x) == IF x > IntMax THEN -IntMax - 1 ELSE x

DifferenceA(c1, c2) == ToInt(((c2 - c1) * NanosPer) \div CyclesPer)

(* Of the time only the nanoseconds are subtracted. *)
DifferenceB(c1, c2) == (Ns(c2) % Second) - (Ns(c1) % Second)

DifferenceC(c1, c2) == ToInt((Ns(c2) \div ClockTick - Ns(c1) \div ClockTick) * ClockTick)

Difference(c1, c2) ==
  CASE run.test = "A" -> DifferenceA(c1, c2)
    [] run.test = "B" -> DifferenceB(c1, c2)
    [] run.test = "C" -> DifferenceC(c1, c2)

Init ==
  /\ run \in [task : {TaskB, TaskC}, test : Tests]
  /\ cycles = 0 /\ first = None /\ samples = 0
  /\ histogram = [ns \in 0..(Long - 1) |-> 0]
  /\ last = [from |-> 0, to |-> 0, as |-> None]

Pass(lost) ==
  /\ cycles + lost <= MaxCycles /\ samples < MaxSamples
  /\ cycles' = cycles + lost
  /\ UNCHANGED <<run, first, histogram, samples, last>>

ReadFirst ==
  /\ first = None /\ samples < MaxSamples
  /\ first' = cycles
  /\ UNCHANGED <<run, cycles, histogram, samples, last>>

IsCounted(ns) == ns >= 0 /\ ns < run.task.ns_max[run.test]

ReadSecond ==
  LET ns == Difference(first, cycles)
  IN  /\ first # None
      /\ histogram' = IF IsCounted(ns) THEN [histogram EXCEPT ![ns] = @ + 1] ELSE histogram
      /\ last' = [from |-> first, to |-> cycles, as |-> IF IsCounted(ns) THEN ns ELSE None]
      /\ samples' = samples + 1 /\ first' = None
      /\ UNCHANGED <<run, cycles>>

Next == ReadFirst \/ ReadSecond \/ \E lost \in 1..MaxLost : Pass(lost)

Spec == Init /\ [][Next]_vars

-----------------------------------------------------------------------------
(* What is between two readings: the clock's own grain; the second of a      *)
(* clock of which only the nanoseconds are taken.                            *)
Grain   == IF run.test = "C" THEN ClockTick ELSE 1
Wraps   == IF run.test = "C" THEN ClockTick ELSE Second
Crossed == run.test # "A" /\ Ns(last.from) \div Wraps # Ns(last.to) \div Wraps
Took    == NanosPer * (last.to - last.from)  \* in units of a CyclesPer'th nanosecond

(* A sample is counted as what it took, to the grain of its clock, and left  *)
(* out only when it took longer than the histogram has room for, however     *)
(* long the processor was lost in between.  Not so the nanoseconds of        *)
(* CLOCK_MONOTONIC, which leave out a sample in which a second begins, or    *)
(* count it short of whole seconds, and times(), whose ticks are longer than *)
(* the histogram.  (testA, testB, testC)                                    *)
SamplesAreTrue ==
  samples > 0 =>
    IF last.as = None
    THEN Crossed \/ Took > (run.task.ns_max[run.test] - 1) * CyclesPer
    ELSE /\ Took > (last.as - Grain) * CyclesPer
         /\ Took < (last.as + Grain) * CyclesPer \/ (run.test = "B" /\ Took >= (Second - 1) * CyclesPer)
=============================================================================
