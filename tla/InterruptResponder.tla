------------------------- MODULE InterruptResponder -------------------------
(***************************************************************************)
(* The responder of ex03/src/main.c: an interrupt handler answers falling  *)
(* edges on three test pins with a pulse each.  The handler looks at the   *)
(* pins in turn, B costs a delay of 100 us, and all responses end together *)
(* 5 us later.  Instructions take no time, delays do.                      *)
(***************************************************************************)
EXTENDS Integers

CONSTANTS
  DelayB,  \* busy_delay_us(100), in units of 5 us
  Pulse    \* busy_delay_us(5)

ASSUME InterruptAssumption == DelayB \in Nat /\ Pulse \in Nat \ {0}

Pins == {"A", "B", "C"}

VARIABLES
  flag,    \* GPIO interrupt flag of each pin
  low,     \* the response pins that are low
  loc, pin, \* where the handler is, and which pin it is about
  spent,   \* time spent in the delay it is in
  owed,    \* history: the pulses due to the edges of each pin,
  age,     \* how long they have been due,
  lowFor   \* and how long a response has been low

vars == <<flag, low, loc, pin, spent, owed, age, lowFor>>

(* main() sets up the pins; its loop then does nothing, as nobody sets its  *)
(* own flags[].                                                             *)
Init ==
  /\ flag = {} /\ low = {}
  /\ loc = "main" /\ pin = "A" /\ spent = 0
  /\ owed = [p \in Pins |-> 0] /\ age = [p \in Pins |-> 0] /\ lowFor = [p \in Pins |-> 0]

NextPin == [A |-> "B", B |-> "C", C |-> "A"]

(* The test equipment pulls a pin low.  An edge that comes once the flag of *)
(* the last one is cleared deserves a pulse of its own.                     *)
Edge(p) ==
  /\ flag' = flag \cup {p}
  /\ owed' = [owed EXCEPT ![p] = IF loc = "set_low" /\ pin = p THEN 2 ELSE 1]
  /\ UNCHANGED <<low, loc, pin, spent, age, lowFor>>

(* The handler is entered from the main loop, which does nothing: the       *)
(* assignments to flags[] are commented out.                                *)
Enter ==
  /\ loc = "main" /\ flag # {}
  /\ loc' = "check" /\ pin' = "A"
  /\ UNCHANGED <<flag, low, spent, owed, age, lowFor>>

SlowAll == Pins  \* MUTANT: the delay is made for every pin
Slow    == {"B"}

AfterPin == IF pin = "C" THEN loc' = "delay" /\ pin' = "A" ELSE loc' = "check" /\ pin' = NextPin[pin]

Check ==
  /\ loc = "check"
  /\ IF pin \notin flag THEN AfterPin
     ELSE loc' = (IF pin \in Slow THEN "delay_b" ELSE "clear") /\ UNCHANGED pin
  /\ UNCHANGED <<flag, low, spent, owed, age, lowFor>>

NoPulse   == TRUE  \* MUTANT: the responses end at once
PulseDone == spent = Pulse

DelayEnds ==
  /\ \/ loc = "delay_b" /\ spent = DelayB /\ loc' = "clear"
     \/ loc = "delay" /\ PulseDone /\ loc' = "set_high"
  /\ spent' = 0
  /\ UNCHANGED <<flag, low, pin, owed, age, lowFor>>

ClearAll == {}  \* MUTANT: all flags are cleared
Cleared  == flag \ {pin}

ClearFlag ==
  /\ loc = "clear"
  /\ flag' = Cleared
  /\ loc' = "set_low"
  /\ UNCHANGED <<low, pin, spent, owed, age, lowFor>>

SetLow ==
  /\ loc = "set_low"
  /\ low' = low \cup {pin} /\ owed' = [owed EXCEPT ![pin] = @ - 1]
  /\ age' = [age EXCEPT ![pin] = 0]
  /\ AfterPin
  /\ UNCHANGED <<flag, spent, lowFor>>

SetHigh ==
  /\ loc = "set_high"
  /\ low' = low \ {pin} /\ lowFor' = [lowFor EXCEPT ![pin] = 0]
  /\ pin' = NextPin[pin]
  /\ loc' = IF pin = "C" THEN "main" ELSE "set_high"
  /\ UNCHANGED <<flag, spent, owed, age>>

interrupt_J3 == Enter \/ Check \/ DelayEnds \/ ClearFlag \/ SetLow \/ SetHigh

(* Time passes while the handler delays.  (In the main loop it passes too,  *)
(* with nothing owed and no response low.)                                  *)
Tick ==
  /\ \/ loc = "delay_b" /\ spent < DelayB
     \/ loc = "delay" /\ spent < Pulse
  /\ spent' = spent + 1
  /\ age' = [p \in Pins |-> IF owed[p] > 0 THEN age[p] + 1 ELSE 0]
  /\ lowFor' = [p \in Pins |-> IF p \in low THEN lowFor[p] + 1 ELSE 0]
  /\ UNCHANGED <<flag, low, loc, pin, owed>>

Next == interrupt_J3 \/ Tick \/ \E p \in Pins : Edge(p)

(* The processor runs and time passes; edges need not come.                 *)
Spec == Init /\ [][Next]_vars /\ WF_vars(interrupt_J3 \/ Tick)

-----------------------------------------------------------------------------
TypeOK ==
  /\ flag \subseteq Pins /\ low \subseteq Pins /\ owed \in [Pins -> 0..2]
  /\ loc \in {"main", "check", "delay_b", "clear", "set_low", "delay", "set_high"}
  /\ pin \in Pins
  /\ spent \in 0..(DelayB + Pulse)
  /\ age \in [Pins -> Nat] /\ lowFor \in [Pins -> Nat]

(* No edge is lost: whenever it comes, also between two instructions of the *)
(* handler, the flag stands until the handler is about to answer it.         *)
NoEdgeLost ==
  \A p \in Pins : owed[p] > (IF loc = "set_low" /\ pin = p THEN 1 ELSE 0) => p \in flag

(* No pulse without an edge of its own.                                     *)
NoSpurious == [][\A p \in low' \ low : owed[p] > 0]_vars

(* An edge waits for the delay of B and one pulse at most, wherever in its   *)
(* round the handler is and whatever else it answers first.                 *)
LatencyBounded == \A p \in Pins : owed[p] > 0 => age[p] <= DelayB + Pulse

(* A response is low for at least the pulse the tester needs to see; only   *)
(* that of A is stretched, by the delay of B.                               *)
PulseWidth ==
  [][\A p \in low \ low' :
       lowFor[p] \in {Pulse} \cup (IF p = "A" THEN {Pulse + DelayB} ELSE {})]_vars

=============================================================================
