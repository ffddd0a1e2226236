------------------------------ MODULE PinsProofs ------------------------------
(***************************************************************************)
(* Proofs about InterruptResponder, for every length of the delays, and      *)
(* about PollingResponder as a program of MCPins, for every period and pulse *)
(* and every lateness that leaves room for the pulse in a period.           *)
(***************************************************************************)
EXTENDS MCPins, TLAPS

(* Only the delays take time, and each belongs to one place.                *)
Delays ==
  /\ loc = "delay_b" => pin = "B" /\ spent <= DelayB
  /\ loc = "delay" => pin = "A" /\ spent <= Pulse
  /\ loc \notin {"delay_b", "delay"} => spent = 0
  /\ loc = "main" => pin = "A"

AnsweringPin == {"delay_b", "clear"}

(* A flag stands for a pulse that is due, and one is due when the handler   *)
(* has cleared the flag; only then may a second one be.                     *)
Due ==
  /\ \A p \in flag : owed[p] >= IF loc = "set_low" /\ pin = p THEN 2 ELSE 1
  /\ loc = "set_low" => owed[pin] >= 1
  /\ \A p \in Pins : owed[p] > 1 => loc = "set_low" /\ pin = p
  /\ loc \in AnsweringPin => pin \in flag

(* Time that the handler has spent on B when it looks at B.                 *)
SpentOnB == CASE loc = "check" -> 0 [] loc = "delay_b" -> spent [] OTHER -> DelayB

Looking == {"check", "delay_b", "clear", "set_low"}

(* How long an edge can have waited at each place of the handler's round.   *)
WaitOfA ==
  CASE loc \in Looking /\ pin = "B" -> SpentOnB
    [] loc \in Looking /\ pin = "C" -> DelayB
    [] loc = "delay" -> DelayB + spent
    [] OTHER -> DelayB + Pulse

WaitOfB ==
  CASE loc \in Looking /\ pin = "B" -> Pulse + SpentOnB
    [] loc \in Looking /\ pin = "C" -> 0
    [] loc = "delay" -> spent
    [] OTHER -> Pulse

WaitOfC ==
  CASE loc \in Looking /\ pin = "B" -> Pulse + SpentOnB
    [] loc \in Looking /\ pin = "C" -> Pulse + DelayB
    [] loc = "delay" -> spent
    [] OTHER -> Pulse

Waits ==
  /\ \A p \in Pins : owed[p] = 0 => age[p] = 0
  /\ age["A"] <= WaitOfA /\ age["B"] <= WaitOfB /\ age["C"] <= WaitOfC

IInv == TypeOK /\ Delays /\ Due /\ NoEdgeLost /\ Waits

USE InterruptAssumption DEF Pins

LEMMA InitIInv == Init => IInv
BY DEF Init, IInv, TypeOK, Delays, Due, AnsweringPin, NoEdgeLost, Waits, WaitOfA, WaitOfB,
   WaitOfC, Looking

LEMMA StepTypeOK == ASSUME IInv, Next PROVE TypeOK'
<1>. USE DEF IInv, TypeOK
<1>1. ASSUME NEW p \in Pins, Edge(p) PROVE TypeOK'
  BY <1>1 DEF Edge
<1>2. CASE Enter
  BY <1>2 DEF Enter
<1>3. CASE Check
  BY <1>3 DEF Check, AfterPin, NextPin
<1>4. CASE DelayEnds
  BY <1>4 DEF DelayEnds
<1>5. CASE ClearFlag
  BY <1>5 DEF ClearFlag, Cleared
<1>6. CASE SetLow
  BY <1>6 DEF SetLow, AfterPin, NextPin, Due
<1>7. CASE SetHigh
  BY <1>7 DEF SetHigh, NextPin
<1>8. CASE Tick
  BY <1>8 DEF Tick
<1>. QED  BY <1>1, <1>2, <1>3, <1>4, <1>5, <1>6, <1>7, <1>8 DEF Next, interrupt_J3

LEMMA StepDelays == ASSUME IInv, Next PROVE Delays'
<1>. USE DEF IInv, TypeOK, Delays
<1>1. CASE interrupt_J3
  BY <1>1 DEF interrupt_J3, Enter, Check, AfterPin, NextPin, Slow, DelayEnds, ClearFlag, SetLow,
     SetHigh
<1>2. CASE Tick
  BY <1>2 DEF Tick
<1>3. CASE \E p \in Pins : Edge(p)
  BY <1>3 DEF Edge
<1>. QED  BY <1>1, <1>2, <1>3 DEF Next

LEMMA StepDue == ASSUME IInv, Next PROVE (Due /\ NoEdgeLost)'
<1>. USE DEF IInv, TypeOK, Due, NoEdgeLost, AnsweringPin
<1>1. ASSUME NEW p \in Pins, Edge(p) PROVE (Due /\ NoEdgeLost)'
  BY <1>1 DEF Edge
<1>2. CASE Enter
  BY <1>2 DEF Enter
<1>3. CASE Check
  BY <1>3 DEF Check, AfterPin, NextPin
<1>4. CASE DelayEnds
  BY <1>4 DEF DelayEnds
<1>5. CASE ClearFlag
  BY <1>5 DEF ClearFlag, Cleared
<1>6. CASE SetLow
  BY <1>6 DEF SetLow, AfterPin, NextPin
<1>7. CASE SetHigh
  BY <1>7 DEF SetHigh, NextPin
<1>8. CASE Tick
  BY <1>8 DEF Tick
<1>. QED  BY <1>1, <1>2, <1>3, <1>4, <1>5, <1>6, <1>7, <1>8 DEF Next, interrupt_J3

LEMMA StepWaits == ASSUME IInv, Next PROVE Waits'
<1>. USE DEF IInv, TypeOK, Delays, Waits, WaitOfA, WaitOfB, WaitOfC, SpentOnB, Looking
<1>1. ASSUME NEW p \in Pins, Edge(p) PROVE Waits'
  BY <1>1 DEF Edge
<1>2. CASE Enter
  BY <1>2 DEF Enter
<1>3. CASE Check
  BY <1>3 DEF Check, AfterPin, NextPin, NoEdgeLost, Slow
<1>4. CASE DelayEnds
  BY <1>4 DEF DelayEnds, PulseDone
<1>5. CASE ClearFlag
  BY <1>5 DEF ClearFlag
<1>6. CASE SetLow
  BY <1>6 DEF SetLow, AfterPin, NextPin
<1>7. CASE SetHigh
  BY <1>7 DEF SetHigh, NextPin
<1>8. CASE Tick
  BY <1>8 DEF Tick
<1>. QED  BY <1>1, <1>2, <1>3, <1>4, <1>5, <1>6, <1>7, <1>8 DEF Next, interrupt_J3

LEMMA Invariance == Spec => []IInv
<1>1. ASSUME IInv, UNCHANGED vars PROVE IInv'
  BY <1>1 DEF IInv, TypeOK, Delays, Due, AnsweringPin, NoEdgeLost, Waits, WaitOfA, WaitOfB,
     WaitOfC, SpentOnB, Looking, vars
<1>2. ASSUME IInv, Next PROVE IInv'
  BY <1>2, StepTypeOK, StepDelays, StepDue, StepWaits DEF IInv
<1>. QED  BY <1>1, <1>2, InitIInv, PTL DEF Spec

-----------------------------------------------------------------------------
(* Type correctness. *)
THEOREM TypeCorrect == Spec => []TypeOK
<1>1. IInv => TypeOK
  BY DEF IInv
<1>. QED  BY <1>1, Invariance, PTL

(* No edge of a test pin is lost between the instructions of the handler.   *)
THEOREM EdgesAreRemembered == Spec => []NoEdgeLost
<1>1. IInv => NoEdgeLost
  BY DEF IInv
<1>. QED  BY <1>1, Invariance, PTL

(* Each pulse of the handler has an edge of its own.                        *)
THEOREM PulsesHaveEdges == Spec => NoSpurious
<1>1. ASSUME IInv, [Next]_vars PROVE \A p \in low' \ low : owed[p] > 0
  <2>1. CASE SetLow
    BY <1>1, <2>1 DEF SetLow, IInv, TypeOK, Due
  <2>2. CASE ~SetLow
    BY <1>1, <2>2 DEF Next, interrupt_J3, Enter, Check, DelayEnds, ClearFlag, SetHigh, Tick,
       Edge, vars
  <2>. QED  BY <2>1, <2>2
<1>. QED  BY <1>1, Invariance, PTL DEF Spec, NoSpurious

(* The bound on the latency, for every length of the delays.                *)
THEOREM LatencyIsBounded == Spec => []LatencyBounded
<1>1. IInv => LatencyBounded
  BY DEF IInv, TypeOK, Delays, Waits, WaitOfA, WaitOfB, WaitOfC, SpentOnB, Looking,
     LatencyBounded
<1>. QED  BY <1>1, Invariance, PTL

-----------------------------------------------------------------------------
(* The width of the pulses: the responses that may be low at each place of   *)
(* the handler's round, and for how long they have been.                    *)

MayBeLow ==
  CASE loc \in Looking /\ pin = "B" -> {"A"}
    [] loc \in Looking /\ pin = "C" -> {"A", "B"}
    [] loc = "delay" -> Pins
    [] loc = "set_high" -> IF pin = "A" THEN Pins ELSE IF pin = "B" THEN {"B", "C"} ELSE {"C"}
    [] OTHER -> {}

(* The time since the responses went low, the delay of B left aside.        *)
SinceAll == CASE loc = "delay" -> spent [] loc = "set_high" -> Pulse [] OTHER -> 0

(* What the delay of B may have added to the pulse of A. *)
Stretch == IF loc \in Looking /\ pin = "B"
           THEN IF loc = "check" THEN {0} ELSE IF loc = "delay_b" THEN {spent} ELSE {DelayB}
           ELSE {0, DelayB}

Widths ==
  /\ low \subseteq MayBeLow
  /\ \A p \in Pins \ low : lowFor[p] = 0
  /\ \A p \in low \ {"A"} : lowFor[p] = SinceAll
  /\ "A" \in low => \E d \in Stretch : lowFor["A"] = SinceAll + d

LEMMA StepWidths == ASSUME IInv, Widths, Next PROVE Widths'
<1>. USE DEF IInv, TypeOK, Delays, Widths, MayBeLow, SinceAll, Stretch, Looking
<1>1. ASSUME NEW p \in Pins, Edge(p) PROVE Widths'
  BY <1>1 DEF Edge
<1>2. CASE Enter
  BY <1>2 DEF Enter
<1>3. CASE Check
  BY <1>3 DEF Check, AfterPin, NextPin, Slow
<1>4. CASE DelayEnds
  BY <1>4 DEF DelayEnds, PulseDone
<1>5. CASE ClearFlag
  BY <1>5 DEF ClearFlag
<1>6. CASE SetLow
  <2>1. /\ low' = low \cup {pin} /\ lowFor' = lowFor /\ spent' = spent /\ spent = 0
        /\ low \subseteq MayBeLow /\ pin \notin low /\ lowFor[pin] = 0
    BY <1>6 DEF SetLow
  <2>2. CASE pin = "A"
    BY <1>6, <2>1, <2>2 DEF SetLow, AfterPin, NextPin
  <2>3. CASE pin = "B"
    BY <1>6, <2>1, <2>3 DEF SetLow, AfterPin, NextPin
  <2>4. CASE pin = "C"
    BY <1>6, <2>1, <2>4 DEF SetLow, AfterPin, NextPin
  <2>. QED  BY <2>2, <2>3, <2>4
<1>7. CASE SetHigh
  BY <1>7 DEF SetHigh, NextPin
<1>8. CASE Tick
  <2>1. CASE loc = "delay_b"
    BY <1>8, <2>1 DEF Tick
  <2>2. CASE loc = "delay"
    <3>1. /\ loc' = loc /\ pin' = pin /\ low' = low /\ spent' = spent + 1
          /\ lowFor' = [p \in Pins |-> IF p \in low THEN lowFor[p] + 1 ELSE 0]
      BY <1>8 DEF Tick
    <3>2. SinceAll' = SinceAll + 1 /\ MayBeLow' = MayBeLow /\ Stretch' = {0, DelayB}
      BY <2>2, <3>1
    <3>3. "A" \in low => \E d \in {0, DelayB} : lowFor'["A"] = SinceAll + 1 + d
      <4>1. "A" \in low => \E d \in {0, DelayB} : lowFor["A"] = SinceAll + d
        BY <2>2
      <4>. QED  BY <2>2, <3>1, <4>1
    <3>. QED  BY <2>2, <3>1, <3>2, <3>3
  <2>. QED  BY <1>8, <2>1, <2>2 DEF Tick
<1>. QED  BY <1>1, <1>2, <1>3, <1>4, <1>5, <1>6, <1>7, <1>8 DEF Next, interrupt_J3

(* A response is low for the pulse the tester needs to see, and only that of *)
(* A for the delay of B more, whatever edges come meanwhile. (interrupt_J3)  *)
THEOREM PulsesAreWide == Spec => PulseWidth
<1>1. Init => Widths
  BY DEF Init, Widths, MayBeLow, Looking
<1>2. ASSUME IInv, Widths, [Next]_vars PROVE Widths'
  <2>1. CASE Next
    BY <1>2, <2>1, StepWidths
  <2>2. CASE UNCHANGED vars
    BY <1>2, <2>2 DEF vars, Widths, MayBeLow, SinceAll, Stretch, Looking
  <2>. QED  BY <1>2, <2>1, <2>2
<1>3. ASSUME IInv, Widths, [Next]_vars
      PROVE  \A p \in low \ low' : lowFor[p] \in {Pulse} \cup (IF p = "A" THEN {Pulse + DelayB} ELSE {})
  <2>1. CASE SetHigh
    BY <1>3, <2>1 DEF SetHigh, IInv, TypeOK, Delays, Widths, SinceAll, Stretch, Looking
  <2>2. CASE ~SetHigh
    BY <1>3, <2>2 DEF Next, interrupt_J3, Enter, Check, DelayEnds, ClearFlag, SetLow, Tick,
       Edge, vars
  <2>. QED  BY <2>1, <2>2
<1>. QED  BY <1>1, <1>2, <1>3, Invariance, PTL DEF Spec, PulseWidth

-----------------------------------------------------------------------------
(* The thread of ex05.  It is never more behind its time than a sleep may be *)
(* late, when it reads, and by a pulse more after that.                     *)

PollType ==
  /\ input \in {"low", "high"} /\ pc \in {"read", "pulse", "next", "sleep"}
  /\ wake \in Int /\ asleep \in Int /\ inputLow \in Nat /\ answered \in Nat

InStep ==
  /\ pc # "sleep" => wake <= 0
  /\ pc = "sleep" => asleep = wake /\ wake <= Period
  /\ pc \in {"read", "sleep"} => wake >= -MaxLate
  /\ pc = "pulse" => asleep >= -MaxLate /\ asleep <= Low /\ wake >= asleep - Low - MaxLate
  /\ pc = "next" => wake >= -(2 * MaxLate) - Low

(* A low that is not answered began after the last time the input was read. *)
NotYet ==
  input = "low" /\ answered = 0 =>
    /\ pc = "read" => inputLow <= Period + MaxLate
    /\ pc = "sleep" => inputLow + wake <= Period
    /\ pc \in {"pulse", "next"} => inputLow + wake <= 0

(* The answers are a period apart from each other in the thread's time.     *)
Answers ==
  input = "low" =>
    /\ pc \in {"read", "sleep"} => answered * Period <= inputLow + wake + MaxLate
    /\ pc \in {"pulse", "next"} => answered * Period <= inputLow + wake + MaxLate + Period

PollInv == PollType /\ InStep /\ NotYet /\ Answers

LEMMA StepPollInv == ASSUME PollInv, Poll!Next PROVE PollInv'
<1>. USE PollAssumption DEF PollInv, PollType, InStep, NotYet, Answers
<1>. DEFINE paid == answered * Period
<1>1. /\ paid \in Nat /\ answered = 0 => paid = 0
      /\ (answered + 1) * Period = paid + Period
  OBVIOUS
<1>2. CASE Poll!Read
  BY <1>1, <1>2 DEF Poll!Read, Poll!Seen, Poll!io_read, Poll!io_write
<1>3. CASE Poll!EndPulse
  BY <1>1, <1>3 DEF Poll!EndPulse, Poll!io_write
<1>4. CASE Poll!clock_nanosleep
  BY <1>1, <1>4 DEF Poll!clock_nanosleep, Poll!FromWake
<1>5. CASE Poll!Wakes
  BY <1>1, <1>5 DEF Poll!Wakes
<1>6. CASE Poll!Tick
  BY <1>1, <1>6 DEF Poll!Tick
<1>7. CASE Poll!Falls
  BY <1>1, <1>7 DEF Poll!Falls
<1>8. CASE Poll!Rises
  BY <1>1, <1>8 DEF Poll!Rises
<1>. QED  BY <1>2, <1>3, <1>4, <1>5, <1>6, <1>7, <1>8 DEF Poll!Next, Poll!brtt

(* An input that is low for a period, and as much longer as a sleep may be  *)
(* late, is answered, and no more often than once a period, in the program   *)
(* of ex05 beside whichever runs.  (brtt of ex05/main.c)                     *)
THEOREM LowsAreAnswered == MCSpec => []LowIsAnswered
<1>. DEFINE Step == ResponderStep \/ DriverStep \/ LedStep \/ BoardStep \/ PollStep
<1>1. MCInit => PollInv
  BY PollAssumption DEF MCInit, Poll!Init, PollInv, PollType, InStep, NotYet, Answers
<1>2. ASSUME PollInv, [Step]_programVars PROVE PollInv'
  <2>1. CASE PollStep
    BY <1>2, <2>1, StepPollInv DEF PollStep
  <2>2. CASE UNCHANGED pollVars
    BY <1>2, <2>2 DEF pollVars, PollInv, PollType, InStep, NotYet, Answers
  <2>. QED  BY <1>2, <2>1, <2>2 DEF ResponderStep, DriverStep, LedStep, BoardStep, programVars
<1>3. PollInv => LowIsAnswered
  <2>. SUFFICES ASSUME PollInv, input = "low"
                PROVE  /\ inputLow > Period + MaxLate => answered > 0
                       /\ (answered - 1) * Period <= inputLow + MaxLate
    BY DEF LowIsAnswered, Poll!LowIsAnswered
  <2>1. (answered - 1) * Period = answered * Period - Period
    BY PollAssumption DEF PollInv, PollType
  <2>. QED  BY <2>1, PollAssumption DEF PollInv, PollType, InStep, NotYet, Answers
<1>. QED  BY <1>1, <1>2, <1>3, PTL DEF MCSpec
=============================================================================
