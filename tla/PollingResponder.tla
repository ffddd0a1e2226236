--------------------------- MODULE PollingResponder ---------------------------
(***************************************************************************)
(* A thread of ex05 (ex05/main.c), one of three that each have a CPU: every *)
(* period it reads its input and, if it is low, answers with a pulse.  It    *)
(* sleeps until an absolute time, and a sleep may end late.                 *)
(***************************************************************************)
EXTENDS Integers

CONSTANTS
  Period,     \* 1 ms
  Pulse,      \* 5 us, in the same unit
  MaxLate,    \* bound on how much longer than asked for a sleep takes
  MaxLow      \* bound on how long the input is low

VARIABLES
  input, output,
  pc,
  wake,     \* waketime, relative to the present
  asleep,   \* time until the sleep it is in should end, negative when late
  lowFor,   \* how long the input has been low
  answered  \* pulses since it went low

vars == <<input, output, pc, wake, asleep, lowFor, answered>>

(* Sets the outputs low, then high. *)
io_init == "high"
io_read == input
io_write(value) == output' = value

Init ==
  /\ input = "high" /\ output = io_init
  /\ pc = "read"
  /\ wake = 0 /\ asleep = 0
  /\ lowFor = 0 /\ answered = 0

Seen == io_read = "low"
Read ==
  /\ pc = "read"
  /\ IF Seen THEN io_write("low") /\ answered' = answered + 1 /\ asleep' = Pulse /\ pc' = "pulse"
     ELSE pc' = "next" /\ UNCHANGED <<output, answered, asleep>>
  /\ UNCHANGED <<input, wake, lowFor>>

EndPulse ==
  /\ pc = "pulse" /\ asleep <= 0
  /\ io_write("high")
  /\ pc' = "next"
  /\ UNCHANGED <<input, wake, asleep, lowFor, answered>>

FromNow   == Period  \* MUTANT: the next time is counted from the end of this round
FromWake  == wake + Period
clock_nanosleep ==
  /\ pc = "next"
  /\ wake' = FromWake /\ asleep' = wake'
  /\ pc' = "sleep"
  /\ UNCHANGED <<input, output, lowFor, answered>>

Wakes ==
  /\ pc = "sleep" /\ asleep <= 0
  /\ pc' = "read"
  /\ UNCHANGED <<input, output, wake, asleep, lowFor, answered>>

brtt == Read \/ EndPulse \/ clock_nanosleep \/ Wakes

(* Time passes while it sleeps: everything else takes none. *)
Tick ==
  /\ pc \in {"pulse", "sleep"} /\ asleep > -MaxLate
  /\ input = "low" => lowFor < MaxLow
  /\ wake' = wake - 1 /\ asleep' = asleep - 1
  /\ lowFor' = IF input = "low" THEN lowFor + 1 ELSE 0
  /\ UNCHANGED <<input, output, pc, answered>>

Falls == input = "high" /\ input' = "low" /\ lowFor' = 0 /\ answered' = 0 /\ UNCHANGED <<output, pc, wake, asleep>>
Rises == input = "low" /\ input' = "high" /\ lowFor' = 0 /\ UNCHANGED <<output, pc, wake, asleep, answered>>

Next == brtt \/ Tick \/ Falls \/ Rises

Spec == Init /\ [][Next]_vars

-----------------------------------------------------------------------------
(* An input that is low for a period, and as much longer as a sleep may be  *)
(* late, is answered, and it is answered at most once more for each further *)
(* period, however late the thread has been before.                         *)
LowIsAnswered ==
  input = "low" =>
    /\ lowFor > Period + MaxLate => answered > 0
    /\ (answered - 1) * Period <= lowFor + MaxLate

=============================================================================
