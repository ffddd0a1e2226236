-------------------------------- MODULE MCPins --------------------------------
(***************************************************************************)
(* The programs that answer pins with pins, and the drivers they use, beside *)
(* each other: the initial state chooses which one runs, and the others stay *)
(* as they are.                                                             *)
(***************************************************************************)
EXTENDS InterruptResponder

CONSTANTS Pins1, LED_COUNT, Spare, Period, Low, MaxLate, MaxLow

(* A pulse, and what a sleep may be late, fit in a period of the thread of   *)
(* ex05: 5 us in 1 ms.                                                      *)
ASSUME PollAssumption ==
  /\ Period \in Nat /\ Low \in Nat /\ MaxLate \in Nat /\ MaxLow \in Nat
  /\ Low + MaxLate <= Period

VARIABLES
  program,  \* the one that runs
  gpioRegs, gpioTodo, gpioFn, before, after, sensed,
  ledRegs, LED_State, ledFn, mask, leds, descriptor, asked, step,
  regs, level, main, handler, gm, saved, active, evba, table, ipr, usb, fell, answering, stuck,
  input, output, pc, wake, asleep, inputLow, answered

Driver == INSTANCE Gpio WITH Pins <- Pins1, regs <- gpioRegs, todo <- gpioTodo, fn <- gpioFn
Leds   == INSTANCE Led WITH regs <- ledRegs, fn <- ledFn
Board  == INSTANCE BoardStart
Poll   == INSTANCE PollingResponder WITH Pulse <- Low, lowFor <- inputLow

responderVars == vars
driverVars    == <<gpioRegs, gpioTodo, gpioFn, before, after, sensed>>
ledVars       == <<ledRegs, LED_State, ledFn, mask, leds, descriptor, asked, step>>
boardVars     == <<regs, level, main, handler, gm, saved, active, evba, table, ipr, usb, fell, answering, stuck>>
pollVars      == <<input, output, pc, wake, asleep, inputLow, answered>>
programVars   == <<program, responderVars, driverVars, ledVars, boardVars, pollVars>>

ResponderStep == program = "responder" /\ Next /\ UNCHANGED <<program, driverVars, ledVars, boardVars, pollVars>>
DriverStep    == program = "driver" /\ Driver!Next /\ UNCHANGED <<program, responderVars, ledVars, boardVars, pollVars>>
LedStep       == program = "leds" /\ Leds!Next /\ UNCHANGED <<program, responderVars, driverVars, boardVars, pollVars>>
BoardStep     == program = "board" /\ Board!Next /\ UNCHANGED <<program, responderVars, driverVars, ledVars, pollVars>>
PollStep      == program = "poll" /\ Poll!Next /\ UNCHANGED <<program, responderVars, driverVars, ledVars, boardVars>>

MCInit ==
  /\ program \in {"responder", "driver", "leds", "board", "poll"}
  /\ Init /\ Driver!Init /\ Leds!Init /\ Board!Init /\ Poll!Init

MCSpec == MCInit /\ [][ResponderStep \/ DriverStep \/ LedStep \/ BoardStep \/ PollStep]_programVars

-----------------------------------------------------------------------------
(* The invariants of the others, which a program at rest keeps.             *)

(* The driver takes a line from what it was to what it shall be with nothing *)
(* in between, and the LEDs are as the driver remembers them. (Gpio, Led)    *)
PinsAsAsked == Driver!GlitchFree /\ Leds!SavedStateIsTrue

(* Whatever interrupts while the board starts has its handler. (BoardStart)  *)
StartsSafely == Board!StartsSafely

(* An input that stays low for a period is answered. (PollingResponder)      *)
LowIsAnswered == Poll!LowIsAnswered

=============================================================================
