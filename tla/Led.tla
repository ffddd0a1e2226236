---------------------------------- MODULE Led ----------------------------------
(***************************************************************************)
(* The LEDs of the board of ex03 (boards/uc3_a3_xplained/led.c): a saved     *)
(* state, one bit for each LED, and the loops that walk from one specified  *)
(* LED to the next by counting trailing zeros.  A set bit is a LED that is   *)
(* on, and a LED is on when its pin is low.  A word is the set of its bits.  *)
(***************************************************************************)
EXTENDS GpioWrites

CONSTANTS
  LED_COUNT,
  Spare      \* bits of a mask beyond the LEDs

VARIABLES
  regs,       \* the registers of the pins; pin i is LED i's
  LED_State,
  fn, mask, leds,
  descriptor, \* the LED the loop is at, which starts one before the first
  asked,      \* history: of each LED, the state last asked for, or unknown
  step

vars == <<regs, LED_State, fn, mask, leds, descriptor, asked, step>>

Leds      == 0..(LED_COUNT - 1)
Words     == SUBSET (0..(LED_COUNT + Spare - 1))
ctz(w)    == CHOOSE i \in w : \A j \in w : i <= j
Right(w, k) == {i - k : i \in {j \in w : j >= k}}
Left(w, k)  == {i + k : i \in w}

(* board_init() has driven the pins high: the LEDs are off. *)
Init ==
  /\ regs = [r \in Registers |-> IF r \in {"gper", "oder", "ovr"} THEN Leds ELSE {}]
  /\ LED_State = Leds
  /\ fn = "none" /\ mask = {} /\ leds = {} /\ descriptor = -1
  /\ asked = [i \in Leds |-> "unknown"]
  /\ step = "idle"

(* The functions differ in the bits they change of the saved state. *)
Existing(w) == w \cap Leds
Saved(f, m, w) ==
  CASE f \in {"display", "mask"} -> (LED_State \ m) \cup (w \cap m)
    [] f = "off"    -> LED_State \ m
    [] f = "on"     -> LED_State \cup m
    [] f = "toggle" -> (LED_State \ m) \cup (m \ LED_State)

Flip(a) == CASE a = "on" -> "off" [] a = "off" -> "on" [] OTHER -> a
Asked(f, m, w, i) ==
  IF i \notin m THEN asked[i]
  ELSE CASE f \in {"display", "mask"} -> (IF i \in w THEN "on" ELSE "off")
         [] f = "toggle"              -> Flip(asked[i])
         [] OTHER                     -> f

(* LED_Display() is for all LEDs, LED_Display_Field() shifts the value to    *)
(* the field.                                                               *)
Begin(f, m, w) ==
  /\ step = "idle"
  /\ fn' = f /\ mask' = Existing(m) /\ leds' = w
  /\ LED_State' = Saved(f, Existing(m), w)
  /\ descriptor' = -1
  /\ asked' = [i \in Leds |-> Asked(f, m, w, i)]
  /\ step' = "loop"
  /\ UNCHANGED regs

LED_Display(w)          == Begin("display", Leds, Existing(w))
LED_Display_Mask(m, w)  == Begin("mask", m, w)
LED_Display_Field(m, w) == m # {} /\ Left(w, ctz(m)) \in Words /\ Begin("mask", m, Left(w, ctz(m)))
LED_Off(w)              == Begin("off", w, w)
LED_On(w)               == Begin("on", w, w)
LED_Toggle(w)           == Begin("toggle", w, w)

LED_Read_Display         == LED_State
LED_Read_Display_Mask(m) == LED_State \cap m
LED_Test(w)              == LED_Read_Display_Mask(w) # {}
LED_Read_Display_Field(m) == IF m = {} THEN {} ELSE Right(LED_Read_Display_Mask(m), ctz(m))

(* One round: the next specified LED, and a write to its pin.               *)
Shifted(shift) == Right(leds, shift - 1)

Level(i, value) ==
  CASE fn = "toggle" -> ToggleBits("ovr", {i})
    [] fn = "off"    -> SetBits("ovr", {i})
    [] fn = "on"     -> ClearBits("ovr", {i})
    [] OTHER         -> PutBits("ovr", {i}, 0 \notin value)

Round ==
  LET shift == 1 + ctz(mask)
      i     == descriptor + shift
      ws    == Level(i, Shifted(shift)) \o Drive(i)
  IN
  /\ step = "loop" /\ mask # {}
  /\ regs' = Written(Written(Written(regs, ws[1]), ws[2]), ws[3])
  /\ descriptor' = i
  /\ leds' = Right(Shifted(shift), 1)
  /\ mask' = Right(mask, shift)
  /\ UNCHANGED <<LED_State, fn, asked, step>>

Return == step = "loop" /\ mask = {} /\ step' = "idle" /\ UNCHANGED <<regs, LED_State, fn, mask, leds, descriptor, asked>>

Next ==
  \/ \E w \in Words : LED_Display(w) \/ LED_Off(w) \/ LED_On(w) \/ LED_Toggle(w)
  \/ \E m \in Words, w \in Words : LED_Display_Mask(m, w) \/ LED_Display_Field(m, w)
  \/ Round \/ Return

Spec == Init /\ [][Next]_vars

-----------------------------------------------------------------------------
(* A LED that has been turned on or off since the start, and perhaps toggled *)
(* after that, is what was asked for, and LED_Test() says so.  Before, the   *)
(* saved state has every LED on while they are off.                         *)
SavedStateIsTrue ==
  step = "idle" =>
    \A i \in Leds : asked[i] # "unknown" =>
      /\ LED_Test({i}) = (asked[i] = "on")
      /\ i \in LED_Read_Display => LED_Read_Display_Field({i}) = {0}
      /\ Driven(regs, i) = <<"output", IF asked[i] = "on" THEN 0 ELSE 1>>

=============================================================================
