------------------------------ MODULE BoardStart ------------------------------
(***************************************************************************)
(* How the responder of ex03 comes up: board_init(), the interrupt          *)
(* controller (intc.c), the USB, and the configuration of the pins by        *)
(* main(), a register write at a time, while the test equipment is already   *)
(* connected and the USB interrupts.  Once main loops the board is what      *)
(* InterruptResponder starts from.                                          *)
(***************************************************************************)
EXTENDS GpioWrites

VARIABLES
  regs,            \* the registers of the pins
  level,           \* the test pins that are high
  main, handler,   \* the steps left of main() and of interrupt_J3()
  gm, saved,       \* the global interrupt mask, and the flags main has saved
  active,          \* the lines whose handlers run, the innermost first
  evba,            \* the exception vectors are set
  table, ipr,      \* the handler of each line, and its priority
  usb,             \* off, on, or requesting
  fell,            \* history: test pins that fell since their flag was cleared
  answering,       \* and those whose flag this run of the handler has cleared
  stuck            \* an interrupt had no handler

hardware == <<regs, level, usb>>
intc     == <<evba, table, ipr>>
history  == <<fell, answering>>
vars     == <<hardware, main, handler, gm, saved, active, intc, history, stuck>>

Pairs     == {"A", "B", "C"}
Test      == [p \in Pairs |-> "TEST_" \o p]
Response  == [p \in Pairs |-> "RESPONSE_" \o p]
TestPins  == {Test[p] : p \in Pairs}
Lines     == {"gpio", "usb"}

Step(o)    == [op |-> o, arg |-> "", lvl |-> 0]
Writes(ws) == [i \in DOMAIN ws |-> [Step("write") EXCEPT !.arg = ws[i]]]
Input  == [pull_up |-> FALSE, interrupt |-> "none", output |-> "none"]
High   == [Input EXCEPT !.output = "high"]

board_init ==
  Writes(gpio_configure_pin("LED", High) \o gpio_configure_pin("BUTTON", [Input EXCEPT !.pull_up = TRUE]))

Init_line(l)       == [Step("init_line") EXCEPT !.arg = l]
Register(l, n)     == <<[Step("register") EXCEPT !.arg = l, !.lvl = n]>>
INTC_init_interrupts == <<Step("evba"), Init_line("usb"), Init_line("gpio")>>

(* udd_enable() registers the handler before it unmasks interrupts again.   *)
stdio_usb_init ==
  <<Step("irq_save")>> \o Register("usb", 0) \o <<Step("usb_on"), Step("irq_restore")>>

UsbFirst ==  \* MUTANT: the vectors are initialized after the USB has registered
  board_init \o stdio_usb_init \o <<Step("irq_disable")>> \o INTC_init_interrupts \o Register("gpio", 1)
    \o <<Step("irq_enable")>>

init ==
  board_init \o <<Step("irq_disable")>> \o INTC_init_interrupts \o Register("gpio", 1)
    \o <<Step("irq_enable")>> \o stdio_usb_init

ForEach(f) == f["A"] \o f["B"] \o f["C"]
Setup ==
  ForEach([p \in Pairs |-> Writes(gpio_configure_pin(Test[p], Input))])
    \o ForEach([p \in Pairs |-> Writes(gpio_enable_pin_interrupt(Test[p], "falling"))])
    \o ForEach([p \in Pairs |-> Writes(gpio_configure_pin(Response[p], High))])

(* After a reset interrupts are masked, and no pin is driven. *)
Init ==
  /\ regs = [r \in Registers |-> {}]
  /\ level = TestPins
  /\ main = init \o Setup /\ handler = <<>>
  /\ gm = TRUE /\ saved = FALSE /\ active = <<>>
  /\ evba = FALSE /\ table = [l \in Lines |-> "unset"] /\ ipr = [l \in Lines |-> 0]
  /\ usb = "off"
  /\ fell = {} /\ answering = {} /\ stuck = FALSE

-----------------------------------------------------------------------------
Runs(o) == ~stuck /\ active = <<>> /\ main # <<>> /\ Head(main).op = o /\ main' = Tail(main)

MainWrites ==
  /\ Runs("write")
  /\ regs' = Written(regs, Head(main).arg)
  /\ UNCHANGED <<level, usb, handler, gm, saved, active, intc, history, stuck>>

cpu_irq_disable == Runs("irq_disable") /\ gm' = TRUE /\ UNCHANGED <<hardware, handler, saved, active, intc, history, stuck>>
cpu_irq_enable  == Runs("irq_enable") /\ gm' = FALSE /\ UNCHANGED <<hardware, handler, saved, active, intc, history, stuck>>
cpu_irq_save    == Runs("irq_save") /\ saved' = gm /\ gm' = TRUE /\ UNCHANGED <<hardware, handler, active, intc, history, stuck>>
cpu_irq_restore == Runs("irq_restore") /\ gm' = saved /\ UNCHANGED <<hardware, handler, saved, active, intc, history, stuck>>

InitEvba ==
  /\ Runs("evba")
  /\ evba' = TRUE
  /\ UNCHANGED <<hardware, handler, gm, saved, active, table, ipr, history, stuck>>

InitLine ==
  /\ Runs("init_line")
  /\ table' = [table EXCEPT ![Head(main).arg] = "_unhandled_interrupt"]
  /\ ipr' = [ipr EXCEPT ![Head(main).arg] = 0]
  /\ UNCHANGED <<hardware, handler, gm, saved, active, evba, history, stuck>>

INTC_register_interrupt ==
  /\ Runs("register")
  /\ table' = [table EXCEPT ![Head(main).arg] = "registered"]
  /\ ipr' = [ipr EXCEPT ![Head(main).arg] = Head(main).lvl]
  /\ UNCHANGED <<hardware, handler, gm, saved, active, evba, history, stuck>>

UsbOn == Runs("usb_on") /\ usb' = "on" /\ UNCHANGED <<regs, level, handler, gm, saved, active, intc, history, stuck>>

-----------------------------------------------------------------------------
(* The environment: a test pin changes, and its edge detector may flag it   *)
(* while its interrupt is enabled; the USB requests.                        *)
Detects(p, falls) ==
  LET s == Senses(regs, p) IN
  s # <<>> /\ (s = <<0, 0>> \/ (s = <<0, 1>> /\ falls) \/ (s = <<1, 0>> /\ ~falls))

Edge(p) ==
  LET falls == p \in level IN
  /\ level' = IF falls THEN level \ {p} ELSE level \cup {p}
  /\ regs' = IF Detects(p, falls) THEN [regs EXCEPT !.ifr = @ \cup {p}] ELSE regs
  /\ fell' = IF falls THEN fell \cup {p} ELSE fell
  /\ UNCHANGED <<main, handler, gm, saved, active, intc, usb, answering, stuck>>

UsbRequest == usb = "on" /\ usb' = "requesting" /\ UNCHANGED <<regs, level, main, handler, gm, saved, active, intc, history, stuck>>

Requests(l) == IF l = "usb" THEN usb = "requesting" ELSE regs.ifr \cap regs.ier # {}
Priority(s) == IF s = <<>> THEN -1 ELSE ipr[Head(s)]

(* interrupt_J3(); a check goes past the two steps it is about. *)
Respond(p) ==
  <<[Step("check") EXCEPT !.arg = Test[p]], [Step("clear") EXCEPT !.arg = Test[p]]>>
    \o Writes(gpio_set_pin_low(Response[p]))
interrupt_J3 == ForEach([p \in Pairs |-> Respond(p)]) \o ForEach([p \in Pairs |-> Writes(gpio_set_pin_high(Response[p]))])

Registered(l) == evba /\ table[l] = "registered"
_get_interrupt_handler(l) ==
  /\ ~stuck /\ ~gm /\ Requests(l) /\ ipr[l] > Priority(active)
  /\ stuck' = ~Registered(l)
  /\ active' = <<l>> \o active
  /\ handler' = IF l = "gpio" THEN interrupt_J3 ELSE handler
  /\ UNCHANGED <<hardware, main, gm, saved, intc, history>>

Handles(o) == ~stuck /\ active # <<>> /\ Head(active) = "gpio" /\ handler # <<>> /\ Head(handler).op = o

CheckFlag ==
  /\ Handles("check")
  /\ handler' = IF Head(handler).arg \in regs.ifr THEN Tail(handler) ELSE SubSeq(handler, 4, Len(handler))
  /\ UNCHANGED <<hardware, main, gm, saved, active, intc, history, stuck>>

ClearFlag ==
  LET p == Head(handler).arg IN
  /\ Handles("clear")
  /\ handler' = Tail(handler)
  /\ regs' = Written(regs, gpio_clear_pin_interrupt_flag(p)[1])
  /\ fell' = fell \ {p} /\ answering' = answering \cup {p}
  /\ UNCHANGED <<level, usb, main, gm, saved, active, intc, stuck>>

HandlerWrites ==
  /\ Handles("write")
  /\ handler' = Tail(handler)
  /\ regs' = Written(regs, Head(handler).arg)
  /\ UNCHANGED <<level, usb, main, gm, saved, active, intc, history, stuck>>

(* The handler of the USB, of which only the end is of interest, may be      *)
(* interrupted by the other one.                                            *)
HandlerReturns ==
  /\ ~stuck /\ active # <<>>
  /\ Head(active) = "gpio" => handler = <<>>
  /\ active' = Tail(active)
  /\ usb' = IF Head(active) = "usb" THEN "on" ELSE usb
  /\ answering' = IF Head(active) = "gpio" THEN {} ELSE answering
  /\ UNCHANGED <<regs, level, main, handler, gm, saved, intc, fell, stuck>>

Next ==
  \/ MainWrites \/ cpu_irq_disable \/ cpu_irq_enable \/ cpu_irq_save \/ cpu_irq_restore
  \/ InitEvba \/ InitLine \/ INTC_register_interrupt \/ UsbOn
  \/ \E p \in TestPins : Edge(p)
  \/ UsbRequest
  \/ \E l \in Lines : _get_interrupt_handler(l)
  \/ CheckFlag \/ ClearFlag \/ HandlerWrites \/ HandlerReturns

Spec == Init /\ [][Next]_vars

-----------------------------------------------------------------------------
(* While the board comes up no interrupt is without a handler, a response is *)
(* low only during the answer to its own test pin, and a pin is flagged only *)
(* because it fell.  When main has come to its loop the falling edges of all *)
(* test pins interrupt, and the responses are driven high.                   *)
StartsSafely ==
  /\ ~stuck
  /\ \A p \in Pairs :
       /\ Driven(regs, Response[p]) = <<"output", 0>> => Test[p] \in answering
       /\ Test[p] \in regs.ifr => Test[p] \in fell
  /\ main = <<>> =>
       /\ ~gm
       /\ \A p \in Pairs :
            /\ Driven(regs, Test[p]) = <<"input", 0>> /\ Senses(regs, Test[p]) = <<0, 1>>
            /\ Driven(regs, Response[p]) = <<"output", 1>> \/ Test[p] \in answering

=============================================================================
