------------------------------ MODULE GpioWrites ------------------------------
(***************************************************************************)
(* The functions of the pin driver of ex03 (asf/avr32/drivers/gpio/gpio.c)  *)
(* as the register writes they make, in their order.  Each register holds a *)
(* bit for every pin of its port, and has an address to set bits, one to    *)
(* clear and one to toggle them: a write leaves the other pins alone.       *)
(***************************************************************************)
EXTENDS Integers, Sequences

Registers == {"gper", "pmr0", "pmr1", "oder", "ovr", "puer", "gfer", "imr0", "imr1", "ier", "ifr"}

Write(r, how, pins) == <<[reg |-> r, how |-> how, pins |-> pins]>>
SetBits(r, pins)    == Write(r, "s", pins)
ClearBits(r, pins)  == Write(r, "c", pins)
ToggleBits(r, pins) == Write(r, "t", pins)
PutBits(r, pins, v) == IF v THEN SetBits(r, pins) ELSE ClearBits(r, pins)

Written(g, w) ==
  [g EXCEPT ![w.reg] = CASE w.how = "s" -> @ \cup w.pins
                         [] w.how = "c" -> @ \ w.pins
                         [] w.how = "t" -> (@ \ w.pins) \cup (w.pins \ @)]

(* Functions A to D; E to H are those of later chips, and refused.          *)
gpio_enable_module_pin(p, function) ==
  IF function \notin 0..3 THEN <<>>
  ELSE PutBits("pmr0", {p}, function % 2 = 1) \o PutBits("pmr1", {p}, function \div 2 = 1)
         \o ClearBits("gper", {p})

gpio_enable_gpio_pin(p)       == ClearBits("oder", {p}) \o SetBits("gper", {p})
gpio_enable_pin_pull_up(p)    == SetBits("puer", {p})
gpio_disable_pin_pull_up(p)   == ClearBits("puer", {p})
gpio_enable_pin_glitch_filter(p)  == SetBits("gfer", {p})
gpio_disable_pin_glitch_filter(p) == ClearBits("gfer", {p})
gpio_disable_pin_interrupt(p)     == ClearBits("ier", {p})
gpio_clear_pin_interrupt_flag(p)  == ClearBits("ifr", {p})

(* Which edge interrupts: any, a rising or a falling one. *)
Modes == {"change", "rising", "falling"}
gpio_configure_edge_detector(pins, mode) ==
  PutBits("imr0", pins, mode = "rising") \o PutBits("imr1", pins, mode = "falling")

EnableFirst(p, mode)   == SetBits("ier", {p}) \o gpio_configure_edge_detector({p}, mode)  \* MUTANT: enabled before it is configured
EnableSensing(p, mode) == gpio_configure_edge_detector({p}, mode) \o SetBits("ier", {p})
gpio_enable_pin_interrupt(p, mode) == SetBits("gfer", {p}) \o EnableSensing(p, mode)

(* flags: pull_up, interrupt (none or a mode), and output (none, or the      *)
(* initial level); gpio_configure_pin() is the group of one pin.             *)
Output(pins, high) == PutBits("ovr", pins, high) \o SetBits("oder", pins)

gpio_configure_group(pins, flags) ==
  PutBits("puer", pins, flags.pull_up)
    \o (IF flags.interrupt = "none" THEN <<>> ELSE gpio_configure_edge_detector(pins, flags.interrupt))
    \o (IF flags.output = "none" THEN ClearBits("oder", pins) ELSE Output(pins, flags.output = "high"))
    \o SetBits("gper", pins)

gpio_configure_pin(p, flags) == gpio_configure_group({p}, flags)

gpio_set_group_high(pins) == SetBits("ovr", pins)
gpio_set_group_low(pins)  == ClearBits("ovr", pins)
gpio_toggle_group(pins)   == ToggleBits("ovr", pins)
gpio_set_pin_high(p)      == gpio_set_group_high({p})
gpio_set_pin_low(p)       == gpio_set_group_low({p})
gpio_toggle_pin(p)        == gpio_toggle_group({p})

Drive(p)             == SetBits("oder", {p}) \o SetBits("gper", {p})
gpio_set_gpio_pin(p) == SetBits("ovr", {p}) \o Drive(p)
gpio_clr_gpio_pin(p) == ClearBits("ovr", {p}) \o Drive(p)
gpio_tgl_gpio_pin(p) == ToggleBits("ovr", {p}) \o Drive(p)

(* An open-drain pin is driven low or not at all. *)
gpio_set_gpio_open_drain_pin(p) == ClearBits("oder", {p}) \o SetBits("gper", {p})
gpio_clr_gpio_open_drain_pin(p) == ClearBits("ovr", {p}) \o Drive(p)
gpio_tgl_gpio_open_drain_pin(p) ==
  ClearBits("ovr", {p}) \o ToggleBits("oder", {p}) \o SetBits("gper", {p})

(* Over the local bus the same registers are written without the peripheral  *)
(* bus in between, and nothing but the one bit.                             *)
gpio_local_enable_pin_output_driver(p)   == SetBits("oder", {p})
gpio_local_disable_pin_output_driver(p)  == ClearBits("oder", {p})
gpio_local_set_gpio_pin(p)               == SetBits("ovr", {p})
gpio_local_clr_gpio_pin(p)               == ClearBits("ovr", {p})
gpio_local_tgl_gpio_pin(p)               == ToggleBits("ovr", {p})
gpio_local_init_gpio_open_drain_pin(p)   == ClearBits("ovr", {p})
gpio_local_set_gpio_open_drain_pin(p)    == ClearBits("oder", {p})
gpio_local_clr_gpio_open_drain_pin(p)    == SetBits("oder", {p})
gpio_local_tgl_gpio_open_drain_pin(p)    == ToggleBits("oder", {p})

Bit(g, r, p) == IF p \in g[r] THEN 1 ELSE 0
gpio_get_gpio_pin_output_value(g, p)            == Bit(g, "ovr", p)
gpio_get_gpio_open_drain_pin_output_value(g, p) == 1 - Bit(g, "oder", p)

(* What the chip puts on the line of a pin. *)
Function(g, p)  == Bit(g, "pmr0", p) + 2 * Bit(g, "pmr1", p)
Driven(g, p) ==
  IF p \notin g.gper THEN <<"function", Function(g, p)>>
  ELSE IF gpio_get_gpio_open_drain_pin_output_value(g, p) = 1 THEN <<"input", 0>>
  ELSE <<"output", gpio_get_gpio_pin_output_value(g, p)>>

(* The edges of the pin that interrupt. *)
Senses(g, p) == IF p \notin g.ier THEN <<>> ELSE <<Bit(g, "imr0", p), Bit(g, "imr1", p)>>

=============================================================================
