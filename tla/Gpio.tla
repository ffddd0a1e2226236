--------------------------------- MODULE Gpio ---------------------------------
(***************************************************************************)
(* Any sequence of calls of the pin driver of ex03, a register write at a   *)
(* time, and what is on the lines in between.                               *)
(***************************************************************************)
EXTENDS GpioWrites, SequencesExt

CONSTANT Pins  \* of one port

VARIABLES
  regs,    \* the registers: of each, the pins whose bit is set
  todo,    \* the writes that are left of the call under way
  fn,      \* the function
  before, after, \* what was on the lines, and what will be
  sensed   \* the edges that have interrupted, and those that will

vars == <<regs, todo, fn, before, after, sensed>>

NoPins == {}
Init ==
  /\ regs = [r \in Registers |-> IF r = "gper" THEN Pins ELSE NoPins]
  /\ todo = <<>> /\ fn = "none"
  /\ before = [p \in Pins |-> <<"input", 0>>] /\ after = before
  /\ sensed = [p \in Pins |-> {<<>>}]

Flags == [pull_up : BOOLEAN, interrupt : {"none"} \cup Modes, output : {"none", "low", "high"}]
Groups == SUBSET Pins \ {NoPins}

Final(g, ws) == FoldLeft(Written, g, ws)

Call(f, ws) ==
  /\ todo = <<>>
  /\ fn' = f /\ todo' = ws
  /\ before' = [p \in Pins |-> Driven(regs, p)]
  /\ LET final == Final(regs, ws) IN
     /\ after' = [p \in Pins |-> Driven(final, p)]
     /\ sensed' = [p \in Pins |-> {Senses(regs, p), Senses(final, p)}]
  /\ UNCHANGED regs

(* gpio_enable_module() and gpio_enable_gpio() do it for the pins of a map.   *)
CallPin(p) ==
  \/ \E f \in 0..4 : Call("module", gpio_enable_module_pin(p, f))
  \/ Call("gpio", gpio_enable_gpio_pin(p))
  \/ Call("pull_up", gpio_enable_pin_pull_up(p)) \/ Call("pull_up", gpio_disable_pin_pull_up(p))
  \/ Call("filter", gpio_enable_pin_glitch_filter(p)) \/ Call("filter", gpio_disable_pin_glitch_filter(p))
  \/ \E m \in Modes : Call("interrupt", gpio_enable_pin_interrupt(p, m))
  \/ Call("interrupt", gpio_disable_pin_interrupt(p)) \/ Call("interrupt", gpio_clear_pin_interrupt_flag(p))
  \/ \E f \in Flags : Call("configure", gpio_configure_pin(p, f))
  \/ Call("output", gpio_set_pin_high(p)) \/ Call("output", gpio_set_pin_low(p))
  \/ Call("output", gpio_toggle_pin(p)) \/ Call("output", gpio_set_gpio_pin(p))
  \/ Call("output", gpio_clr_gpio_pin(p)) \/ Call("output", gpio_tgl_gpio_pin(p))
  \/ Call("open_drain", gpio_set_gpio_open_drain_pin(p)) \/ Call("open_drain", gpio_clr_gpio_open_drain_pin(p))
  \/ Call("tgl_open_drain", gpio_tgl_gpio_open_drain_pin(p))

CallLocal(p) ==
  \/ Call("output", gpio_local_enable_pin_output_driver(p)) \/ Call("output", gpio_local_disable_pin_output_driver(p))
  \/ Call("output", gpio_local_set_gpio_pin(p)) \/ Call("output", gpio_local_clr_gpio_pin(p))
  \/ Call("output", gpio_local_tgl_gpio_pin(p))
  \/ Call("open_drain", gpio_local_init_gpio_open_drain_pin(p)) \/ Call("open_drain", gpio_local_set_gpio_open_drain_pin(p))
  \/ Call("open_drain", gpio_local_clr_gpio_open_drain_pin(p)) \/ Call("open_drain", gpio_local_tgl_gpio_open_drain_pin(p))

CallGroup(pins) ==
  \/ \E f \in Flags : Call("configure", gpio_configure_group(pins, f))
  \/ Call("output", gpio_set_group_high(pins)) \/ Call("output", gpio_set_group_low(pins))
  \/ Call("output", gpio_toggle_group(pins))

WriteRegister ==
  /\ todo # <<>>
  /\ regs' = Written(regs, Head(todo))
  /\ todo' = Tail(todo)
  /\ UNCHANGED <<fn, before, after, sensed>>

Next == (\E p \in Pins : CallPin(p) \/ CallLocal(p)) \/ (\E pins \in Groups : CallGroup(pins)) \/ WriteRegister

Spec == Init /\ [][Next]_vars

-----------------------------------------------------------------------------
(* A function takes a line from what it was to what it shall be with nothing *)
(* else in between: no short pulse, no other module; and a pin interrupts at *)
(* no edges but those it did and those it shall.  It is otherwise when a pin *)
(* goes from one module to another or, its interrupt enabled, from one edge  *)
(* to the other, because two bits are written in turn; and when one driven   *)
(* high is taken for an open-drain pin.                                     *)
GlitchFree ==
  \A p \in Pins :
    /\ \/ Driven(regs, p) \in {before[p], after[p]}
       \/ fn = "module" /\ before[p][1] = "function"
       \/ fn = "tgl_open_drain" /\ before[p] = <<"output", 1>>
    /\ \/ Senses(regs, p) \in sensed[p]
       \/ sensed[p] = {<<0, 1>>, <<1, 0>>}

=============================================================================
