------------------------------ MODULE BusClocks ------------------------------
(***************************************************************************)
(* The clocks of the peripherals of ex03 (services/clock/uc3a3_a4/sysclk.c  *)
(* and sysclk.h) after sysclk_init(): a bit in a mask register for each      *)
(* module, and the bridges to the buses PBB and PBC, which a reference count *)
(* turns on and off.  The functions are called from main and from an         *)
(* interrupt handler, which runs atop of main wherever interrupts are not    *)
(* disabled; a call is the sequence of the accesses it makes.                *)
(***************************************************************************)
EXTENDS Integers, Sequences

CONSTANTS
  MainUses, HandlerUses, \* the peripherals each context enables and disables
  MaxCalls               \* bound on the calls of a context

VARIABLES
  todo,      \* the accesses that are left of the call of a context
  saved,     \* the flags its cpu_irq_save() have returned, the last one first
  mask,      \* its local variable
  current,   \* the call
  calls,
  gm,        \* the CPU's global interrupt mask
  handling,  \* the handler runs
  masks,     \* the mask registers
  mskrdy,    \* POSCSR.MSKRDY
  sysclk_bus_refcount,
  osc, genclk, \* oscillator 0 and the generic clock of the USB
  wanted     \* the peripherals enabled and not disabled since

vars == <<todo, saved, mask, current, calls, gm, handling, masks, mskrdy, sysclk_bus_refcount,
          osc, genclk, wanted>>

Contexts == {"main", "handler"}
Uses     == [main |-> MainUses, handler |-> HandlerUses]

(* The modules of a peripheral.  SYSCLK_AES alone is on PBC. *)
OnPba   == {"INTC", "GPIO", "PDCA", "PM", "ADC", "SPI0", "SPI1", "TWIM0", "TWIM1", "TWIS0", "TWIS1",
            "USART0", "USART1", "USART2", "USART3", "SSC", "TC0", "TC1", "ABDAC"}
OnPbb   == {"HMATRIX", "USBB", "FLASHC", "SMC", "SDRAMC", "ECCHRS", "MCI", "BUSMON", "MSI", "AES", "USB"}
HasData == {"PDCA", "USBB", "FLASHC", "BUSMON", "USB"}
Module(p) == IF p = "USB" THEN "USBB" ELSE p   \* USB: sysclk_enable_usb()
Bridge  == [k \in {0, 1} |-> IF k = 0 THEN "PBB_BRIDGE" ELSE "PBC_BRIDGE"]
pbus_id(m) == IF m = "AES" THEN 1 ELSE 0

Minimal == [hsb |-> {"FLASHC", "PBA_BRIDGE", "HRAMC0", "HRAMC1"}, pba |-> {"INTC", "GPIO", "PM"}, pbb |-> {}]

Init ==
  /\ todo = [x \in Contexts |-> <<>>] /\ saved = [x \in Contexts |-> <<>>]
  /\ mask = [x \in Contexts |-> {}]
  /\ current = [x \in Contexts |-> <<>>] /\ calls = [x \in Contexts |-> 0]
  /\ gm = FALSE /\ handling = FALSE
  /\ masks = Minimal /\ mskrdy = TRUE
  /\ sysclk_bus_refcount = [k \in {0, 1} |-> 0]
  /\ osc = "off" /\ genclk = FALSE
  /\ wanted = {}

-----------------------------------------------------------------------------
(* The accesses of the functions. *)
Do(o)             == [op |-> o, grp |-> "", bit |-> "", on |-> FALSE, bus |-> 0]
Access(o, g, b, on) == [Do(o) EXCEPT !.grp = g, !.bit = b, !.on = on]
OnBus(o, k, on)   == [Do(o) EXCEPT !.bus = k, !.on = on]

sysclk_priv_module(g, b, on) ==
  <<Do("save"), Access("read", g, b, on), Access("write", g, b, on), Do("restore")>>

sysclk_enable_pbb_module(m) ==
  <<Do("save"), OnBus("bridge", pbus_id(m), TRUE), OnBus("count", pbus_id(m), TRUE), Do("restore")>>
    \o sysclk_priv_module("pbb", m, TRUE)

sysclk_disable_pbb_module(m) ==
  sysclk_priv_module("pbb", m, FALSE)
    \o <<Do("save"), OnBus("count", pbus_id(m), FALSE), OnBus("bridge", pbus_id(m), FALSE), Do("restore")>>

Data(p, on) == IF p \in HasData THEN sysclk_priv_module("hsb", Module(p), on) ELSE <<>>

sysclk_enable_peripheral_clock(p) ==
  Data(p, TRUE) \o (IF p \in OnPba THEN sysclk_priv_module("pba", p, TRUE) ELSE sysclk_enable_pbb_module(p))

sysclk_disable_peripheral_clock(p) ==
  Data(p, FALSE) \o (IF p \in OnPba THEN sysclk_priv_module("pba", p, FALSE) ELSE sysclk_disable_pbb_module(p))

sysclk_enable_usb ==
  sysclk_enable_pbb_module("USBB") \o Data("USB", TRUE)
    \o <<Do("osc_enable"), Do("osc_wait_ready"), [Do("genclk") EXCEPT !.on = TRUE]>>

sysclk_disable_usb == <<Do("genclk")>> \o Data("USB", FALSE) \o sysclk_disable_pbb_module("USBB")

Enabling(p)  == IF p = "USB" THEN sysclk_enable_usb ELSE sysclk_enable_peripheral_clock(p)
Disabling(p) == IF p = "USB" THEN sysclk_disable_usb ELSE sysclk_disable_peripheral_clock(p)

-----------------------------------------------------------------------------
(* A context runs: main unless the handler does. *)
Runs(x) == handling = (x = "handler")
Idle(x) == todo[x] = <<>> /\ current[x] = <<>>

(* An interrupt is taken where the mask allows it. *)
Interrupt == ~handling /\ ~gm /\ calls["handler"] < MaxCalls /\ handling' = TRUE

Start(x) ==
  /\ Idle(x) /\ calls[x] < MaxCalls
  /\ IF x = "main" THEN ~handling /\ UNCHANGED handling ELSE Interrupt
  /\ \E p \in Uses[x] :
       /\ current' = [current EXCEPT ![x] = <<p, p \notin wanted>>]
       /\ todo' = [todo EXCEPT ![x] = IF p \in wanted THEN Disabling(p) ELSE Enabling(p)]
       /\ wanted' = wanted \ {p}
  /\ calls' = [calls EXCEPT ![x] = @ + 1]
  /\ UNCHANGED <<saved, mask, gm, masks, mskrdy, sysclk_bus_refcount, osc, genclk>>

Return(x) ==
  /\ Runs(x) /\ todo[x] = <<>> /\ current[x] # <<>>
  /\ wanted' = IF current[x][2] THEN wanted \cup {current[x][1]} ELSE wanted
  /\ current' = [current EXCEPT ![x] = <<>>]
  /\ handling' = FALSE
  /\ UNCHANGED <<todo, saved, mask, calls, gm, masks, mskrdy, sysclk_bus_refcount, osc, genclk>>

Next_access(x, o) == Runs(x) /\ todo[x] # <<>> /\ Head(todo[x]).op = o
Done(x)           == todo' = [todo EXCEPT ![x] = Tail(@)]

Unmasked == gm  \* MUTANT: the section does not disable interrupts
Masked   == TRUE
cpu_irq_save(x) ==
  /\ Next_access(x, "save") /\ Done(x)
  /\ saved' = [saved EXCEPT ![x] = <<gm>> \o @]
  /\ gm' = Masked
  /\ UNCHANGED <<mask, current, calls, handling, masks, mskrdy, sysclk_bus_refcount, osc, genclk, wanted>>

Restored(x) == Head(saved[x])
cpu_irq_restore(x) ==
  /\ Next_access(x, "restore") /\ Done(x)
  /\ gm' = Restored(x)
  /\ saved' = [saved EXCEPT ![x] = Tail(@)]
  /\ UNCHANGED <<mask, current, calls, handling, masks, mskrdy, sysclk_bus_refcount, osc, genclk, wanted>>

ReadMask(x) ==
  /\ Next_access(x, "read") /\ mskrdy /\ Done(x)
  /\ mask' = [mask EXCEPT ![x] = masks[Head(todo[x]).grp]]
  /\ UNCHANGED <<saved, current, calls, gm, handling, masks, mskrdy, sysclk_bus_refcount, osc, genclk, wanted>>

WriteMask(x) ==
  LET a == Head(todo[x]) IN
  /\ Next_access(x, "write") /\ Done(x)
  /\ masks' = [masks EXCEPT ![a.grp] = IF a.on THEN mask[x] \cup {a.bit} ELSE mask[x] \ {a.bit}]
  /\ mskrdy' = FALSE
  /\ UNCHANGED <<saved, mask, current, calls, gm, handling, sysclk_bus_refcount, osc, genclk, wanted>>

MaskReady ==
  /\ ~mskrdy /\ mskrdy' = TRUE
  /\ UNCHANGED <<todo, saved, mask, current, calls, gm, handling, masks, sysclk_bus_refcount, osc, genclk, wanted>>

Count(x) ==
  LET a == Head(todo[x]) IN
  /\ Next_access(x, "count") /\ Done(x)
  /\ sysclk_bus_refcount' = [sysclk_bus_refcount EXCEPT ![a.bus] = (IF a.on THEN @ + 1 ELSE @ - 1) % 256]
  /\ UNCHANGED <<saved, mask, current, calls, gm, handling, masks, mskrdy, osc, genclk, wanted>>

(* The bridge goes on before the first module of its bus is counted, and off *)
(* after the last one is not counted any more.                              *)
Unused(k) == sysclk_bus_refcount[k] = 0
SwitchBridge(x) ==
  LET a == Head(todo[x]) IN
  /\ Next_access(x, "bridge")
  /\ todo' = [todo EXCEPT ![x] =
                (IF Unused(a.bus) THEN sysclk_priv_module("hsb", Bridge[a.bus], a.on) ELSE <<>>) \o Tail(@)]
  /\ UNCHANGED <<saved, mask, current, calls, gm, handling, masks, mskrdy, sysclk_bus_refcount, osc, genclk, wanted>>

OscEnable(x) ==
  /\ Next_access(x, "osc_enable") /\ Done(x)
  /\ osc' = IF osc = "off" THEN "starting" ELSE osc
  /\ UNCHANGED <<saved, mask, current, calls, gm, handling, masks, mskrdy, sysclk_bus_refcount, genclk, wanted>>

OscReady ==
  /\ osc = "starting" /\ osc' = "ready"
  /\ UNCHANGED <<todo, saved, mask, current, calls, gm, handling, masks, mskrdy, sysclk_bus_refcount, genclk, wanted>>

IsReady == osc = "ready"
OscWaitReady(x) ==
  /\ Next_access(x, "osc_wait_ready") /\ IsReady /\ Done(x)
  /\ UNCHANGED <<saved, mask, current, calls, gm, handling, masks, mskrdy, sysclk_bus_refcount, osc, genclk, wanted>>

Genclk(x) ==
  /\ Next_access(x, "genclk") /\ Done(x)
  /\ genclk' = Head(todo[x]).on
  /\ UNCHANGED <<saved, mask, current, calls, gm, handling, masks, mskrdy, sysclk_bus_refcount, osc, wanted>>

Next ==
  \/ \E x \in Contexts :
       Start(x) \/ Return(x) \/ cpu_irq_save(x) \/ cpu_irq_restore(x) \/ ReadMask(x) \/ WriteMask(x)
         \/ Count(x) \/ SwitchBridge(x) \/ OscEnable(x) \/ OscWaitReady(x) \/ Genclk(x)
  \/ MaskReady \/ OscReady

Spec == Init /\ [][Next]_vars

-----------------------------------------------------------------------------
Clocked(p) ==
  /\ p \in HasData => Module(p) \in masks.hsb
  /\ IF p \in OnPba THEN p \in masks.pba
     ELSE Module(p) \in masks.pbb /\ Bridge[pbus_id(p)] \in masks.hsb
  /\ p = "USB" => genclk /\ osc = "ready"

(* A peripheral that one context has enabled keeps all its clocks and the    *)
(* bridge to its bus whatever the other enables and disables meanwhile; with *)
(* no call under way nothing else has a clock, and interrupts are enabled.   *)
WantedAreClocked ==
  /\ \A p \in wanted : Clocked(p)
  /\ (\A x \in Contexts : Idle(x)) =>
       /\ ~gm
       /\ masks.pba = Minimal.pba \cup (wanted \cap OnPba)
       /\ masks.pbb = {Module(p) : p \in wanted \cap OnPbb}
       /\ masks.hsb = Minimal.hsb \cup {Module(p) : p \in wanted \cap HasData}
                        \cup {Bridge[pbus_id(p)] : p \in wanted \cap OnPbb}

=============================================================================
