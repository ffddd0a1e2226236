---------------------------- MODULE PowerManager ----------------------------
(***************************************************************************)
(* The two drivers of the Power Manager: pm.c, and osc.h, pll.h and         *)
(* genclk.h, which write the same registers.  A program calls their          *)
(* functions in any order that starts what it uses and waits for it, and     *)
(* stops nothing that is in use; oscillators start and PLLs lock in their    *)
(* own time.  Start-up times are left out.                                  *)
(***************************************************************************)
EXTENDS Integers

CONSTANTS
  Rate,         \* of osc0, osc1 and osc32
  BoardOscs,    \* those osc.h knows: BOARD_OSC0_HZ
  Gains,        \* below which frequencies a crystal has the gains G0, G1 and G2
  PLL_MIN_HZ, PLL_MAX_HZ,
  VcoLow, VcoHigh, \* the ranges of the VCO with PLL_OPT_VCO_RANGE_LOW and without
  Factors,      \* pairs of multiplier and divider of a PLL
  Plls,         \* pll0 and pll1
  Dividers,     \* of the generic clock
  MaxCalls      \* bound

VARIABLES
  pm,      \* the registers
  program  \* what it waits for and does then, what it has seen ready, what it asked of PLLs and clock

vars == <<pm, program>>

Oscs   == {"osc0", "osc1", "osc32"}
Main   == {"osc0", "osc1"}  \* the oscillators that drive others
NoPll  == [src |-> "osc0", mul |-> 1, div |-> 1, div2 |-> FALSE, low |-> FALSE, en |-> FALSE]
NoClk  == [src |-> "osc0", diven |-> FALSE, div |-> 0, cen |-> FALSE]
Asked  == [pll |-> [p \in Plls |-> 0], divider |-> 0]
Idle   == [for |-> "none", then |-> "rcsys"]

Init ==
  /\ pm = [mode |-> [o \in Oscs |-> "ext"], on |-> {}, ready |-> {}, mcsel |-> "rcsys",
           pll |-> [p \in Plls |-> NoPll], gc |-> NoClk]
  /\ program = [wait |-> Idle, seen |-> {}, asked |-> Asked, calls |-> 0]

Drives(s) ==
  \/ pm.mcsel = s
  \/ \E p \in Plls : pm.pll[p].en /\ pm.pll[p].src = s
  \/ pm.gc.cen /\ pm.gc.src = s

(* A call of the program, which leaves it with r. *)
Call(r) ==
  /\ program.wait = Idle /\ program.calls < MaxCalls
  /\ program' = [r EXCEPT !.calls = @ + 1]

WaitFor(s, then) == [program EXCEPT !.wait = [for |-> s, then |-> then]]
Forget(s)        == [program EXCEPT !.seen = @ \ {s}]

-----------------------------------------------------------------------------
(* Oscillators.                                                             *)

Gain(hz) == CASE hz < Gains[1] -> "G0" [] hz < Gains[2] -> "G1" [] hz < Gains[3] -> "G2" [] OTHER -> "G3"
Mode(o)  == IF o = "osc32" THEN "crystal" ELSE Gain(Rate[o])

pm_enable_osc_crystal(o) ==
  /\ o \notin pm.on /\ Call(program)
  /\ pm' = [pm EXCEPT !.mode[o] = Mode(o)]
pm_enable_osc_ext_clock(o) ==
  /\ o \notin pm.on /\ Call(program)
  /\ pm' = [pm EXCEPT !.mode[o] = "ext"]
pm_enable_clk_no_wait(o) == Call(program) /\ pm' = [pm EXCEPT !.on = @ \cup {o}]
pm_enable_clk(o)         == Call(WaitFor(o, pm.mcsel)) /\ pm' = [pm EXCEPT !.on = @ \cup {o}]
pm_wait_for_clk_ready(o) == o \in pm.on /\ Call(WaitFor(o, pm.mcsel)) /\ UNCHANGED pm
pm_disable_clk(o) ==
  /\ ~Drives(o) /\ Call(Forget(o))
  /\ pm' = [pm EXCEPT !.on = @ \ {o}, !.ready = @ \ {o}]

(* What the board has not is left alone. *)
osc_enable(o) ==
  /\ Call(program)
  /\ pm' = IF o \in BoardOscs THEN [pm EXCEPT !.mode[o] = Gain(Rate[o]), !.on = @ \cup {o}] ELSE pm

(* The enable bit of the slow crystal is in another register.               *)
osc_disable(o) ==
  /\ ~Drives(o) /\ Call(Forget(o))
  /\ pm' = IF o = "osc32" THEN pm ELSE [pm EXCEPT !.on = @ \ {o}, !.ready = @ \ {o}]

(* The clock of the processor. *)
pm_switch_to_clock(s) ==
  /\ s \in program.seen \cup {"rcsys"} /\ Call(program)
  /\ pm' = [pm EXCEPT !.mcsel = s]
pm_switch_to_osc0 ==
  /\ pm.mcsel # "osc0" /\ Call(WaitFor("osc0", "osc0"))
  /\ pm' = [pm EXCEPT !.mode["osc0"] = Mode("osc0"), !.on = @ \cup {"osc0"}]

(* For another oscillator pcl_switch_to_osc() returns PCL_NOT_SUPPORTED.     *)
pcl_switch_to_osc(o) == IF o = "osc0" THEN pm_switch_to_osc0 ELSE Call(program) /\ UNCHANGED pm

-----------------------------------------------------------------------------
(* PLLs. *)

pm_pll_setup(p, s, f) ==
  /\ ~pm.pll[p].en /\ Call([program EXCEPT !.asked.pll[p] = 0])
  /\ pm' = [pm EXCEPT !.pll[p] = [NoPll EXCEPT !.src = s, !.mul = f[1], !.div = f[2]]]
pm_pll_set_option(p, low, div2) ==
  /\ ~pm.pll[p].en /\ Call([program EXCEPT !.asked.pll[p] = 0])
  /\ pm' = [pm EXCEPT !.pll[p].low = low, !.pll[p].div2 = div2]
pm_pll_enable(p) ==
  /\ pm.pll[p].src \in program.seen /\ Call(program)
  /\ pm' = [pm EXCEPT !.pll[p].en = TRUE]
pm_pll_disable(p) ==
  /\ ~Drives(p) /\ Call(Forget(p))
  /\ pm' = [pm EXCEPT !.pll[p].en = FALSE, !.ready = @ \ {p}]
pll_disable(p) ==
  /\ ~Drives(p) /\ Call([Forget(p) EXCEPT !.asked.pll[p] = 0])
  /\ pm' = [pm EXCEPT !.pll[p] = NoPll, !.ready = @ \ {p}]
pm_wait_for_pll_locked(p) == pm.pll[p].en /\ Call(WaitFor(p, pm.mcsel)) /\ UNCHANGED pm

(* pll.h checks the frequency, doubles a VCO that is too slow and halves    *)
(* the result, and chooses the range of the VCO.                            *)
osc_get_rate(o)  == IF o \in BoardOscs THEN Rate[o] ELSE 0
Vco(s, mul, div) == (osc_get_rate(s) * mul) \div div
Threshold        == (VcoHigh[1] + VcoLow[2]) \div 2
Allowed(s, f)    == Vco(s, f[1], f[2]) \in PLL_MIN_HZ..PLL_MAX_HZ

pll_config_init(s, f) ==
  LET slow == Vco(s, f[1], f[2]) < 2 * PLL_MIN_HZ /\ f[1] <= 8
      mul  == IF slow THEN 2 * f[1] ELSE f[1]
      vco  == (IF slow THEN 2 ELSE 1) * Vco(s, f[1], f[2])
  IN  [NoPll EXCEPT !.src = s, !.mul = mul, !.div = f[2], !.div2 = slow, !.low = vco < Threshold]

pll_enable(p, s, f) ==
  /\ s \in BoardOscs \cap program.seen /\ Allowed(s, f) /\ ~pm.pll[p].en
  /\ Call([program EXCEPT !.asked.pll[p] = (osc_get_rate(s) * f[1]) \div f[2]])
  /\ pm' = [pm EXCEPT !.pll[p] = [pll_config_init(s, f) EXCEPT !.en = TRUE]]

-----------------------------------------------------------------------------
(* The generic clock. *)

pm_gc_setup(s, diven, div) ==
  /\ Call([program EXCEPT !.asked.divider = 0])
  /\ pm' = [pm EXCEPT !.gc = [src |-> s, diven |-> diven, div |-> div, cen |-> FALSE]]
pm_gc_enable ==
  /\ pm.gc.src \in program.seen /\ Call(program)
  /\ pm' = [pm EXCEPT !.gc.cen = TRUE]
(* The clock of the USB, from oscillator 0. *)
pm_configure_usb_clock ==
  /\ "osc0" \in program.seen /\ Call([program EXCEPT !.asked.divider = 1])
  /\ pm' = [pm EXCEPT !.gc = [NoClk EXCEPT !.src = "osc0", !.cen = TRUE]]
pm_gc_disable == Call(program) /\ pm' = [pm EXCEPT !.gc.cen = FALSE]

DIV(d) == (d + 1) \div 2 - 1
genclk_config_set_divider(c, d) == [c EXCEPT !.diven = d > 1, !.div = IF d > 1 THEN DIV(d) ELSE 0]
genclk_enable(s, d) ==
  /\ s \in program.seen /\ Call([program EXCEPT !.asked.divider = d])
  /\ pm' = [pm EXCEPT !.gc = [genclk_config_set_divider(NoClk, d) EXCEPT !.src = s, !.cen = TRUE]]
genclk_disable == Call([program EXCEPT !.asked.divider = 0]) /\ pm' = [pm EXCEPT !.gc = NoClk]

-----------------------------------------------------------------------------
(* The hardware, and the end of a wait: a function polls the ready bit of    *)
(* what it waits for, and pm_switch_to_osc0() then switches to it.          *)

OscReady == \E o \in pm.on \ pm.ready : pm' = [pm EXCEPT !.ready = @ \cup {o}] /\ UNCHANGED program
PllLocks ==
  \E p \in Plls \ pm.ready :
    /\ pm.pll[p].en /\ pm.pll[p].src \in pm.ready
    /\ pm' = [pm EXCEPT !.ready = @ \cup {p}] /\ UNCHANGED program

AlwaysReady(s)  == TRUE  \* MUTANT: does not wait
osc_is_ready(s) == s \in pm.ready
WaitEnds ==
  LET s == program.wait.for
  IN  /\ program.wait # Idle /\ osc_is_ready(s)
      /\ program' = [program EXCEPT !.wait = Idle, !.seen = @ \cup {s}]
      /\ pm' = [pm EXCEPT !.mcsel = program.wait.then]

Oscillators ==
  \E o \in Oscs : \/ pm_enable_osc_crystal(o) \/ pm_enable_osc_ext_clock(o) \/ pm_enable_clk_no_wait(o) \/ pm_enable_clk(o)
                  \/ pm_wait_for_clk_ready(o) \/ pm_disable_clk(o) \/ osc_enable(o) \/ osc_disable(o)
Processor == (\E o \in Main : pcl_switch_to_osc(o)) \/ \E s \in Main \cup Plls \cup {"rcsys"} : pm_switch_to_clock(s)
PllCalls ==
  \E p \in Plls :
    \/ pm_pll_enable(p) \/ pm_pll_disable(p) \/ pll_disable(p) \/ pm_wait_for_pll_locked(p)
    \/ \E low, div2 \in BOOLEAN : pm_pll_set_option(p, low, div2)
    \/ \E s \in Main, f \in Factors : pm_pll_setup(p, s, f) \/ pll_enable(p, s, f)
ClockCalls ==
  \/ pm_gc_enable \/ pm_configure_usb_clock \/ pm_gc_disable \/ genclk_disable
  \/ \E s \in Main \cup Plls : pm_gc_setup(s, FALSE, 0) \/ pm_gc_setup(s, TRUE, 1) \/ \E d \in Dividers : genclk_enable(s, d)

Next == Oscillators \/ Processor \/ PllCalls \/ ClockCalls \/ OscReady \/ PllLocks \/ WaitEnds

Spec == Init /\ [][Next]_vars

-----------------------------------------------------------------------------
(* Nothing is driven by an oscillator that is not swinging or a PLL that is *)
(* not locked, whichever driver's functions brought it there.  (The wait of *)
(* pm_enable_clk0, osc_wait_ready, pm_wait_for_pll0_locked)                 *)
SourcesAreReady == \A s \in Oscs \cup Plls : Drives(s) => s \in pm.ready

(* The registers mean what was asked for: the generic clock is the source   *)
(* divided as asked, an odd divider rounded up; a PLL set up by pll.h gives *)
(* the frequency asked for, with its VCO in the range it has selected unless *)
(* the multiplier is above eight; a crystal has the gain for its frequency. *)
(* (genclk_config_set_divider, pll_config_init, pm_enable_osc0_crystal)      *)
Between(range, hz) == hz \in range[1]..range[2]
SettingsAsAsked ==
  /\ \A d \in {program.asked.divider} \ {0} :
       IF pm.gc.diven THEN 2 * (pm.gc.div + 1) = IF d % 2 = 0 THEN d ELSE d + 1 ELSE d = 1
  /\ \A p \in {q \in Plls : program.asked.pll[q] # 0} :
       LET c == pm.pll[p]
           vco == Vco(c.src, c.mul, c.div)
       IN  /\ program.asked.pll[p] \in {(IF c.div2 THEN vco \div 2 ELSE vco)}
           /\ Between(IF c.low THEN VcoLow ELSE VcoHigh, vco) \/ (c.mul > 8 /\ ~c.div2)
  /\ \A o \in Main \cap BoardOscs : pm.mode[o] \in {"ext", Gain(Rate[o])}

=============================================================================
