------------------------------- MODULE Clocks -------------------------------
(***************************************************************************)
(* How ex03 sets up the clocks of the processor: sysclk_init(), which the   *)
(* program calls with the settings of conf_clock.h, and the older           *)
(* pm_configure_clocks(), which finds a PLL setting for a frequency asked   *)
(* for.  The registers of the Power Manager are the state; a frequency is a *)
(* number of a unit that all those occurring are multiples of.              *)
(***************************************************************************)
EXTENDS Integers

CONSTANTS
  Slow,                  \* the RC oscillator the processor starts from
  Osc0,                  \* BOARD_OSC0_HZ
  FWS_0_MAX_FREQ,        \* above it the flash needs a wait state
  VCO_MAX,               \* AVR32_PM_PLL_VCO_RANGE0_MAX_FREQ
  PLL_MIN,               \* PLL_MIN_HZ
  PBA_MAX_FREQ,
  PM_MAX_MUL,
  CpuRequests, PbaRequests, \* what pm_configure_clocks() is asked for
  PllConfigs,            \* pairs of CONFIG_PLL0_MUL and CONFIG_PLL0_DIV
  MaxShift,              \* bound on CONFIG_SYSCLK_CPU_DIV, ..._PBA_DIV and ..._PBB_DIV
  MaxCalls               \* bound on the calls

VARIABLES
  call,     \* the function and its parameters
  calls,
  mcsel,    \* MCCTRL.MCSEL: the source of the main clock
  osc,      \* off, starting or ready
  pll,      \* its multiplier and divider, its option to divide by two
  pllen, locked,
  cksel,    \* the powers of two the clocks of CPU and HSB, PBA and PBB are divided by
  fws,      \* FCR.FWS: wait states of the flash
  found,    \* what pm_configure_clocks() has found: mul, div, div2_en, div2_cpu, div2_pba
  param,    \* the frequencies it reports
  pc

registers == <<mcsel, osc, pll, pllen, locked, cksel, fws>>
vars == <<call, calls, registers, found, param, pc>>

None    == [fn |-> "none"]
NoPll   == [mul |-> 1, div |-> 1, div2 |-> 0]
Nothing == [ok |-> FALSE, mul |-> 0, div |-> 1, div2_en |-> 0, div2_cpu |-> 0, div2_pba |-> 0]

Init ==
  /\ call = None /\ calls = 0
  /\ mcsel = "rcsys" /\ osc = "off"
  /\ pll = NoPll /\ pllen = FALSE /\ locked = FALSE
  /\ cksel = [cpu |-> 0, pba |-> 0, pbb |-> 0] /\ fws = 0
  /\ found = Nothing /\ param = [cpu |-> 0, pba |-> 0]
  /\ pc = "idle"

(* What the registers make of it. *)
PllHz  == (Osc0 * pll.mul) \div (pll.div * 2^pll.div2)
MainHz == CASE mcsel = "rcsys" -> Slow [] mcsel = "osc0" -> Osc0 [] mcsel = "pll0" -> PllHz
CpuHz  == MainHz \div 2^cksel.cpu
PbaHz  == MainHz \div 2^cksel.pba
PbbHz  == MainHz \div 2^cksel.pbb

IsPm == call.fn = "pm_configure_clocks"
Goto(l) == pc' = l

(* The oscillator starts and the PLL locks in their own time. *)
OscReady == osc = "starting" /\ osc' = "ready" /\ UNCHANGED <<call, calls, mcsel, pll, pllen, locked, cksel, fws, found, param, pc>>
PllLocks ==
  /\ pllen /\ ~locked /\ osc = "ready"
  /\ locked' = TRUE
  /\ UNCHANGED <<call, calls, mcsel, osc, pll, pllen, cksel, fws, found, param, pc>>

-----------------------------------------------------------------------------
pm_configure_clocks(cpu, pba) ==
  /\ pc = "idle" /\ calls < MaxCalls
  /\ call.fn # "sysclk_init"
  /\ call' = [fn |-> "pm_configure_clocks", cpu |-> cpu, pba |-> pba]
  /\ calls' = calls + 1
  /\ Goto("enable_osc")
  /\ UNCHANGED <<registers, found, param>>

(* The settings of conf_clock.h: source, prescalers, PLL0. *)
sysclk_init(source, cpu, pba, pbb, c) ==
  /\ pc = "idle" /\ call = None
  /\ call' = [fn |-> "sysclk_init", source |-> source, cpu |-> cpu, pba |-> pba, pbb |-> pbb,
              mul |-> c[1], div |-> c[2]]
  /\ calls' = calls + 1
  /\ Goto("prescalers")
  /\ UNCHANGED <<registers, found, param>>

SetPrescalers ==
  /\ pc = "prescalers"
  /\ cksel' = [cpu |-> call.cpu, pba |-> call.pba, pbb |-> call.pbb]
  /\ Goto(IF call.source = "rcsys" THEN "return" ELSE "enable_osc")
  /\ UNCHANGED <<call, calls, mcsel, osc, pll, pllen, locked, fws, found, param>>

EnableOsc ==
  /\ pc = "enable_osc"
  /\ osc' = IF osc = "off" THEN "starting" ELSE osc
  /\ Goto("wait_osc")
  /\ UNCHANGED <<call, calls, mcsel, pll, pllen, locked, cksel, fws, found, param>>

IsReady == osc = "ready"
WaitOsc ==
  /\ pc = "wait_osc" /\ IsReady
  /\ Goto(IF IsPm THEN "switch_to_osc0" ELSE IF call.source = "osc0" THEN "wait_state" ELSE "setup_pll")
  /\ UNCHANGED <<call, calls, registers, found, param>>

AtCrystal == IsPm /\ call.cpu = Osc0
SwitchToOsc0 ==
  /\ pc = "switch_to_osc0"
  /\ mcsel' = "osc0"
  /\ IF AtCrystal
     THEN param' = [cpu |-> Osc0, pba |-> Osc0] /\ Goto("return")
     ELSE param' = param /\ Goto(IF IsPm THEN "find" ELSE "return")
  /\ UNCHANGED <<call, calls, osc, pll, pllen, locked, cksel, fws, found>>

-----------------------------------------------------------------------------
(* The search for a multiplier and a divider. *)
Divides(d) == (d * (call.cpu % Osc0)) % Osc0 = 0
LeastDiv   == CHOOSE d \in 1..31 : Divides(d) /\ \A e \in 1..(d - 1) : ~Divides(e)
TwosIn(d)  == CHOOSE k \in 0..5 : d % 2^k = 0 /\ (d \div 2^k) % 2 = 1

(* How often the multiplier is doubled: while the VCO stays below its        *)
(* maximum and the multiplier fits.                                         *)
Doublings(m, d) ==
  LET Stops(k) == (Osc0 * 2 * m * 2^k) \div d >= VCO_MAX \/ 2 * m * 2^k > PM_MAX_MUL
  IN  CHOOSE k \in 0..PM_MAX_MUL : Stops(k) /\ \A j \in 0..(k - 1) : ~Stops(j)

HalvedForTheBus(f, pba) == CHOOSE k \in 0..f : f \div 2^k <= PBA_MAX_FREQ /\ \A j \in 0..(k - 1) : f \div 2^j > PBA_MAX_FREQ  \* MUTANT: the frequency asked for is not looked at

(* How often the PLL frequency is halved for the PBA. *)
Halvings(f, pba) ==
  LET At(k)    == f \div 2^k
      Stops(k) == (At(k) <= PBA_MAX_FREQ /\ At(k) = pba) \/ (k > 0 /\ At(k) < pba)
  IN  CHOOSE k \in 0..f : Stops(k) /\ \A j \in 0..(k - 1) : ~Stops(j)

Mul(d) == (call.cpu * d) \div Osc0

Setting ==
  LET d     == LeastDiv
      div   == d \div 2^TwosIn(d)
      twice == Doublings(Mul(d), div)
      mul   == Mul(d) * 2^twice
      twos  == TwosIn(d) + twice
      en    == IF twos # 0 THEN 1 ELSE 0
      freq  == (Osc0 * mul) \div (div * 2^en)
  IN  [ok |-> TRUE, mul |-> mul, div |-> div, div2_en |-> en, div2_cpu |-> twos - en,
       div2_pba |-> Halvings(freq, call.pba)]

Feasible == (\E d \in 1..31 : Divides(d)) /\ Mul(LeastDiv) <= PM_MAX_MUL

Find ==
  /\ pc = "find"
  /\ found' = IF Feasible THEN Setting ELSE Nothing
  /\ Goto(IF Feasible THEN "setup_pll" ELSE "fail")
  /\ UNCHANGED <<call, calls, registers, param>>

(* pll_config_init(): a VCO that is too slow runs at twice the frequency. *)
TooSlow(c) == (Osc0 * c.mul) \div c.div < 2 * PLL_MIN /\ c.mul <= 8
Configured(c) ==
  IF TooSlow(c) THEN [mul |-> 2 * c.mul, div |-> c.div, div2 |-> 1]
  ELSE [mul |-> c.mul, div |-> c.div, div2 |-> 0]

(* Writing the register with the new factors stops a running PLL. *)
SetupPll ==
  /\ pc = "setup_pll"
  /\ pll' = IF IsPm THEN [mul |-> found.mul, div |-> found.div, div2 |-> found.div2_en]
            ELSE Configured(call)
  /\ pllen' = FALSE /\ locked' = FALSE
  /\ Goto("enable_pll")
  /\ UNCHANGED <<call, calls, mcsel, osc, cksel, fws, found, param>>

EnablePll ==
  /\ pc = "enable_pll"
  /\ pllen' = TRUE
  /\ Goto("wait_pll")
  /\ UNCHANGED <<call, calls, mcsel, osc, pll, locked, cksel, fws, found, param>>

IsLocked == locked
WaitPll ==
  /\ pc = "wait_pll" /\ IsLocked
  /\ Goto(IF IsPm THEN "cksel" ELSE "wait_state")
  /\ UNCHANGED <<call, calls, registers, found, param>>

pm_cksel(cpu, pba, pbb) == cksel' = [cpu |-> cpu, pba |-> pba, pbb |-> pbb]
Cksel ==
  /\ pc = "cksel"
  /\ pm_cksel(found.div2_cpu, found.div2_pba, found.div2_cpu)
  /\ param' = [cpu |-> PllHz \div 2^found.div2_cpu, pba |-> PllHz \div 2^found.div2_pba]
  /\ Goto("wait_state")
  /\ UNCHANGED <<call, calls, mcsel, osc, pll, pllen, locked, fws, found>>

(* flashc_set_bus_freq() has >=, pm_configure_clocks() has >. *)
pll_get_default_rate == (Osc0 * call.mul) \div call.div
NextHz == IF IsPm THEN param.cpu ELSE IF call.source = "osc0" THEN Osc0 ELSE pll_get_default_rate
NeedsWaitState(f) == IF IsPm THEN f > FWS_0_MAX_FREQ ELSE f >= FWS_0_MAX_FREQ

SetWaitState ==
  /\ pc = "wait_state"
  /\ fws' = IF NeedsWaitState(NextHz) THEN 1 ELSE 0
  /\ Goto(IF ~IsPm /\ call.source = "osc0" THEN "switch_to_osc0" ELSE "switch_to_pll0")
  /\ UNCHANGED <<call, calls, mcsel, osc, pll, pllen, locked, cksel, found, param>>

SwitchToPll0 ==
  /\ pc = "switch_to_pll0"
  /\ mcsel' = "pll0"
  /\ Goto("return")
  /\ UNCHANGED <<call, calls, osc, pll, pllen, locked, cksel, fws, found, param>>

Return ==
  /\ pc \in {"return", "fail"}
  /\ Goto("idle")
  /\ UNCHANGED <<call, calls, registers, found, param>>

Next ==
  \/ \E cpu \in CpuRequests, pba \in PbaRequests : pm_configure_clocks(cpu, pba)
  \/ \E s \in {"rcsys", "osc0", "pll0"}, c \in PllConfigs :
        \E cpu, pba, pbb \in 0..MaxShift : cpu <= pba /\ cpu <= pbb /\ sysclk_init(s, cpu, pba, pbb, c)
  \/ SetPrescalers \/ EnableOsc \/ WaitOsc \/ SwitchToOsc0 \/ Find \/ SetupPll \/ EnablePll
  \/ WaitPll \/ Cksel \/ SetWaitState \/ SwitchToPll0 \/ Return
  \/ OscReady \/ PllLocks

Spec == Init /\ [][Next]_vars

(* What sysclk.h says of the clocks it has set. *)
sysclk_get_main_hz ==
  CASE call.source = "rcsys" -> Slow [] call.source = "osc0" -> Osc0 [] call.source = "pll0" -> pll_get_default_rate
sysclk_get_cpu_hz == sysclk_get_main_hz \div 2^call.cpu
sysclk_get_hsb_hz == sysclk_get_main_hz \div 2^call.cpu
sysclk_get_pba_hz == sysclk_get_main_hz \div 2^call.pba
sysclk_get_pbb_hz == sysclk_get_main_hz \div 2^call.cpu   \* not call.pbb

AtPba == {"INTC", "GPIO", "PDCA", "PM", "ADC", "SPI0", "SPI1", "TWIM0", "TWIM1", "TWIS0", "TWIS1",
          "USART0", "USART1", "USART2", "USART3", "SSC", "TC0", "TC1", "ABDAC"}
AtPbb == {"HMATRIX", "USBB", "FLASHC", "SMC", "SDRAMC", "ECCHRS", "MCI", "BUSMON", "MSI", "AES"}
sysclk_get_peripheral_bus_hz(m) == IF m \in AtPba THEN sysclk_get_pba_hz ELSE sysclk_get_pbb_hz

-----------------------------------------------------------------------------
(* Whatever is being reconfigured, the processor runs from a source that is  *)
(* up and never faster than the flash answers.                              *)
ClockIsSafe ==
  /\ mcsel = "osc0" => osc = "ready"
  /\ mcsel = "pll0" => osc = "ready" /\ pllen /\ locked
  /\ CpuHz > FWS_0_MAX_FREQ => fws = 1

(* pm_configure_clocks() gives the CPU what it was asked for and the PBA no  *)
(* more, and reports what the registers are set to; sysclk_get_cpu_hz(), its *)
(* like for the buses and sysclk_get_peripheral_bus_hz() are right about     *)
(* sysclk_init().  Only the frequency of the crystal is reported without    *)
(* looking at the dividers of an earlier call, and that of PBB as if it were *)
(* divided like the CPU's.                                                  *)
FrequencyAsReported ==
  pc = "return" =>
    IF IsPm
    THEN /\ param.cpu = call.cpu
         /\ calls = 1 \/ call.cpu # Osc0 => param = [cpu |-> CpuHz, pba |-> PbaHz]
         /\ call.cpu # Osc0 => PbaHz <= call.pba /\ PbaHz <= PBA_MAX_FREQ
    ELSE /\ CpuHz = sysclk_get_cpu_hz /\ CpuHz = sysclk_get_hsb_hz
         /\ \A m \in AtPba : PbaHz = sysclk_get_peripheral_bus_hz(m)
         /\ call.pbb = call.cpu => \A m \in AtPbb : PbbHz = sysclk_get_peripheral_bus_hz(m)

=============================================================================
