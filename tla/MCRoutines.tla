------------------------------ MODULE MCRoutines ------------------------------
(***************************************************************************)
(* The routines a single program calls, beside each other: the time          *)
(* arithmetic, the clock measurements and the array of ex01, and of ex03 the *)
(* flash driver, the clocks, the delays, the notifications of the serial     *)
(* port, the memory of the USB endpoints and the arithmetic on words.  The   *)
(* initial state chooses which one runs, and the others stay as they are.   *)
(***************************************************************************)
EXTENDS Timespec

CONSTANTS
  DwordSize, PageSize, AVR32_FLASH, ArrayPages, UserPage, MaxBytes,
  FuseBytes, ByteBits, Pages, Regions, MaxWidth, SmallPage, BootBits,
  Slow, Osc0, FWS_0_MAX_FREQ, VCO_MAX, PLL_MIN, PBA_MAX_FREQ, PM_MAX_MUL, MaxShift, MaxCalls,
  MainUses, HandlerUses, MaxUses,
  BoardOscs, Plls, Dividers, PLL_MIN_HZ, PLL_MAX_HZ, MaxPmCalls,
  Wrap, Hz, MaxGap, MaxTime,
  CyclesPer, NanosPer, Second, ClockTick, IntMax, Short, Long, MaxLost, MaxCycles, MaxSamples,
  Lines, Errors, MaxSignals, MaxOpened, MaxHalts,
  Elements, Capacity, MaxInserts,
  SLEEPMGR_NR_OF_MODES,
  USB_DEVICE_MAX_EP, USB_DEVICE_EP_CTRL_SIZE, Types, Sizes, DpramSize,
  Byte

ASSUME RoutinesAssumption ==
  /\ Capacity \in Nat
  /\ SLEEPMGR_NR_OF_MODES \in Nat \ {0}
  /\ Lines \cap Errors = {} /\ "none" \notin Lines \cup Errors
  /\ "rcsys" \notin Plls

VARIABLES
  program,  \* the one that runs
  call, locked, cell, buffer, pagen, flashc_error_status, error_status, dest, dest_end, source,
  page_source_end, incomplete_flash_page_end, flash_dword, flash_dword_pending, step,
  command, before, todo, fuse, lock, erased, commandPage, qprr, commandStatus, gathered, failed, result, at,
  setting, calls, mcsel, osc, pll, pllen, pllLocked, cksel, fws, found, param, clockPc,
  accesses, saved, mask, current, uses, gm, handling, masks, mskrdy, sysclk_bus_refcount, usbOsc, genclk, wanted,
  pm, user,
  cycle, timer, delay, looked,
  run, cycles, first, histogram, samples, last,
  state, msg, ongoing, endpoint, hostState, notifier, opened, halts, refused,
  task, block, front, back, capacity, b, elements, inserts, crashed,
  sleepmgr_locks, sleepTodo, flags, count, sleep_mode, asleep, irqMask, inHandler, held,
  uecfg, granted,
  word, first_operand, second_operand, word_result

(* Frequencies in units of half a megahertz: those below, between and above *)
(* the limits of VCO, flash and bus, and some that no setting has exactly.   *)
CpuRequests == {24, 40, 48, 60, 80, 96, 108, 120, 132, 122, 50, 130}
PbaRequests == {24, 30, 33, 40, 54}
PllConfigs  == {<<4, 1>>, <<8, 2>>, <<10, 1>>, <<11, 2>>}

(* The power manager's in units of 100 kHz; multipliers that pll.h doubles,  *)
(* leaves alone, and would double were they not above eight.                *)
Rates     == [osc0 |-> 120, osc1 |-> 8, osc32 |-> 0]
Crystals  == <<9, 30, 80>>
LowRange  == <<800, 1800>>
HighRange == <<1600, 2400>>
Multiples == {<<4, 1>>, <<10, 2>>, <<14, 1>>}

(* Of no time, within a turn of the count, across its end and beyond it; in  *)
(* parts that divide a cycle and that do not.                               *)
DelayTimes == {<<0, 4>>, <<1, 4>>, <<3, 4>>, <<7, 6>>, <<3, 2>>}

(* No bit, single ones at both ends, a sign, and fields across the bytes.    *)
WordSamples == {{}, {0}, {1, 2}, 0..6, {7}, {3, 6, 7}, 0..7}

Memory   == INSTANCE FlashMemory
Commands == INSTANCE FlashCommands
              WITH PageSize <- SmallPage, call <- command, pagen <- commandPage,
                   flashc_error_status <- commandStatus, error_status <- gathered, step <- at
ClockSettings == INSTANCE Clocks WITH call <- setting, locked <- pllLocked, pc <- clockPc
Buses    == INSTANCE BusClocks WITH MaxCalls <- MaxUses, todo <- accesses, calls <- uses, osc <- usbOsc
Power    == INSTANCE PowerManager
              WITH Rate <- Rates, Gains <- Crystals, VcoLow <- LowRange, VcoHigh <- HighRange,
                   Factors <- Multiples, MaxCalls <- MaxPmCalls, program <- user
Counter  == INSTANCE CycleCounter WITH Delays <- DelayTimes, now <- cycle, asked <- delay
Measured == INSTANCE Histogram
Notify   == INSTANCE UsbNotify WITH program <- notifier
Array    == INSTANCE GrowingArray
Sleeping == INSTANCE SleepManager WITH todo <- sleepTodo, saved <- flags, gm <- irqMask, handling <- inHandler
Windows  == INSTANCE EndpointMemory
WordFns  == INSTANCE Words
              WITH Samples <- WordSamples, fn <- word, x <- first_operand, y <- second_operand, r <- word_result

(* After sysclk_init() each context enables and disables peripherals of its   *)
(* own, other than those that run already; USB and USBB are one module.      *)
ASSUME BusAssumption ==
  /\ MainUses \cup HandlerUses \subseteq (Buses!OnPba \cup Buses!OnPbb) \ {"INTC", "GPIO", "PM", "FLASHC"}
  /\ MainUses \cap HandlerUses = {}
  /\ {"USB", "USBB"} \cap (MainUses \cup HandlerUses) # {"USB", "USBB"}

timeVars    == vars
memoryVars  == <<call, locked, cell, buffer, pagen, flashc_error_status, error_status, dest, dest_end,
                 source, page_source_end, incomplete_flash_page_end, flash_dword, flash_dword_pending, step>>
commandVars == <<command, before, todo, fuse, lock, erased, commandPage, qprr, commandStatus, gathered,
                 failed, result, at>>
settingVars == <<setting, calls, mcsel, osc, pll, pllen, pllLocked, cksel, fws, found, param, clockPc>>
busVars     == <<accesses, saved, mask, current, uses, gm, handling, masks, mskrdy, sysclk_bus_refcount,
                 usbOsc, genclk, wanted>>
powerVars   == <<pm, user>>
delayVars   == <<cycle, timer, delay, looked>>
sleepVars   == <<sleepmgr_locks, sleepTodo, flags, count, sleep_mode, asleep, irqMask, inHandler, held>>
sampleVars  == <<run, cycles, first, histogram, samples, last>>
notifyVars  == <<state, msg, ongoing, endpoint, hostState, notifier, opened, halts, refused>>
arrayVars   == <<task, block, front, back, capacity, b, elements, inserts, crashed>>

windowVars  == <<uecfg, granted>>
wordVars    == <<word, first_operand, second_operand, word_result>>

ex01Vars    == <<timeVars, sampleVars, arrayVars>>
flashVars   == <<memoryVars, commandVars>>
clockVars   == <<settingVars, busVars, powerVars, delayVars, sleepVars>>
usbVars     == <<notifyVars, windowVars, wordVars>>
programVars == <<program, ex01Vars, flashVars, clockVars, usbVars>>

NotEx01   == UNCHANGED <<program, flashVars, clockVars, usbVars>>
NotFlash  == UNCHANGED <<program, ex01Vars, clockVars, usbVars>>
NotClocks == UNCHANGED <<program, ex01Vars, flashVars, usbVars>>
NotUsb    == UNCHANGED <<program, ex01Vars, flashVars, clockVars>>

TimeStep    == program = "time" /\ Next /\ UNCHANGED <<sampleVars, arrayVars>> /\ NotEx01
SampleStep  == program = "samples" /\ Measured!Next /\ UNCHANGED <<timeVars, arrayVars>> /\ NotEx01
ArrayStep   == program = "array" /\ Array!Next /\ UNCHANGED <<timeVars, sampleVars>> /\ NotEx01
MemoryStep  == program = "memory" /\ Memory!Next /\ UNCHANGED commandVars /\ NotFlash
CommandStep == program = "commands" /\ Commands!Next /\ UNCHANGED memoryVars /\ NotFlash
SettingStep == program = "settings" /\ ClockSettings!Next /\ UNCHANGED <<busVars, powerVars, delayVars, sleepVars>> /\ NotClocks
BusStep     == program = "buses" /\ Buses!Next /\ UNCHANGED <<settingVars, powerVars, delayVars, sleepVars>> /\ NotClocks
PowerStep   == program = "power" /\ Power!Next /\ UNCHANGED <<settingVars, busVars, delayVars, sleepVars>> /\ NotClocks
DelayStep   == program = "delays" /\ Counter!Next /\ UNCHANGED <<settingVars, busVars, powerVars, sleepVars>> /\ NotClocks
SleepStep   == program = "sleep" /\ Sleeping!Next /\ UNCHANGED <<settingVars, busVars, powerVars, delayVars>> /\ NotClocks
NotifyStep  == program = "notify" /\ Notify!Next /\ UNCHANGED <<windowVars, wordVars>> /\ NotUsb
WindowStep  == program = "windows" /\ Windows!Next /\ UNCHANGED <<notifyVars, wordVars>> /\ NotUsb
WordStep    == program = "words" /\ WordFns!Next /\ UNCHANGED <<notifyVars, windowVars>> /\ NotUsb

(* At rest the time arithmetic subtracts nothing from nothing, and task and  *)
(* test are any.                                                            *)
MCInit ==
  /\ program \in {"time", "samples", "array", "memory", "commands", "settings", "buses", "power", "delays",
                "sleep", "notify", "windows", "words"}
  /\ Init /\ Measured!Init /\ Array!Init /\ Memory!Init /\ Commands!Init
  /\ ClockSettings!Init /\ Buses!Init /\ Power!Init /\ Counter!Init /\ Sleeping!Init /\ Notify!Init
  /\ Windows!Init /\ WordFns!Init
  /\ program # "time" => op = "sub" /\ Nanos(lhs) = 0 /\ Nanos(rhs) = 0
  /\ program # "samples" => run = [task |-> Measured!TaskB, test |-> "A"]
  /\ program # "array" => task = "G"

MCSpec ==
  MCInit /\ [][TimeStep \/ SampleStep \/ ArrayStep \/ MemoryStep \/ CommandStep \/ SettingStep
               \/ BusStep \/ PowerStep \/ DelayStep \/ SleepStep \/ NotifyStep
               \/ WindowStep \/ WordStep]_programVars

-----------------------------------------------------------------------------
(* The invariants of the others, which a program at rest keeps.             *)

(* Only the bytes asked for are changed in the flash array; fuses, locks and *)
(* pages are as asked, and a failure of any command of a call is reported.   *)
(* (FlashMemory, FlashCommands)                                             *)
FlashAsAsked == Memory!OnlyTheRangeChanges /\ Commands!FusesAsAsked /\ Commands!FailuresReported

(* No part of the chip is driven too fast while the clocks are set, nor by a *)
(* source that is not ready. (Clocks, PowerManager)                         *)
ClocksAreSafe == ClockSettings!ClockIsSafe /\ Power!SourcesAreReady

(* Frequencies are what the functions that set them report, or were asked    *)
(* for. (Clocks, PowerManager)                                              *)
ClocksAsAsked == ClockSettings!FrequencyAsReported /\ Power!SettingsAsAsked

(* What main and handlers ask for is kept whichever interrupts which: a     *)
(* peripheral in use has its clock, and the device does not sleep deeper    *)
(* than it may. (BusClocks, SleepManager)                                   *)
RequestsAreKept == Buses!WantedAreClocked /\ Sleeping!SleepsAsAllowed

(* Delays end in time, and what is measured is what it took, though counts   *)
(* and clocks wrap around. (CycleCounter, Histogram)                        *)
TimesAreTrue == Counter!TimeoutsInTime /\ Measured!SamplesAreTrue

(* The host is told of every change of a line that no halted endpoint       *)
(* refused. (UsbNotify)                                                     *)
ChangesAreSent == Notify!ChangesAreSent

(* The array holds what was put in, and the functions on words give what     *)
(* their descriptions say. (GrowingArray, Words)                            *)
ResultsAreTrue == Array!HoldsItsElements /\ WordFns!WordsAsDescribed

(* No two endpoints share memory, and an allocation that succeeds leaves     *)
(* those that worked working. (EndpointMemory)                              *)
EndpointsApart == []Windows!MemoriesApart /\ Windows!OthersKept

=============================================================================
