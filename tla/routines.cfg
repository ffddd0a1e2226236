SPECIFICATION MCSpec
CONSTANTS
  Giga = 4
  MaxSec = 1
  MaxClock = 14
  DwordSize = 3
  PageSize = 6
  AVR32_FLASH = 6
  ArrayPages = 2
  UserPage = 24
  MaxBytes = 14
  FuseBytes = 2
  ByteBits = 2
  Pages = 4
  Regions = 2
  MaxWidth = 2
  SmallPage = 2
  BootBits = 2
  Slow = 1
  Osc0 = 24
  FWS_0_MAX_FREQ = 66
  VCO_MAX = 480
  PLL_MIN = 80
  PBA_MAX_FREQ = 132
  PM_MAX_MUL = 15
  MaxShift = 2
  MaxCalls = 2
  MainUses = {"USB", "AES", "PDCA"}
  HandlerUses = {"MCI", "TC0"}
  MaxUses = 3
  BoardOscs = {"osc0"}
  Plls = {"pll0"}
  Dividers = {2, 3}
  PLL_MIN_HZ = 400
  PLL_MAX_HZ = 2400
  MaxPmCalls = 4
  Wrap = 8
  Hz = 6
  MaxGap = 10
  MaxTime = 20
  CyclesPer = 5
  NanosPer = 2
  Second = 6
  ClockTick = 4
  IntMax = 9
  Short = 2
  Long = 4
  MaxLost = 28
  MaxCycles = 40
  MaxSamples = 1
  Lines = {"dcd", "dsr"}
  Errors = {"framing"}
  MaxSignals = 4
  MaxOpened = 2
  MaxHalts = 1
  Elements = {e1, e2}
  Capacity = 2
  MaxInserts = 5
  SLEEPMGR_NR_OF_MODES = 3
  USB_DEVICE_MAX_EP = 3
  USB_DEVICE_EP_CTRL_SIZE = 64
  Types = {"bulk", "interrupt", "control"}
  Sizes = {8, 1023}
  DpramSize = 2368
  Byte = 2
INVARIANTS
  WaitsLongEnough
  FlashAsAsked
  ClocksAreSafe
  ClocksAsAsked
  RequestsAreKept
  TimesAreTrue
  ChangesAreSent
  ResultsAreTrue
PROPERTIES
  EndpointsApart
CHECK_DEADLOCK FALSE
