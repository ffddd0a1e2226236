# TLA+ models of the TTK4147 real-time exercises

This directory holds TLA+ specifications of the programs in this repository
(the exercises and the miniproject of a course in real-time systems, and the
firmware framework that one of them is linked with), TLC configurations that
check them on small instances, and theorems about them with proofs that TLAPS
checks for every value of the constants.

The repository is not one system but a collection of small programs, each
about one hard thing: a mutex protocol, a priority protocol, an interrupt
handler, a control loop over an unreliable network, a USB device. The models
follow that: one module per program or driver, and a second, abstract one where
the program keeps a promise worth stating on its own. Paths below are relative
to `src/`; `asf/` is `ex03/src/asf/`.

    tlc -workers 2 -config client.cfg MiniprojectClient
    tlapm MiniprojectClientProofs.tla

`PROJECT.json` lists for every definition the lines of code it models, for every
property a mutation of the model (a plausible bug of the code) that violates it,
and for every hazard the line at which it bites.

## 1. The programs

| Program | State | Operations | What is hard |
|---|---|---|---|
| `miniproject/client` | a UDP connection, one send and one receive buffer, `controller_semaphore`, `y_recieved`, wake time and PID statics | main, listener and controller thread; `com_*` | three threads sharing buffers without locks, lost, late and duplicated datagrams, timeouts, no drift |
| `miniproject/server` | the simulated process | answers GET, raises SIGNAL | a binary without source |
| `ex01/TaskA` | timespecs, the clock | arithmetic and `busy_wait` | carries, negative differences, late readings |
| `ex01/TaskB`, `TaskC` | a histogram | two readings of a clock, again and again | clocks of which only a part is looked at, lost processor |
| `ex01/TaskE` .. `TaskG` | a block of memory, two cursors, a capacity | `array_*` | growth, cursors that do not agree with the length |
| `ex02/src/main.c` | seven chopstick mutexes and `pickupMutex` | `fn` of each philosopher | circular waiting, exclusion, progress |
| `ex02/lib/double_checked.c` | `g_singleton`, a semaphore | `getSingleton`, its callers | a check outside the lock, publication before initialization |
| `ex03/src/main.c` | GPIO flags, response pins | the interrupt handler | edges at any instant of the handler and of the start |
| `ex03` USB echo | USB device, control endpoint, CDC buffers | interrupts, requests, `getchar`, `putchar` | an interrupt at every access, a host that does what it likes |
| `ex03` drivers | flash, clocks, power manager, sleep locks, pins, LEDs, cycle counter | their functions | orders of register writes, failures in the middle, counters that wrap |
| `ex05` | an input, a wake time | `brtt` | a sleep that ends late |
| `ex06` | four CPUs, end times | spinning responders | who gets a CPU, time cut to a long |
| `ex07/TaskA` .. `TaskE` | semaphores, RT_MUTEXes, priorities | the Xenomai tasks, `resource.h` | priority inversion, inheritance, ceiling, lock order |
| `ex09/project` | a QNX channel, one server buffer, priorities | four clients and a server | who is served when, whose reply it is, retries |
| `ex10/project` | `counter` under `mode_mutex`, one offset for each open | counter thread, `io_read`, `io_write` | atomicity of commands and counts |
| `ex10/lib` | one offset for each open | `io_read` | a reply from a buffer that is gone |

How they interact. Almost all interaction is inside a program: shared memory
(guarded in ex02 and ex10, unguarded in the miniproject), kernel objects
(semaphores, mutexes, QNX messages), priorities on one CPU (ex07, ex09) and
interrupts (ex03: between main and handlers, through registers and driver
variables). Between programs there is only the network of the miniproject, the
USB host of ex03 and the test equipment of ex03 and ex05, none of which has its
source here.

Inside ex03 the parts meet as follows. `board_init`, `INTC_init_interrupts`,
`stdio_usb_init` and the pin driver bring the board up (`BoardStart`, from the
register sequences of `GpioWrites`); from then on `InterruptResponder` answers pins
and the USB interrupt drives `UsbControl` (line, control endpoint, requests) and
`UsbCdc` (bulk endpoints, buffers, main loop). The USB driver takes its clock
through `BusClocks`, locks sleep modes of `SleepManager`, and runs on the clocks
that `Clocks` or `PowerManager` have set.

Correctness, program by program:

- miniproject client: the controller runs on schedule however late answers are;
  a fault of the network has a bounded effect; without faults
  each sample is new; the program ends.
- philosophers: neighbours exclude each other, no circle of waiting threads, the
  dinner goes on.
- singleton: one object, and complete for whom the lock protects.
- interrupt responder: each edge gets one pulse, in bounded time and long
  enough; while the board starts no interrupt is lost to a handler that is not
  there and no response is driven that nobody asked for.
- polling responder: a low input is answered within a period.
- Xenomai tasks: the wait of the high task is bounded as each protocol promises,
  and priorities come back to what they were; a responder spins as long as it should.
- message passing: each client gets its own reply, and all end.
- resource manager: a counter that is atomic to its clients.
- time arithmetic and measurements: exact, normalized; the wait is never too
  short; a sample is counted as what it took.
- array: a sequence.
- USB: host and device agree on address and configuration, transfers end, the
  echo is what was sent, the host learns of changed lines.
- flash: only what was asked for changes, and failures are reported.
- clocks, power, sleep: nothing runs from a source that is not up or faster than
  allowed, frequencies are what is reported, requests of main and handler are both kept.
- pins, LEDs: a line goes from what it was to what it shall be with nothing in between.

## 2. Modules

| Module | Models | Composed in | Abstract counterpart, proofs |
|---|---|---|---|
| `MiniprojectClient` | `miniproject/client` with network and server around it | | `PeriodicTask`; `MiniprojectClientProofs` |
| `Philosophers` | `ex02/src/main.c` | | `NeighbourExclusion`; `PhilosophersProofs` |
| `Singleton` | `ex02/lib/double_checked.c` | `MCThreads` | `ThreadsProofs` |
| `XenomaiTasks` | `ex07` | `MCThreads` | `ThreadsProofs` |
| `XenomaiResponder` | `ex06` | `MCThreads` | `ThreadsProofs` |
| `ResourceManager` | `ex10/project/main.c` | `MCQnx` | `CounterService`; `QnxProofs` |
| `HelloResource` | `ex10/lib/resmgr.c` | `MCQnx` | `QnxProofs` |
| `MessagePassing` | `ex09/project` | `MCQnx` | `QnxProofs` |
| `UsbControl` | `usbb_device.c`: line events, control endpoint; `udc.c`: requests | `MCUsbControl` | `UsbControlProofs` |
| `UsbCdc` | `usbb_device.c`: endpoint jobs; `udi_cdc.c`, `stdio_usb.c`, the echo loop | `CdcBlocks` | `UsbCdcProofs` |
| `CdcBlocks` | `udi_cdc.c`: `udi_cdc_write_buf`, `udi_cdc_read_buf` | | `UsbCdcProofs` |
| `UsbNotify` | `udi_cdc.c`: notifications of the serial state | `MCRoutines` | `RoutinesProofs` |
| `EndpointMemory` | `usbb_device.c`: `udd_ep_alloc`, `udd_ep_free`; registers in `usbb_device.h` | `MCRoutines` | |
| `Words` | `compiler.h`: bit fields, reversals, byte orders, alignment, extrema | `MCRoutines` | |
| `InterruptResponder` | `ex03/src/main.c`, `busy_delay.c` | `MCPins` | `PinsProofs` |
| `GpioWrites`, `Gpio` | `gpio.c`, `gpio.h`: the register writes of each function; one call after the other | `MCPins` | |
| `Led` | `led.c` | `MCPins` | |
| `BoardStart` | `init.c`, `intc.c`, the start of `main` | `MCPins` | |
| `PollingResponder` | `ex05` | `MCPins` | `PinsProofs` |
| `Timespec` | `ex01/TaskA` | `MCRoutines` | `RoutinesProofs` |
| `Histogram` | `ex01/TaskB`, `TaskC` | `MCRoutines` | |
| `GrowingArray` | `ex01/TaskE` .. `TaskG` | `MCRoutines` | |
| `FlashMemory` | `flashc.c`: `flashc_memset64`, `flashc_memcpy` | `MCRoutines` | |
| `FlashCommands` | `flashc.c`: fuses, regions, pages | `MCRoutines` | |
| `Clocks` | `sysclk_init`, `pm_configure_clocks` | `MCRoutines` | |
| `BusClocks` | `sysclk.c`, `sysclk.h`: clocks of the peripherals | `MCRoutines` | `RoutinesProofs` |
| `PowerManager` | `pm.c`; `osc.h`, `pll.h`, `genclk.h` | `MCRoutines` | `RoutinesProofs` |
| `SleepManager` | `services/sleepmgr` | `MCRoutines` | `RoutinesProofs` |
| `CycleCounter` | `cycle_counter.h`, `delay.c`, `busy_delay.c` | `MCRoutines` | |

`MCThreads`, `MCQnx`, `MCPins` and `MCRoutines` put programs beside each other that do
not interact: the initial state chooses which of them runs, the others stay as
they are, so that the states are the sum and not the product of theirs. A
property of such a run names what each program keeps.

Conventions: a thread's place in its code is `pc` (`cpc`, `dpc`, `loc`), an
action is one access to shared state or one blocking call and is named after the
function it belongs to, and a variable has the name it has in the code.
Definitions marked `MUTANT` are plausible bugs; no specification uses them. History
variables (marked so) are read by properties only.

### MiniprojectClient

Threads `main`, `listener` and `controller`. `com_send_command` is three steps,
since the two threads format into one static buffer and send it afterwards:
`sendBuf` is a command, the thread half way through writing one, or `"torn"`. When
two writes overlap, what is left is either text or a mixture. The
controller's iteration is `BeginIteration` (advance the wake time), `SemGetvalue`
(main.c:104), the send of GET, `SemTimedwait` (taken or timed out; the
result is ignored by the code), `Pid` and the send of SET, `ClockNanosleep`. The
listener's loop is `Recvfrom`, `ReceiveSignal` or `ReceiveAck`, `Switch`,
`SemPost`. `pthread_create` may fail, and main then leaves. After `com_close`
the listener's next receive fails at once and the old datagram is handled again;
a receive that was already waiting goes on waiting.

A measurement is its rank among those the server took, so that staleness can be
stated; the arithmetic of `pid()` is left out and replaced by the sequence
of measurements it was called with. The set of `acks` and the counts `gets` and
`signals` are the network: any order, a loss is a datagram never delivered, a
duplicate is one that stays after delivery.

### Philosophers, Singleton, ResourceManager, HelloResource

Every lock, unlock and access to shared state is an action. The
chopsticks of philosopher `n` are `n` and `n + 1` modulo `N`; the unlocks after eating are
separate and outside `pickupMutex`, as in the code. In `Singleton` the
assignments of the fields follow the publication of the pointer one by one, and
`malloc` may fail, after which the next assignment ends the process. In
`ResourceManager` the `++` of the counter thread is a load and a store; a message
is handled between `Receive` and `Return`; `offset` per open control block makes
a second read of the same open return nothing. `HelloResource` replies from a
buffer that was on the stack of the function that has returned: the text of a
reply is what was written or whatever has overwritten it.

### XenomaiTasks, XenomaiResponder

A program is a sequence of calls (acquire, set priority, busy wait, sleep ...) of each
task; the kernel runs a ready task with the highest current priority on one CPU;
`cprio` is the base priority, raised to that of the waiting tasks if
the lock is a mutex. `late` remembers that time has passed while a task was in `resource_lock` after it had acquired the mutex and
before it had set its priority. Time is in units of 100 ms, in which all delays of the
programs are given. Any call may take up to one such unit more, at most
`MaxJitter` times in a run. `main` becomes an ordinary Linux process after a
Linux call (`secondary`) and gets the CPU only when no Xenomai task wants it.
`TaskE` is `TaskD` with other traces and is not modelled twice.

`XenomaiResponder` is main of ex06, which starts a responder on each CPU: the one on
its own CPU keeps it from starting the rest. The disturbing threads only delay
main. The end time is an `unsigned long`, compared with a time that is not cut.

### MessagePassing

Threads are numbered as the kernel numbers them, since the program finds the
priority of a client by its thread identifier. All run on one CPU: the kernel
trace beside the program says `TRACE_CPU_NUM 1`. A send blocks until the server
has received and replied, and may fail; a failed send is counted and tried
again. The channel has a fixed priority, so the server does not inherit that of
its clients.

### UsbControl

One action for each event the USB interrupt dispatches (`udd_interrupt`: reset,
suspend, wake-up, cable, and on the control endpoint SETUP, IN, OUT and the two
NAKs), with all the calls it makes down to `udc_process_setup` and the requests.
`line` is the cable and the bus, `hw` the registers of the control endpoint, `ctrl` the
state of the transfer, `dev` the configuration with the endpoints that are allocated and `udi_cdc_running`.
The three disagree where the code fails half-way: an `enable()` that returns false leaves the configuration set and
the endpoints allocated, a setting that does not exist is found out after the endpoints have been freed, and nothing
then clears `udi_cdc_running`, since `udi_cdc_data_disable` is empty. Whether the data interface can start to receive
depends on jobs that only `UsbCdc` has, so both outcomes are taken (`starts`). Between two interrupts the `host`
transfers a packet, begins another transfer before the last has ended, stops
early, resets or suspends the bus, or the cable is pulled. Packets are counted, not
read: a request says how long its descriptor is; replies of a fixed size fit in
less than one packet. The functional descriptors of the class are one.

### UsbCdc, CdcBlocks, UsbNotify

In `UsbCdc` main loops through `getchar` and `putchar`, and its steps are the
accesses between which an interrupt can come. Start of frame, the end of a
transfer in either direction and a request of the host are one step each. `dev.rx`
and `dev.tx` are the pairs of buffers of `udi_cdc.c`, `dev.out` and `dev.in` the
endpoints with their banks and jobs. A byte is its session and its number, so that
order, loss and doubling can be told. What is one step and could be more: the
comparison of position and length in `udi_cdc_getc`, the first test of
`udi_cdc_is_tx_ready`, and DMA together with the interrupt at its end. The data of a
job are taken when it starts; `BuffersApart` says that nobody writes there
meanwhile. The host may choose the configuration anew at any step of main except between
the switch of buffers in `udi_cdc_rx_start` and the start of the transfer
(`MayOpen`), which is over in less time than the host needs for a request.
A request that halts the endpoint is allowed there: `udd_ep_run` looks for a halt before its critical
section, and main then begins the job nevertheless (`begin`). So an endpoint can be busy and halted, by this window or by
the interrupt of an empty bank that a halt has left enabled, and `udd_ep_clear_halt` takes such a job for one that waits
for the halt to end: it gives the job up and calls its callback without the two arguments it has. Which values these have is
undefined: the model takes the transfer for aborted, or for done with any count up to the size of a buffer. The DMA is not stopped, and goes on at once
or never.

`CdcBlocks` puts another program in the place of the echo: one that writes or one
that reads blocks of up to `MaxBlock` bytes, which may span several buffers. What
`udi_cdc_write_buf` and `udi_cdc_read_buf` do with the buffers before and after they
copy is what `putc` and `getc` do, and these are the steps of `UsbCdc`. To a program that
does not read the host sends nothing.

`UsbNotify` is `udi_cdc_ctrl_state_change` and `udi_cdc_ctrl_state_notify` against the
callback, against a configuration chosen anew and against halts of the endpoint. The test for a halt, the start of
the job, the movement of the message by the DMA and the interrupt at its end are steps of their own. `udd_ep_free` does not
stop a transfer that waits, so that it may still go out after the next configuration, and `udd_ep_clear_halt` gives up a job that runs, as in
`UsbCdc`. `refused` remembers that the last notification was offered to a halted endpoint.

### EndpointMemory, Words

`EndpointMemory` allocates and releases the endpoints in any order. The controller
places the window of an endpoint behind those of the endpoints below it, so that
`udd_ep_alloc` first takes away the windows above and then gives them out again. A size
is kept as its logarithm, as in the register. `Words` applies each function of `compiler.h` that
computes to words of one, two, four and eight bytes; a word is the set of the places
of its ones, and a byte has `Byte` bits.

### FlashMemory, FlashCommands

`FlashMemory` writes page by page through the page buffer; the state can be looked
at between any two commands, which is what a loss of power would leave. A
byte is the set of the values programmed into it since it was last erased, since
programming only clears bits. A page is a lock region of its own, a double word has three
bytes and a page two of those. `FlashCommands` has the functions that are a
sequence of commands, of which any may fail.

### Clocks, BusClocks, PowerManager, SleepManager, CycleCounter

`Clocks` has the registers the processor's frequency depends on and both
configurations of it, a register at a time; the search of `pm_configure_clocks`
for a multiplier and a divider is written as the numbers its loops end at.
`PowerManager` calls the functions of both drivers in any order that starts what it
uses and waits for it. Start-up times are left out. `BusClocks` and
`SleepManager` have two contexts, main and a handler that comes wherever
interrupts are not masked; reading, changing and writing a mask, a count or a lock are
steps of their own. In `BusClocks` each peripheral is enabled and disabled in
turn, and main and handler use different ones; in `SleepManager` a context holds at most one
lock per mode, and an interrupt ends a sleep. `CycleCounter` looks at a count that
wraps around, with any time between two looks.

### InterruptResponder, GpioWrites, Gpio, Led, BoardStart, PollingResponder

The handler looks at pins A, B, C in turn, delays 100 us for B, clears a flag,
pulls the response low, and after 5 us lets all responses go. Edges come at
any instant. Instructions take no time and delays do. `owed` counts
the pulses due: an edge after the flag has been cleared is a new one, an edge
before that is merged with the last, as in the hardware.

`GpioWrites` gives each function of the pin driver as the sequence of its register
writes, with what a pin's registers amount to (`Driven`, `Senses`, `Function`).
`Gpio` calls one after the other on a pin, `Led` uses them for the LEDs, and `BoardStart` goes
from reset to the loop of `main` with the test equipment connected and the USB
interrupting. `PollingResponder` is a thread of ex05 and its input.

### Timespec, Histogram, GrowingArray

The loops of `timespec_normalized` are one action for each round, `busy_wait`
is the comparison and the reading of the clock, which may advance at any time
between them. `Giga` is the number of nanoseconds in a second. `Histogram` takes two
readings with any time lost in between, on each of the clocks the tests use.
`GrowingArray` is the array of each of the three tasks: in E the block does not
grow, in F the block grows and the capacity does not, in G both do. A write
beyond the block sets `crashed`.

## 3. What is checked

| Run | Constants | States | Shows |
|---|---|---|---|
| `client` | 3 iterations, period 2, 1 event of each kind | 530,340 | `OutstandingBounded`, `FreshSamples`, `ControllerIsPeriodic`, `Stops` with losses, reordering, timeouts, a SIGNAL and one duplicate or failed receive |
| `client_sendbuf` | 1 iteration, 1 SIGNAL | | violation: a thread sends what the other wrote |
| `philosophers` | N = 7, as in the code | 12,135 | `NoHoldAndWait`, `SolvesDining`, `DinnerGoesOn` |
| `threads` | 4 threads, 4 fields; the four programs of ex07 with 2 delays; 4 CPUs | 30,189 | `OneInstance`, `WaitersGetComplete`, `IncompleteOnlyMeanwhile`; `InTime`, `CeilingKept` |
| `qnx` | 2 open control blocks, values -2..2, 2 attempts, 3 reads | 163,774 | `CommandInForce`, `IsCounter`, `RepliesMatch`, `Answered` |
| `pins` | delays 20 and 1 (100 and 5 us), 3 LEDs, a period of 5 | 464,950 | `NoEdgeLost`, `LatencyBounded`, `PulseWidth`, `PinsAsAsked`, `StartsSafely`, `LowIsAnswered` |
| `routines` | below | 597,508 | `WaitsLongEnough`, `TimesAreTrue`, `ResultsAreTrue`, `FlashAsAsked`, `ClocksAreSafe`, `ClocksAsAsked`, `RequestsAreKept`, `ChangesAreSent`, `EndpointsApart` |
| `usb_control` | packets of 2, line coding of 3 | 690,267 | `AddressAgreed`, `Served`, `ConfigurationWhole`, `SleepDepth`, `TransfersEnd` |
| `usb_cdc` | buffers of 2, packets of 1, 2 bytes, 2 sessions, 1 upset, halts in the first session, blocks of up to 3 | 617,141 | `BytesInOrder`, `BuffersApart`, `EchoComesBack` |
| `usb_read_buf` | as `usb_cdc`, 3 bytes | | violation: the block read is not what has come |
| `usb_halt` | as `usb_cdc`, 1 session | | violation: an endpoint is stalled after its halt was cleared |
| `usb_notify` | 2 lines, 1 error, 2 signals, 1 halt | | violation: the driver waits for ever for a notification that has ended |

Properties with several parts: `InTime` is the bound on the wait of H
(`WaitBounded`) and the spinning time of ex06 (`DeletedInTime`); `CeilingKept` is
`CeilingNeverWaits` and `PrioritiesRestored`; `RepliesMatch` is that of ex09 and
`TextOnce` of ex10's example; `Answered` is `MessagesAnswered` and `ClientsEnd`;
`PinsAsAsked` is `GlitchFree` and `SavedStateIsTrue`; `FlashAsAsked` is `OnlyTheRangeChanges`,
`FusesAsAsked` and `FailuresReported`; `ResultsAreTrue` is `HoldsItsElements` and
`WordsAsDescribed`; `EndpointsApart` is `MemoriesApart` and `OthersKept`; `BytesInOrder` is
`EchoInOrder` for the echo and the order of the bytes written for a writer;
`EchoComesBack` is `Echoed` for the echo; `ClocksAreSafe` is `ClockIsSafe` and `SourcesAreReady`;
`ClocksAsAsked` is `FrequencyAsReported` and `SettingsAsAsked`; `RequestsAreKept` is
`WantedAreClocked` and `SleepsAsAllowed`; `TimesAreTrue` is `TimeoutsInTime` and
`SamplesAreTrue`.

Where a property names an exception, it is one the code makes: section 5 lists
those of `AddressAgreed`, `TransfersEnd`, `EchoInOrder`, `Echoed`, `FailuresReported`,
`ChangesAreSent` (`refused`), `CeilingNeverWaits` (`late`), `FrequencyAsReported`, `TimeoutsInTime`, `SamplesAreTrue`,
`DeletedInTime` and `HoldsItsElements`. `ConfigurationWhole` has none: it says nothing of what is left between a failure and the
next configuration, only that the host is not told otherwise.

Why these bounds are enough.

- Client: one answer is late in the first iteration, the second one uses it too late, and the third one shows that
  the surplus does not grow. With one SIGNAL
  the listener is in `com_send_command` at any point of the controller's. A
  duplicate needs a period of two ticks so that answers arrive both before and
  after a deadline. The safety properties that count faults are
  proved for any number of them.
- Philosophers, interrupts: the sizes are those of the code.
- Singleton: one thread that initializes, one that waits, one that skips the
  wait and one that comes later; more behave like these. Proved for any number.
- Resource manager: each handler works on one control block and the second one is
  there to be mixed up with the first. The counter stops at `MaxValue`; it would
  need seven years to overflow an `int`. The example's files are read three times, once more than
  it takes to see the end.
- Xenomai: the delays are those of the code; two jitters put a task
  between any two calls of the others. ex06: `LongModulus` 6 lies within the time
  that passes (`MaxNow` 8), so that end times below, at and beyond it occur.
- Messages: the code compares with 1000; what differs are the first attempt, a
  retry, the last and the one beyond.
- USB control: a request of each kind the firmware knows, one it does not know, and a
  descriptor of two packets asked for short, exactly and long: the three ways in
  which the last packet may be short, full or empty. A sleep lock is a `uint8_t`, and
  `LockModulus` is 256 as there.
- USB echo: a buffer of two and a packet of one is the least in which a buffer may
  be empty, partly filled and full and a transfer take several packets; with two sessions
  the buffers hold bytes of an earlier one, and with one upset a session ends at any place. A halt comes in the first session only
  (`HaltSessions`), so that the second one begins with what it has left. Two
  frame numbers show whether a transfer has been started in this frame. That the bank of a halted *receiving* endpoint is emptied
  afterwards takes more bytes or upsets than these: this half of `BankEmpty` is covered by the proofs only.
- Blocks: a block of 3 fills a buffer and goes on in the next one.
- Endpoint memory: three endpoints besides the control endpoint, sizes from the least to one that no power of two gives
  exactly, and a memory in which two of the large ones fit and three do not.
- Words: bytes of two bits, so that every word of one, two and four bytes occurs where a function has one operand.
- Notifications: two lines, of which one may change back, and an error, which is reported
  once; four signals meet one notification before, during and after it twice, and the endpoint is halted once,
  at any of their steps.
- Flash: a page of two double words and two pages and the User page: a range may begin
  and end within a double word, at a page, and in the gap between array and User page.
- Clocks: frequencies in units of 0.5 MHz (`Clocks`) and 100 kHz (`PowerManager`), requests
  below, between and above each limit of VCO, flash and bus, and some that no setting gives
  exactly. Buses: peripherals on each bus, with and without a data clock, three calls
  of each context. Sleep: three modes, the least with a mode between the extremes.
- Counts that wrap: `Wrap` 8, so that each start, end and look occurs before and after
  the count has wrapped; delays of nothing, shorter, longer than a turn. Histogram: a second of 6 ns and ticks of 4.
- Time arithmetic: with a second of 4 ns all carries and borrows occur, from both sides.
- Array: capacity 2 and 5 inserts make it grow twice and past twice its size.
- Pins: one pin has all the registers, and group functions change several bits
  in the same write; three LEDs and one mask bit beyond them show both ends of the loops.
- Polling: a sleep is up to 2 fifths of a period late; an input is low for up to five periods.

Deadlock is checked for the client and the philosophers. Everywhere else programs end or come to
rest: main of ex02 returns, the server of ex09 waits for messages that no longer come, the tasks of
ex06 and ex07 delete themselves, routines return when their number of calls is used up,
and a host that has nothing to say says nothing.

### Fairness

- `MiniprojectClient`: the operating system runs main and the controller when
  they can move, and time passes. Nothing is assumed of the listener, the network
  or the server: `Stops` holds even if no datagram ever arrives.
- `Philosophers`: weak fairness of each thread. A mutex has no queue in POSIX, so
  that a philosopher may starve before `pickupMutex`; only that the dinner goes on is claimed.
- `ResourceManager`: weak fairness of both threads; strong fairness of the
  handler's lock, since the counter thread sleeps 100 ms of each round without the mutex and QNX
  hands a mutex to the thread that waits for it. (The comment at `ex10/project/main.c:106` speaks of
  10 ms; `usleep(1e5)` is 100 ms. Nothing depends on it.)
- `MessagePassing`: the CPU does not idle while a thread is ready.
- `UsbControl`: interrupts are taken, and the host goes on with the transfer it has begun. It may still
  begin another one, reset or unplug at any time.
- `UsbCdc`: interrupts are taken, frames start, the hardware transfers what is in a bank, the host
  reads and ends what it writes with a short packet, and main is never suspended for good
  (`CdcBlocks`: as long as it is the echo; of the other programs no liveness is claimed).

The other modules have safety properties only.

## 4. What is proved

Every theorem holds for all values of the constants that the module's `ASSUME`
admits. These are the code's own: periods, buffers, packets and numbers of philosophers or fields
are positive (at least two philosophers, or one would take the same mutex
twice), bounds are natural numbers, names that stand for "none" are no thread or line
(`QnxAssumption`, `RoutinesAssumption`, `ThreadsAssumption`, `BlockAssumption`). Three say more:
`UsbControlAssumption`, that no host sets the address 0 and that a sleep lock counts beyond 1;
`PollAssumption`, that a pulse of ex05 and the lateness of a sleep fit in a period, without which
the program is late by design; and `BusAssumption`, that main and the handler use different peripherals, none of them one that
`sysclk_init()` leaves running, and not both names of the USB module, as the functions of `sysclk.c` count users for a bus and
not for a peripheral.

In each module below the inductive invariant is what the properties need and do
not say; each of its conjuncts is named, and the proof that a step keeps it has one step
for each action.

**`MiniprojectClientProofs`.** `TypeCorrect` includes what each place of a
thread says about its command. `OutstandingIsBounded`: the sum of all that is
on its way to the semaphore is inductive on top of the type invariant; a step that adds to the
left of the inequality consumes a wait or records a fault.  `SamplesAreFresh`:
while there is no fault, what is in the network, in the receive buffer and in `y_recieved` is
a measurement later than all that were used (`Freshness`), and each GET on its way will give
one later still. `DeadlinesDoNotDrift`: the wake time is the number of begun iterations times the
period, inductive with the fact that the clock has reached `i * Period`.
`ControllerIsPeriodicTask`: with that invariant each step of the program is a
step of `PeriodicTask` or a stutter.

**`PhilosophersProofs`.** `Owners` says that a mutex is owned
exactly by the thread whose place says so; types alone do not relate places to
owners. `NoCircularWait` and `NeighboursAreExcluded` follow from it, and
`DiningIsSolved` is the refinement of `NeighbourExclusion`, whose one
interesting step is the second lock: taking the right chopstick shows that
neither neighbour eats (`RightInRing` is the arithmetic of the ring).

**`ThreadsProofs`.** Of the singleton, `MutualExclusion` (one thread between wait and post),
`Publication` (an incomplete object has a thread initializing it) and `Results`
are inductive together; `OneInstanceForAll`, `WaitersAlwaysGetComplete` and
`WindowOfFirstCheck` follow. `AlwaysInTime` is about ex07 TaskB and TaskC and ex06. `TaskInv`: only L and H take
the resource, they hold it just between two of their calls, and who waits waits for
the other; then what H has waited is at most what L has spent in its section and,
behind a semaphore, what M has spent, and one more for each delay. Behind a mutex L inherits the priority of H
while H waits (`CurrentPriorities`), so that `WhoRuns` leaves no turn to M. `CeilingIsKept` is about all of ex07, mostly
TaskD: `Nested` says which call of L and H holds which resource (`Held`), with which base priority
(`Lifted`) and what is to be restored (`Saved`). A priority to be restored can be wrong only if the other
task waits, and then both wait for each other and it is never read. While one task still has to restore, its ceiling keeps the
other from running (`Apart`), and the one place where it has the mutex and not yet the priority is in `resource_lock`: only time that passes
there (`late`) lets the other come in (`Prompt`). `ResponderInv`: a responder's end
time is its start and its duration, cut only where a long does not hold it.

**`QnxProofs`.** Of the resource manager, `Owner` ties the mutex to places, `StoreIsCurrent` says
that what the counter thread is about to store is still one count away, and `InForce` follows
a command from its receipt to its answer. `CommandsStayInForce` and the refinement
`CounterIsAtomic` follow: loads, stores and mutex implement
counts, commands and reads that are instantaneous. `RepliesAlwaysMatch`: the one client that waits for a reply
is `receive_id`, and the server's buffer and the client's hold the reply to it (`Blocked`, `OwnReply`), and a file's offset says
what has been read of it (`Taken`).

**`PinsProofs`.** `Due` relates flags to pulses due, `Waits` bounds for each
place of the handler how long an edge of each pin can have waited there. With
them `EdgesAreRemembered` and `LatencyIsBounded` hold for all delays, and
`PulsesHaveEdges`, that no pulse is given without an edge. `PulsesAreWide`: `Widths` says how long
a response has been low at each place. `LowsAreAnswered`: `PollInv`
relates how long the input has been low to the wake time of the thread that polls it.

**`RoutinesProofs`.** The rounds of the loops leave the number of nanoseconds alone
(`Loops`), so that `ArithmeticIsExact`, and the last reading is not ahead of the clock
(`Read`), so that `BusyWaitIsLongEnough`. `ChangesAreAlwaysSent` (`NotifyInv`): what the host will know when it has read
all there is are the lines of the message, and those of the message are those of the state, but for a message that is
still to be moved, one that a halted endpoint has refused, and the steps of the program or of an interrupt that are about to make them so
(`MessageIsKnown`, `StateInMessage`). A job runs only while the driver knows of it or is about to (`JobIsKnown`), and never while the program prepares
another (`JobIsAlone`). `SleepsAsAllowed` (`SleepInv`): a lock is the number of contexts that hold it,
and what was read before it is written is current, because a context is inside such a section only while interrupts
are masked. `WantedStayClocked` (`BusInv`) says the same of the clock masks, the counters of the two bridges and the generic clock of USB.
Its first half is what a call still has to do: `Plan` says which access may follow which (`Follows`), that they are all for the
peripheral of the call (`Mine`), and that each mask is written and each counter changed once (`Once`); every access leaves a plan
(`PlanOfTail`). The other half is what has been done: a peripheral holds a mask bit, a count or a clock when it is wanted
or a call of it has taken and not given it back (`Holders`). A mask is what runs anyway and the bits of its holders
(`BusMasks`), a counter the number of its holders (`BusCounts`), and a bridge is on while its counter is positive or a call is between the two
(`BridgeOn`). That a step of one context undoes no step of the other rests on `BusSections` (flags saved as deep as the sections
are, and interrupts masked while anyone is in one), and hence `LastRead`: the mask about to be written back is the current one.
`RequestsAreAlwaysKept` is the two together. `SourcesAreReady` (`PowerInv`): a call is made only with what its sources
are ready for, and none of them stops while it is used. `ArrayHoldsItsElements` (`ArrayInv`): the block has room for the
capacity and for the cells between the cursors (`Room`), those cells are the elements (`Stored`), and
an iteration has seen the ones on one side of the cursor it moves (`Seen`); the three hold until the memory after the block is
written to, which needs one of the exceptions of the property (`Excused`).

**`UsbControlProofs`.** The invariant has seven parts besides the types: `Asleep` (lock and line), `Whole` and `Control`
(device and transfer, whatever the host does: a transfer in its status stage has been done as its request says), `Staged` (the host), and, while the device can be
used, `Paired` (both are in the same transfer, so that a handshake the host may take is of its own request, and no packet of an earlier one is taken for one of this),
`Addressed` (the one handshake after which the addresses differ until the interrupt is handled), and `Serving` (where each
packet of a request that must succeed is). With it `ConfigurationIsWhole`, `AddressIsAgreed`,
`LegalIsServed` and `SleepDepthKept` hold for requests and packets of any size.

**`UsbCdcProofs`.** `Sending` and `Receiving` say which buffer a job has and that it is not the current one,
`Closed` that nothing runs without a configuration, and `Places` what a place of main
knows, although an interrupt may have come since it looked: a buffer that had room has room still.
`BuffersAreApart` follows for the echo and, with `CopyFits` for a block that ends at a buffer's end,
`BuffersAreApartFromBlocks` for the writer, for buffers, packets and blocks of any size.
`BytesAreInOrder` gives each place on the way of the bytes a number, how many of the session's bytes are behind it: the host has
been given `got` and has sent `sent`, and between them are the buffers of the transmitter, its job and its bank (`Back`), what main
holds (`Held`), and the buffers, job and bank of the receiver (`Ahead`). From one place to the next the bytes are the numbers
between theirs, and bytes of an older session come only before number 1 (`Link`, and `Chain` for the packets of a bank), so that
two that meet can be joined and one can be cut, wherever a packet or a buffer ends (`LinkConcat`, `LinkOfFirst`). This holds while no job of the session has been
given up (`Live`, `Order`); one whose halt overtook it changes nothing (`Starting`). No byte is of
a session to come (`Known`), so that all that is still on its way is old when a session begins and the numbers start again.

`TypeCorrect`, `DeadlinesDoNotDrift`, `NeighboursAreExcluded`, `PulsesHaveEdges` and
`ArithmeticIsExact` are theorems without a run of their own; `SourcesAreReady` and
`ArrayHoldsItsElements` are each about one part of a property of `routines`, `SleepsAsAllowed` and `WantedStayClocked` about the two
parts of `RequestsAreKept`. A theorem about `MCSpec` is about the composed run itself; one about
`Spec` is about its own module, of which the composed run is the instance chosen by its initial state.

Only model-checked, and why:

- Liveness (`Stops`, `DinnerGoesOn`, `Answered`, `TransfersEnd`, `EchoComesBack`) needs fairness
  and ENABLED, which are out of the prover's reach.
- `WordsAsDescribed`, `FusesAsAsked`, `ClockIsSafe`, `FrequencyAsReported`, `SettingsAsAsked`, `TimesAreTrue`: their content is
  powers of two, sums over sets, and quotients and remainders by a parameter, on which the solvers fail or which are
  induction over data.
- `EndpointsApart` and `PinsAsAsked`: the functions fold over sequences of endpoints and of register writes, which is
  induction over data. `SavedStateIsTrue`, a part of the latter, also rests on the least element of a set (`ctz`).
- `StartsSafely`: the program has no parameter, so that the run is exhaustive.
- Not proved yet, of `FlashAsAsked`: `OnlyTheRangeChanges` (alignment) and `FailuresReported`.

## 5. Disagreements between code and words

With a run of their own:

- `client_sendbuf`: `miniproject/TODO.txt:3` asks for "Mutexes for comms"; there is
  none, and listener and controller overwrite each other's command.
- `usb_read_buf`: `udi_cdc.h:267` "Reads a RAM buffer on CDC line": `udi_cdc_read_buf` copies from a
  transmit buffer (`udi_cdc.c:629`), so that the program gets what it once sent. Nothing in the firmware calls it.
- `usb_halt`: `usbb_device.c:1548` asserts that a stall is requested when the bank of a
  halted endpoint is empty. A halt that is cleared before the host has read the
  packet leaves that interrupt enabled, and the endpoint is stalled after it was cleared.
- `usb_notify`: `udi_cdc.c:391` stores that a notification is on its way after it has
  started it. If it ends first, the driver believes for ever that one is on its way,
  and `udi_cdc.h:224` "Notify a state change" holds no more. There is one other way in which the host misses a change: `udi_cdc.c:389`
  stores the lines as sent before `udd_ep_run` is asked, which refuses while the endpoint is halted (`usbb_device.c:843`), and
  CLEAR_HALT does not make up for it; the host hears of that change with the next one. `ChangesAreSent` says that these two
  are all.

Seen while modelling, without a run of their own. Of the programs:

- `miniproject/client/main.c:102` requests a measurement "only if no data is yet unhandled": the test
  and the send are separate steps, and a late answer posted in between makes
  the request redundant. The damage is bounded (`OutstandingBounded`).
- The listener handles the last datagram again once the connection is closed.
- In ex07 TaskD the ceiling is emulated, and not exactly. A delay between `rt_mutex_acquire` and `rt_task_set_priority`
  (`resource.h:16-21`) lets the two tasks take the two locks in opposite order and wait for each other for ever;
  `CeilingNeverWaits` says that no delay elsewhere does. And `resource_lock` sets the ceiling of its resource whatever the task's
  priority is: `thread_l`, which holds A with the ceiling 90, goes down to 85 when it locks B, below the ceiling of a resource
  it holds. M (81) and H (82) stay below that, so that it does no harm; no property claims the contrary.
- `ex09/project/project.c:86-91` compares the count of attempts before it looks at the error, so that a client
  whose last permitted attempt succeeded prints "Too many failed attempts. Giving up."
- An edge on B while the handler answers B is merged with the one before.
- ex01 TaskB and TaskC subtract `tv_nsec` alone: a sample in which a second begins is left out or
  counted short. ex01 TaskE inserts the value of a variable that is not initialized (`main.c:9`), and
  `insertBack` compares the length with the capacity but writes at `back`, so that after
  `array_popFront` it writes beyond the block.
- ex06 keeps the end time in an `unsigned long`: where that has 32 bits the responder ends
  at once (`DeletedInTime` excuses it).
- ex10/lib replies from a buffer on the stack of a function that has returned; what the client gets is undefined.

Of the framework of ex03:

- A SET_ADDRESS that ends without its handshake leaves host and device with different addresses; a host that cuts short
  data it sends may wait for ever.
- Data that come between the read of a position and its write in `udi_cdc_getc`, when the interface is enabled anew in between, are
  skipped; setting the communication interface leaves the port stopped until the data interface is
  enabled again, and a halt of an endpoint or a bus reset can leave a transfer that nothing starts again.
- The sleep lock of the USB driver is right only because it wraps around below zero.
- `udi_cdc.c:389`, `:391`: above. SET_FEATURE(HALT) and CLEAR_FEATURE(HALT) can lose a running transfer: `udd_ep_run` tests for a halt before its
  critical section (`usbb_device.c:843-848`), and a halt that waits for the bank comes true later, so that an endpoint
  is both busy and halted; `udd_ep_clear_halt` then takes the transfer for one that waits for the halt to end (`:817`) and calls its callback
  through a pointer of another type, without arguments. The properties of order excuse such a session (`cut`).
- A SET_CONFIGURATION or SET_INTERFACE that is refused leaves what it has done so far (`udc.c:796`, `:858`): a configuration
  with endpoints allocated and nothing received, or endpoints freed while `udi_cdc_running` is TRUE. The host is told, which is what
  `ConfigurationWhole` checks.
- `uc3/sleepmgr.h:101` asserts that the search for a locked mode has ended before the last one, with a pointer that has already been moved past the mode
  found: `lock_ptr - sleepmgr_locks` is then the number of modes when only the deepest one is locked. That is the state `sleepmgr_init` leaves, it is
  legal, and the comment above (`:99`) means only a deepest mode that has been unlocked too often. With assertions the program would
  hang there; `_ASSERT_ENABLE_` is defined nowhere, so that `Assert` is empty, and `SleepsAsAllowed` (in `RequestsAreKept`) is about the program as compiled:
  it says that the mode found is the right one in this case too.
- `flashc_erase_user_page` with its check overwrites the status that is elsewhere
  gathered over the commands of a call ("cumulated", `flashc.c:261`).
- `pm_conf_clocks.c:86-90` returns at the frequency of the crystal without resetting the dividers of
  an earlier call; `sysclk.h:401` reports for PBB the divider of the CPU;
  `osc_disable` of the 32 kHz oscillator touches nothing.
- The delays in cycles are cut to 32 bits: one that is too long ends too early.
- `LED_State` starts with all LEDs on while they are off.

## 6. What is not modelled, and why

- The server of the miniproject has no source; scripts, plots and makefiles have
  no state. What the server does when STOP is lost is unknown.
- The arithmetic of `pid()`, of formatting and parsing of commands: floating point and
  text that no property is about.
- Weak memory: all models are sequentially consistent. The singleton could lose
  more under `-O3`; the model shows already that its unguarded reader may see
  an incomplete object.
- Failures of initialization: mutexes, semaphores and threads are created
  successfully, except the threads of the miniproject, whose failure main handles.
- Of the USB driver `udd_disable`, remote wake-up, `udd_ep_abort` and the test modes, which
  the firmware does not call or configures out; of `udi_cdc.c` nine-bit characters,
  which no program here uses.
- Of the flash driver the functions that are one register access (erase of the whole chip,
  security bit, interrupt enables); of the power manager the brown-out detector, reset cause and general-purpose
  registers; `power_clocks_lib.c` beyond what the firmware calls.
- Of `compiler.h` what is a name, a type or an access to a register; of `usbb_device.h` the registers that no
  function of the driver combines.
- The rest of the framework: macros, declarations, the exception vectors' assembly, register
  descriptions, the C library glue.
- ex01 TaskD (allocates until memory is full), ex02/lib/copyable_code.c (two
  snippets), ex08 (load and unload hooks that print).
- ex06: the answers to the pins are commented out.

## 7. Plan

The order was: the miniproject client, since it is the largest program and has
all kinds of hazards; then the programs with locks (ex02, ex10), then those whose
correctness lies in scheduling (ex07, ex09), then interrupts and time (ex03, ex01); then
the USB device and the drivers under it, from the control endpoint to the pins, and
the remaining exercises; last, the proofs of section 4. The next steps:

1. Proofs that need an invariant only: `OnlyTheRangeChanges` (what has been written so far is what lies below the
   page that is current) and `FailuresReported`.
2. An abstract message service for `MessagePassing` (each message is answered to its
   sender, before or after it gave up), as a refinement.
3. Parts of the framework the firmware configures out: remote wake-up, `udd_ep_abort`.
