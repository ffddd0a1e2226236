------------------------------- MODULE UsbCdc -------------------------------
(***************************************************************************)
(* The echo program of ex03 over its USB serial port: udi_cdc.c's two pairs *)
(* of buffers, usbb_device.c's endpoint jobs, the requests of udc.c that    *)
(* open, close and halt the endpoints, stdio and the main loop.  An         *)
(* interrupt is one step; the main loop's steps are the accesses between    *)
(* which an interrupt can come.  A byte is <<session, number>>: the host    *)
(* numbers its bytes from 1 each time the data interface is enabled.        *)
(***************************************************************************)
EXTENDS Integers, Sequences, FiniteSets

CONSTANTS
  BufferSize,   \* UDI_CDC_TX_BUFFERS and UDI_CDC_RX_BUFFERS
  PacketSize,   \* the size of a bulk endpoint
  Frames,       \* frame numbers
  Banks,        \* banks of a bulk endpoint
  MaxBytes,     \* bound: bytes the host sends in a session
  MaxSessions,  \* bound: times the data interface is enabled
  MaxUpsets,    \* bound: halts, bus resets and settings that upset a session
  HaltSessions  \* bound: sessions in which an endpoint is halted, the first ones

ASSUME UsbCdcAssumption ==
  /\ BufferSize \in Nat \ {0} /\ Banks \in Nat \ {0} /\ PacketSize \in Nat \ {0} /\ Frames \in Nat \ {0}
  /\ MaxBytes \in Nat /\ MaxSessions \in Nat /\ MaxUpsets \in Nat /\ HaltSessions \in Nat

VARIABLES
  dev,   \* what interrupts share with main: the CDC's variables, configuration, frame number, endpoints in and out
  main,  \* the echo loop: where it is, its character and its locals
  host   \* session, bytes sent and received, and what excuses a loss

vars == <<dev, main, host>>

At(pc)   == main.pc = pc
Goto(pc) == main' = [main EXCEPT !.pc = pc]

-----------------------------------------------------------------------------
(* Endpoints.  An endpoint has banks: the packets on their way.  waiting:   *)
(* the data of a job are sent and its packet of length zero is not; bankIrq: *)
(* an interrupt is wanted when the banks are empty.                          *)

NoJob == [buf |-> 0, data |-> <<>>, zlp |-> FALSE, waiting |-> FALSE]
Endpoint == [enabled |-> FALSE, halted |-> FALSE, stallRequested |-> FALSE, bankIrq |-> FALSE,
             busy |-> FALSE, job |-> NoJob, bank |-> <<>>]
Packets(bytes, short) == [bytes |-> bytes, short |-> short]

udd_ep_alloc(e) == [e EXCEPT !.enabled = TRUE]

(* A requested stall outlives the endpoint.                                 *)
udd_ep_free(e)  == [Endpoint EXCEPT !.stallRequested = e.stallRequested]

Stalls(e) == e.halted \/ e.stallRequested
CanRun(e) == e.enabled /\ ~Stalls(e) /\ ~e.busy

Job(e, buf, data, zlp) ==
  [e EXCEPT !.busy = TRUE, !.job = [buf |-> buf, data |-> data, zlp |-> zlp, waiting |-> zlp /\ data = <<>>]]
RunIn(e, buf, data, short) == Job(e, buf, data, data = <<>> \/ (short /\ Len(data) % PacketSize = 0))
RunOut(e, buf)             == Job(e, buf, <<>>, FALSE)
udd_ep_finish_job(e)       == [e EXCEPT !.busy = FALSE, !.job = NoJob]
Sent(e) == [e EXCEPT !.bank = Append(@, Packets(e.job.data, Len(e.job.data) % PacketSize # 0))]

(* A busy endpoint is not halted; one with packets in its bank, later.      *)
udd_ep_set_halt(e) ==
  IF e.busy THEN e
  ELSE IF e.bank # <<>> THEN [e EXCEPT !.stallRequested = TRUE, !.bankIrq = TRUE]
  ELSE [e EXCEPT !.halted = TRUE]
(* The interrupt of the empty bank stays enabled.  A job there is none the  *)
(* less, started by main or before that interrupt halted, is given up.      *)
GivesUp(e)           == e.busy /\ Stalls(e)
udd_ep_clear_halt(e) == [(IF GivesUp(e) THEN udd_ep_finish_job(e) ELSE e) EXCEPT !.halted = FALSE, !.stallRequested = FALSE]

-----------------------------------------------------------------------------
(* udi_cdc.c.  The length of a buffer's contents is its nb.                 *)

Other(sel) == 1 - sel

udi_cdc_tx_send(d) ==
  LET buf   == IF d.tx.both THEN Other(d.tx.sel) ELSE d.tx.sel
      short == Len(d.tx.data[buf]) # BufferSize
  IN  IF d.tx.ongoing \/ d.tx.sof = d.frame THEN d
      ELSE [d EXCEPT !.tx.sel = Other(buf), !.tx.ongoing = TRUE, !.tx.sof = IF short THEN d.frame ELSE 0,
                     !.in = IF CanRun(@) THEN RunIn(@, buf, d.tx.data[buf], short) ELSE @]

udi_cdc_data_sent(d) ==
  udi_cdc_tx_send([d EXCEPT !.tx.data[Other(d.tx.sel)] = <<>>, !.tx.both = FALSE, !.tx.ongoing = FALSE])

udi_cdc_is_rx_ready(d) == d.rx.pos < Len(d.rx.data[d.rx.sel])
Switched(d) == [d EXCEPT !.rx.pos = 0, !.rx.sel = Other(@), !.rx.ongoing = TRUE]
Receive(d, buf) == [d EXCEPT !.out = IF CanRun(@) THEN RunOut(@, buf) ELSE @]

Unread(d)     == ~d.rx.ongoing  \* MUTANT: does not look whether the current buffer is read
MayReceive(d) == ~d.rx.ongoing /\ ~udi_cdc_is_rx_ready(d)
udi_cdc_rx_start(d) == IF MayReceive(d) THEN Receive(Switched(d), d.rx.sel) ELSE d

udi_cdc_data_recevied(d, data) ==
  udi_cdc_rx_start([d EXCEPT !.rx.data[Other(d.rx.sel)] = data, !.rx.ongoing = FALSE])

NoTx == [sel |-> 0, data |-> [b \in 0..1 |-> <<>>], ongoing |-> FALSE, both |-> FALSE, sof |-> 0]

(* The count of receive buffer 1 is not reset.                              *)
udi_cdc_data_enable(d) ==
  LET t == udi_cdc_tx_send([d EXCEPT !.tx = NoTx])
      r == udi_cdc_rx_start([t EXCEPT !.rx.ongoing = FALSE, !.rx.sel = 0, !.rx.data[0] = <<>>, !.rx.pos = 0])
  IN  [r EXCEPT !.running = r.out.busy]

-----------------------------------------------------------------------------
(* udc.c: interface 0 is the CDC's communication, 1 its data interface.     *)

stdio_usb_enable(d)     == [d EXCEPT !.stdio = TRUE]
stdio_usb_disable(d)    == [d EXCEPT !.stdio = FALSE]
udi_cdc_comm_disable(d) == stdio_usb_disable([d EXCEPT !.running = FALSE])

udc_iface_disable(d, i) ==
  IF i = 0 THEN udi_cdc_comm_disable(d)
  ELSE [d EXCEPT !.in = udd_ep_free(@), !.out = udd_ep_free(@)]
udc_iface_enable(d, i) ==
  IF i = 0 THEN stdio_usb_enable(d)
  ELSE udi_cdc_data_enable([d EXCEPT !.in = udd_ep_alloc(@), !.out = udd_ep_alloc(@)])
udc_reset(d) ==
  [(IF d.configured THEN udc_iface_disable(udc_iface_disable(d, 0), 1) ELSE d) EXCEPT !.configured = FALSE]
NotNotified(d)    == d  \* MUTANT: the CDC is not told of a frame
udi_cdc_data_sof_notify(d) == udi_cdc_tx_send(d)
udc_sof_notify(d) == IF d.configured THEN udi_cdc_data_sof_notify(d) ELSE d

(* The host numbers its bytes anew.  mayLose: an enable that came between   *)
(* the read of a position and its write makes the echo skip bytes; mayStop: *)
(* a stall requested in an earlier session is still requested.             *)
NewSession ==
  host' = [host EXCEPT !.session = @ + 1, !.sent = 0, !.open = FALSE, !.got = 0, !.inOrder = TRUE,
                       !.ended = 0, !.cut = FALSE, !.mayLose = main.pc = "store",
                       !.mayStop = dev.in.stallRequested \/ dev.out.stallRequested]

(* The main loop leaves udi_cdc_rx_start sooner than a host gets that far,  *)
(* and marks the job it begins sooner than one takes the endpoint away.     *)
MayOpen == host.session < MaxSessions /\ main.pc \notin {"run", "begin"}

SetConfiguration ==
  /\ MayOpen
  /\ dev' = udc_iface_enable(udc_iface_enable([udc_reset(dev) EXCEPT !.configured = TRUE], 0), 1)
  /\ NewSession /\ UNCHANGED main

SetDataInterface ==
  /\ MayOpen /\ dev.configured
  /\ dev' = udc_iface_enable(udc_iface_disable(dev, 1), 1)
  /\ NewSession /\ UNCHANGED main

Upset(h) == host.upsets < MaxUpsets /\ host' = [h EXCEPT !.upsets = @ + 1]

(* The CDC is not running again after its communication interface is set.   *)
SetCommInterface ==
  /\ dev.configured
  /\ dev' = udc_iface_enable(udc_iface_disable(dev, 0), 0)
  /\ Upset([host EXCEPT !.mayLose = TRUE]) /\ UNCHANGED main

(* A setting that does not exist: the interface is disabled all the same.   *)
SetUnknownSetting(i) ==
  /\ dev.configured /\ ~At("begin")
  /\ dev' = udc_iface_disable(dev, i)
  /\ Upset([host EXCEPT !.mayLose = TRUE]) /\ UNCHANGED main

BusReset ==
  /\ ~At("begin")
  /\ dev' = udc_reset([dev EXCEPT !.in = udd_ep_finish_job(@), !.out = udd_ep_finish_job(@)])
  /\ Upset([host EXCEPT !.mayStop = TRUE]) /\ UNCHANGED main

(* udd_ep_run looks for a halt before its critical section: one that comes  *)
(* in between does not keep main from beginning the job.                    *)
Overtaken(e) == At("run") /\ CanRun(e) /\ Goto("begin")

SetHalt ==
  /\ dev.configured /\ host.session <= HaltSessions
  /\ \/ dev' = [dev EXCEPT !.in = udd_ep_set_halt(@)] /\ UNCHANGED main
     \/ dev' = [dev EXCEPT !.out = udd_ep_set_halt(@)] /\ (UNCHANGED main \/ Overtaken(dev.out))
  /\ Upset([host EXCEPT !.mayStop = TRUE])

(* The callback of a job that is given up is called without its arguments:  *)
(* it takes the transfer for aborted, or for done with any count of bytes.  *)
(* The job's DMA is not stopped: what it was sending still goes out, or not. *)
Fifo(e) == {e.bank} \cup (IF e.job.waiting \/ Len(e.bank) = Banks THEN {} ELSE {Sent(e).bank})
Left(bytes, n) == [k \in 1..n |-> IF k <= Len(bytes) THEN bytes[k] ELSE <<0, 0>>]

ClearHaltIn ==
  LET d == [dev EXCEPT !.in = udd_ep_clear_halt(@)]
  IN  IF GivesUp(dev.in)
      THEN \E bank \in Fifo(dev.in) : LET l == [d EXCEPT !.in.bank = bank] IN dev' \in {l, udi_cdc_data_sent(l)}
      ELSE dev' = d

ClearHaltOut ==
  LET d == [dev EXCEPT !.out = udd_ep_clear_halt(@)]
  IN  IF GivesUp(dev.out)
      THEN \/ dev' = d
           \/ \E n \in 0..BufferSize : dev' = udi_cdc_data_recevied(d, Left(dev.out.job.data, n))
      ELSE dev' = d

ClearHalt ==
  /\ \/ ClearHaltIn /\ host' = [host EXCEPT !.cut = @ \/ GivesUp(dev.in)]
     \/ ClearHaltOut /\ host' = [host EXCEPT !.cut = @ \/ GivesUp(dev.out)]
  /\ UNCHANGED main

Requests == \/ SetConfiguration \/ SetDataInterface \/ SetCommInterface \/ BusReset \/ SetHalt \/ ClearHalt
            \/ \E i \in 0..1 : SetUnknownSetting(i)

-----------------------------------------------------------------------------
(* Interrupts and the hardware between them and the host.                   *)

StartOfFrame ==
  /\ dev' = udc_sof_notify([dev EXCEPT !.frame = (@ + 1) % Frames])
  /\ UNCHANGED <<main, host>>

(* The hardware moves the data of a job, and the interrupt says so.  Of a   *)
(* transfer in, a packet of length zero may be still to come.               *)
InSent ==
  LET e == Sent(dev.in)
  IN  /\ dev.in.busy /\ ~dev.in.job.waiting /\ Len(dev.in.bank) < Banks
      /\ dev' = IF e.job.zlp THEN [dev EXCEPT !.in = [e EXCEPT !.job.waiting = TRUE]]
                ELSE udi_cdc_data_sent([dev EXCEPT !.in = udd_ep_finish_job(e)])
      /\ UNCHANGED <<main, host>>

InZlp ==
  LET e == [dev.in EXCEPT !.bank = Append(@, Packets(<<>>, TRUE))]
  IN  /\ dev.in.busy /\ dev.in.job.waiting /\ Len(dev.in.bank) < Banks
      /\ dev' = udi_cdc_data_sent([dev EXCEPT !.in = udd_ep_finish_job(e)])
      /\ UNCHANGED <<main, host>>

(* A transfer out ends with a short packet or a full buffer.                *)
OutReceived ==
  LET packet == Head(dev.out.bank)
      data   == dev.out.job.data \o packet.bytes
      d      == [dev EXCEPT !.out.bank = Tail(@), !.out.job.data = data]
  IN  /\ dev.out.busy /\ dev.out.bank # <<>>
      /\ dev' = IF packet.short \/ Len(data) = BufferSize
                THEN udi_cdc_data_recevied([d EXCEPT !.out = udd_ep_finish_job(@)], data) ELSE d
      /\ UNCHANGED <<main, host>>

(* The bank a halt waited for is empty.                                     *)
BankEmpty ==
  LET Halt(e) == [e EXCEPT !.bankIrq = FALSE, !.stallRequested = FALSE, !.halted = TRUE]
  IN  /\ \/ dev.in.bankIrq /\ dev.in.bank = <<>> /\ dev' = [dev EXCEPT !.in = Halt(@)] /\ UNCHANGED main
         \/ /\ dev.out.bankIrq /\ dev.out.bank = <<>> /\ dev' = [dev EXCEPT !.out = Halt(@)]
            /\ UNCHANGED main \/ Overtaken(dev.out)
      /\ UNCHANGED host

TransferIn == InSent \/ InZlp
udd_ep_interrupt == TransferIn \/ OutReceived \/ BankEmpty

-----------------------------------------------------------------------------
(* The host.  It ends what it writes with a short packet.                   *)

HostSends(n) ==
  /\ dev.out.enabled /\ ~dev.out.halted /\ Len(dev.out.bank) < Banks
  /\ host.sent + n <= MaxBytes /\ (n = 0 => host.open)
  /\ dev' = [dev EXCEPT !.out.bank = Append(@, Packets([k \in 1..n |-> <<host.session, host.sent + k>>], n < PacketSize))]
  /\ host' = [host EXCEPT !.sent = @ + n, !.open = n = PacketSize]
  /\ UNCHANGED main

HostReads ==
  LET packet == Head(dev.in.bank)
      Own(n) == {k \in 1..n : packet.bytes[k][1] = host.session}
      own    == Own(Len(packet.bytes))
      got    == host.got + Cardinality(own)
  IN  /\ dev.in.bank # <<>> /\ ~dev.in.halted
      /\ dev' = [dev EXCEPT !.in.bank = Tail(@)]
      /\ host' = [host EXCEPT !.got = got, !.ended = IF packet.short THEN got ELSE @,
                    !.inOrder = @ /\ \A k \in own : packet.bytes[k][2] = host.got + Cardinality(Own(k))]
      /\ UNCHANGED main

-----------------------------------------------------------------------------
(* The echo loop: scanf, udi_cdc_getc, printf, udi_cdc_putc.                *)

Listening == [pc |-> "getc", ch |-> <<0, 0>>, pos |-> 0, buf |-> 0]
Current == dev.tx.data[dev.tx.sel]

(* The bytes of scanf's and printf's _read() and _write() pass one by one.   *)
(* A getc with nothing to read waits or returns zero, which is not echoed.  *)
GetcRead ==
  /\ At("getc") /\ dev.stdio /\ udi_cdc_is_rx_ready(dev)
  /\ main' = [main EXCEPT !.pc = "store", !.ch = dev.rx.data[dev.rx.sel][dev.rx.pos + 1], !.pos = dev.rx.pos]
  /\ UNCHANGED dev

GetcStore ==
  /\ At("store") /\ main' = [main EXCEPT !.pc = "start", !.pos = 0]
  /\ dev' = [dev EXCEPT !.rx.pos = main.pos + 1]

RxStart ==
  /\ At("start")
  /\ IF MayReceive(dev) THEN dev' = Switched(dev) /\ main' = [main EXCEPT !.pc = "run", !.buf = dev.rx.sel]
     ELSE Goto("putchar") /\ UNCHANGED dev

RxRun ==
  /\ main' = [main EXCEPT !.pc = "putchar", !.buf = 0]
  /\ \/ At("run") /\ dev' = Receive(dev, main.buf)
     \/ At("begin") /\ dev' = [dev EXCEPT !.out = RunOut(@, main.buf)]

(* udi_cdc_is_tx_ready tests outside its critical section.                  *)
Dropped == At("putchar") /\ ~dev.stdio
TxReady ==
  /\ main.pc \in {"putchar", "ready"} /\ UNCHANGED dev
  /\ IF Dropped THEN main' = Listening
     ELSE Goto(IF Len(Current) # BufferSize THEN "write" ELSE "both")
TxBoth  == At("both") /\ Goto(IF dev.tx.both THEN "again" ELSE "switch") /\ UNCHANGED dev

AlwaysFree(d)  == TRUE  \* MUTANT: does not look whether a transfer is going on
OtherIsFree(d) == ~d.tx.ongoing
TxSwitch ==
  /\ At("switch") /\ Goto("again")
  /\ dev' = IF OtherIsFree(dev) THEN [dev EXCEPT !.tx.both = TRUE, !.tx.sel = Other(@)] ELSE dev

TxAgain ==
  /\ At("again") /\ UNCHANGED dev
  /\ IF Len(Current) = BufferSize /\ ~dev.running THEN main' = Listening
     ELSE Goto(IF Len(Current) # BufferSize THEN "write" ELSE "ready")

TxWrite ==
  /\ At("write") /\ main' = Listening
  /\ dev' = [dev EXCEPT !.tx.data[dev.tx.sel] = Append(@, main.ch)]

_read  == GetcRead \/ GetcStore \/ RxStart \/ RxRun
_write == TxReady \/ TxBoth \/ TxSwitch \/ TxAgain \/ TxWrite

Main == /\ _read \/ _write
        /\ UNCHANGED host

-----------------------------------------------------------------------------
Init ==
  /\ dev = [tx |-> NoTx, rx |-> [sel |-> 0, data |-> [b \in 0..1 |-> <<>>], pos |-> 0, ongoing |-> FALSE],
            running |-> FALSE, stdio |-> FALSE, configured |-> FALSE, frame |-> 0, in |-> Endpoint, out |-> Endpoint]
  /\ main = Listening
  /\ host = [session |-> 0, sent |-> 0, open |-> FALSE, got |-> 0, inOrder |-> TRUE, ended |-> 0,
             cut |-> FALSE, mayLose |-> FALSE, mayStop |-> FALSE, upsets |-> 0]

Next == \/ Requests \/ StartOfFrame \/ udd_ep_interrupt
        \/ (\E n \in 0..PacketSize : HostSends(n)) \/ HostReads \/ Main

(* Interrupts are taken, the hardware works and frames start; the host      *)
(* reads and ends its writes; main is never suspended for good.             *)
Fairness ==
  /\ WF_vars(StartOfFrame) /\ WF_vars(TransferIn) /\ WF_vars(OutReceived)
  /\ WF_vars(HostReads) /\ WF_vars(HostSends(0))

Spec == Init /\ [][Next]_vars /\ Fairness /\ WF_vars(Main)

-----------------------------------------------------------------------------
(* The host gets back its own bytes in order, none lost, doubled or mixed   *)
(* up, whatever interrupts come between the echo loop's steps; the buffers  *)
(* of an earlier session may come before them.  Excused: a session that     *)
(* began in the middle of a getc, one whose communication interface was set, *)
(* and one that lost a job to the clearing of a halt.                        *)
(* (udi_cdc_getc, udi_cdc_putc, udi_cdc_tx_send, udi_cdc_rx_start)           *)
EchoInOrder == host.inOrder \/ host.mayLose \/ host.cut

(* Main never fills or empties a buffer a transfer is using, and finds room *)
(* where it writes.  (udi_cdc_is_tx_ready, udi_cdc_tx_send)                 *)
BuffersApart ==
  /\ dev.in.busy => dev.in.job.buf # dev.tx.sel
  /\ dev.out.busy => dev.out.job.buf # dev.rx.sel
  /\ At("write") => Len(Current) < BufferSize

(* Assert(ptr_job->stall_requested) of udd_ep_interrupt: when the interrupt *)
(* of an empty bank comes, a stall is still requested.                      *)
StallIsRequested == \A e \in {dev.in, dev.out} : e.bankIrq /\ e.bank = <<>> => e.stallRequested

(* Again and again the host has everything it sent in this session back, in *)
(* a transfer that ended, unless an endpoint was halted, the bus reset or    *)
(* the CDC's communication interface closed.                                 *)
(* (udi_cdc_tx_send, udi_cdc_sof_notify, udi_cdc_rx_start)                   *)
Echoed == []<>(host.ended = host.sent \/ ~dev.stdio \/ host.mayLose \/ host.mayStop)
=============================================================================
