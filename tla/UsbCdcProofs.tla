---------------------------- MODULE UsbCdcProofs ----------------------------
(***************************************************************************)
(* Proofs about UsbCdc and CdcBlocks, for buffers, packets and blocks of    *)
(* any size and any number of sessions, bytes and upsets.                   *)
(***************************************************************************)
EXTENDS CdcBlocks, SequenceTheorems, FiniteSetTheorems, TLAPS

Bytes == Seq(Nat \X Nat)
Bufs  == 0..1

TxType  == [sel : Bufs, data : [Bufs -> Bytes], ongoing : BOOLEAN, both : BOOLEAN, sof : Nat]
RxType  == [sel : Bufs, data : [Bufs -> Bytes], pos : Nat, ongoing : BOOLEAN]
JobType == [buf : Bufs, data : Bytes, zlp : BOOLEAN, waiting : BOOLEAN]
Packet  == [bytes : Bytes, short : BOOLEAN]
EndpointType ==
  [enabled : BOOLEAN, halted : BOOLEAN, stallRequested : BOOLEAN, bankIrq : BOOLEAN,
   busy : BOOLEAN, job : JobType, bank : Seq(Packet)]
DevType ==
  [tx : TxType, rx : RxType, running : BOOLEAN, stdio : BOOLEAN, configured : BOOLEAN,
   frame : Nat, in : EndpointType, out : EndpointType]

PCs == {"getc", "store", "start", "run", "begin", "putchar", "ready", "write", "both", "again", "switch"}
MainType == [pc : PCs, ch : Nat \X Nat, pos : Nat, buf : Bufs]
HostType == [session : Nat, sent : Nat, open : BOOLEAN, got : Nat, inOrder : BOOLEAN, ended : Nat,
             cut : BOOLEAN, mayLose : BOOLEAN, mayStop : BOOLEAN, upsets : Nat]

TypeOK == dev \in DevType /\ main \in MainType /\ host \in HostType

(* A job sends the buffer that is not current, while a transfer is going on; *)
(* between two transfers the other buffer is empty, unless both are used,    *)
(* and the current one is never filled beyond its size.                     *)
Sending(d) ==
  /\ d.in.busy => d.in.enabled /\ d.tx.ongoing /\ d.in.job.buf = Other(d.tx.sel)
  /\ ~d.tx.ongoing /\ ~d.tx.both => d.tx.data[Other(d.tx.sel)] = <<>>
  /\ Len(d.tx.data[d.tx.sel]) <= BufferSize

Receiving(d) == d.out.busy => d.out.enabled /\ d.rx.ongoing /\ d.out.job.buf = Other(d.rx.sel)

(* Endpoints are open, and jobs run, only in a configuration. *)
Closed(d) == ~d.configured => ~d.in.enabled /\ ~d.out.enabled

HasRoom(d) == Len(d.tx.data[d.tx.sel]) < BufferSize

(* Main has found that a reception is to be started, and has not begun it. *)
Starting == main.pc \in {"run", "begin"}

(* What main's place says of the buffers. *)
Places ==
  /\ At("write") => HasRoom(dev)
  /\ At("switch") => ~dev.tx.both
  /\ Starting => dev.rx.ongoing /\ main.buf = Other(dev.rx.sel) /\ ~dev.out.busy
  /\ At("begin") => dev.out.enabled

IInv == TypeOK /\ Sending(dev) /\ Receiving(dev) /\ Closed(dev) /\ Places

-----------------------------------------------------------------------------
(* The operators on the device. *)

LEMMA OtherType == ASSUME NEW sel \in Bufs PROVE Other(sel) \in Bufs /\ Other(Other(sel)) = sel /\ Other(sel) # sel
  BY DEF Bufs, Other

LEMMA JobsType ==
  ASSUME NEW e \in EndpointType, NEW buf \in Bufs, NEW data \in Bytes, NEW short \in BOOLEAN
  PROVE  /\ RunIn(e, buf, data, short) \in EndpointType
         /\ RunIn(e, buf, data, short).job.buf = buf /\ RunIn(e, buf, data, short).enabled = e.enabled
         /\ RunOut(e, buf) \in EndpointType
         /\ RunOut(e, buf).job.buf = buf /\ RunOut(e, buf).enabled = e.enabled
<1>1. <<>> \in Bytes
  BY EmptySeq DEF Bytes
<1>. QED  BY <1>1 DEF RunIn, RunOut, Job, EndpointType, JobType

LEMMA EmptyBytes == <<>> \in Bytes /\ Len(<<>>) = 0
  BY EmptySeq DEF Bytes

LEMMA NoJobType == NoJob \in JobType /\ Endpoint \in EndpointType
<1>1. <<>> \in Seq(Packet)
  BY EmptySeq
<1>. QED  BY EmptyBytes, <1>1 DEF NoJob, JobType, Endpoint, EndpointType, Bufs

LEMMA EndpointsType ==
  ASSUME NEW e \in EndpointType
  PROVE  /\ udd_ep_alloc(e) \in EndpointType /\ udd_ep_alloc(e).busy = e.busy /\ udd_ep_alloc(e).job = e.job
         /\ udd_ep_free(e) \in EndpointType /\ ~udd_ep_free(e).busy /\ ~udd_ep_free(e).enabled
         /\ udd_ep_finish_job(e) \in EndpointType /\ ~udd_ep_finish_job(e).busy
         /\ udd_ep_finish_job(e).enabled = e.enabled
         /\ udd_ep_set_halt(e) \in EndpointType
         /\ udd_ep_set_halt(e).busy = e.busy /\ udd_ep_set_halt(e).job = e.job
         /\ udd_ep_set_halt(e).enabled = e.enabled
         /\ udd_ep_clear_halt(e) \in EndpointType
         /\ udd_ep_clear_halt(e).enabled = e.enabled
         /\ GivesUp(e) => ~udd_ep_clear_halt(e).busy
         /\ ~GivesUp(e) => udd_ep_clear_halt(e).busy = e.busy /\ udd_ep_clear_halt(e).job = e.job
<1>. USE NoJobType DEF EndpointType
<1>1. ~udd_ep_free(e).busy /\ ~udd_ep_free(e).enabled
  BY DEF udd_ep_free, Endpoint
<1>. QED
  BY <1>1 DEF udd_ep_alloc, udd_ep_free, udd_ep_finish_job, udd_ep_set_halt, udd_ep_clear_halt

LEMMA LeftType == ASSUME NEW bytes \in Bytes, NEW n \in Nat PROVE Left(bytes, n) \in Bytes
<1>. DEFINE b(k) == IF k <= Len(bytes) THEN bytes[k] ELSE <<0, 0>>
<1>1. ASSUME NEW k \in 1..n PROVE b(k) \in Nat \X Nat
  <2>1. CASE k <= Len(bytes)
    <3>1. bytes \in Seq(Nat \X Nat) /\ k \in 1..Len(bytes)
      BY <2>1 DEF Bytes
    <3>. QED  BY <2>1, <3>1, ElementOfSeq
  <2>2. CASE ~(k <= Len(bytes))
    BY <2>2
  <2>. QED  BY <2>1, <2>2
<1>2. Left(bytes, n) = [k \in 1..n |-> b(k)]
  BY DEF Left
<1>. HIDE DEF b
<1>. QED  BY <1>1, <1>2 DEF Bytes

LEMMA SentType ==
  ASSUME NEW e \in EndpointType
  PROVE  Sent(e) \in EndpointType /\ Sent(e).busy = e.busy /\ Sent(e).job = e.job /\ Sent(e).enabled = e.enabled
<1>. DEFINE data   == e.job.data
            packet == Packets(data, Len(data) % PacketSize # 0)
<1>1. data \in Bytes /\ e.bank \in Seq(Packet)
  BY DEF EndpointType, JobType
<1>2. packet \in Packet
  BY <1>1 DEF Packets, Packet
<1>3. Sent(e) = [e EXCEPT !.bank = Append(@, packet)]
  BY DEF Sent
<1>. HIDE DEF packet, data
<1>4. Append(e.bank, packet) \in Seq(Packet)
  BY <1>1, <1>2
<1>. QED  BY <1>3, <1>4 DEF EndpointType

(* A transfer begun leaves room in the buffer that is current then. *)
LEMMA SendKeeps ==
  ASSUME NEW d \in DevType, Sending(d), NEW e, e = udi_cdc_tx_send(d)
  PROVE  /\ e \in DevType /\ Sending(e)
         /\ e.rx = d.rx /\ e.out = d.out /\ e.tx.both = d.tx.both
         /\ e.configured = d.configured /\ e.in.enabled = d.in.enabled
         /\ HasRoom(d) => HasRoom(e)
<1>. DEFINE buf   == IF d.tx.both THEN Other(d.tx.sel) ELSE d.tx.sel
            short == Len(d.tx.data[buf]) # BufferSize
            tx    == [d.tx EXCEPT !.sel = Other(buf), !.ongoing = TRUE, !.sof = IF short THEN d.frame ELSE 0]
            in    == IF CanRun(d.in) THEN RunIn(d.in, buf, d.tx.data[buf], short) ELSE d.in
<1>1. CASE d.tx.ongoing \/ d.tx.sof = d.frame
  BY <1>1 DEF udi_cdc_tx_send
<1>2. CASE ~(d.tx.ongoing \/ d.tx.sof = d.frame)
  <2>1. e = [d EXCEPT !.tx = tx, !.in = in]
    BY <1>2 DEF udi_cdc_tx_send, DevType, TxType
  <2>2. d.tx \in TxType /\ d.in \in EndpointType /\ d.frame \in Nat
    BY DEF DevType
  <2>3. buf \in Bufs /\ Other(buf) \in Bufs /\ Other(Other(buf)) = buf /\ d.tx.sel \in Bufs
    BY <2>2, OtherType DEF TxType
  <2>4. short \in BOOLEAN /\ d.tx.data[buf] \in Bytes
    BY <2>2, <2>3 DEF TxType
  <2>5. tx \in TxType /\ tx.sel = Other(buf) /\ tx.ongoing /\ tx.both = d.tx.both /\ tx.data = d.tx.data
    BY <2>2, <2>3 DEF TxType
  <2>6. in \in EndpointType /\ (in.busy => in.enabled /\ in.job.buf = buf) /\ in.enabled = d.in.enabled
    <3>1. /\ RunIn(d.in, buf, d.tx.data[buf], short) \in EndpointType
          /\ RunIn(d.in, buf, d.tx.data[buf], short).job.buf = buf
          /\ RunIn(d.in, buf, d.tx.data[buf], short).enabled = d.in.enabled
      <4>. HIDE DEF buf, short
      <4>. QED  BY <2>2, <2>3, <2>4, JobsType
    <3>2. ~d.in.busy
      BY <1>2 DEF Sending
    <3>. QED  BY <3>1, <3>2, <2>2 DEF CanRun
  <2>7. e.configured = d.configured /\ e \in DevType /\ e.rx = d.rx /\ e.out = d.out /\ e.tx = tx /\ e.in = in
    BY <2>1, <2>5, <2>6 DEF DevType
  <2>8. Len(e.tx.data[e.tx.sel]) <= BufferSize /\ (HasRoom(d) => HasRoom(e))
    <3>1. CASE d.tx.both
      BY <3>1, <2>3, <2>5, <2>7, OtherType DEF HasRoom, Sending
    <3>2. CASE ~d.tx.both
      <4>1. d.tx.data[Other(d.tx.sel)] = <<>>
        BY <1>2, <3>2 DEF Sending
      <4>2. 0 < BufferSize
        BY UsbCdcAssumption
      <4>3. e.tx.data[e.tx.sel] = <<>>
        BY <4>1, <3>2, <2>5, <2>7
      <4>. QED  BY <4>2, <4>3, EmptyBytes, UsbCdcAssumption DEF HasRoom
    <3>. QED  BY <3>1, <3>2
  <2>9. Sending(e)
    <3>. HIDE DEF tx, in, buf, short
    <3>. QED  BY <2>3, <2>5, <2>6, <2>7, <2>8 DEF Sending
  <2>. QED  BY <2>5, <2>6, <2>7, <2>8, <2>9
<1>. QED  BY <1>1, <1>2

LEMMA SentKeeps ==
  ASSUME NEW d \in DevType, d.in.busy = FALSE, Len(d.tx.data[d.tx.sel]) <= BufferSize,
         NEW e, e = udi_cdc_data_sent(d)
  PROVE  /\ e \in DevType /\ Sending(e)
         /\ e.rx = d.rx /\ e.out = d.out /\ ~e.tx.both
         /\ e.configured = d.configured /\ e.in.enabled = d.in.enabled
         /\ HasRoom(d) => HasRoom(e)
<1>. DEFINE tx == [d.tx EXCEPT !.data[Other(d.tx.sel)] = <<>>, !.both = FALSE, !.ongoing = FALSE]
            c  == [d EXCEPT !.tx = tx]
<1>1. d.tx \in TxType /\ d.tx.sel \in Bufs /\ Other(d.tx.sel) \in Bufs /\ Other(d.tx.sel) # d.tx.sel
  BY OtherType DEF DevType, TxType
<1>2. /\ tx \in TxType /\ tx.sel = d.tx.sel /\ ~tx.both /\ ~tx.ongoing
      /\ tx.data[Other(tx.sel)] = <<>> /\ tx.data[tx.sel] = d.tx.data[d.tx.sel]
  BY <1>1, EmptyBytes DEF TxType
<1>3. c \in DevType /\ c.tx = tx /\ c.in = d.in /\ c.rx = d.rx /\ c.out = d.out /\ c.configured = d.configured
  BY <1>2 DEF DevType
<1>4. Sending(c) /\ (HasRoom(d) => HasRoom(c)) /\ ~c.tx.both
  BY <1>2, <1>3 DEF Sending, HasRoom
<1>5. e = udi_cdc_tx_send(c)
  BY DEF udi_cdc_data_sent, DevType, TxType
<1>. HIDE DEF c, tx
<1>. QED  BY <1>3, <1>4, <1>5, SendKeeps

LEMMA ReceiveKeeps ==
  ASSUME NEW d \in DevType, NEW buf \in Bufs, d.rx.ongoing, buf = Other(d.rx.sel), Receiving(d),
         NEW e, e = Receive(d, buf)
  PROVE  /\ e \in DevType /\ Receiving(e) /\ e.tx = d.tx /\ e.in = d.in /\ e.rx = d.rx
         /\ e.configured = d.configured /\ e.out.enabled = d.out.enabled
<1>1. /\ RunOut(d.out, buf) \in EndpointType /\ RunOut(d.out, buf).job.buf = buf
      /\ RunOut(d.out, buf).enabled = d.out.enabled
  <2>1. d.out \in EndpointType /\ <<>> \in Bytes /\ TRUE \in BOOLEAN
    BY EmptyBytes DEF DevType
  <2>. QED  BY <2>1, JobsType
<1>. DEFINE out == IF CanRun(d.out) THEN RunOut(d.out, buf) ELSE d.out
<1>2. out \in EndpointType /\ (out.busy => out.job.buf = buf /\ out.enabled) /\ out.enabled = d.out.enabled
  BY <1>1 DEF DevType, Receiving, CanRun
<1>3. e = [d EXCEPT !.out = out]
  BY DEF Receive
<1>4. /\ e \in DevType /\ e.out = out /\ e.tx = d.tx /\ e.in = d.in /\ e.rx = d.rx
      /\ e.configured = d.configured
  BY <1>2, <1>3 DEF DevType
<1>. QED  BY <1>2, <1>4 DEF Receiving

LEMMA SwitchedKeeps ==
  ASSUME NEW d \in DevType, ~d.out.busy, NEW e, e = Switched(d)
  PROVE  /\ e \in DevType /\ e.tx = d.tx /\ e.in = d.in /\ e.out = d.out /\ Receiving(e)
         /\ e.rx.ongoing /\ d.rx.sel = Other(e.rx.sel) /\ e.configured = d.configured
  BY OtherType DEF Switched, DevType, RxType, Receiving

LEMMA StartKeeps ==
  ASSUME NEW d \in DevType, Receiving(d), NEW e, e = udi_cdc_rx_start(d)
  PROVE  /\ e \in DevType /\ Receiving(e) /\ e.tx = d.tx /\ e.in = d.in
         /\ e.configured = d.configured /\ e.out.enabled = d.out.enabled
<1>1. CASE MayReceive(d)
  <2>1. ~d.out.busy
    BY <1>1 DEF MayReceive, Receiving
  <2>. DEFINE c == Switched(d)
  <2>2. /\ c \in DevType /\ c.tx = d.tx /\ c.in = d.in /\ Receiving(c)
        /\ c.rx.ongoing /\ d.rx.sel = Other(c.rx.sel) /\ c.configured = d.configured /\ c.out = d.out
    <3>. HIDE DEF c
    <3>1. c = Switched(d)
      BY DEF c
    <3>. QED  BY <2>1, <3>1, SwitchedKeeps
  <2>3. e = Receive(c, d.rx.sel) /\ d.rx.sel \in Bufs
    BY <1>1 DEF udi_cdc_rx_start, DevType, RxType
  <2>. HIDE DEF c
  <2>. QED  BY <2>2, <2>3, ReceiveKeeps
<1>2. CASE ~MayReceive(d)
  BY <1>2 DEF udi_cdc_rx_start
<1>. QED  BY <1>1, <1>2

LEMMA ReceivedKeeps ==
  ASSUME NEW d \in DevType, NEW data \in Bytes, d.out.busy = FALSE, NEW e, e = udi_cdc_data_recevied(d, data)
  PROVE  /\ e \in DevType /\ Receiving(e) /\ e.tx = d.tx /\ e.in = d.in
         /\ e.configured = d.configured /\ e.out.enabled = d.out.enabled
<1>. DEFINE rx == [d.rx EXCEPT !.data[Other(d.rx.sel)] = data, !.ongoing = FALSE]
            c  == [d EXCEPT !.rx = rx]
<1>1. rx \in RxType
  BY OtherType DEF DevType, RxType
<1>2. c \in DevType /\ c.tx = d.tx /\ c.in = d.in /\ c.out = d.out /\ c.configured = d.configured
  BY <1>1 DEF DevType
<1>3. Receiving(c)
  BY <1>2 DEF Receiving
<1>4. e = udi_cdc_rx_start(c)
  BY DEF udi_cdc_data_recevied, DevType, RxType
<1>. HIDE DEF c, rx
<1>. QED  BY <1>2, <1>3, <1>4, StartKeeps

LEMMA EnableKeeps ==
  ASSUME NEW d \in DevType, d.in.busy = FALSE, d.out.busy = FALSE, NEW e, e = udi_cdc_data_enable(d)
  PROVE  /\ e \in DevType /\ Sending(e) /\ Receiving(e) /\ ~e.tx.both /\ HasRoom(e)
         /\ e.configured = d.configured
<1>. DEFINE c == [d EXCEPT !.tx = NoTx]
            t == udi_cdc_tx_send(c)
            u == [t EXCEPT !.rx.ongoing = FALSE, !.rx.sel = 0, !.rx.data[0] = <<>>, !.rx.pos = 0]
            r == udi_cdc_rx_start(u)
<1>1. /\ NoTx \in TxType /\ ~NoTx.both /\ NoTx.data[Other(NoTx.sel)] = <<>>
      /\ NoTx.data[NoTx.sel] = <<>>
  BY EmptyBytes DEF NoTx, TxType, Bufs, Other
<1>2. c \in DevType /\ c.tx = NoTx /\ c.in = d.in /\ c.out = d.out /\ c.configured = d.configured
  BY <1>1 DEF DevType
<1>3. Sending(c) /\ HasRoom(c)
  BY <1>1, <1>2, EmptyBytes, UsbCdcAssumption DEF Sending, HasRoom
<1>4. t \in DevType /\ Sending(t) /\ t.out = d.out /\ ~t.tx.both /\ HasRoom(t) /\ t.configured = d.configured
  <2>1. t = udi_cdc_tx_send(c)
    OBVIOUS
  <2>. HIDE DEF t, c
  <2>. QED  BY <1>1, <1>2, <1>3, <2>1, SendKeeps
<1>5. u \in DevType /\ u.tx = t.tx /\ u.in = t.in /\ u.out = t.out /\ u.configured = t.configured
  <2>. DEFINE rx == [t.rx EXCEPT !.ongoing = FALSE, !.sel = 0, !.data[0] = <<>>, !.pos = 0]
  <2>. HIDE DEF t
  <2>1. 0 \in Bufs
    BY DEF Bufs
  <2>2. rx \in RxType
    BY <1>4, <2>1, EmptyBytes DEF DevType, RxType
  <2>3. u = [t EXCEPT !.rx = rx]
    BY <1>4 DEF DevType, RxType
  <2>. QED  BY <1>4, <2>2, <2>3 DEF DevType
<1>6. r \in DevType /\ Receiving(r) /\ r.tx = t.tx /\ r.in = t.in /\ r.configured = u.configured
  <2>1. r = udi_cdc_rx_start(u)
    OBVIOUS
  <2>2. Receiving(u)
    <3>. HIDE DEF u, t
    <3>. QED  BY <1>4, <1>5 DEF Receiving
  <2>. HIDE DEF r, u, t
  <2>. QED  BY <1>5, <2>1, <2>2, StartKeeps
<1>7. e = [r EXCEPT !.running = r.out.busy]
  BY DEF udi_cdc_data_enable
<1>. HIDE DEF r, t, u, c
<1>8. /\ e \in DevType /\ e.tx = r.tx /\ e.in = r.in /\ e.rx = r.rx /\ e.out = r.out
      /\ e.configured = r.configured
  BY <1>6, <1>7 DEF DevType, EndpointType
<1>. QED  BY <1>4, <1>5, <1>6, <1>8 DEF Sending, Receiving, HasRoom

(* What the requests and the other interrupts keep of the device. *)
Kept(d, e) ==
  /\ e \in DevType /\ Sending(e) /\ Receiving(e) /\ Closed(e)
  /\ HasRoom(d) => HasRoom(e)
  /\ ~d.tx.both => ~e.tx.both
  /\ ~d.out.busy => ~e.out.busy

Whole(d) == d \in DevType /\ Sending(d) /\ Receiving(d) /\ Closed(d)

LEMMA DisableKeeps ==
  ASSUME NEW d, Whole(d), NEW i \in 0..1, NEW e, e = udc_iface_disable(d, i)
  PROVE  /\ Kept(d, e) /\ e.rx = d.rx /\ e.tx = d.tx /\ e.configured = d.configured
         /\ i = 1 => ~e.in.busy /\ ~e.out.busy /\ ~e.in.enabled /\ ~e.out.enabled
<1>1. d.in \in EndpointType /\ d.out \in EndpointType
  BY DEF Whole, DevType
<1>2. CASE i = 0
  <2>1. /\ e \in DevType /\ e.rx = d.rx /\ e.tx = d.tx /\ e.in = d.in /\ e.out = d.out
        /\ e.configured = d.configured
    BY <1>2 DEF udc_iface_disable, udi_cdc_comm_disable, stdio_usb_disable, Whole, DevType
  <2>. QED  BY <1>2, <2>1 DEF Kept, Whole, Sending, Receiving, Closed, HasRoom
<1>3. CASE i = 1
  <2>1. /\ e \in DevType /\ e.rx = d.rx /\ e.tx = d.tx /\ e.configured = d.configured
        /\ e.in = udd_ep_free(d.in) /\ e.out = udd_ep_free(d.out)
    <3>1. e = [d EXCEPT !.in = udd_ep_free(@), !.out = udd_ep_free(@)]
      BY <1>3 DEF udc_iface_disable
    <3>2. udd_ep_free(d.in) \in EndpointType /\ udd_ep_free(d.out) \in EndpointType
      BY <1>1, EndpointsType
    <3>. QED  BY <3>1, <3>2 DEF Whole, DevType
  <2>2. ~e.in.busy /\ ~e.out.busy /\ ~e.in.enabled /\ ~e.out.enabled
    BY <1>1, <2>1, EndpointsType
  <2>. QED  BY <2>1, <2>2 DEF Kept, Whole, Sending, Receiving, Closed, HasRoom
<1>. QED  BY <1>2, <1>3

LEMMA ResetKeeps ==
  ASSUME NEW d, Whole(d), NEW e, e = udc_reset(d)
  PROVE  Kept(d, e) /\ e.rx = d.rx /\ e.tx = d.tx /\ ~e.in.busy /\ ~e.out.busy /\ ~e.in.enabled /\ ~e.out.enabled
<1>. DEFINE a == udc_iface_disable(d, 0)
            b == udc_iface_disable(a, 1)
            c == IF d.configured THEN b ELSE d
<1>1. /\ Kept(d, c) /\ c.rx = d.rx /\ c.tx = d.tx
      /\ ~c.in.busy /\ ~c.out.busy /\ ~c.in.enabled /\ ~c.out.enabled
  <2>1. CASE d.configured
    <3>1. Kept(d, a) /\ a.rx = d.rx /\ a.tx = d.tx
      <4>1. a = udc_iface_disable(d, 0) /\ 0 \in 0..1
        OBVIOUS
      <4>. HIDE DEF a
      <4>. QED  BY <4>1, DisableKeeps
    <3>2. Whole(a) /\ b = udc_iface_disable(a, 1) /\ 1 \in 0..1
      <4>. HIDE DEF a
      <4>. QED  BY <3>1 DEF Kept, Whole
    <3>. HIDE DEF a, b
    <3>3. /\ Kept(a, b) /\ b.rx = a.rx /\ b.tx = a.tx
          /\ ~b.in.busy /\ ~b.out.busy /\ ~b.in.enabled /\ ~b.out.enabled
      BY <3>2, DisableKeeps
    <3>. QED  BY <2>1, <3>1, <3>3 DEF Kept
  <2>2. CASE ~d.configured
    BY <2>2 DEF Whole, Kept, Closed, Sending, Receiving
  <2>. QED  BY <2>1, <2>2
<1>2. e = [c EXCEPT !.configured = FALSE]
  BY DEF udc_reset
<1>. HIDE DEF c
<1>3. e \in DevType /\ e.rx = c.rx /\ e.tx = c.tx /\ e.in = c.in /\ e.out = c.out
  BY <1>1, <1>2 DEF DevType, Kept
<1>. QED  BY <1>1, <1>3 DEF Kept, Sending, Receiving, Closed, HasRoom

(* The interface of the data, its endpoints free; a step that enables it    *)
(* finds main where it does not start a reception.                          *)
LEMMA EnableInterface ==
  ASSUME NEW d, Whole(d), d.configured, ~d.in.busy, ~d.out.busy, NEW e, e = udc_iface_enable(d, 1)
  PROVE  Whole(e) /\ ~e.tx.both /\ HasRoom(e)
<1>. DEFINE c == [d EXCEPT !.in = udd_ep_alloc(@), !.out = udd_ep_alloc(@)]
<1>1. d \in DevType /\ d.in \in EndpointType /\ d.out \in EndpointType /\ d.in.busy = FALSE /\ d.out.busy = FALSE
  BY DEF Whole, DevType, EndpointType
<1>2. /\ udd_ep_alloc(d.in) \in EndpointType /\ udd_ep_alloc(d.out) \in EndpointType
      /\ udd_ep_alloc(d.in).busy = FALSE /\ udd_ep_alloc(d.out).busy = FALSE
  BY <1>1, EndpointsType
<1>3. c \in DevType /\ c.in.busy = FALSE /\ c.out.busy = FALSE /\ c.configured = d.configured
  BY <1>1, <1>2 DEF DevType
<1>4. e = udi_cdc_data_enable(c)
  BY DEF udc_iface_enable
<1>. HIDE DEF c
<1>. QED  BY <1>3, <1>4, EnableKeeps DEF Whole, Closed

(* A step that is not main's, and one that only changes the flags of the    *)
(* endpoints, gives up their jobs, or halts one main was about to use.      *)
LEMMA StepKeeps ==
  ASSUME IInv, main' = main, Whole(dev'), host' \in HostType, HasRoom(dev) => HasRoom(dev'),
         ~dev.tx.both => ~dev'.tx.both, ~dev.out.busy => dev'.rx = dev.rx /\ ~dev'.out.busy,
         dev'.out.enabled = dev.out.enabled
  PROVE  IInv'
  BY DEF IInv, TypeOK, Whole, Places, Starting, At, Sending, Receiving, Closed

LEMMA FlagsKeep ==
  ASSUME IInv, main' = main \/ Overtaken(dev.out), host' \in HostType,
         NEW in \in EndpointType, NEW out \in EndpointType, dev' = [dev EXCEPT !.in = in, !.out = out],
         in.busy => dev.in.busy /\ in.job = dev.in.job, in.enabled = dev.in.enabled,
         out.busy => dev.out.busy /\ out.job = dev.out.job, out.enabled = dev.out.enabled
  PROVE  IInv'
<1>1. Whole(dev) /\ main \in MainType /\ dev \in DevType
  BY DEF IInv, TypeOK, Whole
<1>2. /\ dev' \in DevType /\ dev'.tx = dev.tx /\ dev'.rx = dev.rx /\ dev'.in = in /\ dev'.out = out
      /\ dev'.configured = dev.configured
  BY <1>1 DEF DevType
<1>3. Whole(dev') /\ HasRoom(dev') = HasRoom(dev)
  BY <1>1, <1>2 DEF Whole, Sending, Receiving, Closed, HasRoom
<1>4. CASE main' = main
  <2>1. ~dev.out.busy => ~dev'.out.busy
    BY <1>2
  <2>. QED  BY <1>2, <1>3, <1>4, <2>1, StepKeeps
<1>5. CASE Overtaken(dev.out)
  <2>1. main' = [main EXCEPT !.pc = "begin"] /\ At("run") /\ dev.out.enabled
    BY <1>5 DEF Overtaken, CanRun, Goto
  <2>2. main' \in MainType /\ main'.pc = "begin" /\ main'.buf = main.buf
    BY <1>1, <2>1 DEF MainType, PCs
  <2>3. dev.rx.ongoing /\ main.buf = Other(dev.rx.sel) /\ ~dev.out.busy
    BY <2>1 DEF IInv, Places, Starting, At
  <2>4. Places'
    BY <1>2, <2>1, <2>2, <2>3 DEF Places, Starting, At
  <2>. QED  BY <1>2, <1>3, <2>2, <2>4 DEF IInv, TypeOK, Whole
<1>. QED  BY <1>4, <1>5

(* The end of a transfer, or what is taken for it. *)
LEMMA SentKeepsAll ==
  ASSUME IInv, main' = main, host' \in HostType, NEW in \in EndpointType, ~in.busy, in.enabled = dev.in.enabled,
         dev' = udi_cdc_data_sent([dev EXCEPT !.in = in])
  PROVE  IInv'
<1>. DEFINE c == [dev EXCEPT !.in = in]
<1>1. Whole(dev) /\ dev \in DevType
  BY DEF IInv, TypeOK, Whole
<1>2. /\ c \in DevType /\ c.in.busy = FALSE /\ c.in.enabled = dev.in.enabled /\ c.tx = dev.tx /\ c.rx = dev.rx
      /\ c.out = dev.out /\ c.configured = dev.configured
  BY <1>1 DEF DevType, EndpointType
<1>. HIDE DEF c
<1>3. /\ dev' \in DevType /\ Sending(dev') /\ dev'.rx = dev.rx /\ dev'.out = dev.out /\ ~dev'.tx.both
      /\ dev'.configured = dev.configured /\ dev'.in.enabled = dev.in.enabled
      /\ HasRoom(c) => HasRoom(dev')
  <2>1. dev' = udi_cdc_data_sent(c) /\ Len(c.tx.data[c.tx.sel]) <= BufferSize
    BY <1>1, <1>2 DEF c, Whole, Sending
  <2>. QED  BY <1>2, <2>1, SentKeeps
<1>4. Whole(dev') /\ (HasRoom(dev) => HasRoom(dev'))
  BY <1>1, <1>2, <1>3 DEF Whole, Receiving, Closed, HasRoom
<1>. QED  BY <1>3, <1>4, StepKeeps

LEMMA ReceivedKeepsAll ==
  ASSUME IInv, main' = main, host' \in HostType, NEW out \in EndpointType, ~out.busy, dev.out.busy,
         out.enabled = dev.out.enabled, NEW data \in Bytes,
         dev' = udi_cdc_data_recevied([dev EXCEPT !.out = out], data)
  PROVE  IInv'
<1>. DEFINE c == [dev EXCEPT !.out = out]
<1>1. Whole(dev) /\ dev \in DevType
  BY DEF IInv, TypeOK, Whole
<1>2. /\ c \in DevType /\ c.out.busy = FALSE /\ c.out.enabled = dev.out.enabled /\ c.tx = dev.tx /\ c.in = dev.in
      /\ c.configured = dev.configured
  BY <1>1 DEF DevType, EndpointType
<1>3. dev' = udi_cdc_data_recevied(c, data)
  OBVIOUS
<1>. HIDE DEF c
<1>4. /\ dev' \in DevType /\ Receiving(dev') /\ dev'.tx = dev.tx /\ dev'.in = dev.in
      /\ dev'.configured = dev.configured /\ dev'.out.enabled = dev.out.enabled
  BY <1>2, <1>3, ReceivedKeeps
<1>5. Whole(dev') /\ HasRoom(dev') = HasRoom(dev)
  BY <1>1, <1>4 DEF Whole, Sending, Closed, HasRoom
<1>. QED  BY <1>4, <1>5, StepKeeps

LEMMA ClearHaltKeeps == IInv /\ ClearHalt => IInv'
<1>. SUFFICES ASSUME IInv, ClearHalt PROVE IInv'
  OBVIOUS
<1>1. /\ dev.in \in EndpointType /\ dev.out \in EndpointType /\ dev \in DevType /\ host \in HostType
      /\ main' = main
  BY DEF IInv, TypeOK, DevType, ClearHalt
<1>2. host' \in HostType
  <2>1. PICK c \in BOOLEAN : host' = [host EXCEPT !.cut = c]
    <3>1. (host.cut \/ GivesUp(dev.in)) \in BOOLEAN /\ (host.cut \/ GivesUp(dev.out)) \in BOOLEAN
      BY <1>1 DEF HostType, GivesUp, Stalls, EndpointType
    <3>. QED  BY <3>1 DEF ClearHalt
  <2>. QED  BY <1>1, <2>1 DEF HostType
<1>3. CASE ClearHaltIn
  <2>. DEFINE in == udd_ep_clear_halt(dev.in)
              d  == [dev EXCEPT !.in = in]
  <2>1. in \in EndpointType /\ in.enabled = dev.in.enabled
    BY <1>1, EndpointsType
  <2>2. CASE GivesUp(dev.in)
    <3>1. PICK bank \in Fifo(dev.in) :
            \/ dev' = [d EXCEPT !.in.bank = bank]
            \/ dev' = udi_cdc_data_sent([d EXCEPT !.in.bank = bank])
      BY <1>3, <2>2 DEF ClearHaltIn
    <3>2. bank \in Seq(Packet)
      BY <1>1, SentType DEF Fifo, EndpointType
    <3>. DEFINE left == [in EXCEPT !.bank = bank]
    <3>3. left \in EndpointType /\ ~left.busy /\ left.enabled = dev.in.enabled
      <4>1. ~in.busy
        BY <1>1, <2>2, EndpointsType
      <4>. HIDE DEF in
      <4>. QED  BY <2>1, <3>2, <4>1 DEF EndpointType
    <3>4. [d EXCEPT !.in.bank = bank] = [dev EXCEPT !.in = left]
      <4>. HIDE DEF in
      <4>. QED  BY <1>1 DEF DevType
    <3>5. [dev EXCEPT !.in = left] = [dev EXCEPT !.in = left, !.out = dev.out]
      BY <1>1 DEF DevType
    <3>. HIDE DEF left, d, in
    <3>6. CASE dev' = [d EXCEPT !.in.bank = bank]
      BY <1>1, <1>2, <3>3, <3>4, <3>5, <3>6, FlagsKeep
    <3>7. CASE dev' = udi_cdc_data_sent([d EXCEPT !.in.bank = bank])
      BY <1>1, <1>2, <3>3, <3>4, <3>7, SentKeepsAll
    <3>. QED  BY <3>1, <3>6, <3>7
  <2>3. CASE ~GivesUp(dev.in)
    <3>1. in.busy = dev.in.busy /\ in.job = dev.in.job
      BY <1>1, <2>3, EndpointsType
    <3>2. dev' = [dev EXCEPT !.in = in, !.out = dev.out]
      <4>1. dev' = d
        BY <1>3, <2>3 DEF ClearHaltIn
      <4>. HIDE DEF in
      <4>. QED  BY <1>1, <4>1 DEF DevType
    <3>. HIDE DEF in
    <3>. QED  BY <1>1, <1>2, <2>1, <3>1, <3>2, FlagsKeep
  <2>. QED  BY <2>2, <2>3
<1>4. CASE ClearHaltOut
  <2>. DEFINE out == udd_ep_clear_halt(dev.out)
              d   == [dev EXCEPT !.out = out]
  <2>1. out \in EndpointType /\ out.enabled = dev.out.enabled
    BY <1>1, EndpointsType
  <2>2. CASE dev' = d
    <3>1. out.busy => dev.out.busy /\ out.job = dev.out.job
      BY <1>1, EndpointsType DEF EndpointType
    <3>2. dev' = [dev EXCEPT !.in = dev.in, !.out = out]
      <4>. HIDE DEF out
      <4>. QED  BY <1>1, <2>2 DEF DevType
    <3>. HIDE DEF out
    <3>. QED  BY <1>1, <1>2, <2>1, <3>1, <3>2, FlagsKeep
  <2>3. CASE dev' # d
    <3>1. GivesUp(dev.out) /\ \E n \in 0..BufferSize : dev' = udi_cdc_data_recevied(d, Left(dev.out.job.data, n))
      BY <1>4, <2>3 DEF ClearHaltOut
    <3>2. PICK n \in 0..BufferSize : dev' = udi_cdc_data_recevied(d, Left(dev.out.job.data, n))
      BY <3>1
    <3>3. ~out.busy /\ dev.out.busy
      BY <1>1, <3>1, EndpointsType DEF GivesUp
    <3>4. Left(dev.out.job.data, n) \in Bytes
      BY <1>1, UsbCdcAssumption, LeftType DEF EndpointType, JobType
    <3>. HIDE DEF out
    <3>. QED  BY <1>1, <1>2, <2>1, <3>2, <3>3, <3>4, ReceivedKeepsAll
  <2>. QED  BY <2>2, <2>3
<1>. QED  BY <1>3, <1>4 DEF ClearHalt

LEMMA RequestsKeep == IInv /\ Requests => IInv'
<1>. SUFFICES ASSUME IInv, Requests PROVE IInv'
  OBVIOUS
<1>1. Whole(dev) /\ main \in MainType /\ host \in HostType
  BY DEF IInv, TypeOK, Whole
<1>3. ASSUME NewSession PROVE host' \in HostType
  <2>. DEFINE lose == main.pc = "store"
              stop == dev.in.stallRequested \/ dev.out.stallRequested
  <2>1. lose \in BOOLEAN /\ stop \in BOOLEAN
    OBVIOUS
  <2>. DEFINE next  == host.session + 1
              fresh == [host EXCEPT !.session = next, !.sent = 0, !.open = FALSE, !.got = 0, !.inOrder = TRUE,
                                    !.ended = 0]
  <2>2. next \in Nat
    BY <1>1 DEF HostType
  <2>3. fresh \in HostType
    <3>. HIDE DEF next
    <3>. QED  BY <1>1, <2>2 DEF HostType
  <2>4. \E a, b, c \in BOOLEAN : host' = [fresh EXCEPT !.cut = c, !.mayLose = a, !.mayStop = b]
    BY <1>1, <1>3, <2>1 DEF NewSession, HostType
  <2>. HIDE DEF fresh
  <2>. QED  BY <2>3, <2>4 DEF HostType
<1>4. ASSUME NEW h \in HostType, Upset(h) PROVE host' \in HostType
  BY <1>4 DEF Upset, HostType
<1>5. ASSUME main' = main, Kept(dev, dev'), dev'.rx = dev.rx, At("begin") => dev'.out.enabled PROVE Places'
  BY <1>1, <1>5 DEF IInv, Places, Starting, Kept, At
<1>6. ASSUME main' = main, Whole(dev'), ~dev'.tx.both, HasRoom(dev'), MayOpen PROVE Places'
  BY <1>6 DEF Places, Starting, MayOpen, At
<1>7. ASSUME main' = main, Whole(dev'), host' \in HostType, Places' PROVE IInv'
  BY <1>1, <1>7 DEF IInv, TypeOK, Whole, Sending, Receiving, Closed
<1>11. CASE SetConfiguration
  <2>. DEFINE a == udc_reset(dev)
              b == [a EXCEPT !.configured = TRUE]
              c == udc_iface_enable(b, 0)
  <2>1. Kept(dev, a) /\ ~a.in.busy /\ ~a.out.busy
    <3>1. a = udc_reset(dev)
      OBVIOUS
    <3>. HIDE DEF a
    <3>. QED  BY <3>1, <1>1, ResetKeeps
  <2>2. Whole(b) /\ ~b.in.busy /\ ~b.out.busy /\ b.configured
    <3>. HIDE DEF a
    <3>. QED  BY <2>1 DEF Kept, Whole, DevType, Sending, Receiving, Closed
  <2>3. Whole(c) /\ ~c.in.busy /\ ~c.out.busy /\ c.configured
    <3>1. c = [b EXCEPT !.stdio = TRUE]
      BY DEF udc_iface_enable, stdio_usb_enable
    <3>. HIDE DEF b, c
    <3>. QED  BY <2>2, <3>1 DEF Whole, DevType, Sending, Receiving, Closed
  <2>4. dev' = udc_iface_enable(c, 1) /\ MayOpen
    BY <1>11 DEF SetConfiguration
  <2>. HIDE DEF c
  <2>. QED  BY <1>3, <1>6, <1>7, <1>11, <2>3, <2>4, EnableInterface DEF SetConfiguration
<1>12. CASE SetDataInterface
  <2>. DEFINE c == udc_iface_disable(dev, 1)
  <2>1. c = udc_iface_disable(dev, 1) /\ 1 \in 0..1 /\ dev.configured
    BY <1>12 DEF SetDataInterface
  <2>2. dev' = udc_iface_enable(c, 1) /\ MayOpen
    BY <1>12 DEF SetDataInterface
  <2>. HIDE DEF c
  <2>3. Whole(c) /\ ~c.in.busy /\ ~c.out.busy /\ c.configured
    BY <1>1, <2>1, DisableKeeps DEF Kept, Whole
  <2>. QED  BY <1>3, <1>6, <1>7, <1>12, <2>2, <2>3, EnableInterface DEF SetDataInterface
<1>13. CASE SetCommInterface
  <2>. DEFINE c == udc_iface_disable(dev, 0)
  <2>1. c = udc_iface_disable(dev, 0) /\ 0 \in 0..1
    OBVIOUS
  <2>2. dev' = [c EXCEPT !.stdio = TRUE]
    BY <1>13 DEF SetCommInterface, udc_iface_enable, stdio_usb_enable
  <2>6. main' = main
    BY <1>13 DEF SetCommInterface
  <2>7. c \in DevType => dev'.out = dev.out
    BY <2>2 DEF DevType, udc_iface_disable, udi_cdc_comm_disable, stdio_usb_disable
  <2>. HIDE DEF c
  <2>3. Kept(dev, c) /\ c.rx = dev.rx
    BY <1>1, <2>1, DisableKeeps
  <2>4. Kept(dev, dev') /\ dev'.rx = dev.rx
    BY <2>2, <2>3 DEF Kept, DevType, Sending, Receiving, Closed, HasRoom
  <2>5. host' \in HostType
    <3>1. [host EXCEPT !.mayLose = TRUE] \in HostType
      BY <1>1 DEF HostType
    <3>. QED  BY <1>4, <1>13, <3>1 DEF SetCommInterface
  <2>8. At("begin") => dev'.out.enabled
    BY <2>3, <2>7 DEF IInv, Places, Kept
  <2>. QED  BY <1>5, <1>7, <2>4, <2>5, <2>6, <2>8 DEF Kept, Whole
<1>14. CASE BusReset
  <2>. DEFINE c == [dev EXCEPT !.in = udd_ep_finish_job(@), !.out = udd_ep_finish_job(@)]
  <2>1. Kept(dev, c) /\ c.rx = dev.rx
    <3>1. dev.in \in EndpointType /\ dev.out \in EndpointType /\ dev \in DevType
      BY <1>1 DEF Whole, DevType
    <3>2. /\ udd_ep_finish_job(dev.in) \in EndpointType /\ ~udd_ep_finish_job(dev.in).busy
          /\ udd_ep_finish_job(dev.in).enabled = dev.in.enabled
          /\ udd_ep_finish_job(dev.out) \in EndpointType /\ ~udd_ep_finish_job(dev.out).busy
          /\ udd_ep_finish_job(dev.out).enabled = dev.out.enabled
      BY <3>1, EndpointsType
    <3>3. /\ c \in DevType /\ c.rx = dev.rx /\ c.tx = dev.tx /\ c.configured = dev.configured
          /\ c.in = udd_ep_finish_job(dev.in) /\ c.out = udd_ep_finish_job(dev.out)
      BY <3>1, <3>2 DEF DevType
    <3>. QED  BY <1>1, <3>2, <3>3 DEF Kept, Whole, Sending, Receiving, Closed, HasRoom
  <2>2. dev' = udc_reset(c)
    BY <1>14 DEF BusReset
  <2>. HIDE DEF c
  <2>3. Kept(c, dev') /\ dev'.rx = c.rx
    BY <2>1, <2>2, ResetKeeps DEF Kept, Whole
  <2>4. Kept(dev, dev') /\ dev'.rx = dev.rx
    BY <2>1, <2>3 DEF Kept
  <2>5. host' \in HostType
    <3>1. [host EXCEPT !.mayStop = TRUE] \in HostType
      BY <1>1 DEF HostType
    <3>. QED  BY <1>4, <1>14, <3>1 DEF BusReset
  <2>6. main' = main /\ ~At("begin")
    BY <1>14 DEF BusReset
  <2>. QED  BY <1>5, <1>7, <2>4, <2>5, <2>6 DEF Kept, Whole
<1>15. CASE SetHalt
  <2>1. dev.in \in EndpointType /\ dev.out \in EndpointType /\ dev \in DevType
    BY <1>1 DEF Whole, DevType
  <2>2. host' \in HostType
    <3>1. [host EXCEPT !.mayStop = TRUE] \in HostType
      BY <1>1 DEF HostType
    <3>. QED  BY <1>4, <1>15, <3>1 DEF SetHalt
  <2>3. CASE dev' = [dev EXCEPT !.in = udd_ep_set_halt(@)] /\ UNCHANGED main
    <3>. DEFINE e == udd_ep_set_halt(dev.in)
    <3>1. dev' = [dev EXCEPT !.in = e, !.out = dev.out]
      BY <2>1, <2>3 DEF DevType
    <3>2. e \in EndpointType /\ e.busy = dev.in.busy /\ e.job = dev.in.job /\ e.enabled = dev.in.enabled
      BY <2>1, EndpointsType
    <3>. HIDE DEF e
    <3>. QED  BY <2>1, <2>2, <2>3, <3>1, <3>2, FlagsKeep
  <2>4. CASE dev' = [dev EXCEPT !.out = udd_ep_set_halt(@)] /\ (UNCHANGED main \/ Overtaken(dev.out))
    <3>. DEFINE e == udd_ep_set_halt(dev.out)
    <3>1. dev' = [dev EXCEPT !.in = dev.in, !.out = e]
      BY <2>1, <2>4 DEF DevType
    <3>2. e \in EndpointType /\ e.busy = dev.out.busy /\ e.job = dev.out.job /\ e.enabled = dev.out.enabled
      BY <2>1, EndpointsType
    <3>. HIDE DEF e
    <3>. QED  BY <2>1, <2>2, <2>4, <3>1, <3>2, FlagsKeep
  <2>. QED  BY <1>15, <2>3, <2>4 DEF SetHalt
<1>16. ASSUME NEW i \in 0..1, SetUnknownSetting(i) PROVE IInv'
  <2>1. dev' = udc_iface_disable(dev, i)
    BY <1>16 DEF SetUnknownSetting
  <2>2. Kept(dev, dev') /\ dev'.rx = dev.rx
    BY <1>1, <2>1, DisableKeeps
  <2>3. host' \in HostType
    <3>1. [host EXCEPT !.mayLose = TRUE] \in HostType
      BY <1>1 DEF HostType
    <3>. QED  BY <1>4, <1>16, <3>1 DEF SetUnknownSetting
  <2>4. main' = main /\ ~At("begin")
    BY <1>16 DEF SetUnknownSetting
  <2>. QED  BY <1>5, <1>7, <2>2, <2>3, <2>4 DEF Kept, Whole
<1>. QED  BY <1>11, <1>12, <1>13, <1>14, <1>15, <1>16, ClearHaltKeeps DEF Requests

-----------------------------------------------------------------------------
(* Interrupts, hardware and host. *)

LEMMA AroundKeeps ==
  IInv /\ (StartOfFrame \/ udd_ep_interrupt \/ (\E n \in 0..PacketSize : HostSends(n)) \/ HostReads) => IInv'
<1>. SUFFICES ASSUME IInv, StartOfFrame \/ udd_ep_interrupt \/ (\E n \in 0..PacketSize : HostSends(n)) \/ HostReads
              PROVE  IInv'
  OBVIOUS
<1>1. /\ Whole(dev) /\ main \in MainType /\ host \in HostType
      /\ dev \in DevType /\ dev.in \in EndpointType /\ dev.out \in EndpointType
  BY DEF IInv, TypeOK, Whole, DevType
<1>11. CASE StartOfFrame
  <2>. DEFINE c == [dev EXCEPT !.frame = (@ + 1) % Frames]
  <2>1. (dev.frame + 1) % Frames \in Nat
    BY <1>1, UsbCdcAssumption DEF DevType
  <2>2. c \in DevType /\ c.rx = dev.rx /\ c.tx = dev.tx /\ c.in = dev.in /\ c.out = dev.out /\ c.configured = dev.configured
    BY <1>1, <2>1 DEF DevType
  <2>3. dev' = udc_sof_notify(c) /\ host' = host /\ main' = main
    BY <1>11 DEF StartOfFrame
  <2>. HIDE DEF c
  <2>4. Whole(c) /\ (HasRoom(dev) => HasRoom(c))
    BY <1>1, <2>2 DEF Whole, Sending, Receiving, Closed, HasRoom
  <2>5. /\ Whole(dev') /\ (HasRoom(c) => HasRoom(dev')) /\ dev'.tx.both = c.tx.both
        /\ dev'.rx = c.rx /\ dev'.out = c.out
    <3>1. CASE c.configured
      <4>1. dev' = udi_cdc_tx_send(c) /\ c \in DevType /\ Sending(c)
        BY <3>1, <2>3, <2>4 DEF udc_sof_notify, udi_cdc_data_sof_notify, Whole
      <4>2. /\ dev' \in DevType /\ Sending(dev') /\ dev'.rx = c.rx /\ dev'.out = c.out /\ dev'.tx.both = c.tx.both
            /\ dev'.configured = c.configured /\ (HasRoom(c) => HasRoom(dev'))
        BY <4>1, SendKeeps
      <4>. QED  BY <2>4, <3>1, <4>2 DEF Whole, Receiving, Closed
    <3>2. CASE ~c.configured
      BY <3>2, <2>3, <2>4 DEF udc_sof_notify
    <3>. QED  BY <3>1, <3>2
  <2>. QED  BY <1>1, <2>2, <2>3, <2>4, <2>5, StepKeeps
<1>12. CASE InSent
  <2>. DEFINE e == Sent(dev.in)
  <2>1. e \in EndpointType /\ e.busy = dev.in.busy /\ e.job = dev.in.job /\ e.enabled = dev.in.enabled
    BY <1>1, SentType
  <2>2. host' = host /\ main' = main
    BY <1>12 DEF InSent
  <2>3. CASE e.job.zlp
    <3>1. dev' = [dev EXCEPT !.in = [e EXCEPT !.job.waiting = TRUE]]
      BY <1>12, <2>3 DEF InSent
    <3>. HIDE DEF e
    <3>2. /\ [e EXCEPT !.job.waiting = TRUE] \in EndpointType
          /\ [e EXCEPT !.job.waiting = TRUE].busy = e.busy /\ [e EXCEPT !.job.waiting = TRUE].job.buf = e.job.buf
          /\ [e EXCEPT !.job.waiting = TRUE].enabled = e.enabled
      BY <2>1 DEF EndpointType, JobType
    <3>. DEFINE in == [e EXCEPT !.job.waiting = TRUE]
    <3>. HIDE DEF in
    <3>3. /\ dev' \in DevType /\ dev'.tx = dev.tx /\ dev'.rx = dev.rx /\ dev'.out = dev.out
          /\ dev'.in = in /\ dev'.configured = dev.configured
      BY <1>1, <3>1, <3>2 DEF DevType, in
    <3>4. Whole(dev') /\ HasRoom(dev') = HasRoom(dev)
      BY <1>1, <2>1, <3>2, <3>3 DEF Whole, Sending, Receiving, Closed, HasRoom, in
    <3>5. ~dev.out.busy => dev'.rx = dev.rx /\ ~dev'.out.busy
      BY <3>3
    <3>. QED  BY <1>1, <2>2, <3>3, <3>4, <3>5, StepKeeps
  <2>4. CASE ~e.job.zlp
    <3>1. dev' = udi_cdc_data_sent([dev EXCEPT !.in = udd_ep_finish_job(e)])
      BY <1>12, <2>4 DEF InSent
    <3>. HIDE DEF e
    <3>2. udd_ep_finish_job(e) \in EndpointType /\ ~udd_ep_finish_job(e).busy /\ udd_ep_finish_job(e).enabled = e.enabled
      BY <2>1, EndpointsType
    <3>. QED  BY <1>1, <2>1, <2>2, <3>1, <3>2, SentKeepsAll
  <2>. QED  BY <2>3, <2>4
<1>13. CASE InZlp
  <2>. DEFINE e == [dev.in EXCEPT !.bank = Append(@, Packets(<<>>, TRUE))]
  <2>1. e \in EndpointType /\ e.enabled = dev.in.enabled
    <3>1. Packets(<<>>, TRUE) \in Packet /\ dev.in.bank \in Seq(Packet)
      BY <1>1, EmptyBytes DEF Packets, Packet, EndpointType
    <3>2. Append(dev.in.bank, Packets(<<>>, TRUE)) \in Seq(Packet)
      BY <3>1, AppendProperties
    <3>. QED  BY <1>1, <3>2 DEF EndpointType
  <2>2. host' = host /\ main' = main /\ dev' = udi_cdc_data_sent([dev EXCEPT !.in = udd_ep_finish_job(e)])
    BY <1>13 DEF InZlp
  <2>. HIDE DEF e
  <2>3. udd_ep_finish_job(e) \in EndpointType /\ ~udd_ep_finish_job(e).busy /\ udd_ep_finish_job(e).enabled = e.enabled
    BY <2>1, EndpointsType
  <2>. QED  BY <1>1, <2>1, <2>2, <2>3, SentKeepsAll
<1>14. CASE OutReceived
  <2>. DEFINE packet == Head(dev.out.bank)
              data   == dev.out.job.data \o packet.bytes
              out    == [dev.out EXCEPT !.bank = Tail(@), !.job.data = data]
              d      == [dev EXCEPT !.out = out]
  <2>1. dev.out.bank \in Seq(Packet) /\ dev.out.bank # <<>> /\ dev.out.job \in JobType /\ dev.out.busy
        /\ host' = host /\ main' = main
    BY <1>1, <1>14 DEF EndpointType, OutReceived
  <2>2. packet \in Packet /\ Tail(dev.out.bank) \in Seq(Packet)
    BY <2>1
  <2>3. data \in Bytes
    <3>. HIDE DEF packet
    <3>. QED  BY <2>1, <2>2 DEF Packet, JobType, Bytes
  <2>4. /\ out \in EndpointType /\ out.busy = dev.out.busy /\ out.job.buf = dev.out.job.buf
        /\ out.enabled = dev.out.enabled
    <3>. HIDE DEF data, packet
    <3>. QED  BY <1>1, <2>1, <2>2, <2>3 DEF EndpointType, JobType
  <2>5. dev' = IF packet.short \/ Len(data) = BufferSize
               THEN udi_cdc_data_recevied([d EXCEPT !.out = udd_ep_finish_job(@)], data) ELSE d
    <3>1. d = [dev EXCEPT !.out.bank = Tail(@), !.out.job.data = data]
      BY <1>1 DEF DevType, EndpointType
    <3>. DEFINE d0 == [dev EXCEPT !.out.bank = Tail(@), !.out.job.data = data]
    <3>2. dev' = IF packet.short \/ Len(data) = BufferSize
                 THEN udi_cdc_data_recevied([d0 EXCEPT !.out = udd_ep_finish_job(@)], data) ELSE d0
      BY <1>14 DEF OutReceived
    <3>3. d = d0
      BY <3>1
    <3>. HIDE DEF d, d0, packet, data
    <3>. QED  BY <3>2, <3>3
  <2>. HIDE DEF packet, data, out
  <2>6. /\ d \in DevType /\ d.out = out /\ d.tx = dev.tx /\ d.rx = dev.rx /\ d.in = dev.in
        /\ d.configured = dev.configured
    BY <1>1, <2>4 DEF DevType
  <2>. HIDE DEF d
  <2>7. CASE packet.short \/ Len(data) = BufferSize
    <3>1. /\ udd_ep_finish_job(out) \in EndpointType /\ ~udd_ep_finish_job(out).busy
          /\ udd_ep_finish_job(out).enabled = dev.out.enabled
      BY <2>4, EndpointsType
    <3>2. [d EXCEPT !.out = udd_ep_finish_job(@)] = [dev EXCEPT !.out = udd_ep_finish_job(out)]
      BY <1>1, <2>6 DEF d, DevType
    <3>. QED  BY <1>1, <2>1, <2>3, <2>5, <2>7, <3>1, <3>2, ReceivedKeepsAll
  <2>8. CASE ~(packet.short \/ Len(data) = BufferSize)
    <3>1. dev' = d
      BY <2>5, <2>8
    <3>2. Whole(dev') /\ HasRoom(dev') = HasRoom(dev)
      BY <1>1, <2>4, <2>6, <3>1 DEF Whole, Sending, Receiving, Closed, HasRoom
    <3>. QED  BY <1>1, <2>1, <2>4, <2>6, <3>1, <3>2, StepKeeps
  <2>. QED  BY <2>7, <2>8
<1>16. CASE BankEmpty
  <2>. DEFINE Halt(e) == [e EXCEPT !.bankIrq = FALSE, !.stallRequested = FALSE, !.halted = TRUE]
  <2>1. /\ Halt(dev.in) \in EndpointType /\ Halt(dev.in).busy = dev.in.busy /\ Halt(dev.in).job = dev.in.job
        /\ Halt(dev.in).enabled = dev.in.enabled
        /\ Halt(dev.out) \in EndpointType /\ Halt(dev.out).busy = dev.out.busy /\ Halt(dev.out).job = dev.out.job
        /\ Halt(dev.out).enabled = dev.out.enabled
    BY <1>1 DEF EndpointType
  <2>2. \/ dev' = [dev EXCEPT !.in = Halt(dev.in), !.out = dev.out]
        \/ dev' = [dev EXCEPT !.in = dev.in, !.out = Halt(dev.out)]
    BY <1>1, <1>16 DEF BankEmpty, DevType
  <2>3. host' = host /\ (main' = main \/ Overtaken(dev.out))
    BY <1>16 DEF BankEmpty
  <2>. HIDE DEF Halt
  <2>. QED  BY <1>1, <2>1, <2>2, <2>3, FlagsKeep
<1>17. ASSUME NEW n \in 0..PacketSize, HostSends(n) PROVE IInv'
  <2>. DEFINE bytes  == [k \in 1..n |-> <<host.session, host.sent + k>>]
              packet == Packets(bytes, n < PacketSize)
              out    == [dev.out EXCEPT !.bank = Append(@, packet)]
  <2>1. n \in Nat
    BY UsbCdcAssumption
  <2>2. packet \in Packet
    BY <1>1, <2>1 DEF Packets, Packet, Bytes, HostType
  <2>3. dev' = [dev EXCEPT !.in = dev.in, !.out = out] /\ main' = main
    BY <1>1, <1>17 DEF HostSends, DevType
  <2>4. host' \in HostType
    <3>1. (n = PacketSize) \in BOOLEAN
      OBVIOUS
    <3>. DEFINE sent == [host EXCEPT !.sent = @ + n]
    <3>2. sent \in HostType
      BY <1>1, <2>1 DEF HostType
    <3>3. \E o \in BOOLEAN : host' = [sent EXCEPT !.open = o]
      BY <1>1, <1>17 DEF HostSends, HostType
    <3>. HIDE DEF sent
    <3>. QED  BY <3>2, <3>3 DEF HostType
  <2>. HIDE DEF packet
  <2>5. out \in EndpointType /\ out.busy = dev.out.busy /\ out.job = dev.out.job /\ out.enabled = dev.out.enabled
    <3>1. Append(dev.out.bank, packet) \in Seq(Packet)
      BY <1>1, <2>2, AppendProperties DEF EndpointType
    <3>. QED  BY <1>1, <3>1 DEF EndpointType
  <2>. HIDE DEF out
  <2>. QED  BY <1>1, <2>3, <2>4, <2>5, FlagsKeep
<1>18. CASE HostReads
  <2>. DEFINE packet == Head(dev.in.bank)
              Own(n) == {k \in 1..n : packet.bytes[k][1] = host.session}
              own    == Own(Len(packet.bytes))
              got    == host.got + Cardinality(own)
              in     == [dev.in EXCEPT !.bank = Tail(@)]
  <2>1. dev.in.bank \in Seq(Packet) /\ dev.in.bank # <<>>
    BY <1>1, <1>18 DEF EndpointType, HostReads
  <2>2. packet \in Packet /\ Tail(dev.in.bank) \in Seq(Packet)
    BY <2>1
  <2>3. got \in Nat
    <3>1. Len(packet.bytes) \in Nat
      BY <2>2 DEF Packet, Bytes
    <3>2. own \subseteq 1..Len(packet.bytes)
      OBVIOUS
    <3>3. IsFiniteSet(1..Len(packet.bytes))
      <4>. HIDE DEF packet
      <4>. QED  BY <3>1, FS_Interval
    <3>. HIDE DEF own
    <3>4. Cardinality(own) \in Nat
      BY <3>2, <3>3, FS_Subset, FS_CardinalityType
    <3>. QED  BY <1>1, <3>4 DEF HostType
  <2>4. host' \in HostType
    <3>. DEFINE h == [host EXCEPT !.got = got, !.ended = IF packet.short THEN got ELSE @]
                o == host.inOrder /\ \A k \in own : packet.bytes[k][2] = host.got + Cardinality(Own(k))
    <3>1. host' = [host EXCEPT !.got = got, !.ended = IF packet.short THEN got ELSE @, !.inOrder = o]
      BY <1>18 DEF HostReads
    <3>2. o \in BOOLEAN
      BY <1>1 DEF HostType
    <3>. HIDE DEF got, packet, o
    <3>3. h \in HostType
      BY <1>1, <2>3 DEF HostType
    <3>4. host' = [h EXCEPT !.inOrder = o]
      BY <1>1, <3>1 DEF HostType
    <3>. HIDE DEF h
    <3>5. \E b \in BOOLEAN : host' = [h EXCEPT !.inOrder = b]
      BY <3>2, <3>4
    <3>. QED  BY <3>3, <3>5 DEF HostType
  <2>5. dev' = [dev EXCEPT !.in = in, !.out = dev.out] /\ main' = main
    BY <1>1, <1>18 DEF HostReads, DevType
  <2>6. in \in EndpointType /\ in.busy = dev.in.busy /\ in.job = dev.in.job /\ in.enabled = dev.in.enabled
    BY <1>1, <2>2 DEF EndpointType
  <2>. HIDE DEF in
  <2>. QED  BY <1>1, <2>4, <2>5, <2>6, FlagsKeep
<1>. QED  BY <1>11, <1>12, <1>13, <1>14, <1>16, <1>17, <1>18 DEF udd_ep_interrupt, TransferIn

-----------------------------------------------------------------------------
(* Main. *)

LEMMA ReadKeeps == IInv /\ _read /\ UNCHANGED host => IInv'
<1>. SUFFICES ASSUME IInv, _read, UNCHANGED host PROVE IInv'
  OBVIOUS
<1>1. /\ Whole(dev) /\ main \in MainType /\ host' \in HostType
      /\ dev \in DevType /\ dev.tx \in TxType /\ dev.rx \in RxType
  BY DEF IInv, TypeOK, Whole, DevType
<1>2. ASSUME Whole(dev'), main' \in MainType, Places' PROVE IInv'
  BY <1>1, <1>2 DEF IInv, TypeOK, Whole
<1>3. ASSUME dev' = dev, main' \in MainType, main'.pc \notin {"write", "switch", "run", "begin"} PROVE IInv'
  BY <1>1, <1>2, <1>3 DEF Places, Starting, At, Whole, DevType
<1>11. CASE GetcRead
  <2>. DEFINE ch == dev.rx.data[dev.rx.sel][dev.rx.pos + 1]
              pos == dev.rx.pos
  <2>1. ch \in Nat \X Nat /\ pos \in Nat
    <3>1. dev.rx.pos \in Nat /\ dev.rx.data[dev.rx.sel] \in Seq(Nat \X Nat)
      BY <1>1 DEF RxType, Bytes
    <3>2. dev.rx.pos < Len(dev.rx.data[dev.rx.sel])
      BY <1>11 DEF GetcRead, udi_cdc_is_rx_ready
    <3>. DEFINE buf == dev.rx.data[dev.rx.sel]
    <3>3. buf \in Seq(Nat \X Nat) /\ dev.rx.pos + 1 \in 1..Len(buf)
      BY <3>1, <3>2, SMTT(60)
    <3>. HIDE DEF buf
    <3>4. buf[dev.rx.pos + 1] \in Nat \X Nat
      BY <3>3, ElementOfSeq
    <3>. QED  BY <3>1, <3>4 DEF buf
  <2>2. main' = [main EXCEPT !.pc = "store", !.ch = ch, !.pos = pos] /\ dev' = dev
    BY <1>11 DEF GetcRead
  <2>. HIDE DEF ch, pos
  <2>3. main' \in MainType /\ main'.pc = "store"
    BY <1>1, <2>1, <2>2 DEF MainType, PCs
  <2>. QED  BY <1>3, <2>2, <2>3
<1>12. CASE GetcStore
  <2>1. main' = [main EXCEPT !.pc = "start", !.pos = 0] /\ dev' = [dev EXCEPT !.rx.pos = main.pos + 1]
    BY <1>12 DEF GetcStore
  <2>2. main' \in MainType /\ main'.pc = "start"
    BY <1>1, <2>1 DEF MainType, PCs
  <2>. DEFINE pos == main.pos + 1
              rx  == [dev.rx EXCEPT !.pos = pos]
  <2>3. pos \in Nat
    BY <1>1 DEF MainType
  <2>4. dev' = [dev EXCEPT !.rx = rx]
    BY <1>1, <2>1 DEF DevType, RxType
  <2>. HIDE DEF pos
  <2>5. rx \in RxType /\ rx.ongoing = dev.rx.ongoing /\ rx.sel = dev.rx.sel
    BY <1>1, <2>3 DEF RxType
  <2>6. /\ dev' \in DevType /\ dev'.rx = rx /\ dev'.tx = dev.tx /\ dev'.in = dev.in /\ dev'.out = dev.out
        /\ dev'.configured = dev.configured
    BY <1>1, <2>4, <2>5 DEF DevType
  <2>. HIDE DEF rx
  <2>. QED  BY <1>1, <1>2, <2>2, <2>5, <2>6 DEF Whole, Sending, Receiving, Closed, Places, Starting, At
<1>13. CASE RxStart
  <2>1. CASE MayReceive(dev)
    <3>1. dev' = Switched(dev) /\ main' = [main EXCEPT !.pc = "run", !.buf = dev.rx.sel]
      BY <1>13, <2>1 DEF RxStart
    <3>2. main' \in MainType /\ main'.pc = "run" /\ main'.buf = dev.rx.sel
      BY <1>1, <3>1 DEF MainType, PCs, RxType
    <3>3. ~dev.out.busy
      BY <1>1, <2>1 DEF MayReceive, Whole, Receiving
    <3>4. /\ dev' \in DevType /\ dev'.tx = dev.tx /\ dev'.in = dev.in /\ dev'.out = dev.out /\ Receiving(dev')
          /\ dev'.rx.ongoing /\ dev.rx.sel = Other(dev'.rx.sel) /\ dev'.configured = dev.configured
      BY <1>1, <3>1, <3>3, SwitchedKeeps
    <3>. QED  BY <1>1, <1>2, <3>2, <3>3, <3>4 DEF Whole, Sending, Closed, Places, Starting, At
  <2>2. CASE ~MayReceive(dev)
    <3>1. dev' = dev /\ main' = [main EXCEPT !.pc = "putchar"]
      BY <1>13, <2>2 DEF RxStart, Goto
    <3>. QED  BY <1>1, <1>3, <3>1 DEF MainType, PCs
  <2>. QED  BY <2>1, <2>2
<1>14. CASE RxRun
  <2>1. main' = [main EXCEPT !.pc = "putchar", !.buf = 0]
    BY <1>14 DEF RxRun
  <2>2. main' \in MainType /\ main'.pc = "putchar"
    <3>1. 0 \in Bufs
      BY DEF Bufs
    <3>. QED  BY <1>1, <2>1, <3>1 DEF MainType, PCs
  <2>3. /\ main.buf \in Bufs /\ dev.rx.ongoing /\ main.buf = Other(dev.rx.sel) /\ ~dev.out.busy
        /\ At("begin") => dev.out.enabled
    BY <1>1, <1>14 DEF RxRun, IInv, Places, Starting, At, MainType
  <2>4. /\ dev' \in DevType /\ Receiving(dev') /\ dev'.tx = dev.tx /\ dev'.in = dev.in
        /\ dev'.configured = dev.configured /\ dev'.out.enabled = dev.out.enabled
    <3>1. CASE At("run") /\ dev' = Receive(dev, main.buf)
      BY <1>1, <2>3, <3>1, ReceiveKeeps DEF Whole
    <3>2. CASE At("begin") /\ dev' = [dev EXCEPT !.out = RunOut(@, main.buf)]
      <4>. DEFINE out == RunOut(dev.out, main.buf)
      <4>1. out \in EndpointType /\ out.job.buf = main.buf /\ out.enabled = dev.out.enabled
        <5>1. dev.out \in EndpointType /\ <<>> \in Bytes /\ TRUE \in BOOLEAN
          BY <1>1, EmptyBytes DEF DevType
        <5>. QED  BY <2>3, <5>1, JobsType
      <4>2. dev' = [dev EXCEPT !.out = out]
        BY <3>2
      <4>. HIDE DEF out
      <4>3. /\ dev' \in DevType /\ dev'.out = out /\ dev'.tx = dev.tx /\ dev'.in = dev.in /\ dev'.rx = dev.rx
            /\ dev'.configured = dev.configured
        BY <1>1, <4>1, <4>2 DEF DevType
      <4>. QED  BY <2>3, <3>2, <4>1, <4>3 DEF Receiving
    <3>. QED  BY <1>14, <3>1, <3>2 DEF RxRun
  <2>. QED  BY <1>1, <1>2, <2>2, <2>4 DEF Whole, Sending, Closed, Places, Starting, At
<1>. QED  BY <1>11, <1>12, <1>13, <1>14 DEF _read

LEMMA WriteKeeps == IInv /\ _write /\ UNCHANGED host => IInv'
<1>. SUFFICES ASSUME IInv, _write, UNCHANGED host PROVE IInv'
  OBVIOUS
<1>1. /\ Whole(dev) /\ main \in MainType /\ host' \in HostType
      /\ dev \in DevType /\ dev.tx \in TxType /\ dev.rx \in RxType
  BY DEF IInv, TypeOK, Whole, DevType
<1>2. ASSUME Whole(dev'), main' \in MainType, Places' PROVE IInv'
  BY <1>1, <1>2 DEF IInv, TypeOK, Whole
<1>3. ASSUME NEW pc \in PCs \ {"run", "begin"}, dev' = dev, main' = [main EXCEPT !.pc = pc],
             pc = "write" => HasRoom(dev), pc = "switch" => ~dev.tx.both
      PROVE  IInv'
  <2>1. main' \in MainType /\ main'.pc = pc
    BY <1>1, <1>3 DEF MainType
  <2>2. Places'
    BY <1>3, <2>1 DEF Places, Starting, At, HasRoom
  <2>. QED  BY <1>1, <1>2, <1>3, <2>1, <2>2
<1>4. Listening \in MainType /\ Listening.pc = "getc"
  BY DEF Listening, MainType, PCs, Bufs
<1>5. ASSUME dev' = dev, main' = Listening PROVE IInv'
  BY <1>1, <1>2, <1>4, <1>5 DEF Places, Starting, At
<1>6. Current = dev.tx.data[dev.tx.sel] /\ Len(Current) \in Nat /\ Current \in Bytes
  <2>1. dev.tx.data[dev.tx.sel] \in Seq(Nat \X Nat)
    BY <1>1 DEF TxType, Bytes
  <2>. QED  BY <2>1 DEF Current, Bytes
<1>11. CASE TxReady
  <2>1. CASE Len(Current) # BufferSize /\ ~Dropped
    <3>1. dev' = dev /\ main' = [main EXCEPT !.pc = "write"]
      BY <1>11, <2>1 DEF TxReady, Goto
    <3>2. HasRoom(dev)
      BY <1>1, <1>6, <2>1, UsbCdcAssumption DEF HasRoom, Whole, Sending
    <3>. QED  BY <1>3, <3>1, <3>2 DEF PCs
  <2>2. CASE ~(Len(Current) # BufferSize) /\ ~Dropped
    <3>1. dev' = dev /\ main' = [main EXCEPT !.pc = "both"]
      BY <1>11, <2>2 DEF TxReady, Goto
    <3>. QED  BY <1>3, <3>1 DEF PCs
  <2>3. CASE Dropped
    BY <1>5, <1>11, <2>3 DEF TxReady
  <2>. QED  BY <2>1, <2>2, <2>3
<1>12. CASE TxBoth
  <2>1. CASE dev.tx.both
    <3>1. dev' = dev /\ main' = [main EXCEPT !.pc = "again"]
      BY <1>12, <2>1 DEF TxBoth, Goto
    <3>. QED  BY <1>3, <3>1 DEF PCs
  <2>2. CASE ~dev.tx.both
    <3>1. dev' = dev /\ main' = [main EXCEPT !.pc = "switch"]
      BY <1>12, <2>2 DEF TxBoth, Goto
    <3>. QED  BY <1>3, <2>2, <3>1 DEF PCs
  <2>. QED  BY <2>1, <2>2
<1>13. CASE TxSwitch
  <2>1. main' = [main EXCEPT !.pc = "again"] /\ ~dev.tx.both
    BY <1>13 DEF TxSwitch, Goto, IInv, Places
  <2>2. main' \in MainType /\ main'.pc = "again"
    BY <1>1, <2>1 DEF MainType, PCs
  <2>3. CASE OtherIsFree(dev)
    <3>. DEFINE tx == [dev.tx EXCEPT !.both = TRUE, !.sel = Other(@)]
    <3>1. dev' = [dev EXCEPT !.tx = tx]
      BY <1>1, <1>13, <2>3 DEF TxSwitch, DevType, TxType
    <3>2. dev.tx.sel \in Bufs /\ ~dev.tx.ongoing
      BY <1>1, <2>3 DEF TxType, OtherIsFree
    <3>3. /\ tx \in TxType /\ tx.sel = Other(dev.tx.sel) /\ tx.data = dev.tx.data /\ tx.both
      BY <1>1, <3>2, OtherType DEF TxType
    <3>4. Len(tx.data[tx.sel]) = 0
      BY <1>1, <2>1, <3>2, <3>3, EmptyBytes DEF Whole, Sending
    <3>. HIDE DEF tx
    <3>5. /\ dev' \in DevType /\ dev'.tx = tx /\ dev'.rx = dev.rx /\ dev'.in = dev.in /\ dev'.out = dev.out
          /\ dev'.configured = dev.configured
      BY <1>1, <3>1, <3>3 DEF DevType
    <3>6. Whole(dev')
      BY <1>1, <3>2, <3>3, <3>4, <3>5, UsbCdcAssumption DEF Whole, Sending, Receiving, Closed
    <3>. QED  BY <1>2, <2>2, <3>6 DEF Places, Starting, At
  <2>4. CASE ~OtherIsFree(dev)
    <3>1. dev' = dev
      BY <1>13, <2>4 DEF TxSwitch
    <3>. QED  BY <1>3, <2>1, <3>1 DEF PCs
  <2>. QED  BY <2>3, <2>4
<1>14. CASE TxAgain
  <2>1. CASE Len(Current) # BufferSize
    <3>1. dev' = dev /\ main' = [main EXCEPT !.pc = "write"]
      BY <1>14, <2>1 DEF TxAgain, Goto
    <3>2. HasRoom(dev)
      BY <1>1, <1>6, <2>1, UsbCdcAssumption DEF HasRoom, Whole, Sending
    <3>. QED  BY <1>3, <3>1, <3>2 DEF PCs
  <2>2. CASE Len(Current) = BufferSize
    <3>1. dev' = dev /\ (main' = [main EXCEPT !.pc = "ready"] \/ main' = Listening)
      BY <1>14, <2>2 DEF TxAgain, Goto
    <3>. QED  BY <1>3, <1>5, <3>1 DEF PCs
  <2>. QED  BY <2>1, <2>2
<1>15. CASE TxWrite
  <2>. DEFINE buf == Append(Current, main.ch)
              tx  == [dev.tx EXCEPT !.data[dev.tx.sel] = buf]
  <2>1. HasRoom(dev) /\ main' = Listening
    BY <1>15 DEF TxWrite, IInv, Places
  <2>2. main.ch \in Nat \X Nat
    BY <1>1 DEF MainType
  <2>3. buf \in Bytes /\ Len(buf) = Len(Current) + 1
    BY <1>6, <2>2, AppendProperties DEF Bytes
  <2>4. Len(buf) <= BufferSize
    BY <1>6, <2>1, <2>3, UsbCdcAssumption DEF HasRoom
  <2>5. dev' = [dev EXCEPT !.tx = tx]
    BY <1>1, <1>6, <1>15 DEF TxWrite, DevType, TxType
  <2>. HIDE DEF buf
  <2>6. /\ tx \in TxType /\ tx.sel = dev.tx.sel /\ tx.ongoing = dev.tx.ongoing /\ tx.both = dev.tx.both
        /\ tx.data[tx.sel] = buf /\ tx.data[Other(tx.sel)] = dev.tx.data[Other(tx.sel)]
    BY <1>1, <2>3, OtherType DEF TxType
  <2>. HIDE DEF tx
  <2>7. /\ dev' \in DevType /\ dev'.tx = tx /\ dev'.rx = dev.rx /\ dev'.in = dev.in /\ dev'.out = dev.out
        /\ dev'.configured = dev.configured
    BY <1>1, <2>5, <2>6 DEF DevType
  <2>8. Whole(dev')
    BY <1>1, <2>4, <2>6, <2>7 DEF Whole, Sending, Receiving, Closed
  <2>. QED  BY <1>2, <1>4, <2>1, <2>8 DEF Places, Starting, At
<1>. QED  BY <1>11, <1>12, <1>13, <1>14, <1>15 DEF _write

-----------------------------------------------------------------------------
LEMMA InitIInv == Init => IInv
<1>. SUFFICES ASSUME Init PROVE IInv
  OBVIOUS
<1>. DEFINE rx == [sel |-> 0, data |-> [b \in 0..1 |-> <<>>], pos |-> 0, ongoing |-> FALSE]
<1>1. NoTx \in TxType /\ ~NoTx.both /\ NoTx.data[Other(NoTx.sel)] = <<>> /\ NoTx.data[NoTx.sel] = <<>>
  BY EmptyBytes DEF NoTx, TxType, Bufs, Other
<1>2. rx \in RxType
  BY EmptyBytes DEF RxType, Bufs
<1>3. dev = [tx |-> NoTx, rx |-> rx, running |-> FALSE, stdio |-> FALSE, configured |-> FALSE, frame |-> 0,
             in |-> Endpoint, out |-> Endpoint]
  BY DEF Init
<1>. HIDE DEF rx
<1>4. /\ dev \in DevType /\ dev.tx = NoTx /\ dev.in = Endpoint /\ dev.out = Endpoint
  BY <1>1, <1>2, <1>3, NoJobType DEF DevType
<1>5. Sending(dev) /\ Receiving(dev) /\ Closed(dev)
  BY <1>1, <1>4, EmptyBytes, UsbCdcAssumption DEF Sending, Receiving, Closed, Endpoint
<1>6. main \in MainType /\ main.pc = "getc"
  BY DEF Init, Listening, MainType, PCs, Bufs
<1>7. host \in HostType
  BY DEF Init, HostType
<1>. QED  BY <1>4, <1>5, <1>6, <1>7 DEF IInv, TypeOK, Places, Starting, At

LEMMA StepIInv == IInv /\ [Next]_vars => IInv'
<1>1. CASE UNCHANGED vars
  BY <1>1 DEF vars, IInv, TypeOK, Places, Starting, At
<1>. QED  BY <1>1, RequestsKeep, AroundKeeps, ReadKeeps, WriteKeeps DEF Next, Main

(* Every place of the echo loop and every state of the serial port is of    *)
(* its type, whatever the host does.                                        *)
THEOREM TypeCorrect == Spec => []TypeOK
<1>1. IInv => TypeOK
  BY DEF IInv
<1>. QED  BY <1>1, InitIInv, StepIInv, PTL DEF Spec

(* Main and the transfers never use the same buffer, and main finds room    *)
(* where it writes, for buffers of any size and any number of sessions.     *)
(* (udi_cdc_is_tx_ready, udi_cdc_tx_send, udi_cdc_rx_start)                  *)
THEOREM BuffersAreApart == Spec => []BuffersApart
<1>1. IInv => BuffersApart
  BY OtherType DEF IInv, TypeOK, DevType, TxType, RxType, Sending, Receiving, Places, Starting, HasRoom, BuffersApart, Current
<1>. QED  BY <1>1, InitIInv, StepIInv, PTL DEF Spec
-----------------------------------------------------------------------------
(* Blocks. *)

BlockType == [task : {"echo", "write"}, left : Nat, session : Nat, next : Nat, came : BOOLEAN]

BlockInv == IInv /\ block \in BlockType

LEMMA CopyFits ==
  ASSUME NEW room \in Nat, NEW left \in Nat
  PROVE  Least(room, left) \in 0..room /\ Least(room, left) <= left
  BY DEF Least

(* A block's part is copied behind what the buffer holds, and fits. *)
LEMMA WriteBlockKeeps == BlockInv /\ WriteBlock /\ UNCHANGED host => BlockInv'
<1>. SUFFICES ASSUME BlockInv, WriteBlock, UNCHANGED host PROVE BlockInv'
  OBVIOUS
<1>1. /\ Whole(dev) /\ main \in MainType /\ host' \in HostType /\ block \in BlockType
      /\ dev \in DevType /\ dev.tx \in TxType /\ HasRoom(dev)
  BY DEF BlockInv, IInv, TypeOK, Whole, DevType, WriteBlock, Places
<1>2. Current = dev.tx.data[dev.tx.sel] /\ Len(Current) \in Nat /\ Current \in Seq(Nat \X Nat)
  <2>1. dev.tx.data[dev.tx.sel] \in Seq(Nat \X Nat)
    BY <1>1 DEF TxType, Bytes
  <2>. QED  BY <2>1 DEF Current
<1>. DEFINE n     == CopyNb(block.left)
            bytes == [k \in 1..n |-> <<block.session, block.next + k>>]
            buf   == Copied(Current, bytes)
            tx    == [dev.tx EXCEPT !.data[dev.tx.sel] = buf]
<1>3. n \in Nat /\ n <= BufferSize - Len(Current) /\ n <= block.left
  <2>1. BufferSize - Len(Current) \in Nat /\ block.left \in Nat
    BY <1>1, <1>2, UsbCdcAssumption DEF HasRoom, BlockType
  <2>2. n = Least(BufferSize - Len(Current), block.left)
    BY DEF CopyNb
  <2>. DEFINE room == BufferSize - Len(Current)
  <2>3. room \in Nat /\ block.left \in Nat /\ n = Least(room, block.left)
    BY <2>1, <2>2
  <2>. HIDE DEF n, room
  <2>4. n \in 0..room /\ n <= block.left
    BY <2>3, CopyFits
  <2>5. n \in Nat /\ n <= room
    BY <2>3, <2>4
  <2>. QED  BY <2>4, <2>5 DEF room
<1>4. /\ dev' = [dev EXCEPT !.tx = tx]
      /\ block' = [block EXCEPT !.left = @ - n, !.next = @ + n]
      /\ (main' = [main EXCEPT !.pc = "ready"]) \/ (main' = Listening)
  BY <1>1, <1>2 DEF WriteBlock, Goto, DevType, TxType
<1>. HIDE DEF n
<1>5. bytes \in Seq(Nat \X Nat) /\ Len(bytes) = n
  BY <1>1, <1>3 DEF BlockType
<1>. HIDE DEF bytes
<1>6. buf \in Bytes /\ Len(buf) = Len(Current) + n
  BY <1>2, <1>5, ConcatProperties DEF Copied, Bytes
<1>7. Len(buf) <= BufferSize
  BY <1>2, <1>3, <1>6, UsbCdcAssumption
<1>. HIDE DEF buf
<1>8. /\ tx \in TxType /\ tx.sel = dev.tx.sel /\ tx.ongoing = dev.tx.ongoing /\ tx.both = dev.tx.both
      /\ tx.data[tx.sel] = buf /\ tx.data[Other(tx.sel)] = dev.tx.data[Other(tx.sel)]
  BY <1>1, <1>6, OtherType DEF TxType
<1>. HIDE DEF tx
<1>9. /\ dev' \in DevType /\ dev'.tx = tx /\ dev'.rx = dev.rx /\ dev'.in = dev.in /\ dev'.out = dev.out
      /\ dev'.configured = dev.configured
  BY <1>1, <1>4, <1>8 DEF DevType
<1>10. Whole(dev')
  BY <1>1, <1>7, <1>8, <1>9 DEF Whole, Sending, Receiving, Closed
<1>11. main' \in MainType /\ main'.pc \in {"ready", "getc"}
  BY <1>1, <1>4 DEF MainType, PCs, Listening, Bufs
<1>12. block' \in BlockType
  <2>1. block.left - n \in Nat /\ block.next + n \in Nat
    BY <1>1, <1>3 DEF BlockType
  <2>. QED  BY <1>1, <1>4, <2>1 DEF BlockType
<1>. QED  BY <1>1, <1>10, <1>11, <1>12 DEF BlockInv, IInv, TypeOK, Whole, Places, Starting, At

LEMMA WriteBufKeeps ==
  ASSUME BlockInv, NEW n \in 1..MaxBlock, WriteBuf(n), UNCHANGED host PROVE BlockInv'
<1>1. /\ Whole(dev) /\ main \in MainType /\ host \in HostType /\ block \in BlockType
  BY DEF BlockInv, IInv, TypeOK, Whole
<1>2. n \in Nat
  BY BlockAssumption
<1>. DEFINE next == IF block.session = host.session THEN block.next ELSE 0
<1>3. /\ block' = [block EXCEPT !.left = n, !.session = host.session, !.next = next]
      /\ main' = [main EXCEPT !.pc = "ready"] /\ dev' = dev
  BY DEF WriteBuf, Goto
<1>4. next \in Nat /\ host.session \in Nat
  BY <1>1 DEF BlockType, HostType
<1>. HIDE DEF next
<1>5. block' \in BlockType
  BY <1>1, <1>2, <1>3, <1>4 DEF BlockType
<1>6. main' \in MainType /\ main'.pc = "ready"
  BY <1>1, <1>3 DEF MainType, PCs
<1>. QED  BY <1>1, <1>3, <1>5, <1>6 DEF BlockInv, IInv, TypeOK, Whole, Places, Starting, At

LEMMA StepBlockInv == BlockInv /\ [BlockNext]_blockVars => BlockInv'
<1>. SUFFICES ASSUME BlockInv, [BlockNext]_blockVars PROVE BlockInv'
  OBVIOUS
<1>1. CASE UNCHANGED blockVars
  BY <1>1 DEF blockVars, vars, BlockInv, IInv, TypeOK, Places, Starting, At
<1>2. CASE Around /\ UNCHANGED block
  BY <1>2, RequestsKeep, AroundKeeps DEF Around, BlockInv
<1>3. CASE EchoStep
  BY <1>3, ReadKeeps, WriteKeeps DEF EchoStep, Main, BlockInv
<1>4. CASE udi_cdc_write_buf /\ UNCHANGED host
  <2>1. CASE \E n \in 1..MaxBlock : WriteBuf(n)
    BY <1>4, <2>1, WriteBufKeeps
  <2>2. CASE (At("ready") /\ TxReady) \/ TxBoth \/ TxSwitch \/ TxAgain
    <3>1. UNCHANGED block
      BY <1>4, <2>2 DEF udi_cdc_write_buf, WriteBuf, WriteBlock, At, TxReady, TxBoth, TxSwitch, TxAgain
    <3>. QED  BY <1>4, <2>2, <3>1, WriteKeeps DEF _write, BlockInv
  <2>3. CASE WriteBlock
    BY <1>4, <2>3, WriteBlockKeeps
  <2>. QED  BY <1>4, <2>1, <2>2, <2>3 DEF udi_cdc_write_buf
<1>. QED  BY <1>1, <1>2, <1>3, <1>4 DEF BlockNext

(* Main and the transfers never use the same buffer, and main finds room    *)
(* where it writes, whether it echoes characters or writes blocks, for      *)
(* buffers and blocks of any size and any number of sessions.               *)
(* (udi_cdc_write_buf, udi_cdc_is_tx_ready, udi_cdc_tx_send, udi_cdc_rx_start) *)
THEOREM BuffersAreApartFromBlocks == BlockSpec => []BuffersApart
<1>1. IInv => BuffersApart
  BY OtherType DEF IInv, TypeOK, DevType, TxType, RxType, Sending, Receiving, Places, Starting, HasRoom, BuffersApart, Current
<1>2. BlockInit => BlockInv
  <2>1. NewBlock("echo") \in BlockType /\ NewBlock("write") \in BlockType
    BY DEF NewBlock, BlockType
  <2>. QED  BY <2>1, InitIInv DEF BlockInit, BlockInv
<1>3. BlockInv => IInv
  BY DEF BlockInv
<1>. QED  BY <1>1, <1>2, <1>3, StepBlockInv, PTL DEF BlockSpec

-----------------------------------------------------------------------------
(* The order of the bytes.  Along the way from the host and back to it, a    *)
(* place has as its number how many of the session's bytes are behind it:    *)
(* from one place to the next, the bytes of the session are the numbers       *)
(* between theirs, and bytes of earlier sessions come only before number 1.   *)

Number(s, x, v) == IF v > 0 THEN x = <<s, v>> ELSE x[1] # s
Meets(v, n) == v = n \/ (v <= 0 /\ n <= 0)

(* The bytes of q behind the first lo of them.                              *)
Link(s, q, lo, a, b) ==
  \E f \in Int : /\ Meets(f + lo, a) /\ Meets(f + Len(q), b)
                 /\ \A i \in lo + 1..Len(q) : Number(s, q[i], f + i)
Char(s, x, a, b) == IF x[1] = s THEN x[2] = a + 1 /\ b = a + 1 ELSE a = 0 /\ b = 0
(* The packets of a bank. *)
Chain(s, bank, a, b) ==
  \E e \in [0..Len(bank) -> Nat] :
    e[0] = a /\ e[Len(bank)] = b /\ \A j \in 1..Len(bank) : Link(s, bank[j].bytes, 0, e[j - 1], e[j])

LEMMA LinkOfNone ==
  ASSUME NEW s \in Nat, NEW q \in Bytes, NEW lo \in Nat, lo = Len(q), NEW a \in Nat, NEW b \in Nat
  PROVE  Link(s, q, lo, a, b) <=> a = b
<1>1. ASSUME a = b PROVE Link(s, q, lo, a, b)
  <2>. DEFINE f == a - lo
  <2>1. f \in Int /\ f + lo = a /\ f + Len(q) = b
    BY <1>1
  <2>2. \A i \in lo + 1..Len(q) : FALSE
    OBVIOUS
  <2>. HIDE DEF f
  <2>. QED  BY <2>1, <2>2 DEF Link, Meets
<1>2. ASSUME Link(s, q, lo, a, b) PROVE a = b
  BY <1>2 DEF Link, Meets
<1>. QED  BY <1>1, <1>2

LEMMA LinkOfEmpty ==
  ASSUME NEW s \in Nat, NEW a \in Nat, NEW b \in Nat
  PROVE  Link(s, <<>>, 0, a, b) <=> a = b
  BY EmptyBytes, LinkOfNone

LEMMA LinkOfOld ==
  ASSUME NEW s \in Nat, NEW q \in Bytes, NEW lo \in Nat, lo <= Len(q), \A i \in lo + 1..Len(q) : q[i][1] # s
  PROVE  Link(s, q, lo, 0, 0)
<1>. DEFINE f == 0 - Len(q)
<1>1. Len(q) \in Nat
  BY DEF Bytes
<1>2. f \in Int /\ Meets(f + lo, 0) /\ Meets(f + Len(q), 0)
  BY <1>1 DEF Meets
<1>3. \A i \in lo + 1..Len(q) : f + i <= 0
  BY <1>1
<1>. HIDE DEF f
<1>4. \A i \in lo + 1..Len(q) : Number(s, q[i], f + i)
  BY <1>1, <1>2, <1>3 DEF Number
<1>. QED  BY <1>2, <1>4 DEF Link

LEMMA LinkOfOwn ==
  ASSUME NEW s \in Nat, NEW a \in Nat, NEW n \in Nat
  PROVE  Link(s, [k \in 1..n |-> <<s, a + k>>], 0, a, a + n)
<1>. DEFINE q == [k \in 1..n |-> <<s, a + k>>]
<1>1. q \in Bytes /\ Len(q) = n /\ \A i \in 1..n : q[i] = <<s, a + i>>
  BY DEF Bytes
<1>. HIDE DEF q
<1>2. \A i \in 1..n : Number(s, q[i], a + i)
  BY <1>1 DEF Number
<1>3. Meets(a + 0, a) /\ Meets(a + Len(q), a + n) /\ a \in Int
  BY <1>1 DEF Meets
<1>4. 0 + 1..Len(q) = 1..n
  BY <1>1
<1>5. Link(s, q, 0, a, a + n)
  BY <1>2, <1>3, <1>4 DEF Link
<1>. QED  BY <1>5 DEF q

LEMMA LinkOfChar ==
  ASSUME NEW s \in Nat, NEW x \in Nat \X Nat, NEW a \in Nat, NEW b \in Nat, Char(s, x, a, b)
  PROVE  Link(s, <<x>>, 0, a, b)
<1>. DEFINE q == <<x>>
<1>1. q \in Bytes /\ Len(q) = 1 /\ q[1] = x
  BY DEF Bytes
<1>. HIDE DEF q
<1>2. 0 + 1..Len(q) = {1}
  BY <1>1
<1>3. CASE x[1] = s
  <2>1. x = <<s, a + 1>> /\ b = a + 1
    BY <1>3 DEF Char
  <2>2. Number(s, x, a + 1) /\ Meets(a + 0, a) /\ Meets(a + Len(q), b)
    BY <1>1, <2>1 DEF Number, Meets
  <2>. QED  BY <1>1, <1>2, <2>2 DEF Link, q
<1>4. CASE x[1] # s
  <2>1. a = 0 /\ b = 0
    BY <1>4 DEF Char
  <2>2. \A i \in 0 + 1..Len(q) : q[i][1] # s
    BY <1>1, <1>2, <1>4
  <2>3. 0 <= Len(q) /\ 0 \in Nat
    BY <1>1
  <2>4. Link(s, q, 0, 0, 0)
    BY <1>1, <2>2, <2>3, LinkOfOld
  <2>. QED  BY <2>1, <2>4 DEF q
<1>. QED  BY <1>3, <1>4

LEMMA LinkConcat ==
  ASSUME NEW s \in Nat, NEW q \in Bytes, NEW r \in Bytes, NEW a \in Nat, NEW b \in Nat, NEW c \in Nat,
         Link(s, q, 0, a, b), Link(s, r, 0, b, c)
  PROVE  q \o r \in Bytes /\ Link(s, q \o r, 0, a, c)
<1>. DEFINE t == q \o r
<1>1. /\ t \in Bytes /\ Len(q) \in Nat /\ Len(r) \in Nat /\ Len(t) = Len(q) + Len(r)
      /\ \A i \in 1..Len(q) : t[i] = q[i]
      /\ \A i \in Len(q) + 1..Len(t) : t[i] = r[i - Len(q)] /\ i - Len(q) \in 1..Len(r)
  <2>1. /\ t \in Seq(Nat \X Nat) /\ Len(t) = Len(q) + Len(r)
        /\ \A i \in 1..Len(t) : t[i] = IF i <= Len(q) THEN q[i] ELSE r[i - Len(q)]
    BY ConcatProperties DEF Bytes
  <2>2. Len(q) \in Nat /\ Len(r) \in Nat
    BY DEF Bytes
  <2>. HIDE DEF t
  <2>3. ASSUME NEW i \in Len(q) + 1..Len(t) PROVE t[i] = r[i - Len(q)] /\ i - Len(q) \in 1..Len(r)
    <3>. DEFINE m == Len(q)
                n == Len(r)
    <3>. HIDE DEF m, n
    <3>1. m \in Nat /\ n \in Nat /\ Len(t) = m + n /\ i \in m + 1..Len(t)
      BY <2>1, <2>2 DEF m, n
    <3>2. i \in 1..Len(t) /\ ~(i <= m) /\ i - m \in 1..n
      BY <3>1
    <3>. QED  BY <2>1, <3>2 DEF m, n
  <2>4. ASSUME NEW i \in 1..Len(q) PROVE t[i] = q[i]
    <3>1. i \in 1..Len(t) /\ i <= Len(q)
      BY <2>1, <2>2
    <3>. QED  BY <2>1, <3>1
  <2>. QED  BY <2>1, <2>2, <2>3, <2>4 DEF Bytes
<1>. HIDE DEF t
<1>2. PICK f \in Int : Meets(f + 0, a) /\ Meets(f + Len(q), b) /\ \A i \in 0 + 1..Len(q) : Number(s, q[i], f + i)
  BY DEF Link
<1>3. PICK g \in Int : Meets(g + 0, b) /\ Meets(g + Len(r), c) /\ \A i \in 0 + 1..Len(r) : Number(s, r[i], g + i)
  BY DEF Link
<1>. DEFINE h == g - Len(q)
<1>4. h \in Int
  BY <1>1
<1>5. (f = h) \/ (f + Len(q) <= 0 /\ g <= 0)
  BY <1>1, <1>2, <1>3 DEF Meets
<1>6. Meets(h + 0, a) /\ Meets(h + Len(t), c)
  <2>1. h + Len(t) = g + Len(r)
    BY <1>1
  <2>2. CASE f = h
    BY <1>2, <1>3, <2>1, <2>2
  <2>3. CASE f + Len(q) <= 0 /\ g <= 0
    <3>1. f <= 0 /\ h <= 0
      BY <1>1, <2>3
    <3>2. a <= 0 /\ h + 0 <= 0
      BY <1>2, <1>4, <3>1 DEF Meets
    <3>. QED  BY <1>3, <2>1, <3>2 DEF Meets
  <2>. QED  BY <1>5, <2>2, <2>3
<1>7. ASSUME NEW i \in 1..Len(t) PROVE Number(s, t[i], h + i)
  <2>1. CASE i <= Len(q)
    <3>1. t[i] = q[i] /\ Number(s, q[i], f + i)
      BY <1>1, <1>2, <2>1
    <3>2. CASE f = h
      BY <3>1, <3>2
    <3>3. CASE f + Len(q) <= 0 /\ g <= 0
      <4>1. ~(f + i > 0) /\ ~(h + i > 0)
        BY <1>1, <2>1, <3>3
      <4>. QED  BY <3>1, <4>1 DEF Number
    <3>. QED  BY <1>5, <3>2, <3>3
  <2>2. CASE i > Len(q)
    <3>1. i \in Len(q) + 1..Len(t)
      BY <1>1, <2>2
    <3>2. t[i] = r[i - Len(q)] /\ i - Len(q) \in 0 + 1..Len(r) /\ g + (i - Len(q)) = h + i
      BY <1>1, <3>1
    <3>3. Number(s, r[i - Len(q)], g + (i - Len(q)))
      BY <1>3, <3>2
    <3>. QED  BY <3>2, <3>3
  <2>. QED  BY <1>1, <2>1, <2>2
<1>. HIDE DEF h
<1>8. Link(s, t, 0, a, c)
  BY <1>1, <1>4, <1>6, <1>7 DEF Link
<1>. QED  BY <1>1, <1>8 DEF t

LEMMA LinkOfFirst ==
  ASSUME NEW s \in Nat, NEW q \in Bytes, NEW lo \in Nat, lo < Len(q), NEW a \in Nat, NEW b \in Nat,
         Link(s, q, lo, a, b)
  PROVE  \E n \in Nat : Char(s, q[lo + 1], a, n) /\ Link(s, q, lo + 1, n, b)
<1>1. Len(q) \in Nat /\ lo + 1 \in 1..Len(q) /\ q[lo + 1] \in Nat \X Nat
  BY DEF Bytes
<1>2. PICK f \in Int : Meets(f + lo, a) /\ Meets(f + Len(q), b) /\ \A i \in lo + 1..Len(q) : Number(s, q[i], f + i)
  BY DEF Link
<1>. DEFINE v == f + (lo + 1)
            n == IF v > 0 THEN v ELSE 0
<1>3. v \in Int /\ n \in Nat /\ Meets(f + (lo + 1), n)
  BY DEF Meets
<1>4. Number(s, q[lo + 1], v)
  BY <1>1, <1>2
<1>5. Char(s, q[lo + 1], a, n)
  BY <1>1, <1>2, <1>4 DEF Char, Number, Meets
<1>6. \A i \in (lo + 1) + 1..Len(q) : Number(s, q[i], f + i)
  BY <1>1, <1>2
<1>. HIDE DEF n, v
<1>7. Link(s, q, lo + 1, n, b)
  BY <1>2, <1>3, <1>6 DEF Link
<1>. QED  BY <1>3, <1>5, <1>7

LEMMA ChainOfEmpty ==
  ASSUME NEW s \in Nat, NEW a \in Nat, NEW b \in Nat
  PROVE  Chain(s, <<>>, a, b) <=> a = b
<1>1. Len(<<>>) = 0 /\ 0..0 = {0} /\ 1..0 = {}
  BY EmptyBytes
<1>2. ASSUME a = b PROVE Chain(s, <<>>, a, b)
  <2>. DEFINE e == [j \in 0..Len(<<>>) |-> a]
  <2>1. e \in [0..Len(<<>>) -> Nat] /\ e[0] = a /\ e[Len(<<>>)] = b
    BY <1>1, <1>2
  <2>2. \A j \in 1..Len(<<>>) : Link(s, <<>>[j].bytes, 0, e[j - 1], e[j])
    BY <1>1
  <2>. HIDE DEF e
  <2>. QED  BY <2>1, <2>2 DEF Chain
<1>3. ASSUME Chain(s, <<>>, a, b) PROVE a = b
  BY <1>1, <1>3 DEF Chain
<1>. QED  BY <1>2, <1>3

LEMMA ChainOfMore ==
  ASSUME NEW s \in Nat, NEW bank \in Seq(Packet), NEW p \in Packet, NEW a \in Nat, NEW b \in Nat, NEW c \in Nat,
         Chain(s, bank, a, b), Link(s, p.bytes, 0, b, c)
  PROVE  Chain(s, Append(bank, p), a, c)
<1>. DEFINE t == Append(bank, p)
            l == Len(bank)
<1>1. l \in Nat /\ Len(t) = l + 1 /\ t[l + 1] = p /\ \A j \in 1..l : t[j] = bank[j]
  BY AppendProperties
<1>2. PICK e \in [0..l -> Nat] : e[0] = a /\ e[l] = b /\ \A j \in 1..l : Link(s, bank[j].bytes, 0, e[j - 1], e[j])
  BY DEF Chain
<1>. HIDE DEF t, l
<1>. DEFINE g == [j \in 0..l + 1 |-> IF j = l + 1 THEN c ELSE e[j]]
<1>3. g \in [0..l + 1 -> Nat] /\ g[0] = a /\ g[l + 1] = c /\ \A j \in 0..l : g[j] = e[j]
  BY <1>1, <1>2
<1>. HIDE DEF g
<1>4. ASSUME NEW j \in 1..l + 1 PROVE Link(s, t[j].bytes, 0, g[j - 1], g[j])
  <2>1. CASE j = l + 1
    <3>1. j - 1 = l /\ l \in 0..l
      BY <1>1, <2>1
    <3>2. g[j - 1] = b /\ g[j] = c /\ t[j] = p
      BY <1>1, <1>2, <1>3, <2>1, <3>1
    <3>. QED  BY <3>2
  <2>2. CASE j # l + 1
    <3>1. j \in 1..l /\ j \in 0..l /\ j - 1 \in 0..l
      BY <1>1, <2>2
    <3>2. g[j - 1] = e[j - 1] /\ g[j] = e[j] /\ t[j] = bank[j]
      BY <1>1, <1>3, <3>1
    <3>. QED  BY <1>2, <3>1, <3>2
  <2>. QED  BY <2>1, <2>2
<1>5. Len(t) = l + 1
  BY <1>1
<1>6. Chain(s, t, a, c)
  BY <1>3, <1>4, <1>5 DEF Chain
<1>. QED  BY <1>6 DEF t

LEMMA ChainOfFirst ==
  ASSUME NEW s \in Nat, NEW bank \in Seq(Packet), bank # <<>>, NEW a \in Nat, NEW b \in Nat, Chain(s, bank, a, b)
  PROVE  \E n \in Nat : Link(s, Head(bank).bytes, 0, a, n) /\ Chain(s, Tail(bank), n, b)
<1>. DEFINE t == Tail(bank)
            l == Len(t)
<1>1. l \in Nat /\ Len(bank) = l + 1 /\ Head(bank) = bank[1] /\ \A j \in 1..l : t[j] = bank[j + 1]
  <2>1. Len(bank) \in Nat /\ Len(bank) # 0
    BY EmptySeq
  <2>. QED  BY <2>1, HeadTailProperties
<1>. HIDE DEF t, l
<1>2. PICK e \in [0..l + 1 -> Nat] :
        e[0] = a /\ e[l + 1] = b /\ \A j \in 1..l + 1 : Link(s, bank[j].bytes, 0, e[j - 1], e[j])
  BY <1>1 DEF Chain
<1>. DEFINE n == e[1]
            g == [j \in 0..l |-> e[j + 1]]
<1>3. 1 \in 1..l + 1 /\ 1 \in 0..l + 1 /\ 1 - 1 = 0 /\ n \in Nat
  BY <1>1
<1>4. Link(s, Head(bank).bytes, 0, a, n)
  BY <1>1, <1>2, <1>3
<1>5. g \in [0..l -> Nat] /\ g[0] = n /\ g[l] = b /\ \A j \in 0..l : g[j] = e[j + 1]
  <2>1. \A j \in 0..l : e[j + 1] \in Nat
    BY <1>1
  <2>. QED  BY <1>1, <1>2, <2>1
<1>. HIDE DEF g, n
<1>6. ASSUME NEW j \in 1..l PROVE Link(s, t[j].bytes, 0, g[j - 1], g[j])
  <2>1. j + 1 \in 1..l + 1 /\ (j + 1) - 1 = j /\ (j - 1) + 1 = j /\ j \in 0..l /\ j - 1 \in 0..l
    BY <1>1
  <2>2. g[j - 1] = e[j] /\ g[j] = e[j + 1] /\ t[j] = bank[j + 1]
    BY <1>1, <1>5, <2>1
  <2>3. Link(s, bank[j + 1].bytes, 0, e[(j + 1) - 1], e[j + 1])
    BY <1>2, <2>1
  <2>. QED  BY <2>1, <2>2, <2>3
<1>7. Chain(s, t, n, b)
  BY <1>5, <1>6 DEF Chain, l
<1>. QED  BY <1>3, <1>4, <1>7 DEF t

(* The session's bytes among those linked, and their numbers. *)
Own(s, q, n) == {k \in 1..n : q[k][1] = s}

LEMMA LinkCounts ==
  ASSUME NEW s \in Nat, NEW q \in Bytes, NEW a \in Nat, NEW b \in Nat, Link(s, q, 0, a, b)
  PROVE  /\ b = a + Cardinality(Own(s, q, Len(q)))
         /\ \A k \in Own(s, q, Len(q)) : q[k][2] = a + Cardinality(Own(s, q, k))
<1>1. PICK f \in Int : Meets(f + 0, a) /\ Meets(f + Len(q), b) /\ \A i \in 0 + 1..Len(q) : Number(s, q[i], f + i)
  BY DEF Link
<1>2. Len(q) \in Nat /\ \A i \in 1..Len(q) : q[i] \in Nat \X Nat
  BY DEF Bytes
<1>3. ASSUME NEW i \in 1..Len(q) PROVE (q[i][1] = s <=> f + i > 0) /\ (f + i > 0 => q[i][2] = f + i)
  <2>1. Number(s, q[i], f + i)
    BY <1>1
  <2>. QED  BY <1>2, <2>1 DEF Number
<1>4. ASSUME NEW n \in 0..Len(q) PROVE a + Cardinality(Own(s, q, n)) = IF f + n > 0 THEN f + n ELSE 0
  <2>1. Own(s, q, n) = {k \in 1..n : f + k > 0}
    <3>1. \A k \in 1..n : k \in 1..Len(q)
      BY <1>2
    <3>. QED  BY <1>3, <3>1 DEF Own
  <2>2. CASE f = a
    <3>1. Own(s, q, n) = 1..n
      BY <2>1, <2>2
    <3>2. Cardinality(1..n) = n
      BY FS_Interval
    <3>. QED  BY <2>2, <3>1, <3>2
  <2>3. CASE f # a
    <3>1. f <= 0 /\ a = 0
      BY <1>1, <2>3 DEF Meets
    <3>2. Own(s, q, n) = 1 - f..n
      BY <2>1, <3>1
    <3>3. Cardinality(1 - f..n) = IF 1 - f > n THEN 0 ELSE n - (1 - f) + 1
      BY FS_Interval
    <3>. QED  BY <3>1, <3>2, <3>3
  <2>. QED  BY <2>2, <2>3
<1>5. b = a + Cardinality(Own(s, q, Len(q)))
  <2>1. a + Cardinality(Own(s, q, Len(q))) = IF f + Len(q) > 0 THEN f + Len(q) ELSE 0
    BY <1>2, <1>4
  <2>. QED  BY <1>1, <1>2, <2>1 DEF Meets
<1>6. ASSUME NEW k \in Own(s, q, Len(q)) PROVE q[k][2] = a + Cardinality(Own(s, q, k))
  <2>1. k \in 1..Len(q) /\ q[k][1] = s
    BY <1>2 DEF Own
  <2>2. k \in 0..Len(q)
    BY <2>1
  <2>3. a + Cardinality(Own(s, q, k)) = IF f + k > 0 THEN f + k ELSE 0
    BY <1>4, <2>2
  <2>. QED  BY <1>3, <2>1, <2>3
<1>. QED  BY <1>5, <1>6

(* The bytes on their way from the current transmit buffer to the banks, and *)
(* from the banks to the current receive buffer.                             *)
Flight(d) == IF d.in.job.waiting THEN <<>> ELSE d.tx.data[Other(d.tx.sel)]
Coming(d) == IF d.rx.ongoing THEN d.out.job.data ELSE d.rx.data[Other(d.rx.sel)]

(* A transfer sends what is in the buffer until its data are sent.          *)
JobIn(d) ==
  /\ d.in.busy /\ ~d.in.job.waiting => d.in.job.data = d.tx.data[Other(d.tx.sel)]
  /\ ~d.in.busy => d.in.job = NoJob
  /\ ~d.in.enabled => d.in.bank = <<>>
JobOut(d) ==
  /\ ~d.out.busy => d.out.job = NoJob
  /\ ~d.out.enabled => d.out.bank = <<>>

(* Back to the host, and from it to the byte main is going to read next.    *)
Back(s, d, a, c) ==
  \E m, n \in Nat : Chain(s, d.in.bank, a, m) /\ Link(s, Flight(d), 0, m, n) /\ Link(s, d.tx.data[d.tx.sel], 0, n, c)
Ahead(s, d, rd, a, c) ==
  \E m, n \in Nat :
    Link(s, d.rx.data[d.rx.sel], rd, a, m) /\ Link(s, Coming(d), 0, m, n) /\ Chain(s, d.out.bank, n, c)

(* Nothing is of a session to come. *)
Past(s, q)  == \A k \in 1..Len(q) : q[k][1] <= s
PastRx(s, d) ==
  /\ \A i \in Bufs : Past(s, d.rx.data[i])
  /\ Past(s, d.out.job.data) /\ \A j \in 1..Len(d.out.bank) : Past(s, d.out.bank[j].bytes)

LEMMA NoJobFacts == NoJob.data = <<>> /\ ~NoJob.waiting /\ ~Endpoint.busy /\ Endpoint.job = NoJob /\ Endpoint.bank = <<>>
  BY DEF NoJob, Endpoint

LEMMA PastEmpty == ASSUME NEW s PROVE Past(s, <<>>)
  BY EmptyBytes DEF Past

LEMMA SendShape ==
  ASSUME NEW d \in DevType, Sending(d), JobIn(d), NEW e, e = udi_cdc_tx_send(d)
  PROVE  \/ e = d
         \/ /\ e.tx.data = d.tx.data /\ e.in.bank = d.in.bank /\ e.in.enabled = d.in.enabled /\ JobIn(e)
            /\ e.stdio = d.stdio /\ e.running = d.running
            /\ \E buf \in Bufs : /\ Flight(e) = d.tx.data[buf] /\ e.tx.sel = Other(buf)
                                 /\ d.tx.both => buf = Other(d.tx.sel)
                                 /\ ~d.tx.both => buf = d.tx.sel /\ d.tx.data[Other(buf)] = <<>>
                                 /\ Flight(d) = d.tx.data[Other(d.tx.sel)]
<1>. DEFINE buf   == IF d.tx.both THEN Other(d.tx.sel) ELSE d.tx.sel
            data  == d.tx.data[buf]
            short == Len(data) # BufferSize
            tx    == [d.tx EXCEPT !.sel = Other(buf), !.ongoing = TRUE, !.sof = IF short THEN d.frame ELSE 0]
            in    == IF CanRun(d.in) THEN RunIn(d.in, buf, data, short) ELSE d.in
<1>1. SUFFICES ASSUME ~(d.tx.ongoing \/ d.tx.sof = d.frame)
               PROVE  /\ e.tx.data = d.tx.data /\ e.in.bank = d.in.bank /\ e.in.enabled = d.in.enabled /\ JobIn(e)
                      /\ e.stdio = d.stdio /\ e.running = d.running
                      /\ \E b \in Bufs : /\ Flight(e) = d.tx.data[b] /\ e.tx.sel = Other(b)
                                         /\ d.tx.both => b = Other(d.tx.sel)
                                         /\ ~d.tx.both => b = d.tx.sel /\ d.tx.data[Other(b)] = <<>>
                                         /\ Flight(d) = d.tx.data[Other(d.tx.sel)]
  BY DEF udi_cdc_tx_send
<1>2. e = [d EXCEPT !.tx = tx, !.in = in]
  BY <1>1 DEF udi_cdc_tx_send, DevType, TxType
<1>3. /\ d.tx \in TxType /\ d.in \in EndpointType /\ d.tx.sel \in Bufs /\ buf \in Bufs
      /\ Other(buf) \in Bufs /\ Other(Other(buf)) = buf
  BY OtherType DEF DevType, TxType
<1>4. ~d.in.busy /\ d.in.job = NoJob /\ (~d.tx.both => d.tx.data[Other(d.tx.sel)] = <<>>)
  BY <1>1 DEF Sending, JobIn
<1>5. tx.data = d.tx.data /\ tx.sel = Other(buf)
  BY <1>3 DEF TxType
<1>6. /\ in.bank = d.in.bank /\ in.enabled = d.in.enabled
      /\ in.busy => in.job.data = data /\ (in.job.waiting => data = <<>>)
      /\ ~in.busy => in.job = NoJob
  <2>. HIDE DEF buf, data, short
  <2>1. CASE CanRun(d.in)
    <3>1. in = RunIn(d.in, buf, data, short)
      BY <2>1
    <3>. HIDE DEF in
    <3>. QED  BY <1>3, <3>1 DEF RunIn, Job, EndpointType, JobType
  <2>2. CASE ~CanRun(d.in)
    BY <1>4, <2>2
  <2>. QED  BY <2>1, <2>2
<1>. HIDE DEF tx, in
<1>7. e.tx = tx /\ e.in = in /\ e.stdio = d.stdio /\ e.running = d.running
  BY <1>2 DEF DevType
<1>8. Flight(e) = data
  <2>1. CASE in.busy
    BY <1>3, <1>5, <1>6, <1>7, <2>1 DEF Flight
  <2>2. CASE ~in.busy
    BY <1>3, <1>5, <1>6, <1>7, <2>2, NoJobFacts DEF Flight
  <2>. QED  BY <2>1, <2>2
<1>9. JobIn(e)
  <2>1. e.in.enabled = d.in.enabled /\ e.in.bank = d.in.bank
    BY <1>6, <1>7
  <2>2. e.tx.data[Other(e.tx.sel)] = data
    BY <1>3, <1>5, <1>7
  <2>. HIDE DEF data
  <2>. QED  BY <1>6, <1>7, <2>1, <2>2 DEF JobIn
<1>10. Flight(d) = d.tx.data[Other(d.tx.sel)]
  BY <1>4, NoJobFacts DEF Flight
<1>11. /\ d.tx.both => buf = Other(d.tx.sel)
       /\ ~d.tx.both => buf = d.tx.sel /\ d.tx.data[Other(buf)] = <<>>
  BY <1>4
<1>12. e.tx.data = d.tx.data /\ e.in.bank = d.in.bank /\ e.in.enabled = d.in.enabled /\ e.tx.sel = Other(buf)
  BY <1>5, <1>6, <1>7
<1>13. Flight(e) = d.tx.data[buf] /\ buf \in Bufs
  BY <1>3, <1>8
<1>. HIDE DEF data, buf
<1>. QED  BY <1>7, <1>9, <1>10, <1>11, <1>12, <1>13

(* A transfer begun takes the bytes along in their order. *)
LEMMA SendMoves ==
  ASSUME NEW d \in DevType, Sending(d), JobIn(d), NEW e, e = udi_cdc_tx_send(d), NEW s \in Nat
  PROVE  /\ JobIn(e) /\ e.in.bank = d.in.bank /\ e.in.enabled = d.in.enabled
         /\ e.stdio = d.stdio /\ e.running = d.running
         /\ \A a, c \in Nat : Back(s, d, a, c) => Back(s, e, a, c)
<1>1. CASE e = d
  BY <1>1
<1>2. CASE e # d
  <2>1. PICK buf \in Bufs :
          /\ Flight(e) = d.tx.data[buf] /\ e.tx.sel = Other(buf)
          /\ d.tx.both => buf = Other(d.tx.sel)
          /\ ~d.tx.both => buf = d.tx.sel /\ d.tx.data[Other(buf)] = <<>>
          /\ Flight(d) = d.tx.data[Other(d.tx.sel)]
    BY <1>2, SendShape
  <2>2. /\ e.tx.data = d.tx.data /\ e.in.bank = d.in.bank /\ e.in.enabled = d.in.enabled /\ JobIn(e)
        /\ e.stdio = d.stdio /\ e.running = d.running
    BY <1>2, SendShape
  <2>3. d.tx.sel \in Bufs /\ Other(Other(d.tx.sel)) = d.tx.sel
    BY OtherType DEF DevType, TxType
  <2>4. CASE d.tx.both
    <3>1. Flight(e) = Flight(d) /\ e.tx.data[e.tx.sel] = d.tx.data[d.tx.sel]
      BY <2>1, <2>2, <2>3, <2>4
    <3>. QED  BY <2>2, <3>1 DEF Back
  <2>5. CASE ~d.tx.both
    <3>1. Flight(d) = <<>> /\ Flight(e) = d.tx.data[d.tx.sel] /\ e.tx.data[e.tx.sel] = <<>>
      BY <2>1, <2>2, <2>3, <2>5
    <3>2. ASSUME NEW a \in Nat, NEW c \in Nat, Back(s, d, a, c) PROVE Back(s, e, a, c)
      <4>1. PICK m \in Nat, n \in Nat :
              Chain(s, d.in.bank, a, m) /\ Link(s, <<>>, 0, m, n) /\ Link(s, d.tx.data[d.tx.sel], 0, n, c)
        BY <3>1, <3>2 DEF Back
      <4>2. m = n
        BY <4>1, LinkOfEmpty
      <4>3. Link(s, <<>>, 0, c, c)
        BY LinkOfEmpty
      <4>. QED  BY <2>2, <3>1, <4>1, <4>2, <4>3 DEF Back
    <3>. QED  BY <2>2, <3>2
  <2>. QED  BY <2>4, <2>5
<1>. QED  BY <1>1, <1>2

LEMMA SentMoves ==
  ASSUME NEW d \in DevType, d.in.busy = FALSE, d.in.job = NoJob, Len(d.tx.data[d.tx.sel]) <= BufferSize,
         ~d.in.enabled => d.in.bank = <<>>,
         NEW e, e = udi_cdc_data_sent(d), NEW s \in Nat
  PROVE  /\ JobIn(e) /\ e.in.enabled = d.in.enabled
         /\ e.stdio = d.stdio /\ e.running = d.running
         /\ \A a, m, c \in Nat : Chain(s, d.in.bank, a, m) /\ Link(s, d.tx.data[d.tx.sel], 0, m, c) => Back(s, e, a, c)
<1>. DEFINE tx == [d.tx EXCEPT !.data[Other(d.tx.sel)] = <<>>, !.both = FALSE, !.ongoing = FALSE]
            f  == [d EXCEPT !.tx = tx]
<1>1. d.tx \in TxType /\ d.tx.sel \in Bufs /\ Other(d.tx.sel) \in Bufs /\ Other(d.tx.sel) # d.tx.sel
  BY OtherType DEF DevType, TxType
<1>2. /\ tx \in TxType /\ tx.sel = d.tx.sel /\ ~tx.both /\ ~tx.ongoing
      /\ tx.data[Other(tx.sel)] = <<>> /\ tx.data[tx.sel] = d.tx.data[d.tx.sel]
  BY <1>1, EmptyBytes DEF TxType
<1>3. /\ f \in DevType /\ f.tx = tx /\ f.in = d.in /\ f.rx = d.rx /\ f.out = d.out
      /\ f.stdio = d.stdio /\ f.running = d.running
  BY <1>2 DEF DevType
<1>4. Sending(f) /\ JobIn(f)
  BY <1>2, <1>3 DEF Sending, JobIn
<1>5. e = udi_cdc_tx_send(f)
  BY DEF udi_cdc_data_sent, DevType, TxType
<1>. HIDE DEF f, tx
<1>6. /\ JobIn(e) /\ e.in.bank = f.in.bank /\ e.in.enabled = f.in.enabled
      /\ e.stdio = f.stdio /\ e.running = f.running
      /\ \A a, c \in Nat : Back(s, f, a, c) => Back(s, e, a, c)
  BY <1>3, <1>4, <1>5, SendMoves
<1>7. ASSUME NEW a \in Nat, NEW m \in Nat, NEW c \in Nat,
             Chain(s, d.in.bank, a, m), Link(s, d.tx.data[d.tx.sel], 0, m, c)
      PROVE  Back(s, e, a, c)
  <2>1. Flight(f) = <<>> /\ f.tx.data[f.tx.sel] = d.tx.data[d.tx.sel] /\ f.in.bank = d.in.bank
    BY <1>2, <1>3 DEF Flight
  <2>2. Link(s, Flight(f), 0, m, m)
    BY <2>1, LinkOfEmpty
  <2>3. Back(s, f, a, c)
    BY <1>7, <2>1, <2>2 DEF Back
  <2>. QED  BY <1>6, <2>3
<1>. QED  BY <1>3, <1>6, <1>7

LEMMA ReceiveMoves ==
  ASSUME NEW d \in DevType, NEW buf \in Bufs, ~d.out.busy, d.rx.ongoing, JobOut(d), NEW e, e = Receive(d, buf)
  PROVE  /\ JobOut(e) /\ e.rx = d.rx /\ Coming(e) = Coming(d) /\ e.out.bank = d.out.bank
         /\ e.in = d.in /\ e.tx = d.tx /\ e.out.enabled = d.out.enabled /\ e.stdio = d.stdio /\ e.running = d.running
         /\ e.out.job.data = <<>> /\ Coming(d) = <<>>
<1>. DEFINE out == IF CanRun(d.out) THEN RunOut(d.out, buf) ELSE d.out
<1>1. e = [d EXCEPT !.out = out]
  BY DEF Receive
<1>2. d.out.job = NoJob /\ d.out.job.data = <<>> /\ d.out \in EndpointType
  BY NoJobFacts DEF JobOut, DevType
<1>3. /\ out.bank = d.out.bank /\ out.enabled = d.out.enabled /\ out.job.data = <<>>
      /\ ~out.busy => out.job = NoJob
  BY <1>2 DEF RunOut, Job, EndpointType, JobType
<1>. HIDE DEF out
<1>4. /\ e.rx = d.rx /\ e.in = d.in /\ e.tx = d.tx /\ e.out = out /\ e.stdio = d.stdio /\ e.running = d.running
  BY <1>1 DEF DevType
<1>. QED  BY <1>2, <1>3, <1>4 DEF JobOut, Coming

LEMMA SwitchedMoves ==
  ASSUME NEW d \in DevType, MayReceive(d), Receiving(d), NEW e, e = Switched(d), NEW s \in Nat, JobOut(d)
  PROVE  /\ e.rx.data = d.rx.data /\ e.rx.pos = 0 /\ e.rx.ongoing /\ JobOut(e) /\ ~e.out.busy /\ Coming(e) = <<>>
         /\ e.out = d.out /\ e.in = d.in /\ e.tx = d.tx /\ e.stdio = d.stdio /\ e.running = d.running
         /\ e.rx.pos <= Len(e.rx.data[e.rx.sel])
         /\ \A a, c \in Nat : d.rx.pos <= Len(d.rx.data[d.rx.sel]) /\ Ahead(s, d, d.rx.pos, a, c) => Ahead(s, e, 0, a, c)
<1>1. /\ d.rx \in RxType /\ d.rx.sel \in Bufs /\ Other(d.rx.sel) \in Bufs /\ d.rx.pos \in Nat
      /\ d.rx.data[d.rx.sel] \in Bytes /\ d.rx.data[Other(d.rx.sel)] \in Bytes
  BY OtherType DEF DevType, RxType
<1>2. ~d.rx.ongoing /\ ~(d.rx.pos < Len(d.rx.data[d.rx.sel])) /\ ~d.out.busy /\ d.out.job.data = <<>>
  BY NoJobFacts DEF MayReceive, udi_cdc_is_rx_ready, Receiving, JobOut
<1>3. /\ e.rx.data = d.rx.data /\ e.rx.pos = 0 /\ e.rx.ongoing /\ e.rx.sel = Other(d.rx.sel)
      /\ e.out = d.out /\ e.in = d.in /\ e.tx = d.tx /\ e.stdio = d.stdio /\ e.running = d.running
  BY DEF Switched, DevType, RxType
<1>4. Coming(e) = <<>> /\ Coming(d) = d.rx.data[Other(d.rx.sel)] /\ JobOut(e)
  BY <1>2, <1>3 DEF Coming, JobOut
<1>5. ASSUME NEW a \in Nat, NEW c \in Nat, d.rx.pos <= Len(d.rx.data[d.rx.sel]), Ahead(s, d, d.rx.pos, a, c)
      PROVE  Ahead(s, e, 0, a, c)
  <2>1. PICK m \in Nat, n \in Nat :
          /\ Link(s, d.rx.data[d.rx.sel], d.rx.pos, a, m) /\ Link(s, d.rx.data[Other(d.rx.sel)], 0, m, n)
          /\ Chain(s, d.out.bank, n, c)
    BY <1>4, <1>5 DEF Ahead
  <2>2. d.rx.pos = Len(d.rx.data[d.rx.sel])
    BY <1>1, <1>2, <1>5 DEF Bytes
  <2>3. a = m
    BY <1>1, <2>1, <2>2, LinkOfNone
  <2>4. Link(s, <<>>, 0, n, n)
    BY LinkOfEmpty
  <2>. QED  BY <1>3, <1>4, <2>1, <2>3, <2>4 DEF Ahead
<1>6. 0 <= Len(e.rx.data[e.rx.sel])
  BY <1>1, <1>3 DEF Bytes
<1>. QED  BY <1>2, <1>3, <1>4, <1>5, <1>6

LEMMA StartMoves ==
  ASSUME NEW d \in DevType, Receiving(d), NEW e, e = udi_cdc_rx_start(d), NEW s \in Nat, JobOut(d)
  PROVE  /\ udi_cdc_is_rx_ready(d) => e = d
         /\ e.rx.data = d.rx.data /\ JobOut(e) /\ e.out.bank = d.out.bank /\ e.stdio = d.stdio /\ e.running = d.running
         /\ e.out.job.data \in {<<>>, d.out.job.data}
         /\ d.rx.pos <= Len(d.rx.data[d.rx.sel]) =>
              /\ e.rx.pos <= Len(e.rx.data[e.rx.sel])
              /\ \A a, c \in Nat : Ahead(s, d, d.rx.pos, a, c) => Ahead(s, e, e.rx.pos, a, c)
<1>1. CASE MayReceive(d)
  <2>. DEFINE f == Switched(d)
  <2>1. f = Switched(d)
    OBVIOUS
  <2>2. e = Receive(f, d.rx.sel) /\ d.rx.sel \in Bufs /\ ~d.out.busy
    BY <1>1 DEF udi_cdc_rx_start, DevType, RxType, MayReceive, Receiving
  <2>. HIDE DEF f
  <2>3. f \in DevType
    BY <2>1, <2>2, SwitchedKeeps
  <2>4. /\ f.rx.data = d.rx.data /\ f.rx.pos = 0 /\ f.rx.ongoing /\ JobOut(f) /\ ~f.out.busy
        /\ f.out = d.out /\ f.stdio = d.stdio /\ f.running = d.running
        /\ f.rx.pos <= Len(f.rx.data[f.rx.sel])
        /\ \A a, c \in Nat : d.rx.pos <= Len(d.rx.data[d.rx.sel]) /\ Ahead(s, d, d.rx.pos, a, c) => Ahead(s, f, 0, a, c)
    BY <1>1, <2>1, SwitchedMoves
  <2>5. /\ JobOut(e) /\ e.rx = f.rx /\ Coming(e) = Coming(f) /\ e.out.bank = f.out.bank
        /\ e.stdio = f.stdio /\ e.running = f.running /\ e.out.job.data = <<>>
    BY <2>2, <2>3, <2>4, ReceiveMoves
  <2>6. \A a, c \in Nat : Ahead(s, f, 0, a, c) => Ahead(s, e, 0, a, c)
    BY <2>5 DEF Ahead
  <2>7. ~udi_cdc_is_rx_ready(d)
    BY <1>1 DEF MayReceive
  <2>. QED  BY <2>4, <2>5, <2>6, <2>7
<1>2. CASE ~MayReceive(d)
  BY <1>2 DEF udi_cdc_rx_start
<1>3. udi_cdc_is_rx_ready(d) => ~MayReceive(d)
  BY DEF MayReceive
<1>. QED  BY <1>1, <1>2, <1>3

(* What a reception that has ended keeps, and where its bytes are then. *)
Received(s, d, data, e) ==
  /\ JobOut(e) /\ e.out.bank = d.out.bank /\ e.stdio = d.stdio /\ e.running = d.running
  /\ e.out.job.data = <<>> /\ \A i \in Bufs : e.rx.data[i] \in {data, d.rx.data[i]}
  /\ udi_cdc_is_rx_ready(d) => /\ e.rx.pos = d.rx.pos
                               /\ e.rx.data[e.rx.sel] = d.rx.data[d.rx.sel]
                               /\ \A rd, a, m, n, c \in Nat :
                                    /\ Link(s, d.rx.data[d.rx.sel], rd, a, m) /\ Link(s, data, 0, m, n)
                                    /\ Chain(s, d.out.bank, n, c)
                                    => Ahead(s, e, rd, a, c)
  /\ d.rx.pos <= Len(d.rx.data[d.rx.sel]) =>
       /\ e.rx.pos <= Len(e.rx.data[e.rx.sel])
       /\ \A a, m, n, c \in Nat :
            /\ Link(s, d.rx.data[d.rx.sel], d.rx.pos, a, m) /\ Link(s, data, 0, m, n)
            /\ Chain(s, d.out.bank, n, c)
            => Ahead(s, e, e.rx.pos, a, c)

LEMMA ReceivedMoves ==
  ASSUME NEW d \in DevType, NEW data \in Bytes, d.out.busy = FALSE, NEW e, e = udi_cdc_data_recevied(d, data),
         NEW s \in Nat, JobOut(d)
  PROVE  Received(s, d, data, e)
<1>. DEFINE rx == [d.rx EXCEPT !.data[Other(d.rx.sel)] = data, !.ongoing = FALSE]
            f  == [d EXCEPT !.rx = rx]
<1>1. d.rx \in RxType /\ d.rx.sel \in Bufs /\ Other(d.rx.sel) \in Bufs /\ Other(d.rx.sel) # d.rx.sel
  BY OtherType DEF DevType, RxType
<1>2. /\ rx \in RxType /\ rx.sel = d.rx.sel /\ rx.pos = d.rx.pos /\ ~rx.ongoing
      /\ rx.data[rx.sel] = d.rx.data[d.rx.sel] /\ rx.data[Other(rx.sel)] = data
      /\ \A i \in Bufs : rx.data[i] \in {data, d.rx.data[i]}
  BY <1>1 DEF RxType
<1>. HIDE DEF rx
<1>3. /\ f \in DevType /\ f.rx = rx /\ f.out = d.out /\ f.stdio = d.stdio /\ f.running = d.running
  BY <1>2 DEF DevType
<1>4. e = udi_cdc_rx_start(f)
  BY DEF udi_cdc_data_recevied, DevType, RxType, rx
<1>. HIDE DEF f
<1>5. Receiving(f) /\ JobOut(f) /\ Coming(f) = data /\ f.out.job.data = <<>>
  BY <1>2, <1>3, NoJobFacts DEF Receiving, JobOut, Coming
<1>6. /\ udi_cdc_is_rx_ready(f) => e = f
      /\ e.rx.data = f.rx.data /\ JobOut(e) /\ e.out.bank = f.out.bank /\ e.stdio = f.stdio /\ e.running = f.running
      /\ e.out.job.data \in {<<>>, f.out.job.data}
      /\ f.rx.pos <= Len(f.rx.data[f.rx.sel]) =>
              /\ e.rx.pos <= Len(e.rx.data[e.rx.sel])
              /\ \A a, c \in Nat : Ahead(s, f, f.rx.pos, a, c) => Ahead(s, e, e.rx.pos, a, c)
  BY <1>3, <1>4, <1>5, StartMoves
<1>7. ASSUME NEW rd \in Nat, NEW a \in Nat, NEW m \in Nat, NEW n \in Nat, NEW c \in Nat,
             Link(s, d.rx.data[d.rx.sel], rd, a, m), Link(s, data, 0, m, n), Chain(s, d.out.bank, n, c)
      PROVE  Ahead(s, f, rd, a, c)
  BY <1>2, <1>3, <1>5, <1>7 DEF Ahead
<1>8. /\ udi_cdc_is_rx_ready(d) <=> udi_cdc_is_rx_ready(f)
      /\ f.rx.pos = d.rx.pos /\ f.rx.data[f.rx.sel] = d.rx.data[d.rx.sel] /\ d.rx.pos \in Nat
  BY <1>1, <1>2, <1>3 DEF udi_cdc_is_rx_ready, RxType
<1>9. \A i \in Bufs : e.rx.data[i] \in {data, d.rx.data[i]}
  BY <1>2, <1>3, <1>6
<1>10. JobOut(e) /\ e.out.bank = d.out.bank /\ e.stdio = d.stdio /\ e.running = d.running /\ e.out.job.data = <<>>
  BY <1>3, <1>5, <1>6
<1>11. CASE udi_cdc_is_rx_ready(d)
  BY <1>6, <1>7, <1>8, <1>9, <1>10, <1>11, SMTT(60) DEF Received
<1>12. CASE ~udi_cdc_is_rx_ready(d)
  BY <1>6, <1>7, <1>8, <1>9, <1>10, <1>12 DEF Received
<1>. QED  BY <1>11, <1>12

(* The data interface is enabled in a new session: all bytes about are old. *)
LEMMA EnableMoves ==
  ASSUME NEW d \in DevType, d.in.busy = FALSE, d.out.busy = FALSE, d.in.job = NoJob, d.out.job = NoJob,
         d.in.bank = <<>>, d.out.bank = <<>>,
         NEW s \in Nat, \A i \in Bufs : Past(s, d.rx.data[i]), NEW e, e = udi_cdc_data_enable(d)
  PROVE  /\ JobIn(e) /\ JobOut(e) /\ PastRx(s, e) /\ e.rx.pos = 0 /\ e.stdio = d.stdio
         /\ Back(s + 1, e, 0, 0) /\ Ahead(s + 1, e, 0, 0, 0)
         /\ ~e.running => e.rx.ongoing /\ ~e.out.busy
<1>. DEFINE f == [d EXCEPT !.tx = NoTx]
            t == udi_cdc_tx_send(f)
            u == [t EXCEPT !.rx.ongoing = FALSE, !.rx.sel = 0, !.rx.data[0] = <<>>, !.rx.pos = 0]
            r == udi_cdc_rx_start(u)
            z == s + 1
<1>0. z \in Nat /\ 0 \in Nat
  OBVIOUS
<1>1. /\ NoTx \in TxType /\ ~NoTx.both /\ NoTx.data[Other(NoTx.sel)] = <<>>
      /\ NoTx.data[NoTx.sel] = <<>>
  BY EmptyBytes DEF NoTx, TxType, Bufs, Other
<1>2. f \in DevType /\ f.tx = NoTx /\ f.in = d.in /\ f.out = d.out /\ f.rx = d.rx /\ f.stdio = d.stdio
  BY <1>1 DEF DevType
<1>3. Sending(f) /\ JobIn(f)
  BY <1>1, <1>2, EmptyBytes, UsbCdcAssumption DEF Sending, JobIn
<1>4. Back(z, f, 0, 0)
  <2>1. Flight(f) = <<>> /\ f.tx.data[f.tx.sel] = <<>> /\ f.in.bank = <<>>
    BY <1>1, <1>2 DEF Flight
  <2>. HIDE DEF z
  <2>2. Link(z, <<>>, 0, 0, 0) /\ Chain(z, <<>>, 0, 0)
    BY <1>0, LinkOfEmpty, ChainOfEmpty
  <2>. QED  BY <2>1, <2>2 DEF Back
<1>5. t = udi_cdc_tx_send(f)
  OBVIOUS
<1>. HIDE DEF f, t, z
<1>6. /\ JobIn(t) /\ Back(z, t, 0, 0) /\ t.in.enabled = f.in.enabled
  BY <1>0, <1>2, <1>3, <1>4, <1>5, SendMoves
<1>7. t \in DevType /\ t.rx = f.rx /\ t.out = f.out /\ Sending(t) /\ t.stdio = f.stdio
  <2>1. t \in DevType /\ t.rx = f.rx /\ t.out = f.out /\ Sending(t)
    BY <1>2, <1>3, <1>5, SendKeeps
  <2>2. t.stdio = f.stdio
    BY <1>2, <1>3, <1>5, SendMoves
  <2>. QED  BY <2>1, <2>2
<1>8. /\ u \in DevType /\ u.tx = t.tx /\ u.in = t.in /\ u.out = t.out /\ u.stdio = t.stdio
      /\ u.rx.sel = 0 /\ u.rx.pos = 0 /\ ~u.rx.ongoing /\ u.rx.data = [t.rx.data EXCEPT ![0] = <<>>]
  <2>. DEFINE rx == [t.rx EXCEPT !.ongoing = FALSE, !.sel = 0, !.data[0] = <<>>, !.pos = 0]
  <2>1. 0 \in Bufs
    BY DEF Bufs
  <2>2. rx \in RxType /\ rx.sel = 0 /\ rx.pos = 0 /\ ~rx.ongoing /\ rx.data = [t.rx.data EXCEPT ![0] = <<>>]
    BY <1>7, <2>1, EmptyBytes DEF DevType, RxType
  <2>3. u = [t EXCEPT !.rx = rx]
    BY <1>7 DEF DevType, RxType
  <2>. HIDE DEF rx, u
  <2>. QED  BY <1>7, <2>2, <2>3 DEF DevType
<1>9. r = udi_cdc_rx_start(u)
  OBVIOUS
<1>10. e = [r EXCEPT !.running = r.out.busy]
  BY DEF udi_cdc_data_enable, r, u, t, f
<1>. HIDE DEF u, r
<1>11. Receiving(u) /\ JobOut(u) /\ ~u.out.busy /\ u.out.job.data = <<>> /\ u.out.bank = <<>>
  BY <1>2, <1>7, <1>8, NoJobFacts DEF Receiving, JobOut
<1>12. \A i \in Bufs : u.rx.data[i] \in Bytes /\ Past(s, u.rx.data[i])
  <2>1. \A i \in Bufs : u.rx.data[i] \in {<<>>, d.rx.data[i]}
    BY <1>2, <1>7, <1>8 DEF DevType, RxType
  <2>. QED  BY <1>8, <2>1, PastEmpty DEF DevType, RxType
<1>13. Ahead(z, u, 0, 0, 0) /\ u.rx.data[u.rx.sel] = <<>>
  <2>1. u.rx.data[0] = <<>> /\ u.rx.sel = 0 /\ Coming(u) = u.rx.data[1] /\ 1 \in Bufs
    BY <1>7, <1>8 DEF DevType, RxType, Bufs, Coming, Other
  <2>2. u.rx.data[1] \in Bytes /\ \A i \in 0 + 1..Len(u.rx.data[1]) : u.rx.data[1][i][1] # z
    <3>1. u.rx.data[1] \in Bytes /\ Past(s, u.rx.data[1])
      BY <1>12, <2>1
    <3>2. \A i \in 1..Len(u.rx.data[1]) : u.rx.data[1][i] \in Nat \X Nat
      BY <3>1 DEF Bytes
    <3>. QED  BY <3>1, <3>2 DEF Past, z
  <2>3. 0 <= Len(u.rx.data[1])
    BY <2>2 DEF Bytes
  <2>4. Link(z, u.rx.data[1], 0, 0, 0)
    BY <1>0, <2>2, <2>3, LinkOfOld
  <2>5. Link(z, <<>>, 0, 0, 0) /\ Chain(z, <<>>, 0, 0)
    BY <1>0, LinkOfEmpty, ChainOfEmpty
  <2>. QED  BY <1>11, <2>1, <2>4, <2>5 DEF Ahead
<1>14. /\ r.rx.data = u.rx.data /\ JobOut(r) /\ r.out.bank = u.out.bank /\ r.out.job.data = <<>> /\ r.stdio = u.stdio
       /\ Ahead(z, r, r.rx.pos, 0, 0)
  <2>1. u.rx.pos = 0 /\ u.rx.pos <= Len(u.rx.data[u.rx.sel])
    BY <1>8, <1>13, EmptyBytes
  <2>2. /\ r.rx.data = u.rx.data /\ JobOut(r) /\ r.out.bank = u.out.bank /\ r.stdio = u.stdio
        /\ r.out.job.data \in {<<>>, u.out.job.data}
        /\ u.rx.pos <= Len(u.rx.data[u.rx.sel]) =>
              \A a, c \in Nat : Ahead(z, u, u.rx.pos, a, c) => Ahead(z, r, r.rx.pos, a, c)
    BY <1>0, <1>8, <1>9, <1>11, StartMoves
  <2>. QED  BY <1>0, <1>11, <1>13, <2>1, <2>2
<1>15. r.rx.pos = 0 /\ r.rx.ongoing
  <2>1. MayReceive(u)
    <3>1. u.rx.data[u.rx.sel] = <<>> /\ u.rx.pos = 0 /\ ~u.rx.ongoing
      BY <1>8, <1>13
    <3>. QED  BY <3>1, EmptyBytes DEF MayReceive, udi_cdc_is_rx_ready
  <2>. DEFINE v == Switched(u)
  <2>2. v \in DevType /\ v.rx.pos = 0 /\ v.rx.ongoing /\ ~v.out.busy /\ JobOut(v)
    <3>1. v = Switched(u)
      OBVIOUS
    <3>. HIDE DEF v
    <3>2. v \in DevType
      BY <1>8, <1>11, <3>1, SwitchedKeeps
    <3>. QED  BY <1>0, <1>8, <1>11, <2>1, <3>1, <3>2, SwitchedMoves
  <2>3. r = Receive(v, u.rx.sel) /\ u.rx.sel \in Bufs
    BY <1>8, <1>9, <2>1 DEF udi_cdc_rx_start, DevType, RxType
  <2>. HIDE DEF v
  <2>4. r.rx = v.rx
    BY <2>2, <2>3, ReceiveMoves
  <2>. QED  BY <2>2, <2>4
<1>16. r \in DevType /\ r.tx = u.tx /\ r.in = u.in
  BY <1>8, <1>9, <1>11, StartKeeps
<1>17. /\ e.tx = t.tx /\ e.in = t.in /\ e.rx = r.rx /\ e.out = r.out /\ e.stdio = r.stdio /\ e.running = r.out.busy
  BY <1>8, <1>10, <1>16 DEF DevType
<1>18. JobIn(e) /\ JobOut(e)
  BY <1>6, <1>14, <1>17 DEF JobIn, JobOut
<1>19. Back(z, e, 0, 0) /\ Ahead(z, e, 0, 0, 0)
  <2>1. Flight(e) = Flight(t) /\ Coming(e) = Coming(r)
    BY <1>17 DEF Flight, Coming
  <2>. QED  BY <1>6, <1>14, <1>15, <1>17, <2>1 DEF Back, Ahead
<1>20. PastRx(s, e)
  <2>1. e.out.bank = <<>> /\ e.out.job.data = <<>> /\ e.rx.data = u.rx.data
    BY <1>11, <1>14, <1>17
  <2>2. 1..Len(e.out.bank) = {}
    BY <2>1, EmptyBytes
  <2>. QED  BY <1>12, <2>1, <2>2, PastEmpty DEF PastRx
<1>21. e.stdio = d.stdio /\ e.rx.pos = 0 /\ (~e.running => e.rx.ongoing /\ ~e.out.busy)
  BY <1>2, <1>7, <1>8, <1>14, <1>15, <1>17
<1>. QED  BY <1>18, <1>19, <1>20, <1>21 DEF z

Echoes  == block.task = "echo"
Live    == dev.in.enabled /\ ~host.cut /\ (Echoes => ~host.mayLose)
Taken   == dev.rx.pos + (IF At("store") THEN 1 ELSE 0)
Written == IF block.session = host.session THEN block.next ELSE 0

(* The byte main has read and not written. *)
Held(c, n) == IF At("getc") THEN c = n ELSE Char(host.session, main.ch, c, n)
Source(c)  ==
  IF Echoes THEN \E n \in Nat : Held(c, n) /\ Ahead(host.session, dev, Taken, n, host.sent) ELSE c = Written

(* The way of the bytes has no gap from where the host has read to where it *)
(* has sent, or the block's writer has written.                             *)
Order == Live => \E c \in Nat : Back(host.session, dev, host.got, c) /\ Source(c)

(* What main drops is of an earlier session: the port is not open for it, or *)
(* no transfer of this session has been begun.                              *)
EchoPlace ==
  Live /\ Echoes =>
    /\ Taken <= Len(dev.rx.data[dev.rx.sel])
    /\ At("store") => main.pos = dev.rx.pos
    /\ ~At("getc") /\ (~dev.stdio \/ ~dev.running) => main.ch[1] # host.session
    /\ ~dev.running => /\ dev.rx.ongoing /\ ~dev.out.busy /\ ~Starting
                       /\ \A k \in 1..Len(dev.rx.data[dev.rx.sel]) : dev.rx.data[dev.rx.sel][k][1] # host.session

Known == PastRx(host.session, dev) /\ main.ch[1] <= host.session /\ block.session <= host.session

Ordered  == JobIn(dev) /\ JobOut(dev) /\ Known /\ Order /\ EchoPlace /\ BytesInOrder
OrderInv == BlockInv /\ Ordered

LEMMA OrderTypes ==
  ASSUME OrderInv
  PROVE  /\ Whole(dev) /\ dev \in DevType /\ dev.in \in EndpointType /\ dev.out \in EndpointType
         /\ dev.tx \in TxType /\ dev.rx \in RxType
         /\ main \in MainType /\ host \in HostType /\ block \in BlockType
         /\ host.session \in Nat /\ host.got \in Nat /\ host.sent \in Nat /\ Taken \in Nat
         /\ dev.rx.pos \in Nat /\ dev.rx.sel \in Bufs /\ dev.rx.data[dev.rx.sel] \in Bytes
         /\ main.ch \in Nat \X Nat /\ Written \in Nat
<1>1. /\ Whole(dev) /\ dev \in DevType /\ dev.in \in EndpointType /\ dev.out \in EndpointType
      /\ dev.tx \in TxType /\ dev.rx \in RxType
      /\ main \in MainType /\ host \in HostType /\ block \in BlockType
  BY DEF OrderInv, BlockInv, IInv, TypeOK, Whole, DevType
<1>2. /\ host.session \in Nat /\ host.got \in Nat /\ host.sent \in Nat /\ dev.rx.pos \in Nat /\ dev.rx.sel \in Bufs
      /\ dev.rx.data[dev.rx.sel] \in Bytes /\ main.ch \in Nat \X Nat /\ block.next \in Nat
  BY <1>1 DEF HostType, RxType, MainType, BlockType
<1>. QED  BY <1>1, <1>2 DEF Taken, Written

(* Steps on the way back to the host, and steps on the way from it. *)
LEMMA BackMoves ==
  ASSUME OrderInv, main' = main \/ Overtaken(dev.out), block' = block,
         host'.session = host.session, host'.sent = host.sent, host'.mayLose = host.mayLose, host'.cut = host.cut,
         dev'.rx = dev.rx, dev'.out.busy = dev.out.busy, dev'.out.job = dev.out.job, dev'.out.bank = dev.out.bank,
         dev'.out.enabled = dev.out.enabled, dev'.stdio = dev.stdio, dev'.running = dev.running,
         dev'.in.enabled = dev.in.enabled, JobIn(dev'), BytesInOrder',
         \A c \in Nat : Live /\ Back(host.session, dev, host.got, c) => Back(host.session, dev', host'.got, c)
  PROVE  Ordered'
<1>0. /\ main'.ch = main.ch /\ main'.pos = main.pos /\ (At("getc")' <=> At("getc")) /\ (At("store")' <=> At("store"))
      /\ Starting' <=> Starting
  <2>1. CASE main' = main
    BY <2>1 DEF At, Starting
  <2>2. CASE Overtaken(dev.out)
    <3>1. main \in MainType /\ main.pc = "run" /\ main' = [main EXCEPT !.pc = "begin"]
      BY <2>2, OrderTypes DEF Overtaken, At, Goto
    <3>. QED  BY <3>1 DEF MainType, At, Starting
  <2>. QED  BY <2>1, <2>2
<1>1. JobOut(dev') /\ Known'
  BY <1>0 DEF OrderInv, Ordered, JobOut, Known, PastRx
<1>2. (Live' <=> Live) /\ (Echoes' <=> Echoes) /\ Taken' = Taken /\ Written' = Written
  BY <1>0 DEF Live, Echoes, Taken, Written
<1>3. ASSUME NEW rd, NEW n, NEW c PROVE Ahead(host.session, dev', rd, n, c) <=> Ahead(host.session, dev, rd, n, c)
  BY DEF Ahead, Coming
<1>4. ASSUME NEW c \in Nat, Source(c) PROVE Source(c)'
  BY <1>0, <1>2, <1>3, <1>4 DEF Source, Held
<1>5. Order'
  BY <1>2, <1>4 DEF OrderInv, Ordered, Order
<1>6. EchoPlace'
  BY <1>0, <1>2 DEF OrderInv, Ordered, EchoPlace
<1>. QED  BY <1>1, <1>5, <1>6 DEF Ordered

LEMMA AheadMoves ==
  ASSUME OrderInv, block' = block,
         host'.session = host.session, host'.got = host.got, host'.mayLose = host.mayLose, host'.cut = host.cut,
         host'.inOrder = host.inOrder, dev'.tx = dev.tx, dev'.in = dev.in, JobOut(dev'), Known', EchoPlace',
         \A c \in Nat : Live /\ Back(host.session, dev, host.got, c) /\ Source(c) => Source(c)'
  PROVE  Ordered'
<1>1. JobIn(dev') /\ BytesInOrder'
  BY DEF OrderInv, Ordered, JobIn, BytesInOrder, EchoInOrder
<1>2. Live' <=> Live
  BY DEF Live, Echoes
<1>3. ASSUME NEW c PROVE Back(host.session, dev', host.got, c) <=> Back(host.session, dev, host.got, c)
  BY DEF Back, Flight
<1>4. Order'
  BY <1>2, <1>3 DEF OrderInv, Ordered, Order
<1>. QED  BY <1>1, <1>4 DEF Ordered

(* A stall changes nothing about the bytes, unless a job is given up. *)
Keeps(old, new) == new.busy = old.busy /\ new.job = old.job /\ new.enabled = old.enabled /\ new.bank = old.bank

Halted(e) == [e EXCEPT !.bankIrq = FALSE, !.stallRequested = FALSE, !.halted = TRUE]

LEMMA StallKeeps ==
  ASSUME NEW e \in EndpointType
  PROVE  /\ Keeps(e, e) /\ Keeps(e, udd_ep_set_halt(e)) /\ Keeps(e, Halted(e))
         /\ ~GivesUp(e) => Keeps(e, udd_ep_clear_halt(e))
  BY DEF Keeps, Halted, EndpointType, udd_ep_set_halt, udd_ep_clear_halt

LEMMA StallOrdered ==
  ASSUME OrderInv, UNCHANGED block, main' = main \/ Overtaken(dev.out),
         NEW in, NEW out, dev' = [dev EXCEPT !.in = in, !.out = out], Keeps(dev.in, in), Keeps(dev.out, out),
         host'.session = host.session, host'.sent = host.sent, host'.got = host.got, host'.inOrder = host.inOrder,
         host'.mayLose = host.mayLose, host'.cut = host.cut
  PROVE  Ordered'
<1>1. dev \in DevType
  BY OrderTypes
<1>2. /\ dev'.tx = dev.tx /\ dev'.rx = dev.rx /\ dev'.in = in /\ dev'.out = out
      /\ dev'.stdio = dev.stdio /\ dev'.running = dev.running
  BY <1>1 DEF DevType
<1>3. JobIn(dev') /\ BytesInOrder'
  BY <1>2 DEF Keeps, OrderInv, Ordered, JobIn, BytesInOrder, EchoInOrder
<1>4. \A c : Back(host.session, dev, host.got, c) => Back(host.session, dev', host'.got, c)
  BY <1>2 DEF Keeps, Back, Flight
<1>. QED  BY <1>2, <1>3, <1>4, BackMoves DEF Keeps

(* A session that has lost a job promises nothing more. *)
LEMMA CutOrdered ==
  ASSUME OrderInv, UNCHANGED block, UNCHANGED main, host'.session = host.session, host'.cut,
         JobIn(dev'), JobOut(dev'), PastRx(host.session, dev')
  PROVE  Ordered'
<1>1. ~Live' /\ Known' /\ BytesInOrder'
  BY DEF OrderInv, Ordered, Live, Known, BytesInOrder, EchoInOrder
<1>. QED  BY <1>1 DEF Ordered, Order, EchoPlace

LEMMA PastLeft == ASSUME NEW s \in Nat, NEW q \in Bytes, Past(s, q), NEW n \in Nat PROVE Past(s, Left(q, n))
<1>1. Len(q) \in Nat
  BY DEF Bytes
<1>2. Len(Left(q, n)) = n /\ \A k \in 1..n : Left(q, n)[k] = IF k <= Len(q) THEN q[k] ELSE <<0, 0>>
  BY DEF Left
<1>. QED  BY <1>1, <1>2 DEF Past

LEMMA ClearHaltInOrdered ==
  ASSUME OrderInv, UNCHANGED block, UNCHANGED main, ClearHaltIn, GivesUp(dev.in), host'.session = host.session, host'.cut
  PROVE  Ordered'
<1>1. /\ dev \in DevType /\ Whole(dev) /\ JobIn(dev) /\ JobOut(dev) /\ Known /\ host.session \in Nat
      /\ dev.in \in EndpointType
  BY OrderTypes DEF OrderInv, Ordered
<1>. DEFINE d == [dev EXCEPT !.in = udd_ep_clear_halt(@)]
<1>2. PICK bank \in Fifo(dev.in) : dev' \in {[d EXCEPT !.in.bank = bank], udi_cdc_data_sent([d EXCEPT !.in.bank = bank])}
  BY DEF ClearHaltIn
<1>. DEFINE in == [udd_ep_clear_halt(dev.in) EXCEPT !.bank = bank]
            l  == [d EXCEPT !.in.bank = bank]
<1>3. udd_ep_clear_halt(dev.in) = [udd_ep_finish_job(dev.in) EXCEPT !.halted = FALSE, !.stallRequested = FALSE]
  BY DEF udd_ep_clear_halt
<1>4. bank \in Seq(Packet)
  <2>1. dev.in.bank \in Seq(Packet) /\ Sent(dev.in) \in EndpointType
    BY <1>1, SentType DEF EndpointType
  <2>. QED  BY <2>1 DEF Fifo, EndpointType
<1>5. in \in EndpointType /\ in.busy = FALSE /\ in.job = NoJob /\ in.enabled = dev.in.enabled
  BY <1>1, <1>3, <1>4, NoJobType DEF EndpointType, udd_ep_finish_job
<1>6. l = [dev EXCEPT !.in = in]
  BY <1>1 DEF DevType
<1>. HIDE DEF in
<1>7. l \in DevType /\ l.in = in /\ l.tx = dev.tx /\ l.rx = dev.rx /\ l.out = dev.out
  <2>. HIDE DEF l
  <2>. QED  BY <1>1, <1>5, <1>6 DEF DevType
<1>8. dev' = l \/ dev' = udi_cdc_data_sent(l)
  BY <1>2
<1>. HIDE DEF d, l
<1>9. dev.in.enabled /\ Len(dev.tx.data[dev.tx.sel]) <= BufferSize
  BY <1>1 DEF GivesUp, Whole, Sending
<1>10. JobIn(dev') /\ dev'.rx = dev.rx /\ dev'.out = dev.out
  <2>1. CASE dev' = l
    BY <1>5, <1>7, <1>9, <2>1 DEF JobIn
  <2>2. CASE dev' = udi_cdc_data_sent(l)
    <3>1. JobIn(dev')
      BY <1>1, <1>5, <1>7, <1>9, <2>2, SentMoves
    <3>2. dev'.rx = dev.rx /\ dev'.out = dev.out
      BY <1>5, <1>7, <1>9, <2>2, SentKeeps
    <3>. QED  BY <3>1, <3>2
  <2>. QED  BY <1>8, <2>1, <2>2
<1>11. JobOut(dev') /\ PastRx(host.session, dev')
  BY <1>1, <1>10 DEF JobOut, Known, PastRx
<1>. QED  BY <1>10, <1>11, CutOrdered

LEMMA ClearHaltOutOrdered ==
  ASSUME OrderInv, UNCHANGED block, UNCHANGED main, ClearHaltOut, GivesUp(dev.out), host'.session = host.session, host'.cut
  PROVE  Ordered'
<1>1. /\ dev \in DevType /\ Whole(dev) /\ JobIn(dev) /\ JobOut(dev) /\ PastRx(host.session, dev) /\ host.session \in Nat
      /\ dev.out \in EndpointType
  BY OrderTypes DEF OrderInv, Ordered, Known
<1>. DEFINE out == udd_ep_clear_halt(dev.out)
            d   == [dev EXCEPT !.out = udd_ep_clear_halt(@)]
<1>2. out = [udd_ep_finish_job(dev.out) EXCEPT !.halted = FALSE, !.stallRequested = FALSE]
  BY DEF udd_ep_clear_halt
<1>3. /\ out \in EndpointType /\ out.busy = FALSE /\ out.job = NoJob /\ out.enabled = dev.out.enabled
      /\ out.bank = dev.out.bank
  <2>. HIDE DEF out
  <2>. QED  BY <1>1, <1>2, NoJobType DEF EndpointType, udd_ep_finish_job
<1>4. d = [dev EXCEPT !.out = out]
  BY <1>1 DEF DevType
<1>. HIDE DEF out
<1>5. d \in DevType /\ d.out = out /\ d.tx = dev.tx /\ d.rx = dev.rx /\ d.in = dev.in
  <2>. HIDE DEF d
  <2>. QED  BY <1>1, <1>3, <1>4 DEF DevType
<1>6. dev' = d \/ \E n \in 0..BufferSize : dev' = udi_cdc_data_recevied(d, Left(dev.out.job.data, n))
  BY DEF ClearHaltOut
<1>. HIDE DEF d
<1>7. dev.out.job.data \in Bytes /\ Past(host.session, dev.out.job.data) /\ JobOut(d)
  BY <1>1, <1>3, <1>5 DEF EndpointType, JobType, PastRx, JobOut
<1>8. CASE dev' = d
  <2>1. JobIn(dev') /\ JobOut(dev')
    BY <1>1, <1>5, <1>7, <1>8 DEF JobIn
  <2>2. PastRx(host.session, dev')
    BY <1>1, <1>3, <1>5, <1>8, NoJobFacts, PastEmpty DEF PastRx
  <2>. QED  BY <2>1, <2>2, CutOrdered
<1>9. ASSUME NEW n \in 0..BufferSize, dev' = udi_cdc_data_recevied(d, Left(dev.out.job.data, n)) PROVE Ordered'
  <2>. DEFINE data == Left(dev.out.job.data, n)
              s    == host.session
  <2>1. n \in Nat
    BY UsbCdcAssumption
  <2>2. data \in Bytes /\ Past(s, data)
    BY <1>1, <1>7, <2>1, LeftType, PastLeft
  <2>3. dev' = udi_cdc_data_recevied(d, data)
    BY <1>9
  <2>. HIDE DEF data
  <2>4. dev'.tx = dev.tx /\ dev'.in = dev.in
    BY <1>3, <1>5, <2>2, <2>3, ReceivedKeeps
  <2>5. Received(s, d, data, dev')
    <3>1. s \in Nat
      BY <1>1
    <3>. HIDE DEF s
    <3>. QED  BY <1>3, <1>5, <1>7, <2>2, <2>3, <3>1, ReceivedMoves
  <2>6. PastRx(s, dev')
    <3>1. \A i \in Bufs : Past(s, dev'.rx.data[i])
      BY <1>1, <1>5, <2>2, <2>5 DEF PastRx, Received
    <3>2. \A j \in 1..Len(dev'.out.bank) : Past(s, dev'.out.bank[j].bytes)
      BY <1>1, <1>3, <1>5, <2>5 DEF PastRx, Received
    <3>. QED  BY <2>5, <3>1, <3>2, PastEmpty DEF PastRx, Received
  <2>7. JobIn(dev') /\ JobOut(dev')
    BY <1>1, <2>4, <2>5 DEF JobIn, Received
  <2>. QED  BY <2>6, <2>7, CutOrdered
<1>. QED  BY <1>6, <1>8, <1>9

LEMMA HaltOrdered == ASSUME OrderInv, UNCHANGED block, SetHalt \/ ClearHalt \/ BankEmpty PROVE Ordered'
<1>1. dev \in DevType /\ dev.in \in EndpointType /\ dev.out \in EndpointType /\ host \in HostType
  BY OrderTypes
<1>2. /\ Keeps(dev.in, dev.in) /\ Keeps(dev.in, udd_ep_set_halt(dev.in)) /\ Keeps(dev.in, Halted(dev.in))
      /\ Keeps(dev.out, dev.out) /\ Keeps(dev.out, udd_ep_set_halt(dev.out)) /\ Keeps(dev.out, Halted(dev.out))
      /\ ~GivesUp(dev.in) => Keeps(dev.in, udd_ep_clear_halt(dev.in))
      /\ ~GivesUp(dev.out) => Keeps(dev.out, udd_ep_clear_halt(dev.out))
  BY <1>1, StallKeeps
<1>3. ASSUME NEW in, NEW out
      PROVE  /\ [dev EXCEPT !.in = in] = [dev EXCEPT !.in = in, !.out = dev.out]
             /\ [dev EXCEPT !.out = out] = [dev EXCEPT !.in = dev.in, !.out = out]
  BY <1>1 DEF DevType
<1>4. CASE SetHalt
  <2>1. /\ host'.session = host.session /\ host'.sent = host.sent /\ host'.got = host.got /\ host'.inOrder = host.inOrder
        /\ host'.mayLose = host.mayLose /\ host'.cut = host.cut
    BY <1>1, <1>4 DEF SetHalt, Upset, HostType
  <2>2. CASE dev' = [dev EXCEPT !.in = udd_ep_set_halt(@)] /\ UNCHANGED main
    BY <1>2, <1>3, <2>1, <2>2, StallOrdered
  <2>3. CASE dev' = [dev EXCEPT !.out = udd_ep_set_halt(@)] /\ (UNCHANGED main \/ Overtaken(dev.out))
    BY <1>2, <1>3, <2>1, <2>3, StallOrdered
  <2>. QED  BY <1>4, <2>2, <2>3 DEF SetHalt
<1>5. CASE BankEmpty
  <2>1. UNCHANGED host
    BY <1>5 DEF BankEmpty
  <2>2. \/ dev' = [dev EXCEPT !.in = Halted(dev.in)] /\ UNCHANGED main
        \/ dev' = [dev EXCEPT !.out = Halted(dev.out)] /\ (UNCHANGED main \/ Overtaken(dev.out))
    BY <1>5 DEF BankEmpty, Halted
  <2>. QED  BY <1>2, <1>3, <2>1, <2>2, StallOrdered
<1>6. CASE ClearHalt
  <2>1. CASE ClearHaltIn /\ host' = [host EXCEPT !.cut = @ \/ GivesUp(dev.in)]
    <3>1. CASE GivesUp(dev.in)
      <4>1. host'.session = host.session /\ host'.cut
        BY <1>1, <2>1, <3>1 DEF HostType
      <4>. QED  BY <1>6, <2>1, <3>1, <4>1, ClearHaltInOrdered DEF ClearHalt
    <3>2. CASE ~GivesUp(dev.in)
      <4>1. host' = host
        BY <1>1, <2>1, <3>2 DEF HostType
      <4>2. dev' = [dev EXCEPT !.in = udd_ep_clear_halt(dev.in)] /\ UNCHANGED main
        BY <1>6, <2>1, <3>2 DEF ClearHaltIn, ClearHalt
      <4>. QED  BY <1>2, <1>3, <3>2, <4>1, <4>2, StallOrdered
    <3>. QED  BY <3>1, <3>2
  <2>2. CASE ClearHaltOut /\ host' = [host EXCEPT !.cut = @ \/ GivesUp(dev.out)]
    <3>1. CASE GivesUp(dev.out)
      <4>1. host'.session = host.session /\ host'.cut
        BY <1>1, <2>2, <3>1 DEF HostType
      <4>. QED  BY <1>6, <2>2, <3>1, <4>1, ClearHaltOutOrdered DEF ClearHalt
    <3>2. CASE ~GivesUp(dev.out)
      <4>1. host' = host
        BY <1>1, <2>2, <3>2 DEF HostType
      <4>2. dev' = [dev EXCEPT !.out = udd_ep_clear_halt(dev.out)] /\ UNCHANGED main
        BY <1>6, <2>2, <3>2 DEF ClearHaltOut, ClearHalt
      <4>. QED  BY <1>2, <1>3, <3>2, <4>1, <4>2, StallOrdered
    <3>. QED  BY <3>1, <3>2
  <2>. QED  BY <1>6, <2>1, <2>2 DEF ClearHalt
<1>. QED  BY <1>4, <1>5, <1>6

LEMMA FrameOrdered == ASSUME OrderInv, UNCHANGED block, StartOfFrame PROVE Ordered'
<1>. DEFINE d == [dev EXCEPT !.frame = (@ + 1) % Frames]
<1>1. dev \in DevType /\ Whole(dev) /\ JobIn(dev) /\ host.session \in Nat
  BY OrderTypes DEF OrderInv, Ordered
<1>2. (dev.frame + 1) % Frames \in Nat
  BY <1>1, UsbCdcAssumption DEF DevType
<1>3. /\ d \in DevType /\ d.rx = dev.rx /\ d.tx = dev.tx /\ d.in = dev.in /\ d.out = dev.out
      /\ d.stdio = dev.stdio /\ d.running = dev.running
  BY <1>1, <1>2 DEF DevType
<1>4. dev' = udc_sof_notify(d) /\ UNCHANGED <<main, host>>
  BY DEF StartOfFrame
<1>. HIDE DEF d
<1>5. Sending(d) /\ JobIn(d)
  BY <1>1, <1>3 DEF Whole, Sending, JobIn
<1>6. \A c : Back(host.session, dev, host.got, c) => Back(host.session, d, host.got, c)
  BY <1>3 DEF Back, Flight
<1>7. CASE dev' = d
  BY <1>3, <1>4, <1>5, <1>6, <1>7, BackMoves DEF OrderInv, Ordered, BytesInOrder, EchoInOrder
<1>8. CASE dev' = udi_cdc_tx_send(d)
  <2>1. dev'.rx = d.rx /\ dev'.out = d.out
    BY <1>3, <1>5, <1>8, SendKeeps
  <2>2. /\ JobIn(dev') /\ dev'.in.enabled = d.in.enabled /\ dev'.stdio = d.stdio /\ dev'.running = d.running
        /\ \A a, c \in Nat : Back(host.session, d, a, c) => Back(host.session, dev', a, c)
    BY <1>1, <1>3, <1>5, <1>8, SendMoves
  <2>3. host.got \in Nat /\ BytesInOrder'
    BY <1>4, OrderTypes DEF OrderInv, Ordered, BytesInOrder, EchoInOrder
  <2>. QED  BY <1>3, <1>4, <1>6, <2>1, <2>2, <2>3, BackMoves
<1>. QED  BY <1>4, <1>7, <1>8 DEF udc_sof_notify, udi_cdc_data_sof_notify

(* The data of a transfer go to the bank, and with them or with the packet   *)
(* of length zero behind them the buffer is empty.                           *)
LEMMA TransferOrdered == ASSUME OrderInv, UNCHANGED block, TransferIn PROVE Ordered'
<1>1. /\ dev \in DevType /\ Whole(dev) /\ JobIn(dev) /\ host.session \in Nat /\ host.got \in Nat
      /\ dev.in \in EndpointType /\ dev.tx \in TxType
  BY OrderTypes DEF OrderInv, Ordered
<1>2. UNCHANGED <<main, host>> /\ dev.in.busy
  BY DEF TransferIn, InSent, InZlp
<1>3. BytesInOrder'
  BY <1>2 DEF OrderInv, Ordered, BytesInOrder, EchoInOrder
<1>4. dev.in.enabled /\ dev.tx.sel \in Bufs /\ Other(dev.tx.sel) \in Bufs
  BY <1>1, <1>2, OtherType DEF Whole, Sending, TxType
(* The packet, the endpoint with it and what is still to be sent. *)
<1>5. ASSUME NEW p \in Packet, NEW e \in EndpointType,
             e = [dev.in EXCEPT !.bank = Append(@, p)],
             dev' = udi_cdc_data_sent([dev EXCEPT !.in = udd_ep_finish_job(e)]),
             p.bytes = Flight(dev)
      PROVE  Ordered'
  <2>. DEFINE d == [dev EXCEPT !.in = udd_ep_finish_job(e)]
  <2>1. /\ udd_ep_finish_job(e) \in EndpointType /\ udd_ep_finish_job(e).busy = FALSE
        /\ udd_ep_finish_job(e).job = NoJob /\ udd_ep_finish_job(e).enabled = dev.in.enabled
        /\ udd_ep_finish_job(e).bank = Append(dev.in.bank, p)
    BY <1>1, <1>5, NoJobType DEF udd_ep_finish_job, EndpointType
  <2>2. /\ d \in DevType /\ d.in = udd_ep_finish_job(e) /\ d.tx = dev.tx /\ d.rx = dev.rx /\ d.out = dev.out
        /\ d.stdio = dev.stdio /\ d.running = dev.running
    BY <1>1, <2>1 DEF DevType
  <2>3. dev' = udi_cdc_data_sent(d)
    BY <1>5
  <2>. HIDE DEF d
  <2>4. d.in.busy = FALSE /\ d.in.job = NoJob /\ Len(d.tx.data[d.tx.sel]) <= BufferSize /\ d.in.enabled
    BY <1>1, <1>4, <2>1, <2>2 DEF Whole, Sending
  <2>5. dev'.rx = dev.rx /\ dev'.out = dev.out
    BY <2>2, <2>3, <2>4, SentKeeps
  <2>6. /\ JobIn(dev') /\ dev'.in.enabled = d.in.enabled /\ dev'.stdio = d.stdio /\ dev'.running = d.running
        /\ \A a, m, c \in Nat : Chain(host.session, d.in.bank, a, m) /\ Link(host.session, d.tx.data[d.tx.sel], 0, m, c)
                                => Back(host.session, dev', a, c)
    BY <1>1, <2>2, <2>3, <2>4, SentMoves
  <2>7. ASSUME NEW c \in Nat, Back(host.session, dev, host.got, c) PROVE Back(host.session, dev', host.got, c)
    <3>1. PICK m \in Nat, n \in Nat :
            /\ Chain(host.session, dev.in.bank, host.got, m) /\ Link(host.session, Flight(dev), 0, m, n)
            /\ Link(host.session, dev.tx.data[dev.tx.sel], 0, n, c)
      BY <2>7 DEF Back
    <3>2. dev.in.bank \in Seq(Packet)
      BY <1>1 DEF EndpointType
    <3>3. Chain(host.session, Append(dev.in.bank, p), host.got, n)
      BY <1>1, <1>5, <3>1, <3>2, ChainOfMore
    <3>. QED  BY <1>1, <2>1, <2>2, <2>6, <3>1, <3>3
  <2>. QED  BY <1>2, <1>3, <2>1, <2>2, <2>5, <2>6, <2>7, BackMoves
<1>6. ASSUME NEW p \in Packet, NEW e, e = [dev.in EXCEPT !.bank = Append(@, p)]
      PROVE  /\ e \in EndpointType /\ e.bank = Append(dev.in.bank, p) /\ e.job = dev.in.job /\ e.busy = dev.in.busy
             /\ e.enabled = dev.in.enabled
  <2>1. dev.in.bank \in Seq(Packet)
    BY <1>1 DEF EndpointType
  <2>2. Append(dev.in.bank, p) \in Seq(Packet)
    BY <2>1, AppendProperties
  <2>. QED  BY <1>1, <1>6, <2>2 DEF EndpointType
<1>7. CASE InZlp
  <2>. DEFINE p == Packets(<<>>, TRUE)
              e == [dev.in EXCEPT !.bank = Append(@, p)]
  <2>1. p \in Packet /\ p.bytes = <<>>
    BY EmptyBytes DEF Packets, Packet
  <2>. HIDE DEF p
  <2>2. e \in EndpointType
    BY <1>6, <2>1
  <2>3. dev' = udi_cdc_data_sent([dev EXCEPT !.in = udd_ep_finish_job(e)])
    BY <1>7 DEF InZlp, p
  <2>4. Flight(dev) = <<>>
    BY <1>7 DEF InZlp, Flight
  <2>. QED  BY <1>5, <2>1, <2>2, <2>3, <2>4
<1>8. CASE InSent
  <2>. DEFINE p == Packets(dev.in.job.data, Len(dev.in.job.data) % PacketSize # 0)
              e == [dev.in EXCEPT !.bank = Append(@, p)]
  <2>1. p \in Packet /\ p.bytes = dev.in.job.data
    BY <1>1 DEF EndpointType, JobType, Packets, Packet
  <2>2. p.bytes = Flight(dev) /\ dev.in.job.data = dev.tx.data[Other(dev.tx.sel)]
    BY <1>1, <1>8, <2>1 DEF InSent, JobIn, Flight
  <2>3. dev' = IF e.job.zlp THEN [dev EXCEPT !.in = [e EXCEPT !.job.waiting = TRUE]]
               ELSE udi_cdc_data_sent([dev EXCEPT !.in = udd_ep_finish_job(e)])
    BY <1>8 DEF InSent, Sent
  <2>. HIDE DEF p
  <2>4. /\ e \in EndpointType /\ e.bank = Append(dev.in.bank, p) /\ e.job = dev.in.job /\ e.busy = dev.in.busy
        /\ e.enabled = dev.in.enabled
    BY <1>6, <2>1
  <2>5. CASE ~e.job.zlp
    <3>1. dev' = udi_cdc_data_sent([dev EXCEPT !.in = udd_ep_finish_job(e)]) /\ e = [dev.in EXCEPT !.bank = Append(@, p)]
      BY <2>3, <2>5
    <3>. HIDE DEF e
    <3>. QED  BY <1>5, <2>1, <2>2, <2>4, <3>1
  <2>6. CASE e.job.zlp
    <3>. HIDE DEF e
    <3>. DEFINE in == [e EXCEPT !.job.waiting = TRUE]
    <3>1. /\ in.job.waiting /\ in.busy = dev.in.busy /\ in.enabled = dev.in.enabled /\ in.bank = Append(dev.in.bank, p)
      BY <1>1, <2>4 DEF EndpointType, JobType
    <3>2. dev' = [dev EXCEPT !.in = in]
      BY <2>3, <2>6
    <3>. HIDE DEF in
    <3>3. /\ dev'.in = in /\ dev'.tx = dev.tx /\ dev'.rx = dev.rx /\ dev'.out = dev.out
          /\ dev'.stdio = dev.stdio /\ dev'.running = dev.running
      BY <1>1, <3>2 DEF DevType
    <3>4. JobIn(dev')
      BY <1>2, <1>4, <3>1, <3>3 DEF JobIn
    <3>5. ASSUME NEW c \in Nat, Back(host.session, dev, host.got, c) PROVE Back(host.session, dev', host.got, c)
      <4>1. PICK m \in Nat, n \in Nat :
              /\ Chain(host.session, dev.in.bank, host.got, m) /\ Link(host.session, Flight(dev), 0, m, n)
              /\ Link(host.session, dev.tx.data[dev.tx.sel], 0, n, c)
        BY <3>5 DEF Back
      <4>2. dev.in.bank \in Seq(Packet)
        BY <1>1 DEF EndpointType
      <4>3. Chain(host.session, Append(dev.in.bank, p), host.got, n)
        BY <1>1, <2>1, <2>2, <4>1, <4>2, ChainOfMore
      <4>4. Flight(dev') = <<>> /\ Link(host.session, <<>>, 0, n, n)
        BY <1>1, <3>1, <3>3, LinkOfEmpty DEF Flight
      <4>. QED  BY <3>1, <3>3, <4>1, <4>3, <4>4 DEF Back
    <3>. QED  BY <1>2, <1>3, <3>1, <3>3, <3>4, <3>5, BackMoves
  <2>. QED  BY <2>5, <2>6
<1>. QED  BY <1>7, <1>8 DEF TransferIn

LEMMA PastConcat ==
  ASSUME NEW s \in Nat, NEW q \in Bytes, NEW r \in Bytes, Past(s, q), Past(s, r)
  PROVE  Past(s, q \o r)
<1>. DEFINE t == q \o r
<1>1. Len(t) = Len(q) + Len(r) /\ \A i \in 1..Len(t) : t[i] = IF i <= Len(q) THEN q[i] ELSE r[i - Len(q)]
  BY ConcatProperties DEF Bytes
<1>2. Len(q) \in Nat /\ Len(r) \in Nat
  BY DEF Bytes
<1>. HIDE DEF t
<1>3. ASSUME NEW i \in 1..Len(t) PROVE t[i][1] <= s
  <2>1. CASE i <= Len(q)
    BY <1>1, <1>2, <2>1 DEF Past
  <2>2. CASE ~(i <= Len(q))
    <3>1. i - Len(q) \in 1..Len(r) /\ t[i] = r[i - Len(q)]
      BY <1>1, <1>2, <2>2
    <3>. QED  BY <3>1 DEF Past
  <2>. QED  BY <2>1, <2>2
<1>4. Past(s, t)
  BY <1>3 DEF Past
<1>. QED  BY <1>4 DEF t

(* What the host reads has the numbers it expects. *)
LEMMA HostReadsOrdered == ASSUME OrderInv, UNCHANGED block, HostReads PROVE Ordered'
<1>. DEFINE q   == Head(dev.in.bank).bytes
            own == Own(host.session, q, Len(q))
            got == host.got + Cardinality(own)
<1>1. /\ dev \in DevType /\ JobIn(dev) /\ BytesInOrder /\ Order /\ host.session \in Nat /\ host.got \in Nat
      /\ dev.in \in EndpointType /\ host \in HostType
  BY OrderTypes DEF OrderInv, Ordered
<1>2. /\ dev.in.bank # <<>> /\ dev' = [dev EXCEPT !.in.bank = Tail(@)] /\ main' = main
      /\ host' = [host EXCEPT !.got = got, !.ended = IF Head(dev.in.bank).short THEN got ELSE @,
                    !.inOrder = @ /\ \A k \in own : q[k][2] = host.got + Cardinality(Own(host.session, q, k))]
  BY DEF HostReads, Own
<1>3. dev.in.bank \in Seq(Packet) /\ Head(dev.in.bank) \in Packet /\ q \in Bytes /\ dev.in.enabled
  <2>1. dev.in.bank \in Seq(Packet) /\ dev.in.enabled
    BY <1>1, <1>2 DEF EndpointType, JobIn
  <2>2. Head(dev.in.bank) \in Packet
    BY <1>2, <2>1
  <2>. QED  BY <2>1, <2>2 DEF Packet
<1>. HIDE DEF own, q
<1>4. /\ host'.got = got /\ host'.session = host.session /\ host'.sent = host.sent /\ host'.mayLose = host.mayLose
      /\ host'.cut = host.cut
      /\ host'.inOrder = (host.inOrder /\ \A k \in own : q[k][2] = host.got + Cardinality(Own(host.session, q, k)))
  <2>. DEFINE inOrder == host.inOrder /\ \A k \in own : q[k][2] = host.got + Cardinality(Own(host.session, q, k))
              ended   == IF Head(dev.in.bank).short THEN got ELSE host.ended
  <2>1. host' = [host EXCEPT !.got = got, !.ended = ended, !.inOrder = inOrder]
    BY <1>2
  <2>. HIDE DEF got, inOrder, ended
  <2>2. /\ host'.got = got /\ host'.session = host.session /\ host'.sent = host.sent /\ host'.mayLose = host.mayLose
        /\ host'.cut = host.cut /\ host'.inOrder = inOrder
    BY <1>1, <2>1 DEF HostType
  <2>. QED  BY <2>2 DEF inOrder
<1>5. /\ dev'.tx = dev.tx /\ dev'.rx = dev.rx /\ dev'.out = dev.out /\ dev'.stdio = dev.stdio /\ dev'.running = dev.running
      /\ dev'.in.bank = Tail(dev.in.bank) /\ dev'.in.busy = dev.in.busy /\ dev'.in.job = dev.in.job
      /\ dev'.in.enabled = dev.in.enabled
  BY <1>1, <1>2 DEF DevType, EndpointType
<1>6. JobIn(dev')
  BY <1>1, <1>3, <1>5 DEF JobIn
<1>7. ASSUME NEW c \in Nat, Back(host.session, dev, host.got, c)
      PROVE  /\ Back(host.session, dev', got, c)
             /\ \A k \in own : q[k][2] = host.got + Cardinality(Own(host.session, q, k))
  <2>1. PICK m \in Nat, n \in Nat :
          /\ Chain(host.session, dev.in.bank, host.got, m) /\ Link(host.session, Flight(dev), 0, m, n)
          /\ Link(host.session, dev.tx.data[dev.tx.sel], 0, n, c)
    BY <1>7 DEF Back
  <2>2. PICK k \in Nat : Link(host.session, q, 0, host.got, k) /\ Chain(host.session, Tail(dev.in.bank), k, m)
    BY <1>1, <1>2, <1>3, <2>1, ChainOfFirst DEF q
  <2>3. k = got /\ \A i \in own : q[i][2] = host.got + Cardinality(Own(host.session, q, i))
    BY <1>1, <1>3, <2>2, LinkCounts DEF own
  <2>4. Flight(dev') = Flight(dev)
    BY <1>5 DEF Flight
  <2>. HIDE DEF got
  <2>5. Chain(host.session, dev'.in.bank, got, m)
    BY <1>5, <2>2, <2>3
  <2>. QED  BY <1>5, <2>1, <2>3, <2>4, <2>5 DEF Back
<1>. HIDE DEF got
<1>8. BytesInOrder'
  <2>1. Echoes' <=> Echoes
    BY DEF Echoes
  <2>2. CASE Live
    <3>1. \A k \in own : q[k][2] = host.got + Cardinality(Own(host.session, q, k))
      BY <1>1, <1>7, <2>2 DEF Order
    <3>. QED  BY <1>1, <1>4, <3>1, block' = block DEF BytesInOrder, EchoInOrder
  <2>3. CASE ~Live
    <3>1. host.cut \/ (block.task = "echo" /\ host.mayLose)
      BY <1>3, <2>3 DEF Live, Echoes
    <3>. QED  BY <1>4, <3>1, block' = block DEF BytesInOrder, EchoInOrder
  <2>. QED  BY <2>2, <2>3
<1>. QED  BY <1>2, <1>4, <1>5, <1>6, <1>7, <1>8, BackMoves

LEMMA HostSendsOrdered ==
  ASSUME OrderInv, UNCHANGED block, NEW n \in 0..PacketSize, HostSends(n) PROVE Ordered'
<1>. DEFINE bytes == [k \in 1..n |-> <<host.session, host.sent + k>>]
            p     == Packets(bytes, n < PacketSize)
            bank  == Append(dev.out.bank, p)
<1>1. /\ dev \in DevType /\ dev.out \in EndpointType /\ host \in HostType /\ n \in Nat /\ JobOut(dev) /\ Known
      /\ host.session \in Nat /\ host.sent \in Nat /\ Taken \in Nat /\ EchoPlace
  BY OrderTypes, UsbCdcAssumption DEF OrderInv, Ordered
<1>2. bytes \in Bytes /\ Past(host.session, bytes) /\ Link(host.session, bytes, 0, host.sent, host.sent + n)
  <2>1. bytes \in Bytes /\ Past(host.session, bytes)
    BY <1>1 DEF Bytes, Past
  <2>. QED  BY <1>1, <2>1, LinkOfOwn
<1>3. dev.out.enabled /\ dev' = [dev EXCEPT !.out.bank = bank] /\ main' = main
  BY DEF HostSends
<1>4. host' = [host EXCEPT !.sent = @ + n, !.open = n = PacketSize]
  BY DEF HostSends
<1>. HIDE DEF bytes
<1>5. p \in Packet /\ p.bytes = bytes /\ dev.out.bank \in Seq(Packet)
  BY <1>1, <1>2 DEF Packets, Packet, EndpointType
<1>. HIDE DEF p
<1>6. /\ host'.session = host.session /\ host'.sent = host.sent + n /\ host'.got = host.got /\ host'.mayLose = host.mayLose
      /\ host'.inOrder = host.inOrder /\ host'.cut = host.cut
  <2>. DEFINE open == n = PacketSize
  <2>1. host' = [host EXCEPT !.sent = @ + n, !.open = open]
    BY <1>4
  <2>. HIDE DEF open
  <2>. QED  BY <1>1, <2>1 DEF HostType
<1>7. /\ Len(bank) = Len(dev.out.bank) + 1 /\ bank[Len(bank)] = p
      /\ \A j \in 1..Len(dev.out.bank) : bank[j] = dev.out.bank[j]
  BY <1>5, AppendProperties
<1>8. /\ dev'.tx = dev.tx /\ dev'.rx = dev.rx /\ dev'.in = dev.in /\ dev'.stdio = dev.stdio /\ dev'.running = dev.running
      /\ dev'.out.bank = bank /\ dev'.out.busy = dev.out.busy /\ dev'.out.job = dev.out.job
      /\ dev'.out.enabled = dev.out.enabled
  <2>. HIDE DEF bank
  <2>. QED  BY <1>1, <1>3 DEF DevType, EndpointType
<1>. HIDE DEF bank
<1>9. JobOut(dev')
  BY <1>1, <1>3, <1>8 DEF JobOut
<1>10. Known'
  <2>1. \A j \in 1..Len(bank) : Past(host.session, bank[j].bytes)
    <3>1. Len(dev.out.bank) \in Nat
      BY <1>5
    <3>2. Past(host.session, bank[Len(bank)].bytes)
      BY <1>2, <1>5, <1>7
    <3>3. \A j \in 1..Len(dev.out.bank) : Past(host.session, bank[j].bytes)
      BY <1>1, <1>7 DEF Known, PastRx
    <3>4. \A j \in 1..Len(bank) : j = Len(bank) \/ j \in 1..Len(dev.out.bank)
      BY <1>7, <3>1
    <3>. QED  BY <3>2, <3>3, <3>4
  <2>. QED  BY <1>1, <1>3, <1>6, <1>8, <2>1, block' = block DEF Known, PastRx
<1>11. (Live' <=> Live) /\ (Echoes' <=> Echoes) /\ Taken' = Taken /\ Written' = Written
  BY <1>3, <1>6, <1>8, block' = block DEF Live, Echoes, Taken, Written, At
<1>12. EchoPlace'
  BY <1>1, <1>3, <1>6, <1>8, <1>11 DEF EchoPlace, At, Starting
<1>13. ASSUME NEW c \in Nat, Source(c) PROVE Source(c)'
  <2>1. CASE Echoes
    <3>1. PICK k \in Nat : Held(c, k) /\ Ahead(host.session, dev, Taken, k, host.sent)
      BY <1>13, <2>1 DEF Source
    <3>2. PICK i \in Nat, j \in Nat :
            /\ Link(host.session, dev.rx.data[dev.rx.sel], Taken, k, i) /\ Link(host.session, Coming(dev), 0, i, j)
            /\ Chain(host.session, dev.out.bank, j, host.sent)
      BY <3>1 DEF Ahead
    <3>. DEFINE end == host.sent + n
    <3>3. end \in Nat /\ Link(host.session, p.bytes, 0, host.sent, end)
      BY <1>1, <1>2, <1>5
    <3>. HIDE DEF end
    <3>4. Chain(host.session, bank, j, end)
      BY <1>1, <1>5, <3>2, <3>3, ChainOfMore DEF bank
    <3>5. Coming(dev') = Coming(dev) /\ host'.sent = end
      BY <1>6, <1>8 DEF Coming, end
    <3>6. Ahead(host.session, dev', Taken, k, end)
      BY <1>8, <3>2, <3>4, <3>5 DEF Ahead
    <3>7. Held(c, k)'
      BY <1>3, <1>6, <3>1 DEF Held, At
    <3>. QED  BY <1>6, <1>11, <2>1, <3>5, <3>6, <3>7 DEF Source
  <2>2. CASE ~Echoes
    BY <1>11, <1>13, <2>2 DEF Source
  <2>. QED  BY <2>1, <2>2
<1>. QED  BY <1>6, <1>8, <1>9, <1>10, <1>12, <1>13, AheadMoves

(* A packet goes behind what has been received, and a buffer that is full or *)
(* ends a transfer is main's next one.                                       *)
LEMMA ReceivedOrdered == ASSUME OrderInv, UNCHANGED block, OutReceived PROVE Ordered'
<1>. DEFINE s    == host.session
            p    == Head(dev.out.bank)
            data == dev.out.job.data \o p.bytes
            out  == [dev.out EXCEPT !.bank = Tail(@), !.job.data = data]
            d    == [dev EXCEPT !.out = out]
<1>1. /\ dev \in DevType /\ dev.out \in EndpointType /\ s \in Nat /\ host.sent \in Nat /\ Taken \in Nat
      /\ Whole(dev) /\ JobOut(dev) /\ Known /\ EchoPlace /\ dev.rx.pos \in Nat /\ dev.rx.sel \in Bufs
      /\ dev.rx.data[dev.rx.sel] \in Bytes
  BY OrderTypes DEF OrderInv, Ordered
<1>2. dev.out.busy /\ dev.out.bank # <<>> /\ main' = main /\ host' = host /\ dev.rx.ongoing /\ dev.out.enabled
  BY <1>1 DEF OutReceived, Whole, Receiving
<1>3. /\ dev.out.bank \in Seq(Packet) /\ dev.out.job.data \in Bytes /\ p \in Packet /\ p.bytes \in Bytes
      /\ Tail(dev.out.bank) \in Seq(Packet)
  <2>1. dev.out.bank \in Seq(Packet) /\ dev.out.job.data \in Bytes
    BY <1>1 DEF EndpointType, JobType
  <2>2. p \in Packet /\ Tail(dev.out.bank) \in Seq(Packet)
    BY <1>2, <2>1
  <2>. QED  BY <2>1, <2>2 DEF Packet
<1>4. Past(s, dev.out.job.data) /\ Past(s, p.bytes) /\ \A j \in 1..Len(Tail(dev.out.bank)) : Past(s, Tail(dev.out.bank)[j].bytes)
  <2>. DEFINE t == Tail(dev.out.bank)
  <2>1. Len(dev.out.bank) \in Nat /\ Len(dev.out.bank) # 0
    BY <1>2, <1>3, EmptySeq
  <2>2. /\ Len(t) \in Nat /\ Len(dev.out.bank) = Len(t) + 1 /\ p = dev.out.bank[1]
        /\ \A j \in 1..Len(t) : t[j] = dev.out.bank[j + 1]
    BY <1>2, <1>3, <2>1, HeadTailProperties
  <2>. HIDE DEF t, p
  <2>3. 1 \in 1..Len(dev.out.bank) /\ \A j \in 1..Len(t) : j + 1 \in 1..Len(dev.out.bank)
    BY <2>2
  <2>4. Past(s, dev.out.job.data) /\ Past(s, p.bytes) /\ \A j \in 1..Len(t) : Past(s, t[j].bytes)
    BY <1>1, <2>2, <2>3 DEF Known, PastRx
  <2>. QED  BY <2>4 DEF t
<1>5. data \in Bytes /\ Past(s, data)
  <2>. HIDE DEF p
  <2>1. data \in Bytes
    BY <1>3, ConcatProperties DEF Bytes
  <2>. QED  BY <1>1, <1>3, <1>4, <2>1, PastConcat
<1>6. dev' = IF p.short \/ Len(data) = BufferSize
             THEN udi_cdc_data_recevied([d EXCEPT !.out = udd_ep_finish_job(@)], data) ELSE d
  <2>. DEFINE d0 == [dev EXCEPT !.out.bank = Tail(@), !.out.job.data = data]
  <2>1. d = d0
    BY <1>1 DEF DevType, EndpointType
  <2>2. dev' = IF p.short \/ Len(data) = BufferSize
               THEN udi_cdc_data_recevied([d0 EXCEPT !.out = udd_ep_finish_job(@)], data) ELSE d0
    BY DEF OutReceived
  <2>. HIDE DEF d, d0, p, data
  <2>. QED  BY <2>1, <2>2
<1>. HIDE DEF data, p
<1>7. /\ out \in EndpointType /\ out.busy = dev.out.busy /\ out.bank = Tail(dev.out.bank) /\ out.job.data = data
      /\ out.enabled = dev.out.enabled
  BY <1>1, <1>3, <1>5 DEF EndpointType, JobType
<1>. HIDE DEF out
<1>8. /\ d \in DevType /\ d.out = out /\ d.tx = dev.tx /\ d.rx = dev.rx /\ d.in = dev.in
      /\ d.stdio = dev.stdio /\ d.running = dev.running
  BY <1>1, <1>7 DEF DevType
<1>. HIDE DEF d
<1>9. (Echoes' <=> Echoes) /\ Written' = Written
  BY <1>2, block' = block DEF Echoes, Written
(* The bytes that have come and the packet, in their order. *)
<1>10. ASSUME NEW c \in Nat, Source(c), Echoes
       PROVE  \E k, i, j \in Nat :
                /\ Held(c, k) /\ Link(s, dev.rx.data[dev.rx.sel], Taken, k, i) /\ Link(s, data, 0, i, j)
                /\ Chain(s, Tail(dev.out.bank), j, host.sent)
  <2>1. PICK k \in Nat : Held(c, k) /\ Ahead(s, dev, Taken, k, host.sent)
    BY <1>10 DEF Source
  <2>2. PICK i \in Nat, j \in Nat :
          /\ Link(s, dev.rx.data[dev.rx.sel], Taken, k, i) /\ Link(s, Coming(dev), 0, i, j)
          /\ Chain(s, dev.out.bank, j, host.sent)
    BY <2>1 DEF Ahead
  <2>3. Link(s, dev.out.job.data, 0, i, j)
    BY <1>2, <2>2 DEF Coming
  <2>4. PICK l \in Nat : Link(s, p.bytes, 0, j, l) /\ Chain(s, Tail(dev.out.bank), l, host.sent)
    BY <1>1, <1>2, <1>3, <2>2, ChainOfFirst DEF p
  <2>5. Link(s, data, 0, i, l)
    BY <1>1, <1>3, <2>3, <2>4, LinkConcat DEF data
  <2>. QED  BY <2>1, <2>2, <2>4, <2>5
<1>11. CASE ~(p.short \/ Len(data) = BufferSize)
  <2>1. dev' = d
    BY <1>6, <1>11
  <2>2. JobOut(dev')
    BY <1>2, <1>7, <1>8, <2>1 DEF JobOut
  <2>3. Known'
    BY <1>1, <1>2, <1>4, <1>5, <1>7, <1>8, <2>1, block' = block DEF Known, PastRx
  <2>4. Taken' = Taken /\ Coming(dev') = data
    BY <1>2, <1>7, <1>8, <2>1 DEF Taken, At, Coming
  <2>5. EchoPlace'
    BY <1>1, <1>2, <1>7, <1>8, <1>9, <2>1, <2>4 DEF EchoPlace, Live, At, Starting
  <2>6. ASSUME NEW c \in Nat, Source(c) PROVE Source(c)'
    <3>1. CASE Echoes
      <4>1. PICK k \in Nat, i \in Nat, j \in Nat :
              /\ Held(c, k) /\ Link(s, dev.rx.data[dev.rx.sel], Taken, k, i) /\ Link(s, data, 0, i, j)
              /\ Chain(s, Tail(dev.out.bank), j, host.sent)
        BY <1>10, <2>6, <3>1
      <4>2. Ahead(s, dev', Taken, k, host.sent)
        BY <1>7, <1>8, <2>1, <2>4, <4>1 DEF Ahead
      <4>3. Held(c, k)'
        BY <1>2, <4>1 DEF Held, At
      <4>. QED  BY <1>2, <1>9, <2>4, <3>1, <4>2, <4>3 DEF Source
    <3>2. CASE ~Echoes
      BY <1>9, <2>6, <3>2 DEF Source
    <3>. QED  BY <3>1, <3>2
  <2>. QED  BY <1>2, <1>8, <2>1, <2>2, <2>3, <2>5, <2>6, AheadMoves
<1>12. CASE p.short \/ Len(data) = BufferSize
  <2>. DEFINE f == [d EXCEPT !.out = udd_ep_finish_job(@)]
  <2>1. dev' = udi_cdc_data_recevied(f, data)
    BY <1>6, <1>12
  <2>2. /\ udd_ep_finish_job(out) \in EndpointType /\ udd_ep_finish_job(out).busy = FALSE
        /\ udd_ep_finish_job(out).enabled = out.enabled /\ udd_ep_finish_job(out).bank = out.bank
        /\ udd_ep_finish_job(out).job = NoJob
    BY <1>7, NoJobType DEF EndpointType, udd_ep_finish_job
  <2>3. /\ f \in DevType /\ f.out = udd_ep_finish_job(out) /\ f.tx = dev.tx /\ f.in = dev.in /\ f.rx = dev.rx
        /\ f.stdio = dev.stdio /\ f.running = dev.running
    BY <1>8, <2>2 DEF DevType
  <2>. HIDE DEF f
  <2>4. JobOut(f) /\ f.out.busy = FALSE /\ f.out.bank = Tail(dev.out.bank)
    BY <1>2, <1>7, <2>2, <2>3 DEF JobOut
  <2>5. dev'.tx = dev.tx /\ dev'.in = dev.in
    BY <1>5, <2>1, <2>3, <2>4, ReceivedKeeps
  <2>6. Received(s, f, data, dev')
    <3>. HIDE DEF s
    <3>1. f \in DevType /\ data \in Bytes /\ s \in Nat
      BY <1>1, <1>5, <2>3
    <3>. QED  BY <2>1, <2>4, <3>1, ReceivedMoves
  <2>7. Known'
    <3>1. \A i \in Bufs : Past(s, dev'.rx.data[i])
      BY <1>1, <1>5, <2>3, <2>6 DEF Known, PastRx, Received
    <3>2. \A j \in 1..Len(dev'.out.bank) : Past(s, dev'.out.bank[j].bytes)
      BY <1>4, <2>4, <2>6 DEF Received
    <3>. QED  BY <1>1, <1>2, <2>6, <3>1, <3>2, PastEmpty, block' = block DEF Known, PastRx, Received
  <2>8. Live' <=> Live
    BY <1>2, <1>9, <2>5 DEF Live
  <2>9. ASSUME Live, Echoes
        PROVE  /\ Taken' <= Len(dev'.rx.data[dev'.rx.sel])
               /\ At("store") => dev'.rx.pos = dev.rx.pos
               /\ \A a, m, n, c \in Nat :
                    /\ Link(s, dev.rx.data[dev.rx.sel], Taken, a, m) /\ Link(s, data, 0, m, n)
                    /\ Chain(s, Tail(dev.out.bank), n, c)
                    => Ahead(s, dev', Taken', a, c)
    <3>1. CASE At("store")
      <4>1. dev.rx.pos + 1 <= Len(dev.rx.data[dev.rx.sel]) /\ Taken = dev.rx.pos + 1
        BY <1>1, <2>9, <3>1 DEF EchoPlace, Taken
      <4>2. udi_cdc_is_rx_ready(f)
        BY <1>1, <2>3, <4>1 DEF udi_cdc_is_rx_ready, Bytes
      <4>3. Taken' = Taken
        BY <1>2, <2>3, <2>6, <3>1, <4>1, <4>2 DEF Taken, At, Received
      <4>. QED  BY <1>1, <2>3, <2>4, <2>6, <4>1, <4>2, <4>3 DEF Received
    <3>2. CASE ~At("store")
      <4>1. Taken = dev.rx.pos /\ dev.rx.pos <= Len(dev.rx.data[dev.rx.sel])
        BY <1>1, <2>9, <3>2 DEF EchoPlace, Taken
      <4>2. dev' \in DevType
        BY <1>5, <2>1, <2>3, <2>4, ReceivedKeeps
      <4>3. Taken' = dev'.rx.pos
        BY <1>2, <3>2, <4>2 DEF Taken, At, DevType, RxType
      <4>. QED  BY <2>3, <2>4, <2>6, <3>2, <4>1, <4>3 DEF Received
    <3>. QED  BY <3>1, <3>2
  <2>10. EchoPlace'
    <3>1. Live /\ Echoes => dev.running
      BY <1>1, <1>2 DEF EchoPlace
    <3>. QED  BY <1>1, <1>2, <1>9, <2>3, <2>6, <2>8, <2>9, <3>1 DEF EchoPlace, At, Starting, Received
  <2>11. ASSUME NEW c \in Nat, Live, Source(c) PROVE Source(c)'
    <3>1. CASE Echoes
      <4>1. PICK k \in Nat, i \in Nat, j \in Nat :
              /\ Held(c, k) /\ Link(s, dev.rx.data[dev.rx.sel], Taken, k, i) /\ Link(s, data, 0, i, j)
              /\ Chain(s, Tail(dev.out.bank), j, host.sent)
        BY <1>10, <2>11, <3>1
      <4>2. Ahead(s, dev', Taken', k, host.sent)
        BY <1>1, <2>9, <2>11, <3>1, <4>1
      <4>3. Held(c, k)'
        BY <1>2, <4>1 DEF Held, At
      <4>. QED  BY <1>2, <1>9, <3>1, <4>2, <4>3 DEF Source
    <3>2. CASE ~Echoes
      BY <1>9, <2>11, <3>2 DEF Source
    <3>. QED  BY <3>1, <3>2
  <2>. QED  BY <1>2, <2>5, <2>6, <2>7, <2>10, <2>11, AheadMoves DEF Received
<1>. QED  BY <1>11, <1>12

LEMMA PastNext ==
  ASSUME NEW d \in DevType, NEW s \in Nat, PastRx(s, d)
  PROVE  /\ PastRx(s + 1, d)
         /\ \A i \in Bufs : \A k \in 1..Len(d.rx.data[i]) : d.rx.data[i][k][1] # s + 1
<1>1. ASSUME NEW q \in Bytes, Past(s, q) PROVE Past(s + 1, q) /\ \A k \in 1..Len(q) : q[k][1] # s + 1
  <2>1. \A k \in 1..Len(q) : q[k] \in Nat \X Nat
    BY DEF Bytes
  <2>. QED  BY <1>1, <2>1 DEF Past
<1>2. \A i \in Bufs : d.rx.data[i] \in Bytes
  BY DEF DevType, RxType
<1>3. d.out.job.data \in Bytes /\ d.out.bank \in Seq(Packet)
  BY DEF DevType, EndpointType, JobType
<1>4. \A j \in 1..Len(d.out.bank) : d.out.bank[j].bytes \in Bytes
  <2>1. \A j \in 1..Len(d.out.bank) : d.out.bank[j] \in Packet
    BY <1>3
  <2>. QED  BY <2>1 DEF Packet
<1>. QED  BY <1>1, <1>2, <1>3, <1>4 DEF PastRx

Free(e) == e.busy = FALSE /\ e.job = NoJob /\ e.bank = <<>> /\ e.enabled = FALSE

LEMMA FreeFacts ==
  ASSUME NEW e \in EndpointType
  PROVE  Free(udd_ep_free(e)) /\ udd_ep_free(e) \in EndpointType
<1>1. e.stallRequested \in BOOLEAN
  BY DEF EndpointType
<1>. QED  BY <1>1, NoJobType DEF Free, udd_ep_free, Endpoint, EndpointType

LEMMA DisableShape ==
  ASSUME NEW d \in DevType, NEW e, e = udc_iface_disable(d, 1)
  PROVE  /\ e \in DevType /\ Free(e.in) /\ Free(e.out) /\ e.rx = d.rx /\ e.tx = d.tx /\ e.configured = d.configured
         /\ e.running = d.running /\ e.stdio = d.stdio
<1>1. e = [d EXCEPT !.in = udd_ep_free(@), !.out = udd_ep_free(@)]
  BY DEF udc_iface_disable
<1>2. d.in \in EndpointType /\ d.out \in EndpointType
  BY DEF DevType
<1>3. udd_ep_free(d.in) \in EndpointType /\ udd_ep_free(d.out) \in EndpointType
  BY <1>2, FreeFacts
<1>4. /\ e \in DevType /\ e.in = udd_ep_free(d.in) /\ e.out = udd_ep_free(d.out) /\ e.rx = d.rx /\ e.tx = d.tx
      /\ e.configured = d.configured /\ e.running = d.running /\ e.stdio = d.stdio
  BY <1>1, <1>3 DEF DevType
<1>. QED  BY <1>2, <1>4, FreeFacts

LEMMA ResetShape ==
  ASSUME NEW d \in DevType, Sending(d), Receiving(d), Closed(d), JobIn(d), JobOut(d), NEW e, e = udc_reset(d)
  PROVE  e \in DevType /\ Free(e.in) /\ Free(e.out) /\ e.rx = d.rx /\ e.tx = d.tx
<1>. DEFINE a == udc_iface_disable(d, 0)
            b == udc_iface_disable(a, 1)
            c == IF d.configured THEN b ELSE d
<1>1. e = [c EXCEPT !.configured = FALSE]
  BY DEF udc_reset
<1>2. c \in DevType /\ Free(c.in) /\ Free(c.out) /\ c.rx = d.rx /\ c.tx = d.tx
  <2>1. CASE d.configured
    <3>1. a \in DevType /\ a.rx = d.rx /\ a.tx = d.tx
      BY DEF udc_iface_disable, udi_cdc_comm_disable, stdio_usb_disable, DevType
    <3>2. b = udc_iface_disable(a, 1)
      OBVIOUS
    <3>. HIDE DEF a, b
    <3>. QED  BY <2>1, <3>1, <3>2, DisableShape
  <2>2. CASE ~d.configured
    <3>1. /\ d.in.enabled \in BOOLEAN /\ d.out.enabled \in BOOLEAN /\ d.in.busy \in BOOLEAN /\ d.out.busy \in BOOLEAN
      BY DEF DevType, EndpointType
    <3>2. ~d.in.enabled /\ ~d.out.enabled /\ ~d.in.busy /\ ~d.out.busy
      BY <2>2 DEF Closed, Sending, Receiving
    <3>3. d.in.job = NoJob /\ d.out.job = NoJob /\ d.in.bank = <<>> /\ d.out.bank = <<>>
      BY <3>2 DEF JobIn, JobOut
    <3>. QED  BY <2>2, <3>1, <3>2, <3>3 DEF Free
  <2>. QED  BY <2>1, <2>2
<1>. HIDE DEF c
<1>3. e \in DevType /\ e.in = c.in /\ e.out = c.out /\ e.rx = c.rx /\ e.tx = c.tx
  BY <1>1, <1>2 DEF DevType
<1>. QED  BY <1>2, <1>3

(* With its data interface enabled a session begins. *)
LEMMA EnableOrdered ==
  ASSUME OrderInv, UNCHANGED block, UNCHANGED main, NewSession, MayOpen,
         NEW d \in DevType, Free(d.in), Free(d.out), d.rx = dev.rx, dev' = udc_iface_enable(d, 1)
  PROVE  Ordered'
<1>. DEFINE s == host.session
            f == [d EXCEPT !.in = udd_ep_alloc(@), !.out = udd_ep_alloc(@)]
<1>1. /\ dev \in DevType /\ Known /\ s \in Nat /\ host \in HostType /\ main \in MainType /\ main.ch \in Nat \X Nat
      /\ block \in BlockType
  BY OrderTypes DEF OrderInv, Ordered
<1>2. d.in \in EndpointType /\ d.out \in EndpointType
  BY DEF DevType
<1>3. /\ udd_ep_alloc(d.in) \in EndpointType /\ udd_ep_alloc(d.out) \in EndpointType
      /\ udd_ep_alloc(d.in).busy = FALSE /\ udd_ep_alloc(d.out).busy = FALSE
      /\ udd_ep_alloc(d.in).job = NoJob /\ udd_ep_alloc(d.out).job = NoJob
      /\ udd_ep_alloc(d.in).bank = <<>> /\ udd_ep_alloc(d.out).bank = <<>>
  BY <1>2 DEF Free, udd_ep_alloc, EndpointType
<1>4. f \in DevType /\ f.in = udd_ep_alloc(d.in) /\ f.out = udd_ep_alloc(d.out) /\ f.rx = dev.rx
  BY <1>3 DEF DevType
<1>5. dev' = udi_cdc_data_enable(f)
  BY DEF udc_iface_enable
<1>. HIDE DEF f
<1>6. \A i \in Bufs : Past(s, f.rx.data[i])
  BY <1>1, <1>4 DEF Known, PastRx
<1>7. /\ JobIn(dev') /\ JobOut(dev') /\ PastRx(s, dev') /\ dev'.rx.pos = 0
      /\ Back(s + 1, dev', 0, 0) /\ Ahead(s + 1, dev', 0, 0, 0)
      /\ ~dev'.running => dev'.rx.ongoing /\ ~dev'.out.busy
  <2>. HIDE DEF s
  <2>. QED  BY <1>1, <1>3, <1>4, <1>5, <1>6, EnableMoves
<1>8. dev' \in DevType
  BY <1>3, <1>4, <1>5, EnableKeeps
<1>9. /\ host'.session = s + 1 /\ host'.sent = 0 /\ host'.got = 0 /\ host'.inOrder = TRUE /\ host'.cut = FALSE
      /\ host'.mayLose <=> At("store")
  <2>. DEFINE lose == At("store")
              stop == dev.in.stallRequested \/ dev.out.stallRequested
              next == host.session + 1
  <2>1. lose \in BOOLEAN
    BY DEF At
  <2>2. host' = [host EXCEPT !.session = next, !.sent = 0, !.open = FALSE, !.got = 0, !.inOrder = TRUE,
                       !.ended = 0, !.cut = FALSE, !.mayLose = lose, !.mayStop = stop]
    BY DEF NewSession, At
  <2>. HIDE DEF lose, stop, next
  <2>3. /\ host'.session = next /\ host'.sent = 0 /\ host'.got = 0 /\ host'.inOrder = TRUE
        /\ host'.cut = FALSE /\ host'.mayLose = lose
    BY <1>1, <2>2 DEF HostType
  <2>. QED  BY <2>1, <2>3 DEF lose, next
<1>10. main.ch[1] # s + 1 /\ main.ch[1] <= s + 1 /\ block.session # s + 1 /\ block.session <= s + 1
  BY <1>1 DEF Known, BlockType
<1>11. /\ PastRx(s + 1, dev')
       /\ \A i \in Bufs : \A k \in 1..Len(dev'.rx.data[i]) : dev'.rx.data[i][k][1] # s + 1
  <2>. HIDE DEF s
  <2>. QED  BY <1>1, <1>7, <1>8, PastNext
<1>12. Known'
  BY <1>9, <1>10, <1>11 DEF Known
<1>13. /\ dev'.rx.sel \in Bufs /\ dev'.rx.data[dev'.rx.sel] \in Bytes
  BY <1>8 DEF DevType, RxType
<1>14. ASSUME Live', Echoes' PROVE ~At("store") /\ ~At("store")' /\ Taken' = 0
  <2>1. ~At("store") /\ ~At("store")'
    BY <1>9, <1>14 DEF Live, At
  <2>. QED  BY <1>7, <2>1 DEF Taken
<1>15. Order'
  <2>1. ASSUME Live' PROVE Source(0)'
    <3>1. CASE Echoes'
      <4>1. Held(0, 0)'
        BY <1>9, <1>10 DEF Held, Char, At
      <4>2. Ahead(host.session, dev, Taken, 0, host.sent)'
        BY <1>7, <1>9, <1>14, <2>1, <3>1
      <4>. QED  BY <3>1, <4>1, <4>2 DEF Source
    <3>2. CASE ~Echoes'
      BY <1>9, <1>10, <3>2 DEF Source, Written
    <3>. QED  BY <3>1, <3>2
  <2>. QED  BY <1>7, <1>9, <2>1 DEF Order
<1>16. EchoPlace'
  <2>1. 0 <= Len(dev'.rx.data[dev'.rx.sel])
    BY <1>13 DEF Bytes
  <2>2. ~Starting'
    BY DEF MayOpen, Starting
  <2>. QED  BY <1>7, <1>9, <1>10, <1>11, <1>13, <1>14, <2>1, <2>2 DEF EchoPlace
<1>17. BytesInOrder'
  BY <1>9 DEF BytesInOrder, EchoInOrder
<1>. QED  BY <1>7, <1>12, <1>15, <1>16, <1>17 DEF Ordered

(* Without the endpoints of the data there is nothing under way. *)
LEMMA ClosedOrdered ==
  ASSUME OrderInv, UNCHANGED block, UNCHANGED main, dev' \in DevType, Free(dev'.in), Free(dev'.out), dev'.rx = dev.rx,
         host'.session = host.session, host'.inOrder = host.inOrder, host.mayLose => host'.mayLose,
         host'.cut = host.cut
  PROVE  Ordered'
<1>1. JobIn(dev') /\ JobOut(dev') /\ ~Live'
  BY DEF Free, JobIn, JobOut, Live
<1>2. Known'
  <2>1. dev'.out.job.data = <<>> /\ 1..Len(dev'.out.bank) = {}
    BY NoJobFacts, EmptyBytes DEF Free
  <2>. QED  BY <2>1, PastEmpty DEF OrderInv, Ordered, Known, PastRx
<1>3. BytesInOrder'
  BY DEF OrderInv, Ordered, BytesInOrder, EchoInOrder
<1>. QED  BY <1>1, <1>2, <1>3 DEF Ordered, Order, EchoPlace

(* The communication interface: only whether the port is open changes. *)
LEMMA CommOrdered ==
  ASSUME OrderInv, UNCHANGED block, UNCHANGED main,
         dev'.in = dev.in, dev'.out = dev.out, dev'.rx = dev.rx, dev'.tx = dev.tx,
         host'.session = host.session, host'.got = host.got, host'.inOrder = host.inOrder, host'.mayLose, host'.cut = host.cut
  PROVE  Ordered'
<1>1. JobIn(dev') /\ JobOut(dev') /\ Known'
  BY DEF OrderInv, Ordered, JobIn, JobOut, Known, PastRx
<1>2. CASE Echoes
  <2>1. ~Live' /\ BytesInOrder'
    BY <1>2 DEF Echoes, Live, BytesInOrder, EchoInOrder
  <2>. QED  BY <1>1, <2>1 DEF Ordered, Order, EchoPlace
<1>3. CASE ~Echoes
  <2>1. ~Echoes' /\ (Live' <=> Live) /\ Written' = Written
    BY <1>3 DEF Echoes, Live, Written
  <2>2. \A c : Back(host.session, dev', host.got, c) <=> Back(host.session, dev, host.got, c)
    BY DEF Back, Flight
  <2>3. Order'
    BY <1>3, <2>1, <2>2 DEF OrderInv, Ordered, Order, Source
  <2>4. BytesInOrder'
    BY <1>3 DEF OrderInv, Ordered, BytesInOrder, Echoes, EchoInOrder
  <2>. QED  BY <1>1, <2>1, <2>3, <2>4 DEF Ordered, EchoPlace
<1>. QED  BY <1>2, <1>3

LEMMA RequestsOrdered == ASSUME OrderInv, UNCHANGED block, Requests PROVE Ordered'
<1>1. /\ dev \in DevType /\ Whole(dev) /\ JobIn(dev) /\ JobOut(dev) /\ host \in HostType
      /\ dev.in \in EndpointType /\ dev.out \in EndpointType
  BY OrderTypes DEF OrderInv, Ordered
<1>2. ASSUME NEW h \in HostType, Upset(h)
      PROVE  /\ host'.session = h.session /\ host'.got = h.got /\ host'.inOrder = h.inOrder
             /\ host'.mayLose = h.mayLose /\ host'.cut = h.cut
  BY <1>2 DEF Upset, HostType
<1>3. /\ [host EXCEPT !.mayLose = TRUE] \in HostType /\ [host EXCEPT !.mayStop = TRUE] \in HostType
      /\ [host EXCEPT !.mayLose = TRUE].mayLose
  BY <1>1 DEF HostType
<1>4. CASE SetConfiguration
  <2>. DEFINE a == udc_reset(dev)
              b == [a EXCEPT !.configured = TRUE]
              c == udc_iface_enable(b, 0)
  <2>1. a \in DevType /\ Free(a.in) /\ Free(a.out) /\ a.rx = dev.rx
    <3>1. a = udc_reset(dev)
      OBVIOUS
    <3>. HIDE DEF a
    <3>. QED  BY <1>1, <3>1, ResetShape DEF Whole
  <2>2. c \in DevType /\ c.in = a.in /\ c.out = a.out /\ c.rx = a.rx
    <3>. HIDE DEF a
    <3>1. c = [a EXCEPT !.configured = TRUE, !.stdio = TRUE]
      BY <2>1 DEF udc_iface_enable, stdio_usb_enable, DevType
    <3>. HIDE DEF c
    <3>. QED  BY <2>1, <3>1 DEF DevType
  <2>3. dev' = udc_iface_enable(c, 1) /\ MayOpen /\ NewSession /\ UNCHANGED main
    BY <1>4 DEF SetConfiguration
  <2>. HIDE DEF a, c
  <2>. QED  BY <2>1, <2>2, <2>3, EnableOrdered
<1>5. CASE SetDataInterface
  <2>. DEFINE c == udc_iface_disable(dev, 1)
  <2>1. c = udc_iface_disable(dev, 1)
    OBVIOUS
  <2>2. dev' = udc_iface_enable(c, 1) /\ MayOpen /\ NewSession /\ UNCHANGED main
    BY <1>5 DEF SetDataInterface
  <2>. HIDE DEF c
  <2>3. c \in DevType /\ Free(c.in) /\ Free(c.out) /\ c.rx = dev.rx
    BY <1>1, <2>1, DisableShape
  <2>. QED  BY <2>2, <2>3, EnableOrdered
<1>6. CASE SetCommInterface
  <2>1. dev' = [dev EXCEPT !.running = FALSE, !.stdio = TRUE]
    BY <1>1, <1>6 DEF SetCommInterface, udc_iface_enable, udc_iface_disable, udi_cdc_comm_disable, stdio_usb_disable,
                      stdio_usb_enable, DevType
  <2>2. dev'.in = dev.in /\ dev'.out = dev.out /\ dev'.rx = dev.rx /\ dev'.tx = dev.tx
    BY <1>1, <2>1 DEF DevType
  <2>3. Upset([host EXCEPT !.mayLose = TRUE]) /\ main' = main
    BY <1>6 DEF SetCommInterface
  <2>4. /\ host'.session = host.session /\ host'.got = host.got /\ host'.inOrder = host.inOrder /\ host'.mayLose
        /\ host'.cut = host.cut
    BY <1>1, <1>2, <1>3, <2>3 DEF HostType
  <2>. QED  BY <2>2, <2>3, <2>4, CommOrdered
<1>7. ASSUME NEW i \in 0..1, SetUnknownSetting(i) PROVE Ordered'
  <2>1. Upset([host EXCEPT !.mayLose = TRUE]) /\ main' = main /\ dev' = udc_iface_disable(dev, i)
    BY <1>7 DEF SetUnknownSetting
  <2>2. /\ main' = main /\ host'.session = host.session /\ host'.got = host.got /\ host'.inOrder = host.inOrder
        /\ host'.mayLose /\ host'.cut = host.cut
    BY <1>1, <1>2, <1>3, <2>1 DEF HostType
  <2>3. CASE i = 0
    <3>1. dev' = [dev EXCEPT !.running = FALSE, !.stdio = FALSE]
      BY <1>1, <2>1, <2>3 DEF udc_iface_disable, udi_cdc_comm_disable, stdio_usb_disable, DevType
    <3>2. dev'.in = dev.in /\ dev'.out = dev.out /\ dev'.rx = dev.rx /\ dev'.tx = dev.tx
      BY <1>1, <3>1 DEF DevType
    <3>. QED  BY <2>2, <3>2, CommOrdered
  <2>4. CASE i = 1
    <3>1. dev' \in DevType /\ Free(dev'.in) /\ Free(dev'.out) /\ dev'.rx = dev.rx
      BY <1>1, <2>1, <2>4, DisableShape
    <3>. QED  BY <2>2, <3>1, ClosedOrdered
  <2>. QED  BY <2>3, <2>4
<1>8. CASE BusReset
  <2>. DEFINE c == [dev EXCEPT !.in = udd_ep_finish_job(@), !.out = udd_ep_finish_job(@)]
  <2>1. /\ c \in DevType /\ c.rx = dev.rx /\ c.tx = dev.tx /\ c.configured = dev.configured
        /\ c.in = udd_ep_finish_job(dev.in) /\ c.out = udd_ep_finish_job(dev.out)
    <3>1. udd_ep_finish_job(dev.in) \in EndpointType /\ udd_ep_finish_job(dev.out) \in EndpointType
      BY <1>1, EndpointsType
    <3>. QED  BY <1>1, <3>1 DEF DevType
  <2>2. /\ ~c.in.busy /\ ~c.out.busy /\ c.in.job = NoJob /\ c.out.job = NoJob
        /\ c.in.enabled = dev.in.enabled /\ c.out.enabled = dev.out.enabled
        /\ c.in.bank = dev.in.bank /\ c.out.bank = dev.out.bank
    <3>1. ASSUME NEW e \in EndpointType
          PROVE  /\ ~udd_ep_finish_job(e).busy /\ udd_ep_finish_job(e).job = NoJob
                 /\ udd_ep_finish_job(e).enabled = e.enabled /\ udd_ep_finish_job(e).bank = e.bank
      BY DEF udd_ep_finish_job, EndpointType
    <3>. HIDE DEF c
    <3>. QED  BY <1>1, <2>1, <3>1
  <2>3. dev' = udc_reset(c) /\ Upset([host EXCEPT !.mayStop = TRUE]) /\ main' = main
    BY <1>8 DEF BusReset
  <2>. HIDE DEF c
  <2>4. Sending(c) /\ Receiving(c) /\ Closed(c) /\ JobIn(c) /\ JobOut(c)
    BY <1>1, <2>1, <2>2 DEF Whole, Sending, Receiving, Closed, JobIn, JobOut
  <2>5. dev' \in DevType /\ Free(dev'.in) /\ Free(dev'.out) /\ dev'.rx = dev.rx
    BY <2>1, <2>3, <2>4, ResetShape
  <2>6. /\ main' = main /\ host'.session = host.session /\ host'.inOrder = host.inOrder /\ host'.mayLose = host.mayLose
        /\ host'.cut = host.cut
    BY <1>1, <1>2, <1>3, <2>3 DEF HostType
  <2>. QED  BY <2>5, <2>6, ClosedOrdered
<1>. QED  BY <1>4, <1>5, <1>6, <1>7, <1>8, HaltOrdered DEF Requests

LEMMA GotoOrdered ==
  ASSUME OrderInv, UNCHANGED <<dev, host, block>>, main'.ch = main.ch, ~At("getc"), ~At("getc")', ~At("store"),
         ~At("store")', Starting' => Starting
  PROVE  Ordered'
<1>1. Live' <=> Live
  BY DEF Live, Echoes
<1>2. (Echoes' <=> Echoes) /\ Taken' = Taken /\ Written' = Written
  BY DEF Echoes, Taken, Written
<1>3. Known' /\ EchoPlace'
  BY <1>1, <1>2 DEF OrderInv, Ordered, Known, PastRx, EchoPlace
<1>4. ASSUME NEW c \in Nat, Source(c) PROVE Source(c)'
  BY <1>2, <1>4 DEF Source, Held, Ahead, Coming
<1>5. JobOut(dev')
  BY DEF OrderInv, Ordered, JobOut
<1>. QED  BY <1>3, <1>4, <1>5, AheadMoves

(* A byte that main drops is not of this session. *)
LEMMA DropOrdered ==
  ASSUME OrderInv, UNCHANGED <<dev, host, block>>, main' = Listening, ~At("getc"), ~At("store"),
         ~dev.stdio \/ ~dev.running
  PROVE  Ordered'
<1>1. (Live' <=> Live) /\ (Echoes' <=> Echoes) /\ Written' = Written
  BY DEF Live, Echoes, Written
<1>2. At("getc")' /\ ~At("store")' /\ ~Starting' /\ main'.ch = <<0, 0>> /\ Taken' = Taken
  BY DEF Listening, At, Starting, Taken
<1>3. Known'
  <2>1. main'.ch[1] = 0 /\ 0 <= host.session
    BY <1>2, OrderTypes
  <2>. QED  BY <2>1 DEF OrderInv, Ordered, Known, PastRx
<1>4. EchoPlace'
  BY <1>1, <1>2 DEF OrderInv, Ordered, EchoPlace
<1>5. ASSUME NEW c \in Nat, Live, Source(c) PROVE Source(c)'
  <2>1. CASE Echoes
    <3>1. main.ch[1] # host.session
      BY <1>5, <2>1 DEF OrderInv, Ordered, EchoPlace
    <3>2. PICK n \in Nat : Held(c, n) /\ Ahead(host.session, dev, Taken, n, host.sent)
      BY <1>5, <2>1 DEF Source
    <3>3. c = 0 /\ n = 0
      BY <3>1, <3>2 DEF Held, Char
    <3>4. Held(c, n)'
      BY <1>2, <3>3 DEF Held
    <3>5. Ahead(host.session, dev, Taken, n, host.sent)'
      BY <1>2, <3>2 DEF Ahead, Coming
    <3>. QED  BY <1>1, <2>1, <3>4, <3>5 DEF Source
  <2>2. CASE ~Echoes
    BY <1>1, <1>5, <2>2 DEF Source
  <2>. QED  BY <2>1, <2>2
<1>6. JobOut(dev')
  BY DEF OrderInv, Ordered, JobOut
<1>. QED  BY <1>3, <1>4, <1>5, <1>6, AheadMoves

LEMMA GetcReadOrdered ==
  ASSUME OrderInv, UNCHANGED <<host, block>>, Echoes, GetcRead PROVE Ordered'
<1>. DEFINE q == dev.rx.data[dev.rx.sel]
            x == q[dev.rx.pos + 1]
<1>1. /\ dev \in DevType /\ main \in MainType /\ host.session \in Nat /\ host.sent \in Nat /\ dev.rx.pos \in Nat
      /\ q \in Bytes /\ Known /\ EchoPlace /\ dev.rx.sel \in Bufs /\ JobOut(dev)
  BY OrderTypes DEF OrderInv, Ordered
<1>2. /\ At("getc") /\ dev.stdio /\ dev.rx.pos < Len(q) /\ dev' = dev
      /\ main' = [main EXCEPT !.pc = "store", !.ch = x, !.pos = dev.rx.pos]
  BY DEF GetcRead, udi_cdc_is_rx_ready
<1>3. Len(q) \in Nat /\ dev.rx.pos + 1 \in 1..Len(q) /\ Past(host.session, q)
  <2>1. Past(host.session, q)
    BY <1>1 DEF Known, PastRx
  <2>. HIDE DEF q
  <2>2. Len(q) \in Nat
    BY <1>1 DEF Bytes
  <2>. QED  BY <1>1, <1>2, <2>1, <2>2
<1>4. x[1] <= host.session /\ x \in Nat \X Nat
  <2>. HIDE DEF q
  <2>1. \A k \in 1..Len(q) : q[k] \in Nat \X Nat
    BY <1>1 DEF Bytes
  <2>. QED  BY <1>3, <2>1 DEF Past
<1>. HIDE DEF x
<1>5. main'.ch = x /\ main'.pos = dev.rx.pos /\ At("store")' /\ ~At("getc")' /\ ~Starting' /\ ~At("store")
  BY <1>1, <1>2 DEF MainType, At, Starting
<1>6. Taken = dev.rx.pos /\ Taken' = dev.rx.pos + 1
  BY <1>1, <1>2, <1>5 DEF Taken
<1>7. (Live' <=> Live) /\ Echoes'
  BY <1>2 DEF Live, Echoes
<1>8. Known'
  BY <1>1, <1>2, <1>4, <1>5 DEF Known, PastRx
<1>9. EchoPlace'
  <2>1. dev.rx.pos + 1 <= Len(q)
    BY <1>3
  <2>2. ASSUME Live, ~dev.running PROVE x[1] # host.session
    BY <1>1, <1>3, <2>2 DEF EchoPlace, x
  <2>. QED  BY <1>1, <1>2, <1>5, <1>6, <1>7, <2>1, <2>2 DEF EchoPlace
<1>10. ASSUME NEW c \in Nat, Source(c) PROVE Source(c)'
  <2>1. PICK k \in Nat : c = k /\ Ahead(host.session, dev, dev.rx.pos, k, host.sent)
    BY <1>2, <1>6, <1>10 DEF Source, Held
  <2>2. PICK m \in Nat, n \in Nat :
          Link(host.session, q, dev.rx.pos, c, m) /\ Link(host.session, Coming(dev), 0, m, n)
          /\ Chain(host.session, dev.out.bank, n, host.sent)
    BY <2>1 DEF Ahead
  <2>3. PICK l \in Nat : Char(host.session, x, c, l) /\ Link(host.session, q, dev.rx.pos + 1, l, m)
    <3>. HIDE DEF q
    <3>. QED  BY <1>1, <1>2, <2>2, LinkOfFirst DEF x
  <2>4. Ahead(host.session, dev, Taken, l, host.sent)'
    BY <1>2, <1>6, <2>2, <2>3 DEF Ahead, Coming
  <2>5. Held(c, l)'
    BY <1>5, <2>3 DEF Held
  <2>. QED  BY <1>7, <2>4, <2>5 DEF Source
<1>11. JobOut(dev')
  BY <1>1, <1>2
<1>. QED  BY <1>2, <1>8, <1>9, <1>10, <1>11, AheadMoves

LEMMA GetcStoreOrdered ==
  ASSUME OrderInv, UNCHANGED <<host, block>>, Echoes, GetcStore PROVE Ordered'
<1>1. /\ dev \in DevType /\ main \in MainType /\ dev.rx.pos \in Nat /\ Known /\ EchoPlace /\ JobOut(dev) /\ dev.rx \in RxType
      /\ main.pos \in Nat
  BY OrderTypes DEF OrderInv, Ordered, MainType
<1>2. /\ At("store") /\ main' = [main EXCEPT !.pc = "start", !.pos = 0]
      /\ dev' = [dev EXCEPT !.rx.pos = main.pos + 1]
  BY DEF GetcStore
<1>3. main'.ch = main.ch /\ ~At("getc") /\ ~At("getc")' /\ ~At("store")' /\ ~Starting' /\ ~Starting
  BY <1>1, <1>2 DEF MainType, At, Starting
<1>4. /\ dev'.tx = dev.tx /\ dev'.in = dev.in /\ dev'.out = dev.out /\ dev'.stdio = dev.stdio /\ dev'.running = dev.running
      /\ dev'.rx.data = dev.rx.data /\ dev'.rx.sel = dev.rx.sel /\ dev'.rx.ongoing = dev.rx.ongoing
      /\ dev'.rx.pos = main.pos + 1
  BY <1>1, <1>2 DEF DevType, RxType
<1>5. JobOut(dev') /\ Known'
  BY <1>1, <1>3, <1>4 DEF JobOut, Known, PastRx
<1>6. (Live' <=> Live) /\ Echoes'
  BY <1>4 DEF Live, Echoes
<1>7. ASSUME Live PROVE Taken' = Taken
  <2>1. main.pos = dev.rx.pos
    BY <1>1, <1>2, <1>7 DEF EchoPlace
  <2>. QED  BY <1>1, <1>2, <1>3, <1>4, <2>1 DEF Taken
<1>8. EchoPlace'
  BY <1>1, <1>2, <1>3, <1>4, <1>6, <1>7 DEF EchoPlace
<1>9. ASSUME NEW c \in Nat, Live, Source(c) PROVE Source(c)'
  <2>1. PICK n \in Nat : Held(c, n) /\ Ahead(host.session, dev, Taken, n, host.sent)
    BY <1>9 DEF Source
  <2>2. Ahead(host.session, dev, Taken, n, host.sent)'
    BY <1>4, <1>7, <1>9, <2>1 DEF Ahead, Coming
  <2>3. Held(c, n)'
    BY <1>3, <2>1 DEF Held
  <2>. QED  BY <1>6, <2>2, <2>3 DEF Source
<1>. QED  BY <1>4, <1>5, <1>8, <1>9, AheadMoves

LEMMA RxStartOrdered ==
  ASSUME OrderInv, UNCHANGED <<host, block>>, Echoes, RxStart PROVE Ordered'
<1>1. /\ dev \in DevType /\ main \in MainType /\ dev.rx.pos \in Nat /\ Known /\ EchoPlace /\ JobOut(dev)
      /\ Receiving(dev) /\ host.session \in Nat /\ host.sent \in Nat
  BY OrderTypes DEF OrderInv, Ordered, Whole
<1>2. At("start") /\ ~At("getc") /\ ~At("store") /\ ~Starting
  BY DEF RxStart, At, Starting
<1>3. CASE ~MayReceive(dev)
  <2>1. dev' = dev /\ main' = [main EXCEPT !.pc = "putchar"]
    BY <1>3 DEF RxStart, Goto
  <2>2. main'.ch = main.ch /\ ~At("getc")' /\ ~At("store")' /\ ~Starting'
    BY <1>1, <2>1 DEF MainType, At, Starting
  <2>. QED  BY <1>2, <2>1, <2>2, GotoOrdered
<1>4. CASE MayReceive(dev)
  <2>1. dev' = Switched(dev) /\ main' = [main EXCEPT !.pc = "run", !.buf = dev.rx.sel]
    BY <1>4 DEF RxStart
  <2>2. main'.ch = main.ch /\ ~At("getc")' /\ ~At("store")'
    BY <1>1, <2>1 DEF MainType, At
  <2>3. /\ dev'.rx.data = dev.rx.data /\ dev'.rx.pos = 0 /\ JobOut(dev')
        /\ dev'.out = dev.out /\ dev'.in = dev.in /\ dev'.tx = dev.tx /\ dev'.stdio = dev.stdio /\ dev'.running = dev.running
        /\ dev'.rx.pos <= Len(dev'.rx.data[dev'.rx.sel])
        /\ \A a, c \in Nat : dev.rx.pos <= Len(dev.rx.data[dev.rx.sel]) /\ Ahead(host.session, dev, dev.rx.pos, a, c)
                             => Ahead(host.session, dev', 0, a, c)
    BY <1>1, <1>4, <2>1, SwitchedMoves
  <2>4. Known'
    BY <1>1, <2>2, <2>3 DEF Known, PastRx
  <2>5. (Live' <=> Live) /\ Echoes' /\ Taken = dev.rx.pos /\ Taken' = 0
    BY <1>1, <1>2, <2>2, <2>3 DEF Live, Echoes, Taken
  <2>6. Live => dev.running
    BY <1>1, <1>4 DEF EchoPlace, MayReceive
  <2>7. EchoPlace'
    BY <1>1, <1>2, <2>2, <2>3, <2>5, <2>6 DEF EchoPlace
  <2>8. ASSUME NEW c \in Nat, Live, Source(c) PROVE Source(c)'
    <3>1. PICK n \in Nat : Held(c, n) /\ Ahead(host.session, dev, dev.rx.pos, n, host.sent)
      BY <2>5, <2>8 DEF Source
    <3>2. dev.rx.pos <= Len(dev.rx.data[dev.rx.sel])
      BY <1>1, <2>5, <2>8 DEF EchoPlace
    <3>3. Ahead(host.session, dev, Taken, n, host.sent)'
      BY <1>1, <2>3, <2>5, <3>1, <3>2
    <3>4. Held(c, n)'
      BY <1>2, <2>2, <3>1 DEF Held
    <3>. QED  BY <2>5, <3>3, <3>4 DEF Source
  <2>. QED  BY <2>3, <2>4, <2>7, <2>8, AheadMoves
<1>. QED  BY <1>3, <1>4

LEMMA RxRunOrdered ==
  ASSUME OrderInv, UNCHANGED <<host, block>>, Echoes, RxRun PROVE Ordered'
<1>1. /\ dev \in DevType /\ main \in MainType /\ dev.rx.pos \in Nat /\ Known /\ EchoPlace /\ JobOut(dev)
      /\ main.buf \in Bufs
  BY OrderTypes DEF OrderInv, Ordered, MainType
<1>2. /\ Starting /\ main' = [main EXCEPT !.pc = "putchar", !.buf = 0] /\ dev.rx.ongoing /\ ~dev.out.busy
  BY DEF RxRun, Starting, At, OrderInv, BlockInv, IInv, Places
<1>3. /\ main'.ch = main.ch /\ ~At("getc") /\ ~At("store") /\ ~At("getc")' /\ ~At("store")' /\ ~Starting'
  BY <1>1, <1>2 DEF MainType, At, Starting
<1>4. /\ JobOut(dev') /\ dev'.rx = dev.rx /\ Coming(dev') = Coming(dev) /\ dev'.out.bank = dev.out.bank
      /\ dev'.in = dev.in /\ dev'.tx = dev.tx /\ dev'.stdio = dev.stdio /\ dev'.running = dev.running
      /\ dev'.out.job.data = <<>>
  <2>1. CASE At("run")
    <3>1. dev' = Receive(dev, main.buf)
      BY <2>1 DEF RxRun, At
    <3>. QED  BY <1>1, <1>2, <3>1, ReceiveMoves
  <2>2. CASE At("begin")
    <3>. DEFINE out == RunOut(dev.out, main.buf)
    <3>1. dev' = [dev EXCEPT !.out = out]
      BY <2>2 DEF RxRun, At
    <3>2. dev.out.job = NoJob /\ dev.out.job.data = <<>> /\ dev.out \in EndpointType
      BY <1>1, <1>2, NoJobFacts DEF JobOut, DevType
    <3>3. out.busy /\ out.bank = dev.out.bank /\ out.enabled = dev.out.enabled /\ out.job.data = <<>>
      BY <3>2 DEF RunOut, Job, EndpointType, JobType
    <3>. HIDE DEF out
    <3>4. /\ dev'.rx = dev.rx /\ dev'.in = dev.in /\ dev'.tx = dev.tx /\ dev'.out = out
          /\ dev'.stdio = dev.stdio /\ dev'.running = dev.running
      BY <1>1, <3>1 DEF DevType
    <3>. QED  BY <1>1, <1>2, <3>2, <3>3, <3>4 DEF JobOut, Coming
  <2>. QED  BY <1>2, <2>1, <2>2 DEF Starting, At
<1>5. Known'
  BY <1>1, <1>3, <1>4, PastEmpty DEF Known, PastRx
<1>6. (Live' <=> Live) /\ Echoes' /\ Taken' = Taken
  BY <1>3, <1>4 DEF Live, Echoes, Taken
<1>7. EchoPlace'
  BY <1>1, <1>2, <1>3, <1>4, <1>6 DEF EchoPlace
<1>8. ASSUME NEW c \in Nat, Source(c) PROVE Source(c)'
  <2>1. PICK n \in Nat : Held(c, n) /\ Ahead(host.session, dev, Taken, n, host.sent)
    BY <1>8 DEF Source
  <2>2. Ahead(host.session, dev, Taken, n, host.sent)'
    BY <1>4, <1>6, <2>1 DEF Ahead
  <2>3. Held(c, n)'
    BY <1>3, <2>1 DEF Held
  <2>. QED  BY <1>6, <2>2, <2>3 DEF Source
<1>. QED  BY <1>4, <1>5, <1>7, <1>8, AheadMoves

LEMMA TxSwitchOrdered ==
  ASSUME OrderInv, UNCHANGED <<host, block>>, TxSwitch PROVE Ordered'
<1>1. /\ dev \in DevType /\ main \in MainType /\ Known /\ EchoPlace /\ JobOut(dev) /\ JobIn(dev) /\ Sending(dev)
      /\ dev.tx \in TxType /\ dev.tx.sel \in Bufs /\ host.session \in Nat
  BY OrderTypes DEF OrderInv, Ordered, Whole, TxType
<1>2. At("switch") /\ main' = [main EXCEPT !.pc = "again"] /\ ~dev.tx.both
  BY DEF TxSwitch, Goto, OrderInv, BlockInv, IInv, Places
<1>3. /\ main'.ch = main.ch /\ ~At("getc") /\ ~At("store") /\ ~At("getc")' /\ ~At("store")' /\ ~Starting'
      /\ ~Starting
  BY <1>1, <1>2 DEF MainType, At, Starting
<1>4. CASE ~OtherIsFree(dev)
  <2>1. dev' = dev
    BY <1>4 DEF TxSwitch
  <2>. QED  BY <1>3, <2>1, GotoOrdered
<1>5. CASE OtherIsFree(dev)
  <2>. DEFINE tx == [dev.tx EXCEPT !.both = TRUE, !.sel = Other(@)]
  <2>1. dev' = [dev EXCEPT !.tx = tx]
    BY <1>1, <1>5 DEF TxSwitch, DevType, TxType
  <2>2. tx.sel = Other(dev.tx.sel) /\ tx.data = dev.tx.data /\ Other(tx.sel) = dev.tx.sel
    BY <1>1, OtherType DEF TxType
  <2>3. ~dev.tx.ongoing /\ dev.tx.data[Other(dev.tx.sel)] = <<>> /\ ~dev.in.busy /\ dev.in.job = NoJob
    BY <1>1, <1>2, <1>5 DEF OtherIsFree, Sending, JobIn
  <2>. HIDE DEF tx
  <2>4. /\ dev'.tx = tx /\ dev'.rx = dev.rx /\ dev'.in = dev.in /\ dev'.out = dev.out
        /\ dev'.stdio = dev.stdio /\ dev'.running = dev.running
    BY <1>1, <2>1 DEF DevType
  <2>5. JobIn(dev') /\ JobOut(dev') /\ Known' /\ BytesInOrder'
    BY <1>1, <1>3, <2>3, <2>4 DEF JobIn, JobOut, Known, PastRx, OrderInv, Ordered, BytesInOrder, EchoInOrder
  <2>6. (Live' <=> Live) /\ (Echoes' <=> Echoes) /\ Taken' = Taken /\ Written' = Written
    BY <1>3, <2>4 DEF Live, Echoes, Taken, Written
  <2>7. EchoPlace'
    BY <1>1, <1>3, <2>4, <2>6 DEF EchoPlace
  <2>8. Order'
    <3>1. SUFFICES ASSUME Live PROVE \E c \in Nat : Back(host.session, dev', host.got, c) /\ Source(c)'
      BY <2>6 DEF Order
    <3>2. PICK c \in Nat : Back(host.session, dev, host.got, c) /\ Source(c)
      BY <3>1 DEF OrderInv, Ordered, Order
    <3>3. Flight(dev) = <<>> /\ Flight(dev') = dev.tx.data[dev.tx.sel] /\ dev'.tx.data[dev'.tx.sel] = <<>>
      BY <2>2, <2>3, <2>4, NoJobFacts DEF Flight
    <3>4. PICK m \in Nat, n \in Nat :
            /\ Chain(host.session, dev.in.bank, host.got, m) /\ Link(host.session, <<>>, 0, m, n)
            /\ Link(host.session, dev.tx.data[dev.tx.sel], 0, n, c)
      BY <3>2, <3>3 DEF Back
    <3>5. m = n /\ Link(host.session, <<>>, 0, c, c)
      BY <1>1, <3>4, LinkOfEmpty
    <3>6. Back(host.session, dev', host.got, c)
      BY <2>4, <3>3, <3>4, <3>5 DEF Back
    <3>7. Source(c)'
      BY <1>3, <2>4, <2>6, <3>2 DEF Source, Held, Ahead, Coming
    <3>. QED  BY <3>6, <3>7
  <2>. QED  BY <2>5, <2>7, <2>8 DEF Ordered
<1>. QED  BY <1>4, <1>5

(* Bytes behind those in the current buffer, and who goes on behind them. *)
LEMMA WriteMoves ==
  ASSUME OrderInv, UNCHANGED host, block'.task = block.task, NEW r \in Bytes,
         dev' = [dev EXCEPT !.tx.data[dev.tx.sel] = @ \o r],
         JobOut(dev'), Known', EchoPlace', BytesInOrder',
         \A c \in Nat : Source(c) /\ Live => \E n \in Nat : Link(host.session, r, 0, c, n) /\ Source(n)'
  PROVE  Ordered'
<1>1. /\ dev \in DevType /\ JobIn(dev) /\ dev.tx \in TxType /\ dev.tx.sel \in Bufs /\ host.session \in Nat
      /\ Other(dev.tx.sel) # dev.tx.sel /\ Other(dev.tx.sel) \in Bufs
      /\ dev.tx.data[dev.tx.sel] \in Bytes
  BY OrderTypes, OtherType DEF OrderInv, Ordered, TxType
<1>. DEFINE q  == dev.tx.data[dev.tx.sel] \o r
            tx == [dev.tx EXCEPT !.data[dev.tx.sel] = q]
<1>2. dev' = [dev EXCEPT !.tx = tx]
  BY <1>1 DEF DevType, TxType
<1>. HIDE DEF q
<1>3. tx.sel = dev.tx.sel /\ tx.data[dev.tx.sel] = q /\ tx.data[Other(dev.tx.sel)] = dev.tx.data[Other(dev.tx.sel)]
  BY <1>1 DEF TxType
<1>. HIDE DEF tx
<1>4. dev'.tx = tx /\ dev'.in = dev.in /\ dev'.out = dev.out /\ dev'.rx = dev.rx
  BY <1>1, <1>2 DEF DevType
<1>5. JobIn(dev') /\ Flight(dev') = Flight(dev)
  BY <1>1, <1>3, <1>4 DEF JobIn, Flight
<1>6. Live' <=> Live
  BY <1>4 DEF Live, Echoes
<1>7. Order'
  <2>1. SUFFICES ASSUME Live PROVE \E n \in Nat : Back(host.session, dev', host.got, n) /\ Source(n)'
    BY <1>6 DEF Order
  <2>2. PICK c \in Nat : Back(host.session, dev, host.got, c) /\ Source(c)
    BY <2>1 DEF OrderInv, Ordered, Order
  <2>3. PICK n \in Nat : Link(host.session, r, 0, c, n) /\ Source(n)'
    BY <2>1, <2>2
  <2>4. PICK i \in Nat, j \in Nat :
          /\ Chain(host.session, dev.in.bank, host.got, i) /\ Link(host.session, Flight(dev), 0, i, j)
          /\ Link(host.session, dev.tx.data[dev.tx.sel], 0, j, c)
    BY <2>2 DEF Back
  <2>5. Link(host.session, q, 0, j, n)
    BY <1>1, <2>3, <2>4, LinkConcat DEF q
  <2>6. Back(host.session, dev', host.got, n)
    BY <1>3, <1>4, <1>5, <2>4, <2>5 DEF Back
  <2>. QED  BY <2>3, <2>6
<1>. QED  BY <1>5, <1>7 DEF Ordered

LEMMA TxWriteOrdered ==
  ASSUME OrderInv, UNCHANGED <<host, block>>, Echoes, TxWrite PROVE Ordered'
<1>. DEFINE r == <<main.ch>>
<1>1. /\ dev \in DevType /\ Known /\ EchoPlace /\ JobOut(dev) /\ dev.tx \in TxType /\ dev.tx.sel \in Bufs
      /\ host.session \in Nat /\ main.ch \in Nat \X Nat /\ dev.tx.data[dev.tx.sel] \in Bytes
  BY OrderTypes DEF OrderInv, Ordered, TxType
<1>2. At("write") /\ main' = Listening /\ dev' = [dev EXCEPT !.tx.data[dev.tx.sel] = Append(@, main.ch)]
  BY DEF TxWrite
<1>3. r \in Bytes
  BY <1>1 DEF Bytes
<1>4. Append(dev.tx.data[dev.tx.sel], main.ch) = dev.tx.data[dev.tx.sel] \o r
  BY <1>1, AppendIsConcat DEF Bytes
<1>5. dev' = [dev EXCEPT !.tx.data[dev.tx.sel] = @ \o r]
  <2>. HIDE DEF r
  <2>. QED  BY <1>1, <1>2, <1>4 DEF DevType, TxType
<1>6. \A c, n \in Nat : Char(host.session, main.ch, c, n) => Link(host.session, r, 0, c, n)
  BY <1>1, LinkOfChar
<1>. HIDE DEF r
<1>7. /\ dev'.in = dev.in /\ dev'.rx = dev.rx /\ dev'.out = dev.out /\ dev'.stdio = dev.stdio /\ dev'.running = dev.running
  BY <1>1, <1>5 DEF DevType
<1>8. /\ main'.ch = <<0, 0>> /\ ~At("getc") /\ ~At("store") /\ At("getc")' /\ ~At("store")' /\ ~Starting'
  BY <1>2 DEF Listening, At, Starting
<1>9. JobOut(dev')
  BY <1>1, <1>7 DEF JobOut
<1>10. Known' /\ BytesInOrder'
  <2>1. main'.ch[1] = 0 /\ 0 <= host.session
    BY <1>1, <1>8
  <2>. QED  BY <1>1, <1>7, <2>1 DEF Known, PastRx, OrderInv, Ordered, BytesInOrder, EchoInOrder
<1>11. (Live' <=> Live) /\ Echoes' /\ Taken' = Taken
  BY <1>7, <1>8 DEF Live, Echoes, Taken
<1>12. EchoPlace'
  BY <1>1, <1>7, <1>8, <1>11 DEF EchoPlace
<1>13. ASSUME NEW c \in Nat, Source(c) PROVE \E n \in Nat : Link(host.session, r, 0, c, n) /\ Source(n)'
  <2>1. PICK n \in Nat : Held(c, n) /\ Ahead(host.session, dev, Taken, n, host.sent)
    BY <1>13 DEF Source
  <2>2. Link(host.session, r, 0, c, n)
    BY <1>6, <1>8, <2>1 DEF Held
  <2>3. Held(n, n)' /\ Ahead(host.session, dev, Taken, n, host.sent)'
    BY <1>7, <1>8, <1>11, <2>1 DEF Held, Ahead, Coming
  <2>. QED  BY <1>11, <2>2, <2>3 DEF Source
<1>. QED  BY <1>3, <1>5, <1>9, <1>10, <1>12, <1>13, WriteMoves

LEMMA TxReadyOrdered ==
  ASSUME OrderInv, UNCHANGED <<host, block>>, TxReady \/ TxBoth \/ TxAgain PROVE Ordered'
<1>1. main \in MainType
  BY OrderTypes
<1>2. UNCHANGED <<dev, host, block>> /\ ~At("getc") /\ ~At("store")
  BY DEF TxReady, TxBoth, TxAgain, At
<1>3. CASE main' = Listening /\ (~dev.stdio \/ ~dev.running)
  BY <1>2, <1>3, DropOrdered
<1>4. CASE \E pc \in {"write", "both", "again", "switch", "ready"} : main' = [main EXCEPT !.pc = pc]
  <2>1. main'.ch = main.ch /\ ~At("getc")' /\ ~At("store")' /\ ~Starting'
    BY <1>1, <1>4 DEF MainType, At, Starting
  <2>. QED  BY <1>2, <2>1, GotoOrdered
<1>. QED  BY <1>3, <1>4 DEF TxReady, TxBoth, TxAgain, Goto, Dropped

(* A block begun goes on behind the bytes written in this session. *)
LEMMA WriteBufOrdered ==
  ASSUME OrderInv, UNCHANGED host, NEW n \in 1..MaxBlock, WriteBuf(n) PROVE Ordered'
<1>1. /\ main \in MainType /\ block \in BlockType /\ Known /\ JobOut(dev) /\ BytesInOrder /\ host.session \in Nat
  BY OrderTypes DEF OrderInv, Ordered
<1>2. /\ block.task = "write" /\ main' = [main EXCEPT !.pc = "ready"] /\ dev' = dev
      /\ block' = [block EXCEPT !.left = n, !.session = host.session, !.next = Written]
  BY DEF WriteBuf, Goto, Written
<1>3. block'.task = "write" /\ block'.session = host.session /\ block'.next = Written /\ main'.ch = main.ch
  BY <1>1, <1>2 DEF BlockType, MainType
<1>4. ~Echoes /\ ~Echoes' /\ Written' = Written
  BY <1>2, <1>3 DEF Echoes, Written
<1>5. JobIn(dev') /\ JobOut(dev') /\ Known' /\ BytesInOrder' /\ EchoPlace'
  BY <1>1, <1>2, <1>3, <1>4 DEF Known, PastRx, OrderInv, Ordered, JobIn, JobOut, EchoPlace, BytesInOrder
<1>6. Order'
  <2>1. Live' <=> Live
    BY <1>2, <1>4 DEF Live
  <2>2. \A c : Back(host.session, dev', host.got, c) <=> Back(host.session, dev, host.got, c)
    BY <1>2 DEF Back, Flight
  <2>. QED  BY <1>4, <2>1, <2>2 DEF OrderInv, Ordered, Order, Source
<1>. QED  BY <1>5, <1>6 DEF Ordered

(* A part of a block is the bytes numbered next, or is of an old session. *)
LEMMA WriteBlockOrdered ==
  ASSUME OrderInv, UNCHANGED host, block.task = "write", WriteBlock PROVE Ordered'
<1>1. /\ dev \in DevType /\ main \in MainType /\ block \in BlockType /\ Known /\ JobOut(dev) /\ BytesInOrder
      /\ host.session \in Nat /\ dev.tx \in TxType /\ dev.tx.sel \in Bufs /\ main.ch \in Nat \X Nat /\ Sending(dev)
  BY OrderTypes DEF OrderInv, Ordered, Whole, TxType
<1>. DEFINE n == CopyNb(block.left)
            r == [k \in 1..n |-> <<block.session, block.next + k>>]
<1>2. n \in Nat
  <2>1. dev.tx.data[dev.tx.sel] \in Seq(Nat \X Nat)
    BY <1>1 DEF TxType, Bytes
  <2>2. Len(Current) \in Nat /\ Len(Current) <= BufferSize /\ BufferSize \in Nat
    <3>1. Len(dev.tx.data[dev.tx.sel]) <= BufferSize
      BY <1>1 DEF Sending
    <3>2. Len(dev.tx.data[dev.tx.sel]) \in Nat
      BY <2>1
    <3>. QED  BY <3>1, <3>2, UsbCdcAssumption DEF Current
  <2>. DEFINE room == BufferSize - Len(Current)
  <2>3. room \in Nat /\ block.left \in Nat /\ n = Least(room, block.left)
    BY <1>1, <2>2 DEF CopyNb, BlockType
  <2>. HIDE DEF room, n
  <2>. QED  BY <2>3, CopyFits
<1>3. /\ dev' = [dev EXCEPT !.tx.data[dev.tx.sel] = @ \o r]
      /\ block' = [block EXCEPT !.left = @ - n, !.next = @ + n]
      /\ (main' = [main EXCEPT !.pc = "ready"]) \/ (main' = Listening)
  BY DEF WriteBlock, Goto, Copied
<1>. HIDE DEF n
<1>4. block.session \in Nat /\ block.next \in Nat
  BY <1>1 DEF BlockType
<1>5. r \in Bytes /\ Len(r) = n /\ \A i \in 1..n : r[i][1] = block.session
  BY <1>2, <1>4 DEF Bytes
<1>6. /\ block'.task = "write" /\ block'.session = block.session /\ block'.next = block.next + n
      /\ main'.ch \in {main.ch, <<0, 0>>}
  BY <1>1, <1>3 DEF BlockType, MainType, Listening
<1>7. ~Echoes /\ ~Echoes'
  BY <1>6 DEF Echoes
<1>8. Known' /\ EchoPlace' /\ BytesInOrder' /\ JobOut(dev')
  <2>1. dev'.rx = dev.rx /\ dev'.out = dev.out
    BY <1>1, <1>3 DEF DevType
  <2>2. main'.ch[1] <= host.session
    BY <1>1, <1>6 DEF Known
  <2>. QED  BY <1>1, <1>6, <1>7, <2>1, <2>2 DEF Known, PastRx, EchoPlace, BytesInOrder, JobOut
<1>9. ASSUME NEW c \in Nat, Source(c) PROVE \E k \in Nat : Link(host.session, r, 0, c, k) /\ Source(k)'
  <2>1. c = Written
    BY <1>7, <1>9 DEF Source
  <2>2. CASE block.session = host.session
    <3>1. Link(host.session, [k \in 1..n |-> <<host.session, block.next + k>>], 0, block.next, block.next + n)
      BY <1>1, <1>2, <1>4, LinkOfOwn
    <3>2. c = block.next /\ Written' = block.next + n /\ block.next + n \in Nat
      BY <1>2, <1>4, <1>6, <2>1, <2>2 DEF Written
    <3>. QED  BY <1>7, <2>2, <3>1, <3>2 DEF Source
  <2>3. CASE block.session # host.session
    <3>1. c = 0 /\ Written' = 0
      BY <1>6, <2>1, <2>3 DEF Written
    <3>2. 0 <= Len(r) /\ \A i \in 0 + 1..Len(r) : r[i][1] # host.session
      BY <1>2, <1>5, <2>3
    <3>. HIDE DEF r
    <3>3. Link(host.session, r, 0, 0, 0)
      BY <1>1, <1>5, <3>2, LinkOfOld
    <3>. QED  BY <1>7, <3>1, <3>3 DEF Source
  <2>. QED  BY <2>2, <2>3
<1>. HIDE DEF r
<1>. QED  BY <1>1, <1>3, <1>5, <1>6, <1>8, <1>9, WriteMoves

LEMMA StepOrderInv == OrderInv /\ [BlockNext]_blockVars => OrderInv'
<1>. SUFFICES ASSUME OrderInv, [BlockNext]_blockVars PROVE Ordered'
  BY StepBlockInv DEF OrderInv
<1>1. CASE UNCHANGED blockVars
  BY <1>1 DEF blockVars, vars, OrderInv, Ordered, JobIn, JobOut, Known, PastRx, Order, Source, Held, Live, Echoes, Taken,
              Written, Back, Ahead, Flight, Coming, EchoPlace, BytesInOrder, EchoInOrder, At, Starting
<1>2. CASE Around /\ UNCHANGED block
  <2>1. CASE udd_ep_interrupt
    BY <1>2, <2>1, TransferOrdered, ReceivedOrdered, HaltOrdered DEF udd_ep_interrupt
  <2>2. CASE \E n \in 0..PacketSize : HostSends(n)
    BY <1>2, <2>2, HostSendsOrdered
  <2>. QED  BY <1>2, <2>1, <2>2, RequestsOrdered, FrameOrdered, HostReadsOrdered DEF Around
<1>3. CASE EchoStep
  <2>1. Echoes /\ UNCHANGED <<host, block>> /\ (_read \/ _write)
    BY <1>3 DEF EchoStep, Main, Echoes
  <2>2. CASE _read
    BY <2>1, <2>2, GetcReadOrdered, GetcStoreOrdered, RxStartOrdered, RxRunOrdered DEF _read
  <2>3. CASE _write
    BY <2>1, <2>3, TxReadyOrdered, TxSwitchOrdered, TxWriteOrdered DEF _write
  <2>. QED  BY <2>1, <2>2, <2>3
<1>4. CASE block.task = "write" /\ udi_cdc_write_buf /\ UNCHANGED host
  <2>1. CASE \E n \in 1..MaxBlock : WriteBuf(n)
    BY <1>4, <2>1, WriteBufOrdered
  <2>2. CASE ((At("ready") /\ TxReady) \/ TxBoth \/ TxSwitch \/ TxAgain) /\ UNCHANGED block
    BY <1>4, <2>2, TxReadyOrdered, TxSwitchOrdered
  <2>3. CASE WriteBlock
    BY <1>4, <2>3, WriteBlockOrdered
  <2>. QED  BY <1>4, <2>1, <2>2, <2>3 DEF udi_cdc_write_buf
<1>. QED  BY <1>1, <1>2, <1>3, <1>4 DEF BlockNext

LEMMA InitOrderInv == BlockInit => OrderInv
<1>. SUFFICES ASSUME BlockInit PROVE OrderInv
  OBVIOUS
<1>1. BlockInv /\ Init
  <2>1. NewBlock("echo") \in BlockType /\ NewBlock("write") \in BlockType
    BY DEF NewBlock, BlockType
  <2>. QED  BY <2>1, InitIInv DEF BlockInit, BlockInv
<1>2. /\ dev.in = Endpoint /\ dev.out = Endpoint /\ dev.rx.data = [b \in 0..1 |-> <<>>] /\ main.ch = <<0, 0>>
      /\ host.session = 0 /\ host.inOrder = TRUE
  BY <1>1 DEF Init, Listening
<1>3. block.session = 0
  BY DEF BlockInit, NewBlock
<1>4. JobIn(dev) /\ JobOut(dev) /\ ~Live
  BY <1>2, NoJobFacts DEF JobIn, JobOut, Live, Endpoint
<1>5. Known
  <2>1. \A i \in Bufs : dev.rx.data[i] = <<>>
    BY <1>2 DEF Bufs
  <2>2. dev.out.job.data = <<>> /\ 1..Len(dev.out.bank) = {}
    BY <1>2, NoJobFacts, EmptyBytes
  <2>. QED  BY <1>2, <1>3, <2>1, <2>2, PastEmpty DEF Known, PastRx
<1>6. BytesInOrder
  BY <1>2 DEF BytesInOrder, EchoInOrder
<1>. QED  BY <1>1, <1>4, <1>5, <1>6 DEF OrderInv, Ordered, Order, EchoPlace

(* The host gets back its own bytes, or those of the blocks written, in      *)
(* their order, none lost, doubled or mixed up, for buffers, packets and      *)
(* blocks of any size, any number of banks, sessions and bytes, and whatever  *)
(* interrupts come between the steps of main.                                *)
(* (udi_cdc_getc, udi_cdc_putc, udi_cdc_write_buf, udi_cdc_tx_send,           *)
(* udi_cdc_rx_start, udi_cdc_data_enable)                                     *)
THEOREM BytesAreInOrder == BlockSpec => []BytesInOrder
<1>1. OrderInv => BytesInOrder
  BY DEF OrderInv, Ordered
<1>. QED  BY <1>1, InitOrderInv, StepOrderInv, PTL DEF BlockSpec
=============================================================================
