------------------------------ MODULE CdcBlocks ------------------------------
(***************************************************************************)
(* The serial port of UsbCdc used by the echo or by a program that writes   *)
(* or reads blocks in place of characters: udi_cdc_write_buf() and          *)
(* udi_cdc_read_buf() of udi_cdc.c.  Their tests of the buffers and the     *)
(* restart of a reception are the steps of putc and getc.                   *)
(***************************************************************************)
EXTENDS UsbCdc

CONSTANT MaxBlock  \* bound: bytes of a block, and of those written in a session

ASSUME BlockAssumption == MaxBlock \in Nat \ {0}

VARIABLE
  block  \* the program; of its call: bytes left, session, number of the last byte written, whether those read had come

blockVars == <<vars, block>>

Least(a, b) == IF a < b THEN a ELSE b

NewBlock(program) == [task |-> program, left |-> 0, session |-> 0, next |-> 0, came |-> TRUE]
BlockInit == Init /\ block \in {NewBlock("echo"), NewBlock("write")}

-----------------------------------------------------------------------------
(* udi_cdc_write_buf().  A byte has the session in which its block began.    *)

WriteBuf(n) ==
  LET next == IF block.session = host.session THEN block.next ELSE 0
  IN  /\ At("getc") /\ block.task = "write" /\ next + n <= MaxBlock
      /\ block' = [block EXCEPT !.left = n, !.session = host.session, !.next = next]
      /\ Goto("ready") /\ UNCHANGED dev

CopyNb(n) == Least(BufferSize - Len(Current), n)

AtStart(buf, bytes) ==  \* MUTANT: copies to the start of the buffer
  bytes \o SubSeq(buf \o bytes, Len(bytes) + 1, Len(buf) + Len(bytes))
Copied(buf, bytes) == buf \o bytes
WriteBlock ==
  LET n == CopyNb(block.left)
  IN  /\ At("write")
      /\ dev' = [dev EXCEPT !.tx.data[dev.tx.sel] = Copied(@, [k \in 1..n |-> <<block.session, block.next + k>>])]
      /\ block' = [block EXCEPT !.left = @ - n, !.next = @ + n]
      /\ IF n < block.left THEN Goto("ready") ELSE main' = Listening

udi_cdc_write_buf ==
  \/ \E n \in 1..MaxBlock : WriteBuf(n)
  \/ ((At("ready") /\ TxReady) \/ TxBoth \/ TxSwitch \/ TxAgain) /\ UNCHANGED block
  \/ WriteBlock

-----------------------------------------------------------------------------
(* udi_cdc_read_buf().  It copies from the transmit buffer of the number of  *)
(* the receive buffer; what is behind the bytes in it is left from earlier.  *)

ReadBuf(n) ==
  /\ At("getc") /\ block.task = "read"
  /\ block' = [block EXCEPT !.left = n, !.came = TRUE]
  /\ Goto("wait") /\ UNCHANGED dev

ReadWait ==
  /\ At("wait") /\ UNCHANGED <<dev, block>>
  /\ \/ udi_cdc_is_rx_ready(dev) /\ Goto("copy")
     \/ ~udi_cdc_is_rx_ready(dev) /\ ~dev.running /\ main' = Listening

Stored(buf, k) == IF k <= Len(buf) THEN buf[k] ELSE <<0, 0>>
ReadCopy ==
  LET received == dev.rx.data[dev.rx.sel]
      from     == dev.tx.data[dev.rx.sel]
      n        == Least(Len(received) - dev.rx.pos, block.left)
  IN  /\ At("copy")
      /\ main' = [main EXCEPT !.pc = "store", !.pos = dev.rx.pos + n]
      /\ block' = [block EXCEPT !.left = @ - n, !.came = @ /\ \A k \in dev.rx.pos + 1..dev.rx.pos + n : Stored(from, k) = received[k]]
      /\ UNCHANGED dev

ReadStore ==
  /\ At("store") /\ main' = [main EXCEPT !.pc = "start", !.pos = 0]
  /\ dev' = [dev EXCEPT !.rx.pos = main.pos]
  /\ UNCHANGED block

ReadNext ==
  /\ At("putchar")
  /\ IF block.left > 0 THEN Goto("wait") ELSE main' = Listening
  /\ UNCHANGED <<dev, block>>

udi_cdc_read_buf ==
  \/ \E n \in 1..MaxBlock : ReadBuf(n)
  \/ ReadWait \/ ReadCopy \/ ReadStore \/ ReadNext
  \/ (RxStart \/ RxRun) /\ UNCHANGED block

-----------------------------------------------------------------------------
(* To a program that does not read, the host does not send.                 *)
Around == \/ Requests \/ StartOfFrame \/ udd_ep_interrupt \/ HostReads
          \/ block.task # "write" /\ \E n \in 0..PacketSize : HostSends(n)

EchoStep == block.task = "echo" /\ Main /\ UNCHANGED block

BlockNext == \/ Around /\ UNCHANGED block
             \/ EchoStep
             \/ block.task = "write" /\ udi_cdc_write_buf /\ UNCHANGED host

BlockSpec == BlockInit /\ [][BlockNext]_blockVars /\ Fairness /\ WF_blockVars(EchoStep)

ReadSpec ==
  /\ Init /\ block = NewBlock("read")
  /\ [][(Around /\ UNCHANGED block) \/ (udi_cdc_read_buf /\ UNCHANGED host)]_blockVars

-----------------------------------------------------------------------------
(* The host gets the bytes of the blocks in their order, none left out or   *)
(* doubled where a block goes on in the other buffer, and those of the echo *)
(* as EchoInOrder says, whatever interrupts come between the tests of a     *)
(* buffer and the copy into it. (udi_cdc_write_buf, udi_cdc_putc)           *)
BytesInOrder == IF block.task = "write" THEN host.inOrder \/ host.cut ELSE EchoInOrder

(* Again and again the echo has returned all it was sent. (the echo loop)   *)
EchoComesBack == block.task = "echo" => Echoed

(* "Reads a RAM buffer on CDC line" (udi_cdc.h): the values read are those   *)
(* that have come.  (udi_cdc_read_buf)                                      *)
ReadsWhatCame == block.came
=============================================================================
