---------------------------- MODULE HelloResource ----------------------------
(***************************************************************************)
(* The resource manager ex10's project was made from (ex10/lib/resmgr.c): a  *)
(* device with one text, of which an open file gives all or nothing.  One    *)
(* thread handles the messages; the reply is sent when io_read() has         *)
(* returned, from a buffer that was on its stack.                           *)
(***************************************************************************)
EXTENDS Integers

CONSTANTS
  Files,
  MaxReads   \* bound on the reads of an open file

VARIABLES
  offset,   \* of each control block; of those closed, Closed
  ctp,      \* what io_read() leaves: whose read, and the parts it returns
  got       \* of each file since it was opened: reads, texts, and the last reply

vars == <<offset, ctp, got>>

Closed   == 2
NoReply  == [file |-> "none", parts |-> 0]
Unread   == [reads |-> 0, texts |-> 0, last |-> "none"]

Init ==
  /\ offset = [f \in Files |-> Closed]
  /\ ctp = NoReply
  /\ got = [f \in Files |-> Unread]

Open(f) ==
  /\ ctp = NoReply /\ offset[f] = Closed
  /\ offset' = [offset EXCEPT ![f] = 0]
  /\ got' = [got EXCEPT ![f] = Unread]
  /\ UNCHANGED ctp

Close(f) ==
  /\ ctp = NoReply /\ offset[f] # Closed
  /\ offset' = [offset EXCEPT ![f] = Closed]
  /\ UNCHANGED <<ctp, got>>

(* A client that reads waits for the reply, and so do the others.           *)
io_read(f) ==
  /\ ctp = NoReply /\ offset[f] # Closed /\ got[f].reads < MaxReads
  /\ ctp' = [file |-> f, parts |-> 1 - offset[f]]
  /\ offset' = [offset EXCEPT ![f] = 1]
  /\ UNCHANGED got

dispatch_handler ==
  /\ ctp # NoReply
  /\ \E last \in IF ctp.parts = 0 THEN {"nothing"} ELSE {"text", "overwritten"} :
       got' = [got EXCEPT ![ctp.file] = [reads |-> @.reads + 1, texts |-> @.texts + ctp.parts, last |-> last]]
  /\ ctp' = NoReply
  /\ UNCHANGED offset

Next == dispatch_handler \/ \E f \in Files : Open(f) \/ Close(f) \/ io_read(f)

Spec == Init /\ [][Next]_vars

-----------------------------------------------------------------------------
(* Whoever opens the device, and however the reads of several mix, each open *)
(* file gives the text in its first read and nothing in those that follow,   *)
(* so that a client reading to the end has it once.                         *)
TextOnce ==
  \A f \in Files :
    /\ got[f].texts = (IF got[f].reads = 0 THEN 0 ELSE 1)
    /\ got[f].reads > 1 => got[f].last = "nothing"

=============================================================================
