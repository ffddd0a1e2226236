------------------------------ MODULE QnxProofs ------------------------------
(***************************************************************************)
(* Proofs about ResourceManager, for every set of open control blocks and  *)
(* every range of the counter, and about MessagePassing and HelloResource   *)
(* as programs of MCQnx, for any number of attempts, files and reads.       *)
(***************************************************************************)
EXTENDS MCQnx, TLAPS

(* The owner of the mutex is where the mutex is held.                       *)
Owner ==
  /\ mode_mutex = "counter" <=> cpc \in {"switch", "store", "unlock"}
  /\ mode_mutex = "dispatch" <=> dpc \in {"load", "set_mode", "clear_value", "unlock"}

(* What the counter thread is about to store is still one step away.        *)
StoreIsCurrent == cpc = "store" => Delta # 0 /\ computed = value + Delta

Current(c) == mode = ModeOf(c) /\ (c = "reset" => value = 0)

(* The command that is in force, from where the handler is.                 *)
InForce ==
  /\ dpc = "load" => request.op = "read"
  /\ dpc = "set_mode" => request.op \in Commands
  /\ dpc = "clear_value" => request.op = "reset" /\ mode = "COUNT_STOP"
  /\ dpc \in {"unlock", "return"} => request.op \in Commands \cup {"read"}
  /\ dpc \in {"unlock", "return"} /\ request.op \in Commands => Current(request.op)
  /\ dpc \in {"block", "refuse", "lock", "load", "set_mode"} => Current(obeyed)
  /\ dpc \in {"unlock", "return"} /\ request.op = "read" => Current(obeyed)

IInv == TypeOK /\ Owner /\ StoreIsCurrent /\ InForce

-----------------------------------------------------------------------------
LEMMA InitIInv == Init => IInv
<1>. SUFFICES ASSUME Init PROVE IInv
  OBVIOUS
<1>1. TypeOK
  BY ResourceManagerAssumption DEF Init, TypeOK, Modes, Commands, NoOne, Values, NoData
<1>2. Owner /\ StoreIsCurrent /\ InForce
  BY DEF Init, Owner, StoreIsCurrent, InForce, Current, ModeOf, NoOne
<1>. QED  BY <1>1, <1>2 DEF IInv

LEMMA CounterIInv == ASSUME IInv, counter_function PROVE IInv'
<1>. USE DEF IInv, counter_function, dispatchVars
<1>1. TypeOK'
  <2>. USE ResourceManagerAssumption DEF TypeOK
  <2>1. CASE CounterLock
    BY <2>1 DEF CounterLock
  <2>2. CASE CounterSwitch
    BY <2>2 DEF CounterSwitch
  <2>3. CASE CounterStore
    BY <2>3 DEF CounterStore, Values
  <2>4. CASE CounterUnlock
    BY <2>4 DEF CounterUnlock
  <2>5. CASE Usleep
    BY <2>5 DEF Usleep
  <2>. QED  BY <2>1, <2>2, <2>3, <2>4, <2>5
<1>2. Owner'
  BY DEF Owner, CounterLock, CounterSwitch, CounterStore, CounterUnlock, Usleep, NoOne
<1>3. StoreIsCurrent'
  BY DEF StoreIsCurrent, CounterLock, CounterSwitch, CounterStore, CounterUnlock, Usleep, Delta
<1>4. InForce'
  <2>1. CASE CounterStore
    <3>1. mode # "COUNT_STOP" /\ mode' = mode /\ dpc' = dpc
      BY <2>1 DEF CounterStore, StoreIsCurrent, Delta
    <3>2. \A c \in Commands : Current(c) => c # "reset"
      BY <3>1 DEF Current, ModeOf, Commands
    <3>3. obeyed \in Commands /\ obeyed' = obeyed /\ request' = request
      BY DEF TypeOK
    <3>4. \A c \in Commands : Current(c) => Current(c)'
      BY <3>1, <3>2 DEF Current
    <3>. QED  BY <3>1, <3>3, <3>4 DEF InForce
  <2>2. CASE ~CounterStore
    BY <2>2 DEF InForce, Current, CounterLock, CounterSwitch, CounterUnlock, Usleep
  <2>. QED  BY <2>1, <2>2
<1>. QED  BY <1>1, <1>2, <1>3, <1>4

LEMMA DispatchIInv == ASSUME IInv, dispatch_handler PROVE IInv'
<1>. USE DEF IInv, dispatch_handler, counterVars
<1>1. CASE Clients
  <2>. PICK o \in Ocbs, op \in Commands \cup {"read", "unknown"} : Open(o) \/ Receive(o, op)
    BY <1>1 DEF Clients, Commands
  <2>1. TypeOK'
    BY DEF TypeOK, Open, Receive
  <2>. QED  BY <2>1 DEF Open, Receive, Owner, StoreIsCurrent, Delta, InForce, Current
<1>2. CASE Lock \/ Handler
  <2>1. TypeOK'
    <3>. USE ResourceManagerAssumption DEF TypeOK
    <3>1. CASE Lock
      BY <3>1 DEF Lock
    <3>2. CASE Refuse \/ UnknownCommand \/ Unlock
      BY <3>2 DEF Refuse, UnknownCommand, Unlock
    <3>3. CASE LoadValue
      BY <3>3 DEF LoadValue
    <3>4. CASE SetMode
      BY <3>4 DEF SetMode, ModeOf, Modes
    <3>5. CASE ClearValue
      BY <3>5 DEF ClearValue, Values
    <3>6. CASE Return
      BY <3>6 DEF Return, InForce
    <3>. QED  BY <1>2, <3>1, <3>2, <3>3, <3>4, <3>5, <3>6 DEF Handler
  <2>2. Owner'
    BY <1>2 DEF Handler, Owner, Lock, Refuse, UnknownCommand, Unlock, LoadValue, SetMode,
       ClearValue, Return, NoOne, TypeOK
  <2>3. StoreIsCurrent'
    BY <1>2 DEF Handler, StoreIsCurrent, Delta, Owner, Lock, Refuse, UnknownCommand, Unlock,
       LoadValue, SetMode, ClearValue, Return
  <2>4. InForce'
    <3>. USE DEF InForce, Current, TypeOK
    <3>1. CASE Lock
      BY <3>1 DEF Lock
    <3>2. CASE Refuse \/ UnknownCommand \/ Unlock
      BY <3>2 DEF Refuse, UnknownCommand, Unlock
    <3>3. CASE LoadValue
      BY <3>3 DEF LoadValue, Commands
    <3>4. CASE SetMode
      BY <3>4 DEF SetMode, ModeOf, Commands
    <3>5. CASE ClearValue
      BY <3>5 DEF ClearValue, ModeOf, Commands
    <3>6. CASE Return
      BY <3>6 DEF Return, Commands
    <3>. QED  BY <1>2, <3>1, <3>2, <3>3, <3>4, <3>5, <3>6 DEF Handler
  <2>. QED  BY <2>1, <2>2, <2>3, <2>4
<1>. QED  BY <1>1, <1>2

LEMMA Invariance == Spec => []IInv
<1>1. ASSUME IInv, UNCHANGED vars PROVE IInv'
  BY <1>1 DEF IInv, TypeOK, Owner, StoreIsCurrent, Delta, InForce, Current, vars,
     counterVars, dispatchVars
<1>2. ASSUME IInv, [Next]_vars PROVE IInv'
  BY <1>1, <1>2, CounterIInv, DispatchIInv DEF Next
<1>. QED  BY <1>2, InitIInv, PTL DEF Spec

-----------------------------------------------------------------------------
(* While no message is handled the counter is as the last command left it.  *)
THEOREM CommandsStayInForce == Spec => []CommandInForce
<1>1. IInv => CommandInForce
  BY DEF IInv, InForce, Current, CommandInForce
<1>. QED  BY <1>1, Invariance, PTL

(* The program implements the counter with instantaneous operations.        *)
THEOREM CounterIsAtomic == Spec => IsCounter
<1>1. Init => Service!Init
  BY DEF Init, Service!Init
<1>2. ASSUME IInv, [Next]_vars PROVE [Service!Next]_(Service!vars)
  <2>. USE DEF Service!Next, Service!vars
  <2>1. CASE UNCHANGED vars
    BY <2>1 DEF vars, dispatchVars
  <2>2. CASE counter_function
    <3>1. CASE CounterStore
      <4>1. dpc # "clear_value" /\ dpc' = dpc /\ counter_value' = counter_value
        BY <1>2, <2>2, <3>1 DEF IInv, Owner, CounterStore, counter_function, dispatchVars
      <4>2. value' = value + Delta /\ Delta # 0 /\ mode' = mode
        BY <1>2, <3>1 DEF IInv, StoreIsCurrent, CounterStore
      <4>. QED  BY <4>1, <4>2 DEF Service!Count, Delta
    <3>2. CASE ~CounterStore
      BY <2>2, <3>2 DEF counter_function, CounterLock, CounterSwitch, CounterUnlock, Usleep,
         dispatchVars
    <3>. QED  BY <3>1, <3>2
  <2>3. CASE dispatch_handler
    <3>1. CASE SetMode
      BY <1>2, <3>1 DEF SetMode, IInv, InForce, ModeOf, Commands, Service!Command
    <3>2. CASE LoadValue
      BY <3>2 DEF LoadValue, Service!Read
    <3>3. CASE ClearValue
      BY <3>3 DEF ClearValue
    <3>4. CASE Clients
      BY <3>4 DEF Clients, Open, Receive
    <3>5. CASE Lock \/ Refuse \/ UnknownCommand \/ Unlock \/ Return
      BY <3>5 DEF Lock, Refuse, UnknownCommand, Unlock, Return
    <3>. QED  BY <2>3, <3>1, <3>2, <3>3, <3>4, <3>5 DEF dispatch_handler, Handler
  <2>. QED  BY <1>2, <2>1, <2>2, <2>3 DEF Next
<1>. QED  BY <1>1, <1>2, Invariance, PTL DEF Spec, IsCounter, Service!Spec

-----------------------------------------------------------------------------
(* The message passing of ex09.  The server is between a message and its     *)
(* reply exactly while the client it will reply to is blocked.              *)

Own == Messages!Clients
Srv == Messages!Server

Places ==
  {"start", "send", "send_blocked", "reply_blocked", "check", "detach", "returned", "gave_up",
   "set_priority", "create", "join", "receive_blocked", "receive", "format", "reply"}

MessageType ==
  /\ pc \in [1..6 -> Places]
  /\ recv_buffer \in [Own -> {"empty", "message", "reply"} \X Nat] /\ error \in [Own -> BOOLEAN]
  /\ pc[Srv] \in {"format", "reply"} => receive_id \in Own /\ pc[receive_id] = "reply_blocked"

Blocked ==
  \A c \in Own : pc[c] = "reply_blocked" => pc[Srv] \in {"format", "reply"} /\ receive_id = c

OwnReply ==
  /\ buffer \in {"empty", "message", "reply"} \X Nat
  /\ pc[Srv] = "reply" => buffer = <<"reply", receive_id>>
  /\ \A c \in Own :
       pc[c] \in {"detach", "returned"} \/ (pc[c] = "check" /\ ~error[c]) => recv_buffer[c] = <<"reply", c>>

MessageInv == MessageType /\ Blocked /\ OwnReply

LEMMA StepMessageInv == ASSUME MessageInv, Messages!Next PROVE MessageInv'
<1>. USE DEF MessageInv, MessageType, Blocked, OwnReply, Own, Srv, Places, Messages!Clients,
             Messages!Server, Messages!Threads, Messages!NUM_CLIENTS, Messages!Main, Messages!Goto, Messages!Reply
<1>1. CASE Messages!main
  BY <1>1 DEF Messages!main, Messages!SetServerPriority, Messages!pthread_create, Messages!pthread_join,
              Messages!clientVars, Messages!serverVars
<1>2. ASSUME NEW c \in Messages!Clients, Messages!client(c) PROVE MessageInv'
  <2>1. CASE Messages!ClientSetPriority(c)
    BY <1>2, <2>1 DEF Messages!ClientSetPriority, Messages!clientVars, Messages!serverVars
  <2>2. CASE Messages!MsgSend(c)
    BY <1>2, <2>2 DEF Messages!MsgSend, Messages!Deliver, Messages!Message, Messages!clientVars, Messages!serverVars
  <2>3. CASE Messages!MsgSendFails(c)
    BY <1>2, <2>3 DEF Messages!MsgSendFails, Messages!serverVars
  <2>4. CASE Messages!CheckAttempt(c)
    BY <1>2, <2>4 DEF Messages!CheckAttempt, Messages!TooMany, Messages!serverVars
  <2>5. CASE Messages!ConnectDetach(c)
    BY <1>2, <2>5 DEF Messages!ConnectDetach, Messages!clientVars, Messages!serverVars
  <2>. QED  BY <1>2, <2>1, <2>2, <2>3, <2>4, <2>5 DEF Messages!client
<1>3. CASE Messages!server
  <2>1. CASE Messages!MsgReceive
    BY <2>1 DEF Messages!MsgReceive, Messages!Senders, Messages!Deliver, Messages!Message, Messages!clientVars, Messages!serverVars
  <2>2. CASE Messages!FormatReply
    BY <2>2 DEF Messages!FormatReply, Messages!FormattedReply, Messages!clientVars
  <2>3. CASE Messages!MsgReply
    BY <2>3 DEF Messages!MsgReply, Messages!serverVars
  <2>. QED  BY <1>3, <2>1, <2>2, <2>3 DEF Messages!server
<1>. QED  BY <1>1, <1>2, <1>3 DEF Messages!Next

-----------------------------------------------------------------------------
(* The example resource manager.  A file whose text has been taken and has   *)
(* not been read is the one the reply under way is for.                     *)

LastReplies == {"none", "nothing", "text", "overwritten"}

HelloType ==
  /\ fileOffset \in [Ocbs -> 0..Hello!Closed]
  /\ ctp = Hello!NoReply \/ ctp \in [file : Ocbs, parts : 0..1]
  /\ got \in [Ocbs -> [reads : Nat, texts : Nat, last : LastReplies]]

Taken ==
  \A f \in Ocbs :
    /\ fileOffset[f] = 0 => got[f].reads = 0 /\ ctp.file # f
    /\ fileOffset[f] = Hello!Closed => ctp.file # f
    /\ fileOffset[f] = 1 => got[f].reads > 0 \/ (ctp.file = f /\ ctp.parts = 1)
    /\ ctp.file = f => (ctp.parts = 1 <=> got[f].reads = 0)

HelloInv == HelloType /\ Taken /\ Hello!TextOnce

LEMMA StepHelloInv == ASSUME HelloInv, Hello!Next PROVE HelloInv'
<1>. USE QnxAssumption DEF HelloInv, HelloType, Taken, Hello!TextOnce, Hello!Closed, Hello!NoReply, Hello!Unread, LastReplies
<1>1. CASE Hello!dispatch_handler
  BY <1>1 DEF Hello!dispatch_handler
<1>2. ASSUME NEW f \in Ocbs, Hello!Open(f) PROVE HelloInv'
  BY <1>2 DEF Hello!Open
<1>3. ASSUME NEW f \in Ocbs, Hello!Close(f) PROVE HelloInv'
  BY <1>3 DEF Hello!Close
<1>4. ASSUME NEW f \in Ocbs, Hello!io_read(f) PROVE HelloInv'
  BY <1>4 DEF Hello!io_read
<1>. QED  BY <1>1, <1>2, <1>3, <1>4 DEF Hello!Next

(* Each client that is content has the reply to its own message, though the *)
(* server has one buffer and clients send meanwhile; and each open file of   *)
(* the example gives its text once.  (server() of project.c, io_read() of    *)
(* resmgr.c)                                                                *)
THEOREM RepliesAlwaysMatch == MCSpec => []RepliesMatch
<1>1. MCInit => MessageInv /\ HelloInv
  <2>. SUFFICES ASSUME MCInit PROVE MessageInv /\ HelloInv
    OBVIOUS
  <2>1. MessageInv
    BY DEF MCInit, Messages!Init, MessageInv, MessageType, Blocked, OwnReply, Own, Srv, Places,
           Messages!Clients, Messages!Server, Messages!Threads, Messages!NUM_CLIENTS, Messages!Main, Messages!Empty
  <2>2. HelloInv
    BY QnxAssumption DEF MCInit, Hello!Init, HelloInv, HelloType, Taken, Hello!TextOnce, Hello!Closed, Hello!NoReply, Hello!Unread, LastReplies
  <2>. QED  BY <2>1, <2>2
<1>2. ASSUME MessageInv, [MCNext]_programVars PROVE MessageInv'
  <2>1. CASE Messages!Next
    BY <1>2, <2>1, StepMessageInv
  <2>2. CASE UNCHANGED messageVars
    BY <1>2, <2>2 DEF messageVars, MessageInv, MessageType, Blocked, OwnReply, Srv
  <2>. QED  BY <1>2, <2>1, <2>2 DEF MCNext, ManagerStep, MessageStep, HelloStep, programVars
<1>3. ASSUME HelloInv, [MCNext]_programVars PROVE HelloInv'
  <2>1. CASE Hello!Next
    BY <1>3, <2>1, StepHelloInv
  <2>2. CASE UNCHANGED helloVars
    BY <1>3, <2>2 DEF helloVars, HelloInv, HelloType, Taken, Hello!TextOnce, Hello!NoReply, Hello!Closed
  <2>. QED  BY <1>3, <2>1, <2>2 DEF MCNext, ManagerStep, MessageStep, HelloStep, programVars
<1>4. MessageInv /\ HelloInv => RepliesMatch
  BY DEF RepliesMatch, Messages!RepliesMatch, Messages!Clients, Messages!NUM_CLIENTS, Messages!Reply, MessageInv,
         OwnReply, Own, HelloInv
<1>. QED  BY <1>1, <1>2, <1>3, <1>4, PTL DEF MCSpec
=============================================================================
