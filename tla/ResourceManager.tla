-------------------------- MODULE ResourceManager --------------------------
(***************************************************************************)
(* The QNX resource manager of ex10/project/main.c: a counter that a       *)
(* thread of its own advances, and the handlers through which clients of   *)
(* /dev/myresource read it and give it commands.  The dispatch loop        *)
(* handles one message at a time; both threads work on the counter under   *)
(* mode_mutex, its loads and stores being steps of their own.              *)
(***************************************************************************)
EXTENDS Integers

CONSTANTS
  Ocbs,     \* the open control blocks: one for each open() of a client
  MaxValue  \* bound on the size of the value (int overflow lies far beyond)

ASSUME ResourceManagerAssumption == MaxValue \in Nat

VARIABLES
  mode, value,         \* the counter
  mode_mutex,          \* its owner
  cpc, computed,         \* where counter_function is, and the value it will store
  dpc, request,        \* where the dispatch loop is, and the message it handles
  counter_value,       \* local of io_read
  offset,              \* ocb->offset
  reply,               \* what io_read last gave its client
  obeyed               \* history: the last command that was answered

counterVars  == <<cpc, computed>>
dispatchVars == <<dpc, request, counter_value, offset, reply, obeyed>>
vars         == <<mode, value, mode_mutex, counterVars, dispatchVars>>

Modes    == {"COUNT_STOP", "COUNT_UP", "COUNT_DOWN"}
Commands == {"stop", "up", "down", "reset"}
NoOne    == "none"
Values   == -MaxValue..MaxValue
NoData   == MaxValue + 1  \* a read of no bytes
ModeOf(c) == CASE c = "up" -> "COUNT_UP" [] c = "down" -> "COUNT_DOWN" [] OTHER -> "COUNT_STOP"

Init ==
  /\ mode = "COUNT_STOP" /\ value = 0 /\ mode_mutex = NoOne
  /\ cpc = "lock" /\ computed = 0
  /\ dpc = "block" /\ request \in [op : {"read"}, ocb : Ocbs]
  /\ counter_value = 0
  /\ offset = [o \in Ocbs |-> 0]
  /\ reply = NoData /\ obeyed = "stop"

-----------------------------------------------------------------------------
(* counter_function() *)

CounterDontLock ==  \* MUTANT: the counter thread does not take the mutex
  /\ cpc = "lock"
  /\ cpc' = "switch"
  /\ UNCHANGED <<mode, value, mode_mutex, computed>>

CounterLock ==
  /\ cpc = "lock" /\ mode_mutex = NoOne
  /\ mode_mutex' = "counter" /\ cpc' = "switch"
  /\ UNCHANGED <<mode, value, computed>>

Delta == CASE mode = "COUNT_UP" -> 1 [] mode = "COUNT_DOWN" -> -1 [] OTHER -> 0

CounterSwitch ==
  /\ cpc = "switch"
  /\ IF Delta # 0 /\ value + Delta \in Values
     THEN cpc' = "store" /\ computed' = value + Delta
     ELSE cpc' = "unlock" /\ UNCHANGED computed
  /\ UNCHANGED <<mode, value, mode_mutex>>

CounterStore ==
  /\ cpc = "store"
  /\ value' = computed /\ computed' = 0
  /\ cpc' = "unlock"
  /\ UNCHANGED <<mode, mode_mutex>>

CounterUnlock ==
  /\ cpc = "unlock"
  /\ mode_mutex' = NoOne /\ cpc' = "sleep"
  /\ UNCHANGED <<mode, value, computed>>

Usleep ==
  /\ cpc = "sleep" /\ cpc' = "lock"
  /\ UNCHANGED <<mode, value, mode_mutex, computed>>

counter_function ==
  /\ CounterLock \/ CounterSwitch \/ CounterStore \/ CounterUnlock \/ Usleep
  /\ UNCHANGED dispatchVars

-----------------------------------------------------------------------------
(* The dispatch loop of main(), io_read() and io_write() *)

(* A client opens the device: iofunc gives it a new control block.          *)
Open(o) ==
  /\ dpc = "block"
  /\ offset' = [offset EXCEPT ![o] = 0]
  /\ UNCHANGED <<mode, value, mode_mutex, dpc, request, counter_value, reply, obeyed>>

Receive(o, op) ==
  /\ dpc = "block"
  /\ request' = [op |-> op, ocb |-> o]
  /\ \/ dpc' = "lock"
     \/ op # "read" /\ dpc' = "refuse"  \* not verified, or not a plain write
  /\ UNCHANGED <<mode, value, mode_mutex, counter_value, offset, reply, obeyed>>

Refuse ==
  /\ dpc = "refuse" /\ dpc' = "block"
  /\ UNCHANGED <<mode, value, mode_mutex, request, counter_value, offset, reply, obeyed>>

UnknownCommand ==
  /\ dpc = "lock" /\ request.op = "unknown"
  /\ dpc' = "block"
  /\ UNCHANGED <<mode, value, mode_mutex, request, counter_value, offset, reply, obeyed>>

Lock ==
  /\ dpc = "lock" /\ request.op # "unknown" /\ mode_mutex = NoOne
  /\ mode_mutex' = "dispatch" /\ dpc' = IF request.op = "read" THEN "load" ELSE "set_mode"
  /\ UNCHANGED <<mode, value, request, counter_value, offset, reply, obeyed>>

LoadValue ==
  /\ dpc = "load"
  /\ counter_value' = value /\ dpc' = "unlock"
  /\ UNCHANGED <<mode, value, mode_mutex, request, offset, reply, obeyed>>

LeaveStopped ==  \* MUTANT: reset clears the value but leaves the mode
  /\ dpc = "set_mode"
  /\ mode' = IF request.op = "reset" THEN mode ELSE ModeOf(request.op)
  /\ dpc' = IF request.op = "reset" THEN "clear_value" ELSE "unlock"
  /\ UNCHANGED <<value, mode_mutex, request, counter_value, offset, reply, obeyed>>

SetMode ==
  /\ dpc = "set_mode"
  /\ mode' = ModeOf(request.op)
  /\ dpc' = IF request.op = "reset" THEN "clear_value" ELSE "unlock"
  /\ UNCHANGED <<value, mode_mutex, request, counter_value, offset, reply, obeyed>>

ClearValue ==
  /\ dpc = "clear_value"
  /\ value' = 0 /\ dpc' = "unlock"
  /\ UNCHANGED <<mode, mode_mutex, request, counter_value, offset, reply, obeyed>>

Unlock ==
  /\ dpc = "unlock"
  /\ mode_mutex' = NoOne /\ dpc' = "return"
  /\ UNCHANGED <<mode, value, request, counter_value, offset, reply, obeyed>>

(* io_read() gives data once for each open; a command is answered without.  *)
Return ==
  /\ dpc = "return" /\ dpc' = "block"
  /\ IF request.op = "read"
     THEN /\ reply' = IF offset[request.ocb] = 0 THEN counter_value ELSE NoData
          /\ offset' = [offset EXCEPT ![request.ocb] = 1]
          /\ UNCHANGED obeyed
     ELSE obeyed' = request.op /\ UNCHANGED <<reply, offset>>
  /\ UNCHANGED <<mode, value, mode_mutex, request, counter_value>>

Clients ==
  \E o \in Ocbs : Open(o) \/ \E op \in Commands \cup {"read", "unknown"} : Receive(o, op)

Handler == Refuse \/ UnknownCommand \/ LoadValue \/ SetMode \/ ClearValue \/ Unlock \/ Return

dispatch_handler == (Clients \/ Lock \/ Handler) /\ UNCHANGED counterVars

Next == counter_function \/ dispatch_handler

(***************************************************************************)
(* Both threads run when they can.  The counter thread leaves the mutex    *)
(* alone for 100 ms of each round, and a QNX mutex goes to the thread that *)
(* waits for it, so that a handler that asks for it again and again gets   *)
(* it.  Clients need not ask for anything.                                 *)
(***************************************************************************)
Fairness ==
  /\ WF_vars(counter_function)
  /\ WF_vars(Handler /\ UNCHANGED counterVars)
  /\ SF_vars(Lock /\ UNCHANGED counterVars)

Spec == Init /\ [][Next]_vars /\ Fairness

-----------------------------------------------------------------------------
TypeOK ==
  /\ mode \in Modes
  /\ value \in Values
  /\ mode_mutex \in {NoOne, "counter", "dispatch"}
  /\ cpc \in {"lock", "switch", "store", "unlock", "sleep"}
  /\ computed \in Values
  /\ dpc \in {"block", "refuse", "lock", "load", "set_mode", "clear_value", "unlock", "return"}
  /\ request \in [op : Commands \cup {"read", "unknown"}, ocb : Ocbs]
  /\ counter_value \in Values
  /\ offset \in [Ocbs -> {0, 1}]
  /\ reply \in Values \cup {NoData}
  /\ obeyed \in Commands

(* While no message is handled, the counter is as the last answered command *)
(* left it: in its mode, and still 0 after a reset, whatever the counter     *)
(* thread was doing when the command came.                                   *)
CommandInForce ==
  dpc = "block" => /\ mode = ModeOf(obeyed)
                   /\ obeyed = "reset" => value = 0

(* Loads, stores and the mutex implement a counter whose counts, commands   *)
(* and reads are instantaneous; a reset takes effect when it sets the mode. *)
Service == INSTANCE CounterService
             WITH value <- IF dpc = "clear_value" THEN 0 ELSE value, seen <- counter_value
IsCounter == Service!Spec

(* Every message a client sends is answered. *)
MessagesAnswered == dpc # "block" ~> dpc = "block"

=============================================================================
