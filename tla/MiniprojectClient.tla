------------------------- MODULE MiniprojectClient -------------------------
(***************************************************************************)
(* The networked PID controller of miniproject/client: the main, listener  *)
(* and controller threads of main.c, the buffers and the connection they   *)
(* share through communication.c and, around them, the UDP network and the *)
(* simulation server.                                                      *)
(*                                                                         *)
(* A measurement is represented by its rank among the measurements the     *)
(* server has taken, so that y_recieved says how old its value is.  The    *)
(* static variables of pid() are a function of the measurements it was     *)
(* called with: samples is their sequence.  A datagram that is lost is one *)
(* that is never delivered: no action of the network is fair.              *)
(***************************************************************************)
EXTENDS Integers, Sequences, FiniteSets

CONSTANTS
  Iterations,  \* SIMULATION_DURATION * iterations_per_second
  Period,      \* period_ns, in clock ticks
  MaxEvents    \* bound: SIGNALs the server raises, duplicated datagrams and failed receive calls

ASSUME ClientAssumption ==
  Iterations \in Nat /\ Period \in Nat \ {0} /\ MaxEvents \in Nat

VARIABLES
  pc,          \* where each thread is
  cmd,         \* the command each thread gave com_send_command last
  conn,        \* the UDPConn: "none", "open" or "deleted"
  sendBuf,     \* a command, "torn", or the thread half way through writing one
  recvBuf,     \* the datagram received last
  sem,         \* controller_semaphore
  y_recieved,
  i, waketime, samples,  \* locals of the controller thread and of pid()
  now          \* CLOCK_REALTIME since the controller's first reading, in ticks

VARIABLES
  gets,        \* number of GET datagrams on their way to the server
  acks,        \* the measurements in GET_ACK datagrams on their way to the client
  signals,     \* number of SIGNAL datagrams on their way to the client
  measured,    \* number of measurements the server has taken
  raised       \* number of SIGNALs the server has raised

(* Counters of what went wrong so far; no guard reads them but for MaxEvents. *)
VARIABLES
  timeouts,    \* sem_timedwait calls that timed out
  skipped,     \* iterations that began with a measurement still unhandled
  extra,       \* duplicated datagrams and failed receive calls
  strays       \* GETs sent by a thread that meant to send another command

netVars   == <<gets, acks, signals, measured, raised>>
faultVars == <<timeouts, skipped, extra, strays>>
ctrlVars  == <<i, waketime, samples>>
vars      == <<pc, cmd, conn, sendBuf, recvBuf, sem, y_recieved, now,
               ctrlVars, netVars, faultVars>>

Senders  == {"listener", "controller"}
Threads  == {"main"} \cup Senders
Commands == {"START", "GET", "SET", "STOP", "SIGNAL_ACK"}
Torn     == "torn"
NoData   == [type |-> "ERROR", value |-> 0]  \* recvBuf after memset

Other(t)     == IF t = "listener" THEN "controller" ELSE "listener"
Running      == pc["main"] \notin {"exited", "failed"}
Goto(t, loc) == pc' = [pc EXCEPT ![t] = loc]

Init ==
  /\ pc = [t \in Threads |-> IF t = "main" THEN "com_init" ELSE "none"]
  /\ cmd = [t \in Senders |-> "START"]
  /\ conn = "none" /\ sendBuf = Torn /\ recvBuf = NoData
  /\ sem = 0 /\ y_recieved = 0
  /\ i = 0 /\ waketime = 0 /\ samples = <<>> /\ now = 0
  /\ gets = 0 /\ acks = {} /\ signals = 0 /\ measured = 0 /\ raised = 0
  /\ timeouts = 0 /\ skipped = 0 /\ extra = 0 /\ strays = 0

-----------------------------------------------------------------------------
(* main() *)

com_init ==
  /\ pc["main"] = "com_init"
  /\ conn' = "open"
  /\ sendBuf' = "START"
  /\ Goto("main", "create_listener")

pthread_create(t, here, start, next) ==
  /\ pc["main"] = here
  /\ \/ pc' = [pc EXCEPT !["main"] = next, ![t] = start]
     \/ Goto("main", "failed")
  /\ UNCHANGED <<conn, sendBuf>>

pthread_join ==
  /\ pc["main"] = "join"
  /\ pc["controller"] = "done"
  /\ Goto("main", "exited")
  /\ UNCHANGED <<conn, sendBuf>>

Main ==
  /\ \/ com_init
     \/ pthread_create("listener", "create_listener", "recv", "create_controller")
     \/ pthread_create("controller", "create_controller", "start", "join")
     \/ pthread_join
  /\ UNCHANGED <<cmd, recvBuf, sem, y_recieved, now, ctrlVars, netVars, faultVars>>

-----------------------------------------------------------------------------
(***************************************************************************)
(* com_send_command(): sprintf into the shared buffer, then sendto.  No    *)
(* lock is held, so both threads may be in it at once; what two sprintfs   *)
(* leave behind is the text of either or a mixture.                        *)
(***************************************************************************)
Call(t, command) == cmd' = [cmd EXCEPT ![t] = command] /\ Goto(t, "sprintf")

Return(t) == Goto(t, CASE cmd[t] = "SIGNAL_ACK" -> "recv"
                       [] cmd[t] = "GET" -> "wait"
                       [] cmd[t] = "SET" -> "sleep"
                       [] OTHER -> "delete")

SprintfBegin(t) ==
  /\ pc[t] = "sprintf"
  /\ sendBuf' = t
  /\ Goto(t, "writing")
  /\ UNCHANGED <<gets, strays>>

SprintfEnd(t) ==
  /\ pc[t] = "writing"
  /\ sendBuf' \in IF sendBuf = t /\ pc[Other(t)] # "writing"
                  THEN {cmd[t]} ELSE {cmd[t], sendBuf, Torn}
  /\ Goto(t, "sendto")
  /\ UNCHANGED <<gets, strays>>

UdpconnSend(t) ==
  LET getSent == sendBuf = "GET" /\ conn = "open"
  IN /\ pc[t] = "sendto"
     /\ gets' = IF getSent THEN gets + 1 ELSE gets
     /\ strays' = IF getSent /\ cmd[t] # "GET" THEN strays + 1 ELSE strays
     /\ Return(t)
     /\ UNCHANGED sendBuf

com_send_command(t) ==
  /\ SprintfBegin(t) \/ SprintfEnd(t) \/ UdpconnSend(t)
  /\ UNCHANGED <<cmd, conn, recvBuf, sem, y_recieved, now, ctrlVars,
                 acks, signals, measured, raised, timeouts, skipped, extra>>

-----------------------------------------------------------------------------
(***************************************************************************)
(* listener_thread_function().  The result of recvfrom is ignored: on a    *)
(* deleted connection it fails at once and the previous datagram is        *)
(* handled again.  A receive call that was waiting when the connection was *)
(* deleted goes on waiting and may still get a datagram.                   *)
(***************************************************************************)
Recvfrom ==
  /\ pc["listener"] = "recv"
  /\ \/ conn = "open" /\ Goto("listener", "receiving") /\ UNCHANGED extra
     \/ /\ conn = "deleted" /\ raised + extra < MaxEvents
        /\ extra' = extra + 1
        /\ Goto("listener", "switch")
  /\ UNCHANGED <<cmd, recvBuf, sem, y_recieved, acks, signals>>

ReceiveSignal ==
  /\ pc["listener"] = "receiving" /\ signals > 0
  /\ signals' = signals - 1
  /\ recvBuf' = [type |-> "SIGNAL", value |-> 0]
  /\ Goto("listener", "switch")
  /\ UNCHANGED <<cmd, sem, y_recieved, acks, extra>>

ReceiveAck(m) ==
  /\ pc["listener"] = "receiving" /\ m \in acks
  /\ \/ acks' = acks \ {m} /\ UNCHANGED extra
     \/ raised + extra < MaxEvents /\ extra' = extra + 1 /\ UNCHANGED acks
  /\ recvBuf' = [type |-> "GET_ACK", value |-> m]
  /\ Goto("listener", "switch")
  /\ UNCHANGED <<cmd, sem, y_recieved, signals>>

Switch ==
  /\ pc["listener"] = "switch"
  /\ \/ recvBuf.type = "SIGNAL" /\ Call("listener", "SIGNAL_ACK") /\ UNCHANGED y_recieved
     \/ /\ recvBuf.type = "GET_ACK"
        /\ y_recieved' = recvBuf.value
        /\ Goto("listener", "post") /\ UNCHANGED cmd
     \/ recvBuf.type = "ERROR" /\ Goto("listener", "recv") /\ UNCHANGED <<cmd, y_recieved>>
  /\ UNCHANGED <<recvBuf, sem, acks, signals, extra>>

SemPost ==
  /\ pc["listener"] = "post"
  /\ sem' = sem + 1
  /\ Goto("listener", "recv")
  /\ UNCHANGED <<cmd, recvBuf, y_recieved, acks, signals, extra>>

Listener ==
  \/ com_send_command("listener")
  \/ /\ Recvfrom \/ ReceiveSignal \/ (\E m \in acks : ReceiveAck(m)) \/ Switch \/ SemPost
     /\ UNCHANGED <<conn, sendBuf, now, ctrlVars, gets, measured, raised,
                    timeouts, skipped, strays>>

-----------------------------------------------------------------------------
(* controller_thread_function() *)

ClockGettime ==
  /\ pc["controller"] = "start"
  /\ waketime' = now
  /\ Goto("controller", "for")
  /\ UNCHANGED <<cmd, conn, sem, i, samples, timeouts, skipped>>

NextWaketime == waketime + Period

BeginIteration ==
  /\ pc["controller"] = "for" /\ i < Iterations
  /\ waketime' = NextWaketime
  /\ Goto("controller", "getvalue")
  /\ UNCHANGED <<cmd, conn, sem, i, samples, timeouts, skipped>>

EndLoop ==
  /\ pc["controller"] = "for" /\ i = Iterations
  /\ Call("controller", "STOP")
  /\ UNCHANGED <<conn, sem, ctrlVars, timeouts, skipped>>

AlwaysRequest == FALSE  \* MUTANT: GET is sent whatever the semaphore says

DataUnhandled == sem # 0

SemGetvalue ==
  /\ pc["controller"] = "getvalue"
  /\ IF DataUnhandled THEN Goto("controller", "wait") /\ UNCHANGED cmd
                      ELSE Call("controller", "GET")
  /\ skipped' = IF sem > 0 THEN skipped + 1 ELSE skipped
  /\ UNCHANGED <<conn, sem, ctrlVars, timeouts>>

PostedOrZero == sem >= 0  \* MUTANT: the wait does not block
NoTimeout    == FALSE     \* MUTANT: sem_wait instead of sem_timedwait

Posted   == sem > 0
TimedOut == sem = 0 /\ now >= waketime

SemTimedwait ==
  /\ pc["controller"] = "wait"
  /\ \/ Posted /\ sem' = sem - 1 /\ UNCHANGED timeouts
     \/ TimedOut /\ timeouts' = timeouts + 1 /\ UNCHANGED sem
  /\ Goto("controller", "pid")
  /\ UNCHANGED <<cmd, conn, ctrlVars, skipped>>

Pid ==
  /\ pc["controller"] = "pid"
  /\ samples' = Append(samples, y_recieved)
  /\ Call("controller", "SET")
  /\ UNCHANGED <<conn, sem, i, waketime, timeouts, skipped>>

NoSleep ==  \* MUTANT: the loop does not sleep
  /\ pc["controller"] = "sleep"
  /\ i' = i + 1
  /\ Goto("controller", "for")
  /\ UNCHANGED <<cmd, conn, sem, waketime, samples, timeouts, skipped>>

ClockNanosleep ==
  /\ pc["controller"] = "sleep" /\ now >= waketime
  /\ i' = i + 1
  /\ Goto("controller", "for")
  /\ UNCHANGED <<cmd, conn, sem, waketime, samples, timeouts, skipped>>

UdpconnDelete ==
  /\ pc["controller"] = "delete"
  /\ conn' = "deleted"
  /\ Goto("controller", "done")
  /\ UNCHANGED <<cmd, sem, ctrlVars, timeouts, skipped>>

Controller ==
  \/ com_send_command("controller")
  \/ /\ \/ ClockGettime \/ BeginIteration \/ EndLoop \/ SemGetvalue
        \/ SemTimedwait \/ Pid \/ ClockNanosleep \/ UdpconnDelete
     /\ UNCHANGED <<sendBuf, recvBuf, y_recieved, now, netVars, extra, strays>>

-----------------------------------------------------------------------------
(***************************************************************************)
(* The environment.  The server answers each GET it receives with a new    *)
(* measurement and raises SIGNALs of its own accord.  No deadline lies     *)
(* after Iterations * Period, so the clock need not go further.            *)
(***************************************************************************)
ServerAnswer ==
  /\ gets > 0
  /\ \/ gets' = gets - 1 /\ UNCHANGED extra
     \/ raised + extra < MaxEvents /\ extra' = extra + 1 /\ UNCHANGED gets
  /\ measured' = measured + 1
  /\ acks' = acks \cup {measured + 1}
  /\ UNCHANGED <<signals, raised, now>>

ServerSignal ==
  /\ conn # "none" /\ raised + extra < MaxEvents
  /\ raised' = raised + 1
  /\ signals' = signals + 1
  /\ UNCHANGED <<gets, acks, measured, extra, now>>

Tick ==
  /\ pc["controller"] \notin {"none", "start"} /\ now < Iterations * Period
  /\ now' = now + 1
  /\ UNCHANGED <<netVars, extra>>

Environment ==
  /\ ServerAnswer \/ ServerSignal \/ Tick
  /\ UNCHANGED <<pc, cmd, conn, sendBuf, recvBuf, sem, y_recieved, ctrlVars,
                 timeouts, skipped, strays>>

Exited == ~Running /\ UNCHANGED vars

Next == \/ Running /\ Main
        \/ Running /\ Listener
        \/ Running /\ Controller
        \/ Running /\ Environment
        \/ Exited

(***************************************************************************)
(* The operating system runs main and the controller whenever they can     *)
(* move, and time passes.  Nothing is assumed of the listener, of the      *)
(* network or of the server.                                               *)
(***************************************************************************)
Fairness ==
  /\ WF_vars(Running /\ Main)
  /\ WF_vars(Running /\ Controller)
  /\ WF_vars(Running /\ Environment /\ Tick)

Spec == Init /\ [][Next]_vars /\ Fairness

-----------------------------------------------------------------------------
(* Types *)

Sending == {"sprintf", "writing", "sendto"}

MainLocations       == {"com_init", "create_listener", "create_controller",
                        "join", "exited", "failed"}
ListenerLocations   == {"none", "recv", "receiving", "switch", "post"} \cup Sending
ControllerLocations == {"none", "start", "for", "getvalue", "wait", "pid", "sleep",
                        "delete", "done"} \cup Sending
Datagrams == [type : {"ERROR", "SIGNAL", "GET_ACK"}, value : Nat]

ControlOK ==
  /\ pc \in [Threads -> MainLocations \cup ListenerLocations \cup ControllerLocations]
  /\ pc["main"] \in MainLocations
  /\ pc["listener"] \in ListenerLocations
  /\ pc["controller"] \in ControllerLocations
  /\ pc["main"] \in {"com_init", "create_listener", "create_controller"} =>
       pc["controller"] = "none"
  /\ cmd \in [Senders -> Commands]
  /\ pc["listener"] \in Sending => cmd["listener"] = "SIGNAL_ACK"
  /\ pc["controller"] \in Sending => cmd["controller"] \in {"GET", "SET", "STOP"}

SharedOK ==
  /\ conn \in {"none", "open", "deleted"}
  /\ sendBuf \in Commands \cup Senders \cup {Torn}
  /\ recvBuf \in Datagrams
  /\ sem \in Nat
  /\ y_recieved \in Nat

LoopOK ==
  /\ i \in Nat
  /\ waketime \in Nat
  /\ samples \in Seq(Nat)
  /\ now \in Nat

NetworkOK ==
  /\ gets \in Nat
  /\ signals \in Nat
  /\ measured \in Nat
  /\ raised \in 0..MaxEvents
  /\ acks \subseteq 1..measured

FaultsOK ==
  /\ timeouts \in Nat
  /\ skipped \in Nat
  /\ extra \in 0..MaxEvents
  /\ strays \in Nat

(* Every variable has its type, main creates the controller but once, a      *)
(* thread that is sending sends one of its own commands, and only            *)
(* measurements the server took are under way.                               *)
TypeOK == ControlOK /\ SharedOK /\ LoopOK /\ NetworkOK /\ FaultsOK

-----------------------------------------------------------------------------
(* Properties *)

(***************************************************************************)
(* Requests and answers.  The listener holds an answer from the moment it  *)
(* is received until it is posted; the controller awaits one after it sent *)
(* GET or saw that data is unhandled.                                      *)
(***************************************************************************)
Held   == IF \/ pc["listener"] = "post"
             \/ pc["listener"] = "switch" /\ recvBuf.type = "GET_ACK" THEN 1 ELSE 0
AtWait == IF pc["controller"] = "wait" THEN 1 ELSE 0
Faults == timeouts + extra + strays

(* All that is on its way to the semaphore or in it, together with the      *)
(* iterations that found it posted, is paid for by the wait in progress and *)
(* by the faults so far: a fault (a timeout, a duplicate, a GET sent by     *)
(* mistake) adds one unhandled measurement, and nothing else does.          *)
OutstandingBounded ==
  gets + Cardinality(acks) + Held + sem + skipped <= AtWait + Faults

(* Without timeouts, duplicates and stray GETs every sample pid() computes  *)
(* with is a new measurement of the server and later than the one before.   *)
FreshSamples ==
  Faults = 0 => /\ \A k \in 1..Len(samples) : samples[k] > 0
                /\ \A k \in 1..(Len(samples) - 1) : samples[k] < samples[k + 1]

(* The controller is within the body of the loop. *)
InBody == \/ pc["controller"] \in {"getvalue", "wait", "pid", "sleep"}
          \/ pc["controller"] \in Sending /\ cmd["controller"] # "STOP"
Begun  == IF InBody THEN i + 1 ELSE i

(* Deadlines do not drift: the wake time is always the number of iterations *)
(* begun times the period, however late the iterations before were, and an  *)
(* iteration never begins before its time.                                  *)
NoDrift == pc["controller"] \notin {"none", "start"} =>
             waketime = Begun * Period /\ now >= i * Period

(* The loop of the controller is a periodic task. *)
Task == INSTANCE PeriodicTask WITH Jobs <- Iterations, released <- Begun, finished <- i
ControllerIsPeriodic == Task!Spec

(* The program ends, whatever the network loses: no iteration waits for an  *)
(* answer beyond its deadline, and main does not wait for the listener.     *)
Stops == <>(~Running)

-----------------------------------------------------------------------------
(* What the comments of the code say, and the code does not do *)

(* TODO.txt:3 "Mutexes for comms": what com_send_command sends is the       *)
(* command it was called with.                                              *)
SendsItsCommand ==
  \A t \in Senders : pc[t] = "sendto" => sendBuf = cmd[t]

=============================================================================
