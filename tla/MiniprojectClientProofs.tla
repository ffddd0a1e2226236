---------------------- MODULE MiniprojectClientProofs ----------------------
(***************************************************************************)
(* Proofs about MiniprojectClient, for every number of iterations, period, *)
(* number of SIGNALs and number of duplicates.                             *)
(***************************************************************************)
EXTENDS MiniprojectClient, FiniteSetTheorems, TLAPS

-----------------------------------------------------------------------------
(* Type correctness *)

LEMMA InitType == Init => TypeOK
<1>. SUFFICES ASSUME Init PROVE TypeOK
  OBVIOUS
<1>. USE DEF Init
<1>1. ControlOK
  BY DEF ControlOK, Threads, Senders, Commands, 
     MainLocations, ListenerLocations, ControllerLocations, Sending
<1>2. SharedOK
  BY DEF SharedOK, Senders, Commands, Torn, NoData, Datagrams
<1>3. LoopOK
  BY ClientAssumption DEF LoopOK
<1>4. NetworkOK
  BY ClientAssumption DEF NetworkOK
<1>5. FaultsOK
  BY ClientAssumption DEF FaultsOK
<1>. QED  BY <1>1, <1>2, <1>3, <1>4, <1>5 DEF TypeOK

LEMMA MainType == TypeOK /\ Main => TypeOK'
<1>. SUFFICES ASSUME TypeOK, Main PROVE TypeOK'
  OBVIOUS
<1>. USE DEF TypeOK, Main, faultVars, netVars, ctrlVars
<1>1. ControlOK'
 <2>. USE DEF ControlOK, Threads, Senders, Goto, 
     MainLocations, ListenerLocations, ControllerLocations, Sending
 <2>1. CASE com_init
  BY <2>1 DEF com_init
 <2>2. CASE pthread_create("listener", "create_listener", "recv", "create_controller")
  BY <2>2 DEF pthread_create
 <2>3. CASE pthread_create("controller", "create_controller", "start", "join")
  BY <2>3 DEF pthread_create
 <2>4. CASE pthread_join
  BY <2>4 DEF pthread_join
 <2>. QED  BY <2>1, <2>2, <2>3, <2>4
<1>2. SharedOK'
  BY DEF SharedOK, com_init, pthread_create, pthread_join, Commands, Datagrams
<1>3. LoopOK'
  BY DEF LoopOK
<1>4. NetworkOK'
  BY DEF NetworkOK
<1>5. FaultsOK'
  BY DEF FaultsOK
<1>. QED  BY <1>1, <1>2, <1>3, <1>4, <1>5 

LEMMA SendType == ASSUME TypeOK, NEW t \in Senders, com_send_command(t) PROVE TypeOK'
<1>. USE DEF TypeOK, com_send_command, ctrlVars
<1>1. ControlOK'
  <2>. USE DEF ControlOK, Threads, Senders, Goto, ListenerLocations, ControllerLocations, Sending
  <2>1. CASE SprintfBegin(t)
    BY <2>1 DEF SprintfBegin
  <2>2. CASE SprintfEnd(t)
    BY <2>2 DEF SprintfEnd
  <2>3. CASE UdpconnSend(t)
    BY <2>3 DEF UdpconnSend, Return
  <2>. QED  BY <2>1, <2>2, <2>3
<1>2. SharedOK'
  BY DEF SharedOK, SprintfBegin, SprintfEnd, UdpconnSend, ControlOK
<1>3. LoopOK'
  BY DEF LoopOK
<1>4. NetworkOK'
  BY DEF NetworkOK, SprintfBegin, SprintfEnd, UdpconnSend
<1>5. FaultsOK'
  BY DEF FaultsOK, SprintfBegin, SprintfEnd, UdpconnSend
<1>. QED  BY <1>1, <1>2, <1>3, <1>4, <1>5

LEMMA ListenerType ==
  ASSUME TypeOK, Listener, ~com_send_command("listener") PROVE TypeOK'
<1>. USE DEF TypeOK, Listener, ctrlVars
<1>1. ControlOK'
  <2>. USE DEF ControlOK, Threads, Senders, Commands, Goto, Call, ListenerLocations, Sending
  <2>1. CASE Recvfrom
    BY <2>1 DEF Recvfrom
  <2>2. CASE ReceiveSignal
    BY <2>2 DEF ReceiveSignal
  <2>3. ASSUME NEW m \in acks, ReceiveAck(m) PROVE ControlOK'
    BY <2>3 DEF ReceiveAck
  <2>4. CASE Switch
    BY <2>4 DEF Switch
  <2>5. CASE SemPost
    BY <2>5 DEF SemPost
  <2>. QED  BY <2>1, <2>2, <2>3, <2>4, <2>5
<1>2. SharedOK'
  <2>. USE DEF SharedOK, Datagrams
  <2>1. CASE Recvfrom
    BY <2>1 DEF Recvfrom
  <2>2. CASE ReceiveSignal
    BY <2>2 DEF ReceiveSignal
  <2>3. ASSUME NEW m \in acks, ReceiveAck(m) PROVE SharedOK'
    BY <2>3 DEF ReceiveAck, NetworkOK
  <2>4. CASE Switch
    BY <2>4 DEF Switch
  <2>5. CASE SemPost
    BY <2>5 DEF SemPost
  <2>. QED  BY <2>1, <2>2, <2>3, <2>4, <2>5
<1>3. LoopOK'
  BY DEF LoopOK
<1>4. NetworkOK'
  <2>. USE DEF NetworkOK
  <2>1. CASE Recvfrom
    BY <2>1 DEF Recvfrom
  <2>2. CASE ReceiveSignal
    BY <2>2 DEF ReceiveSignal
  <2>3. ASSUME NEW m \in acks, ReceiveAck(m) PROVE NetworkOK'
    BY <2>3 DEF ReceiveAck
  <2>4. CASE Switch
    BY <2>4 DEF Switch
  <2>5. CASE SemPost
    BY <2>5 DEF SemPost
  <2>. QED  BY <2>1, <2>2, <2>3, <2>4, <2>5
<1>5. FaultsOK'
  BY ClientAssumption DEF FaultsOK, NetworkOK, Recvfrom, ReceiveSignal, ReceiveAck, Switch, SemPost
<1>. QED  BY <1>1, <1>2, <1>3, <1>4, <1>5

LEMMA ControllerType ==
  ASSUME TypeOK, Controller, ~com_send_command("controller") PROVE TypeOK'
<1>. USE DEF TypeOK, Controller, ctrlVars, netVars
<1>1. ControlOK'
  <2>. USE DEF ControlOK, Threads, Senders, Commands, Goto, Call, ControllerLocations, Sending
  <2>1. CASE ClockGettime
    BY <2>1 DEF ClockGettime
  <2>2. CASE BeginIteration
    BY <2>2 DEF BeginIteration
  <2>3. CASE EndLoop
    BY <2>3 DEF EndLoop
  <2>4. CASE SemGetvalue
    BY <2>4 DEF SemGetvalue
  <2>5. CASE SemTimedwait
    BY <2>5 DEF SemTimedwait
  <2>6. CASE Pid
    BY <2>6 DEF Pid
  <2>7. CASE ClockNanosleep
    BY <2>7 DEF ClockNanosleep
  <2>8. CASE UdpconnDelete
    BY <2>8 DEF UdpconnDelete
  <2>. QED  BY <2>1, <2>2, <2>3, <2>4, <2>5, <2>6, <2>7, <2>8
<1>2. SharedOK'
  <2>. USE DEF SharedOK
  <2>1. CASE ClockGettime
    BY <2>1 DEF ClockGettime
  <2>2. CASE BeginIteration
    BY <2>2 DEF BeginIteration
  <2>3. CASE EndLoop
    BY <2>3 DEF EndLoop
  <2>4. CASE SemGetvalue
    BY <2>4 DEF SemGetvalue
  <2>5. CASE SemTimedwait
    BY <2>5 DEF SemTimedwait, Posted, TimedOut
  <2>6. CASE Pid
    BY <2>6 DEF Pid
  <2>7. CASE ClockNanosleep
    BY <2>7 DEF ClockNanosleep
  <2>8. CASE UdpconnDelete
    BY <2>8 DEF UdpconnDelete
  <2>. QED  BY <2>1, <2>2, <2>3, <2>4, <2>5, <2>6, <2>7, <2>8
<1>3. LoopOK'
  <2>. USE DEF LoopOK
  <2>1. CASE ClockGettime
    BY <2>1 DEF ClockGettime
  <2>2. CASE BeginIteration
    BY <2>2, ClientAssumption DEF BeginIteration, NextWaketime
  <2>3. CASE EndLoop
    BY <2>3 DEF EndLoop
  <2>4. CASE SemGetvalue
    BY <2>4 DEF SemGetvalue
  <2>5. CASE SemTimedwait
    BY <2>5 DEF SemTimedwait
  <2>6. CASE Pid
    BY <2>6 DEF Pid, SharedOK
  <2>7. CASE ClockNanosleep
    BY <2>7 DEF ClockNanosleep
  <2>8. CASE UdpconnDelete
    BY <2>8 DEF UdpconnDelete
  <2>. QED  BY <2>1, <2>2, <2>3, <2>4, <2>5, <2>6, <2>7, <2>8
<1>4. NetworkOK'
  BY DEF NetworkOK
<1>5. FaultsOK'
  BY DEF FaultsOK, SemGetvalue, SemTimedwait, ClockGettime, BeginIteration, EndLoop, Pid,
         ClockNanosleep, UdpconnDelete
<1>. QED  BY <1>1, <1>2, <1>3, <1>4, <1>5

LEMMA EnvironmentType == ASSUME TypeOK, Environment PROVE TypeOK'
<1>. USE DEF TypeOK, Environment, ctrlVars, netVars
<1>1. ControlOK'
  BY DEF ControlOK
<1>2. SharedOK'
  BY DEF SharedOK
<1>3. LoopOK'
  BY DEF LoopOK, ServerAnswer, ServerSignal, Tick
<1>4. NetworkOK'
  <2>. USE DEF NetworkOK
  <2>1. CASE ServerAnswer
    BY <2>1 DEF ServerAnswer
  <2>2. CASE ServerSignal
    BY <2>2, ClientAssumption DEF ServerSignal, FaultsOK
  <2>3. CASE Tick
    BY <2>3 DEF Tick
  <2>. QED  BY <2>1, <2>2, <2>3
<1>5. FaultsOK'
  BY ClientAssumption DEF FaultsOK, NetworkOK, ServerAnswer, ServerSignal, Tick
<1>. QED  BY <1>1, <1>2, <1>3, <1>4, <1>5

LEMMA StutterType == ASSUME TypeOK, UNCHANGED vars PROVE TypeOK'
  BY DEF TypeOK, ControlOK, SharedOK, LoopOK, NetworkOK, FaultsOK, vars, ctrlVars, netVars, faultVars

LEMMA NextType == TypeOK /\ [Next]_vars => TypeOK'
  BY MainType, SendType, ListenerType, ControllerType, EnvironmentType, StutterType
     DEF Next, Listener, Controller, Exited, Senders

(* The variables keep their types, a sending thread sends one of its own    *)
(* commands (communication.c is called with no other) and only measurements *)
(* the server took are under way.                                           *)
THEOREM TypeCorrect == Spec => []TypeOK
  BY InitType, NextType, PTL DEF Spec

-----------------------------------------------------------------------------
(* Requests, answers and posts *)

LEMMA FiniteAcks ==
  ASSUME NEW m \in Nat, NEW S, S \subseteq 1..m
  PROVE  IsFiniteSet(S) /\ Cardinality(S) \in Nat
<1>1. IsFiniteSet(1..m)
  BY FS_Interval
<1>2. IsFiniteSet(S)
  BY <1>1, FS_Subset
<1>. QED  BY <1>2, FS_CardinalityType

LEMMA OutstandingNext ==
  ASSUME TypeOK, TypeOK', OutstandingBounded, [Next]_vars PROVE OutstandingBounded'
<1>. DEFINE N == Cardinality(acks)
<1>. USE DEF OutstandingBounded, Held, AtWait, Faults, Goto, Threads, Senders
<1>a. /\ measured \in Nat /\ acks \subseteq 1..measured
      /\ measured' \in Nat /\ acks' \subseteq 1..measured'
  BY DEF TypeOK, NetworkOK
<1>b. N \in Nat /\ N' \in Nat /\ IsFiniteSet(acks)
  BY <1>a, FiniteAcks
<1>0. /\ N \in Nat /\ N' \in Nat
      /\ IsFiniteSet(acks)
      /\ gets \in Nat /\ sem \in Nat /\ skipped \in Nat /\ timeouts \in Nat
      /\ extra \in Nat /\ strays \in Nat
      /\ pc \in [Threads -> MainLocations \cup ListenerLocations \cup ControllerLocations]
  BY <1>b, ClientAssumption
     DEF TypeOK, NetworkOK, SharedOK, FaultsOK, ControlOK
<1>1. CASE Main
  <2>1. /\ pc["main"] \in {"create_listener", "create_controller"} =>
             pc["controller"] = "none"
    BY DEF TypeOK, ControlOK
  <2>. QED  BY <1>0, <1>1, <2>1
            DEF Main, com_init, pthread_create, pthread_join, netVars, faultVars
<1>2. ASSUME NEW t \in Senders, com_send_command(t) PROVE OutstandingBounded'
  <2>1. CASE SprintfBegin(t)
    BY <1>0, <1>2, <2>1 DEF com_send_command, SprintfBegin
  <2>2. CASE SprintfEnd(t)
    BY <1>0, <1>2, <2>2 DEF com_send_command, SprintfEnd
  <2>3. CASE UdpconnSend(t)
    <3>1. /\ pc["listener"] \in Sending => cmd["listener"] = "SIGNAL_ACK"
          /\ pc["controller"] \in Sending => cmd["controller"] \in {"GET", "SET", "STOP"}
      BY DEF TypeOK, ControlOK
    <3>2. CASE t = "listener"
      BY <1>0, <1>2, <2>3, <3>1, <3>2 DEF com_send_command, UdpconnSend, Return, Sending
    <3>3. CASE t = "controller"
      BY <1>0, <1>2, <2>3, <3>1, <3>3 DEF com_send_command, UdpconnSend, Return, Sending
    <3>. QED  BY <3>2, <3>3
  <2>. QED  BY <1>2, <2>1, <2>2, <2>3 DEF com_send_command
<1>3. CASE Listener /\ ~com_send_command("listener")
  <2>0. UNCHANGED <<ctrlVars, gets, timeouts, skipped, strays>>
    BY <1>3 DEF Listener
  <2>1. CASE Recvfrom
    BY <1>0, <2>0, <2>1 DEF Recvfrom
  <2>2. CASE ReceiveSignal
    BY <1>0, <2>0, <2>2 DEF ReceiveSignal
  <2>3. ASSUME NEW m \in acks, ReceiveAck(m) PROVE OutstandingBounded'
    <3>1. CASE acks' = acks \ {m} /\ UNCHANGED extra
      <4>1. N' = N - 1
        BY <1>0, <3>1, FS_RemoveElement
      <4>. QED  BY <1>0, <2>0, <2>3, <3>1, <4>1 DEF ReceiveAck
    <3>2. CASE extra' = extra + 1 /\ UNCHANGED acks
      BY <1>0, <2>0, <2>3, <3>2 DEF ReceiveAck
    <3>. QED  BY <2>3, <3>1, <3>2 DEF ReceiveAck
  <2>4. CASE Switch
    BY <1>0, <2>0, <2>4 DEF Switch, Call
  <2>5. CASE SemPost
    BY <1>0, <2>0, <2>5 DEF SemPost
  <2>. QED  BY <1>3, <2>1, <2>2, <2>3, <2>4, <2>5 DEF Listener
<1>4. CASE Controller /\ ~com_send_command("controller")
  <2>0. UNCHANGED <<recvBuf, gets, acks, extra, strays>>
    BY <1>4 DEF Controller, netVars
  <2>. USE <1>0, <2>0
  <2>1. CASE ClockGettime
    BY <2>1 DEF ClockGettime
  <2>2. CASE BeginIteration
    BY <2>2 DEF BeginIteration
  <2>3. CASE EndLoop
    BY <2>3 DEF EndLoop, Call
  <2>4. CASE SemGetvalue
    BY <2>4 DEF SemGetvalue, Call, DataUnhandled
  <2>5. CASE SemTimedwait
    BY <2>5 DEF SemTimedwait, Posted, TimedOut
  <2>6. CASE Pid
    BY <2>6 DEF Pid, Call
  <2>7. CASE ClockNanosleep
    BY <2>7 DEF ClockNanosleep
  <2>8. CASE UdpconnDelete
    BY <2>8 DEF UdpconnDelete
  <2>. QED  BY <1>4, <2>1, <2>2, <2>3, <2>4, <2>5, <2>6, <2>7, <2>8 DEF Controller
<1>5. CASE Environment
  <2>0. UNCHANGED <<pc, recvBuf, sem, timeouts, skipped, strays>>
    BY <1>5 DEF Environment
  <2>1. CASE ServerAnswer
    <3>1. N' <= N + 1
      BY <1>0, <2>1, FS_AddElement DEF ServerAnswer
    <3>. QED  BY <1>0, <2>0, <2>1, <3>1 DEF ServerAnswer
  <2>2. CASE ServerSignal
    BY <1>0, <2>0, <2>2 DEF ServerSignal
  <2>3. CASE Tick
    BY <1>0, <2>0, <2>3 DEF Tick, netVars
  <2>. QED  BY <1>5, <2>1, <2>2, <2>3 DEF Environment
<1>6. CASE UNCHANGED vars
  BY <1>0, <1>6 DEF vars, netVars, faultVars
<1>. QED  BY <1>1, <1>2, <1>3, <1>4, <1>5, <1>6 DEF Next, Exited, Listener, Controller

(* What is requested, on its way back, posted and found unhandled is paid   *)
(* for by the wait in progress and the faults so far: no interleaving of    *)
(* the listener, the controller and the network makes a measurement more.   *)
THEOREM OutstandingIsBounded == Spec => []OutstandingBounded
<1>1. Init => OutstandingBounded
  BY FS_EmptySet
     DEF Init, OutstandingBounded, Held, AtWait, Faults, Threads, Senders, NoData
<1>. QED  BY <1>1, TypeCorrect, OutstandingNext, PTL DEF Spec

-----------------------------------------------------------------------------
(* Fresh samples *)

LastSample == IF samples = <<>> THEN 0 ELSE samples[Len(samples)]

(* The measurement of the datagram handled, the one the controller would    *)
(* use and the one it used last were all taken by the server.               *)
Taken == recvBuf.value <= measured /\ y_recieved <= measured /\ LastSample <= measured

(* As long as nothing went wrong, what is still to be handled is later than *)
(* what the controller used last: in an answer under way, in the datagram   *)
(* just received, and in y_recieved from its assignment to its use.         *)
StillLater ==
  /\ \A m \in acks : m > LastSample
  /\ pc["listener"] = "switch" /\ recvBuf.type = "GET_ACK" => recvBuf.value > LastSample
  /\ pc["listener"] = "post" \/ sem > 0 \/ pc["controller"] = "pid" => y_recieved > LastSample

Freshness == FreshSamples /\ Taken /\ (Faults = 0 => StillLater)

(* A sample later than the last one keeps the samples in order.             *)
Ordered(s) == /\ \A k \in 1..Len(s) : s[k] > 0
              /\ \A k \in 1..(Len(s) - 1) : s[k] < s[k + 1]

LEMMA AppendLater ==
  ASSUME NEW s \in Seq(Nat), Ordered(s), NEW y \in Nat,
         y > (IF s = <<>> THEN 0 ELSE s[Len(s)])
  PROVE  Ordered(Append(s, y))
<1>. DEFINE a == Append(s, y)
<1>1. a \in Seq(Nat) /\ Len(a) = Len(s) + 1 /\ Len(s) \in Nat /\ a[Len(s) + 1] = y
  OBVIOUS
<1>2. \A k \in 1..Len(s) : a[k] = s[k]
  OBVIOUS
<1>3. y > 0 /\ (Len(s) > 0 => y > s[Len(s)])
  <2>1. s # <<>> => s[Len(s)] \in Nat
    OBVIOUS
  <2>. QED  BY <2>1
<1>. HIDE DEF a
<1>4. ASSUME NEW k \in 1..Len(a) PROVE a[k] > 0
  <2>1. k = Len(s) + 1 \/ k \in 1..Len(s)
    BY <1>1
  <2>. QED  BY <1>1, <1>2, <1>3, <2>1 DEF Ordered
<1>5. ASSUME NEW k \in 1..(Len(a) - 1) PROVE a[k] < a[k + 1]
  <2>1. CASE k = Len(s)
    BY <1>1, <1>2, <1>3, <2>1, <1>5
  <2>2. CASE k < Len(s)
    <3>1. k \in 1..(Len(s) - 1) /\ k \in 1..Len(s) /\ k + 1 \in 1..Len(s)
      BY <1>1, <1>5, <2>2
    <3>. QED  BY <1>2, <3>1 DEF Ordered
  <2>. QED  BY <1>1, <1>5, <2>1, <2>2
<1>. QED  BY <1>4, <1>5 DEF Ordered, a

LEMMA LastIsNat == ASSUME TypeOK PROVE LastSample \in Nat
  BY DEF TypeOK, LoopOK, LastSample

LEMMA LastOfAppend ==
  ASSUME NEW s \in Seq(Nat), NEW y \in Nat PROVE Append(s, y) # <<>> /\ Append(s, y)[Len(Append(s, y))] = y
  OBVIOUS

(* The steps that use no sample leave the samples in order.                 *)
LEMMA KeepsOrder ==
  ASSUME FreshSamples, samples' = samples, Faults' = 0 => Faults = 0 PROVE FreshSamples' /\ LastSample' = LastSample
  BY DEF FreshSamples, LastSample

LEMMA NoFaults ==
  ASSUME TypeOK, TypeOK'
  PROVE  /\ Faults = 0 <=> timeouts = 0 /\ extra = 0 /\ strays = 0
         /\ Faults' = 0 <=> timeouts' = 0 /\ extra' = 0 /\ strays' = 0
<1>1. ASSUME NEW a \in Nat, NEW b \in Nat, NEW c \in Nat
      PROVE  a + b + c = 0 <=> a = 0 /\ b = 0 /\ c = 0
  OBVIOUS
<1>2. /\ timeouts \in Nat /\ extra \in Nat /\ strays \in Nat
      /\ timeouts' \in Nat /\ extra' \in Nat /\ strays' \in Nat
  BY ClientAssumption DEF TypeOK, FaultsOK
<1>. DEFINE a == timeouts  b == extra  c == strays
<1>3. a + b + c = 0 <=> a = 0 /\ b = 0 /\ c = 0
  BY <1>1, <1>2
<1>. DEFINE d == timeouts'  e == extra'  f == strays'
<1>4. d \in Nat /\ e \in Nat /\ f \in Nat
  BY <1>2
<1>. HIDE DEF d, e, f
<1>5. d + e + f = 0 <=> d = 0 /\ e = 0 /\ f = 0
  BY <1>1, <1>4
<1>. QED  BY <1>3, <1>5 DEF Faults, d, e, f

LEMMA FreshNext ==
  ASSUME TypeOK, TypeOK', OutstandingBounded, Freshness, [Next]_vars PROVE Freshness'
<1>. USE DEF Goto, Threads, Senders
<1>a. /\ timeouts \in Nat /\ extra \in Nat /\ strays \in Nat
      /\ Faults = timeouts + extra + strays
      /\ Faults' = timeouts' + extra' + strays'
      /\ pc \in [Threads -> MainLocations \cup ListenerLocations \cup ControllerLocations]
      /\ measured \in Nat /\ acks \subseteq 1..measured /\ gets \in Nat /\ sem \in Nat
      /\ recvBuf \in Datagrams /\ y_recieved \in Nat /\ samples \in Seq(Nat)
      /\ skipped \in Nat
  BY ClientAssumption DEF TypeOK, NetworkOK, SharedOK, FaultsOK, LoopOK, ControlOK, Faults
<1>b. /\ timeouts' \in Nat /\ extra' \in Nat /\ strays' \in Nat
  BY ClientAssumption DEF TypeOK, FaultsOK
<1>c. Cardinality(acks) \in Nat /\ IsFiniteSet(acks)
  BY <1>a, FiniteAcks
<1>d. LastSample \in Nat
  BY LastIsNat
<1>f. timeouts' >= timeouts /\ extra' >= extra /\ strays' >= strays => (Faults' = 0 => Faults = 0)
  <2>1. timeouts \in Nat /\ extra \in Nat /\ strays \in Nat
    BY <1>a
  <2>. QED  BY <1>b, <2>1, NoFaults
(* Once the wait is over and nothing went wrong, nothing is on its way.     *)
<1>e. Faults = 0 /\ pc["controller"] # "wait" => acks = {} /\ Held = 0 /\ sem = 0
  <2>1. ASSUME Cardinality(acks) = 0 PROVE acks = {}
    BY <1>c, <2>1, FS_EmptySet
  <2>. QED  BY <1>a, <1>c, <2>1 DEF OutstandingBounded, AtWait, Held
<1>. HIDE DEF Faults
<1>1. CASE Main
  <2>1. UNCHANGED <<recvBuf, sem, y_recieved, samples, acks, measured, timeouts, extra, strays>>
    BY <1>1 DEF Main, netVars, faultVars, ctrlVars
  <2>2. /\ pc'["listener"] = pc["listener"] \/ pc'["listener"] = "recv"
        /\ pc'["controller"] = pc["controller"] \/ pc'["controller"] = "start"
    BY <1>1, <1>a DEF Main, com_init, pthread_create, pthread_join
  <2>. QED  BY <1>a, <2>1, <2>2, KeepsOrder DEF Freshness, Taken, StillLater
<1>2. ASSUME NEW t \in Senders, com_send_command(t) PROVE Freshness'
  <2>1. UNCHANGED <<recvBuf, sem, y_recieved, samples, acks, measured, timeouts, extra>>
    BY <1>2 DEF com_send_command, ctrlVars
  <2>2. strays' >= strays
    BY <1>2, <1>a DEF com_send_command, SprintfBegin, SprintfEnd, UdpconnSend
  <2>3. /\ pc'["listener"] = pc["listener"] \/ pc'["listener"] \notin {"switch", "post"}
        /\ pc'["controller"] = pc["controller"] \/ pc'["controller"] # "pid"
    BY <1>2, <1>a DEF com_send_command, SprintfBegin, SprintfEnd, UdpconnSend, Return
  <2>4. Faults' = 0 => Faults = 0
    BY <1>a, <1>f, <2>1, <2>2
  <2>. QED  BY <1>a, <2>1, <2>3, <2>4, KeepsOrder DEF Freshness, Taken, StillLater
<1>3. CASE Listener /\ ~com_send_command("listener")
  <2>0. UNCHANGED <<ctrlVars, samples, measured, timeouts, strays>>
    BY <1>3 DEF Listener, ctrlVars
  <2>. USE <1>a, <1>b, <2>0
  <2>1. CASE Recvfrom
    <3>1. /\ UNCHANGED <<recvBuf, sem, y_recieved, acks>> /\ extra' \in {extra, extra + 1}
          /\ pc'["controller"] = pc["controller"]
          /\ pc'["listener"] = "receiving" \/ extra' = extra + 1
      BY <2>1 DEF Recvfrom
    <3>2. Faults' = 0 => Faults = 0 /\ pc'["listener"] = "receiving"
      <4>1. Faults' = 0 => extra' = 0
        BY NoFaults
      <4>2. timeouts' >= timeouts /\ extra' >= extra /\ strays' >= strays
        BY <1>a, <2>0, <3>1
      <4>3. ~(extra' = 0 /\ extra' = extra + 1)
        BY <1>a
      <4>. QED  BY <1>f, <3>1, <4>1, <4>2, <4>3
    <3>3. FreshSamples' /\ LastSample' = LastSample
      BY <3>2, KeepsOrder DEF Freshness
    <3>. QED  BY <3>1, <3>2, <3>3 DEF Freshness, Taken, StillLater
  <2>2. CASE ReceiveSignal
    BY <2>2, <1>d, KeepsOrder DEF ReceiveSignal, Freshness, Taken, StillLater
  <2>3. ASSUME NEW m \in acks, ReceiveAck(m) PROVE Freshness'
    <3>1. acks' \subseteq acks /\ (extra' = extra \/ extra' = extra + 1)
      BY <2>3 DEF ReceiveAck
    <3>2. Faults' = 0 => Faults = 0
      <4>1. extra' >= extra
        BY <1>a, <3>1
      <4>2. timeouts' >= timeouts /\ strays' >= strays
        BY <1>a, <2>0
      <4>. QED  BY <1>f, <4>1, <4>2
    <3>3. FreshSamples' /\ LastSample' = LastSample
      BY <3>2, KeepsOrder DEF Freshness
    <3>4. /\ recvBuf' = [type |-> "GET_ACK", value |-> m] /\ m <= measured
          /\ UNCHANGED <<sem, y_recieved>> /\ pc'["listener"] = "switch"
          /\ pc'["controller"] = pc["controller"]
      BY <2>3 DEF ReceiveAck
    <3>. QED  BY <3>1, <3>2, <3>3, <3>4 DEF Freshness, Taken, StillLater
  <2>4. CASE Switch
    <3>1. UNCHANGED <<recvBuf, sem, acks, extra>>
      BY <2>4 DEF Switch
    <3>2. Faults' = Faults
      BY <3>1
    <3>3. FreshSamples' /\ LastSample' = LastSample
      BY <3>2, KeepsOrder DEF Freshness
    <3>4. \/ y_recieved' = y_recieved /\ pc'["listener"] \in {"sprintf", "recv"}
          \/ /\ pc["listener"] = "switch" /\ recvBuf.type = "GET_ACK"
             /\ y_recieved' = recvBuf.value /\ pc'["listener"] = "post"
      BY <2>4 DEF Switch, Call
    <3>5. pc'["controller"] = pc["controller"]
      BY <2>4 DEF Switch, Call
    <3>. QED  BY <3>1, <3>2, <3>3, <3>4, <3>5 DEF Freshness, Taken, StillLater
  <2>5. CASE SemPost
    BY <2>5, KeepsOrder DEF SemPost, Freshness, Taken, StillLater
  <2>. QED  BY <1>3, <2>1, <2>2, <2>3, <2>4, <2>5 DEF Listener
<1>4. CASE Controller /\ ~com_send_command("controller")
  <2>0. /\ UNCHANGED <<recvBuf, y_recieved, acks, measured, extra, strays>>
        /\ pc'["listener"] = pc["listener"]
    BY <1>4, <1>a DEF Controller, netVars, ClockGettime, BeginIteration, EndLoop,
       SemGetvalue, SemTimedwait, Pid, ClockNanosleep, UdpconnDelete, Call
  <2>1. CASE SemTimedwait
    <3>1. /\ pc["controller"] = "wait" /\ samples' = samples
          /\ \/ sem > 0 /\ sem' = sem - 1 /\ timeouts' = timeouts
             \/ timeouts' = timeouts + 1
      BY <2>1 DEF SemTimedwait, ctrlVars, Posted
    <3>2. Faults' = 0 => Faults = 0 /\ sem > 0 /\ sem' = sem - 1
      <4>1. Faults' = 0 => timeouts' = 0
        BY NoFaults
      <4>2. timeouts' >= timeouts /\ extra' >= extra /\ strays' >= strays
        BY <1>a, <2>0, <3>1
      <4>. QED  BY <1>f, <3>1, <4>1, <4>2, NoFaults
    <3>. QED  BY <1>a, <2>0, <3>1, <3>2, KeepsOrder DEF Freshness, Taken, StillLater
  <2>2. CASE Pid
    <3>1. /\ pc["controller"] = "pid" /\ samples' = Append(samples, y_recieved)
          /\ UNCHANGED <<sem, timeouts>> /\ pc'["controller"] = "sprintf"
      BY <2>2, <1>a DEF Pid, Call
    <3>2. Faults' = Faults
      BY <1>a, <2>0, <3>1
    <3>3. LastSample' = y_recieved
      BY <1>a, <3>1, LastOfAppend DEF LastSample
    <3>4. FreshSamples'
      <4>1. ASSUME Faults = 0 PROVE Ordered(samples')
        <5>1. Ordered(samples) /\ y_recieved > LastSample
          BY <4>1, <3>1 DEF Freshness, FreshSamples, StillLater, Ordered
        <5>. QED  BY <1>a, <3>1, <5>1, AppendLater DEF LastSample
      <4>. QED  BY <4>1, <3>2 DEF FreshSamples, Ordered
    <3>5. Faults = 0 => StillLater'
      BY <1>a, <1>e, <2>0, <3>1 DEF StillLater, Held
    <3>. QED  BY <2>0, <3>2, <3>3, <3>4, <3>5 DEF Freshness, Taken
  <2>3. CASE \/ ClockGettime \/ BeginIteration \/ EndLoop \/ SemGetvalue
             \/ ClockNanosleep \/ UdpconnDelete
    <3>1. UNCHANGED <<sem, samples, timeouts>> /\ pc'["controller"] # "pid"
      BY <2>3, <1>a DEF ClockGettime, BeginIteration, EndLoop, SemGetvalue,
         ClockNanosleep, UdpconnDelete, Call, ctrlVars
    <3>2. Faults' = Faults
      BY <1>a, <2>0, <3>1
    <3>. QED  BY <2>0, <3>1, <3>2, KeepsOrder DEF Freshness, Taken, StillLater
  <2>. QED  BY <1>4, <2>1, <2>2, <2>3 DEF Controller
<1>5. CASE Environment
  <2>0. UNCHANGED <<pc, recvBuf, sem, y_recieved, samples, timeouts, strays>>
    BY <1>5 DEF Environment, ctrlVars
  <2>1. CASE ServerAnswer
    <3>1. /\ measured' = measured + 1 /\ acks' = acks \cup {measured + 1}
          /\ extra' = extra \/ extra' = extra + 1
      BY <2>1 DEF ServerAnswer
    <3>2. Faults' = 0 => Faults = 0
      BY <1>a, <1>f, <2>0, <3>1
    <3>3. FreshSamples' /\ LastSample' = LastSample
      BY <2>0, <3>2, KeepsOrder DEF Freshness
    <3>. QED  BY <1>a, <1>d, <2>0, <3>1, <3>2, <3>3 DEF Freshness, Taken, StillLater, Datagrams
  <2>2. CASE ServerSignal \/ Tick
    <3>1. UNCHANGED <<acks, measured, extra>>
      BY <2>2 DEF ServerSignal, Tick, netVars
    <3>2. Faults' = Faults
      BY <1>a, <2>0, <3>1
    <3>. QED  BY <2>0, <3>1, <3>2, KeepsOrder DEF Freshness, Taken, StillLater
  <2>. QED  BY <1>5, <2>1, <2>2 DEF Environment
<1>6. CASE UNCHANGED vars
  <2>1. /\ UNCHANGED <<pc, recvBuf, sem, y_recieved, samples, acks, measured>>
        /\ UNCHANGED <<timeouts, extra, strays>>
    BY <1>6 DEF vars, ctrlVars, netVars, faultVars
  <2>2. Faults' = Faults
    BY <1>a, <2>1
  <2>. QED  BY <2>1, <2>2, KeepsOrder DEF Freshness, Taken, StillLater
<1>. QED  BY <1>1, <1>2, <1>3, <1>4, <1>5, <1>6 DEF Next, Exited, Listener, Controller

(* When no wait timed out, nothing was duplicated and no command was sent   *)
(* torn, pid() computes with a new measurement in every iteration, whatever *)
(* the order of the listener's assignment and post and the controller's     *)
(* wait and use (y_recieved is shared without a lock).                      *)
THEOREM SamplesAreFresh == Spec => []FreshSamples
<1>1. Init => Freshness
  BY DEF Init, Freshness, FreshSamples, Taken, StillLater, LastSample, NoData, Threads, Senders
<1>2. Freshness => FreshSamples
  BY DEF Freshness
<1>. QED  BY <1>1, <1>2, TypeCorrect, OutstandingIsBounded, FreshNext, PTL DEF Spec

-----------------------------------------------------------------------------
(* The schedule of the controller *)

(* Before its first reading of the clock the controller has begun nothing.  *)
Schedule ==
  /\ NoDrift
  /\ pc["controller"] \in {"none", "start"} => now = 0 /\ i = 0

LEMMA Distribute == ASSUME NEW n \in Nat, NEW p \in Nat PROVE (n + 1) * p = n * p + p
  OBVIOUS

(* What the steps that are not the controller's own do to the schedule.     *)
LEMMA OthersKeepBegun ==
  ASSUME TypeOK, Main \/ Listener \/ Environment \/ UNCHANGED vars
  PROVE  /\ InBody' = InBody /\ i' = i /\ waketime' = waketime
         /\ \/ pc'["controller"] = pc["controller"]
            \/ pc["controller"] = "none" /\ pc'["controller"] = "start"
         /\ now' = now \/ Tick
<1>. USE DEF InBody, Sending, Goto, Threads, Senders, ctrlVars
<1>0. /\ pc \in [Threads -> MainLocations \cup ListenerLocations \cup ControllerLocations]
      /\ cmd \in [Senders -> Commands]
      /\ pc["main"] \in {"create_listener", "create_controller"} => pc["controller"] = "none"
  BY DEF TypeOK, ControlOK
<1>1. CASE Main
  BY <1>0, <1>1 DEF Main, com_init, pthread_create, pthread_join
<1>2. CASE com_send_command("listener")
  BY <1>0, <1>2 DEF com_send_command, SprintfBegin, SprintfEnd, UdpconnSend, Return
<1>3. CASE Listener /\ ~com_send_command("listener")
  BY <1>0, <1>3
     DEF Listener, Recvfrom, ReceiveSignal, ReceiveAck, Switch, SemPost, Call
<1>4. CASE Environment
  BY <1>0, <1>4 DEF Environment, ServerAnswer, ServerSignal, Tick
<1>5. CASE UNCHANGED vars
  BY <1>0, <1>5 DEF vars
<1>. QED  BY <1>1, <1>2, <1>3, <1>4, <1>5 DEF Listener

(* The steps of the controller that neither begin nor end an iteration.     *)
LEMMA ControllerKeepsBegun ==
  ASSUME TypeOK, Controller, ~ClockGettime, ~BeginIteration, ~ClockNanosleep
  PROVE  /\ InBody' = InBody /\ i' = i /\ waketime' = waketime /\ now' = now
         /\ pc["controller"] \notin {"none", "start"}
         /\ pc'["controller"] \notin {"none", "start"}
<1>. USE DEF InBody, Sending, Goto, Threads, Senders, ctrlVars
<1>0. /\ pc \in [Threads -> MainLocations \cup ListenerLocations \cup ControllerLocations]
      /\ cmd \in [Senders -> Commands]
      /\ pc["controller"] \in Sending => cmd["controller"] \in {"GET", "SET", "STOP"}
  BY DEF TypeOK, ControlOK
<1>n. now' = now
  BY DEF Controller, com_send_command
<1>1. CASE com_send_command("controller")
  BY <1>0, <1>n, <1>1 DEF com_send_command, SprintfBegin, SprintfEnd, UdpconnSend, Return
<1>2. CASE EndLoop
  BY <1>0, <1>n, <1>2 DEF EndLoop, Call
<1>3. CASE SemGetvalue
  BY <1>0, <1>n, <1>3 DEF SemGetvalue, Call
<1>4. CASE SemTimedwait
  BY <1>0, <1>n, <1>4 DEF SemTimedwait
<1>5. CASE Pid
  BY <1>0, <1>n, <1>5 DEF Pid, Call
<1>6. CASE UdpconnDelete
  BY <1>0, <1>n, <1>6 DEF UdpconnDelete
<1>. QED  BY <1>1, <1>2, <1>3, <1>4, <1>5, <1>6 DEF Controller

LEMMA ScheduleNext ==
  ASSUME TypeOK, Schedule, [Next]_vars PROVE Schedule'
<1>. USE DEF Schedule, NoDrift, Begun
<1>0. i \in Nat /\ now \in Nat /\ waketime \in Nat /\ Period \in Nat /\ Period > 0
  BY ClientAssumption DEF TypeOK, LoopOK
<1>c. pc \in [Threads -> MainLocations \cup ListenerLocations \cup ControllerLocations]
  BY DEF TypeOK, ControlOK
<1>n. Controller => now' = now
  BY DEF Controller, com_send_command
<1>1. CASE Main \/ Listener \/ Environment \/ UNCHANGED vars
  <2>1. Tick => pc["controller"] \notin {"none", "start"} /\ now' = now + 1
    BY DEF Tick
  <2>2. pc["controller"] = "none" => ~InBody
    BY DEF InBody, Sending
  <2>. QED  BY <1>0, <1>1, <2>1, <2>2, OthersKeepBegun
<1>2. CASE Controller /\ ClockGettime
  BY <1>0, <1>2, <1>c, <1>n
     DEF ClockGettime, InBody, Sending, Goto, Threads, Senders
<1>3. CASE Controller /\ BeginIteration
  BY <1>0, <1>3, <1>c, <1>n, Distribute
     DEF BeginIteration, NextWaketime, InBody, Sending, Goto, Threads, Senders
<1>4. CASE Controller /\ ClockNanosleep
  BY <1>0, <1>4, <1>c, <1>n, Distribute
     DEF ClockNanosleep, InBody, Sending, Goto, Threads, Senders
<1>5. CASE Controller /\ ~ClockGettime /\ ~BeginIteration /\ ~ClockNanosleep
  BY <1>0, <1>5, ControllerKeepsBegun
<1>. QED  BY <1>1, <1>2, <1>3, <1>4, <1>5 DEF Next, Exited

(* The deadlines accumulate: iteration k waits for k + 1 periods after the  *)
(* first reading of the clock however late the ones before it were, and no  *)
(* iteration begins before its time (main.c:98 and 116).                    *)
THEOREM DeadlinesDoNotDrift == Spec => []NoDrift
<1>1. Init => Schedule
  BY DEF Init, Schedule, NoDrift, Threads, Senders
<1>2. Schedule => NoDrift
  BY DEF Schedule
<1>. QED  BY <1>1, <1>2, TypeCorrect, ScheduleNext, PTL DEF Spec

(* The controller thread implements the periodic task.                      *)
THEOREM ControllerIsPeriodicTask == Spec => ControllerIsPeriodic
<1>. USE DEF Begun
<1>1. Init => Task!Init
  BY DEF Init, Task!Init, InBody, Sending, Threads, Senders
<1>2. ASSUME TypeOK, Schedule, [Next]_vars PROVE [Task!Next]_(Task!vars)
  <2>0. i \in Nat /\ now \in Nat
    BY <1>2 DEF TypeOK, LoopOK
  <2>c. pc \in [Threads -> MainLocations \cup ListenerLocations \cup ControllerLocations]
    BY <1>2 DEF TypeOK, ControlOK
  <2>n. Controller => now' = now
    BY DEF Controller, com_send_command
  <2>1. CASE Main \/ Listener \/ Environment \/ UNCHANGED vars
    BY <1>2, <2>1, OthersKeepBegun DEF Task!Next, Task!Tick, Task!vars, Tick
  <2>2. CASE Controller /\ ClockGettime
    BY <2>2, <2>c, <2>n
       DEF ClockGettime, InBody, Sending, Goto, Threads, Senders, Task!vars
  <2>3. CASE Controller /\ BeginIteration
    <3>1. ~InBody /\ InBody'
      BY <2>3, <2>c DEF BeginIteration, InBody, Sending, Goto, Threads, Senders
    <3>2. i < Iterations /\ i' = i /\ now' = now /\ now >= i * Period
      BY <1>2, <2>3, <2>c, <2>n DEF BeginIteration, Schedule, NoDrift
    <3>. QED  BY <2>0, <3>1, <3>2 DEF Task!Next, Task!Release
  <2>4. CASE Controller /\ ClockNanosleep
    <3>1. InBody /\ ~InBody'
      BY <2>4, <2>c DEF ClockNanosleep, InBody, Sending, Goto, Threads, Senders
    <3>2. i' = i + 1 /\ now' = now
      BY <2>4, <2>n DEF ClockNanosleep
    <3>. QED  BY <2>0, <3>1, <3>2 DEF Task!Next, Task!Finish
  <2>5. CASE Controller /\ ~ClockGettime /\ ~BeginIteration /\ ~ClockNanosleep
    BY <1>2, <2>5, ControllerKeepsBegun DEF Task!vars
  <2>. QED  BY <1>2, <2>1, <2>2, <2>3, <2>4, <2>5 DEF Next, Exited
<1>3. Init => Schedule
  BY DEF Init, Schedule, NoDrift, Threads, Senders
<1>. QED  BY <1>1, <1>2, <1>3, TypeCorrect, ScheduleNext, PTL
          DEF Spec, ControllerIsPeriodic, Task!Spec

=============================================================================
