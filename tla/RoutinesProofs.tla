---------------------------- MODULE RoutinesProofs ----------------------------
(***************************************************************************)
(* Proofs about the routines of MCRoutines: the time arithmetic of ex01, for *)
(* every length of a second and all operands, and its array, for any         *)
(* capacity and elements; of ex03 the notifications of the serial port, the  *)
(* sleep manager, the power manager and the clocks of the peripherals, for   *)
(* all lines and any number of modes, PLLs and calls.                        *)
(***************************************************************************)
EXTENDS MCRoutines, SequenceTheorems, FiniteSetTheorems, TLAPS

-----------------------------------------------------------------------------
(* The time arithmetic (Timespec) *)

Target == IF Busy THEN Nanos(lhs) + Nanos(rhs) ELSE Nanos(lhs) - Nanos(rhs)

(* The rounds of the loops leave alone what the two numbers stand for, and  *)
(* the last reading of the clock is not ahead of it.                        *)
Loops == pc = "normalize" => sec * Giga + nsec = Target
Read  == Busy => Nanos(now) <= Nanos(clock)
Done  == Busy /\ pc = "returned" => Nanos(now) >= Nanos(then)

TimeInv == TypeOK /\ Loops /\ Arithmetic /\ Read /\ Done

LEMMA Product == ASSUME NEW s \in Int PROVE /\ s * Giga \in Int
                                            /\ (s + 1) * Giga = s * Giga + Giga
                                            /\ (s - 1) * Giga = s * Giga - Giga
BY TimespecAssumption

LEMMA ProductOfSum == ASSUME NEW s \in Int, NEW t \in Int
                      PROVE /\ (s + t) * Giga = s * Giga + t * Giga
                            /\ (s - t) * Giga = s * Giga - t * Giga
BY TimespecAssumption

LEMMA ProductOrder == ASSUME NEW s \in Int, NEW t \in Int, s < t
                      PROVE s * Giga + Giga <= t * Giga
<1>1. (t - s) * Giga = t * Giga - s * Giga
  BY ProductOfSum
<1>2. (t - s - 1) * Giga >= 0
  BY TimespecAssumption
<1>3. (t - s - 1) * Giga = (t - s) * Giga - Giga
  BY Product
<1>. QED  BY <1>1, <1>2, <1>3, Product, TimespecAssumption

(* timespec_cmp() has the sign of the difference, for normalized operands.  *)
LEMMA CmpIsOrder == ASSUME NEW l \in Normal, NEW r \in Normal
                    PROVE timespec_cmp(l, r) < 0 <=> Nanos(l) < Nanos(r)
<1>. DEFINE x == l.tv_sec * Giga  y == r.tv_sec * Giga
<1>0. x \in Int /\ y \in Int /\ l.tv_sec \in Int /\ r.tv_sec \in Int
      /\ l.tv_nsec \in 0..(Giga - 1) /\ r.tv_nsec \in 0..(Giga - 1)
  BY Product DEF Normal
<1>1. CASE l.tv_sec < r.tv_sec
  <2>1. x + Giga <= y
    BY <1>0, <1>1, ProductOrder
  <2>. QED  BY <1>0, <1>1, <2>1, TimespecAssumption DEF timespec_cmp, Nanos
<1>2. CASE l.tv_sec > r.tv_sec
  <2>1. y + Giga <= x
    BY <1>0, <1>2, ProductOrder
  <2>. QED  BY <1>0, <1>2, <2>1, TimespecAssumption DEF timespec_cmp, Nanos
<1>3. CASE l.tv_sec = r.tv_sec
  BY <1>0, <1>3, TimespecAssumption DEF timespec_cmp, Nanos
<1>. QED  BY <1>0, <1>1, <1>2, <1>3

LEMMA LaterIsLater == ASSUME NEW t \in Normal
                      PROVE Later(t) \in Normal /\ Nanos(Later(t)) = Nanos(t) + 1
BY Product, TimespecAssumption DEF Later, Normal, Nanos

LEMMA OperandFacts == ASSUME TypeOK
                      PROVE /\ lhs \in Normal /\ rhs \in Normal
                            /\ Nanos(lhs) \in Nat /\ Nanos(rhs) \in Nat
                            /\ lhs.tv_sec \in Int /\ rhs.tv_sec \in Int
                            /\ lhs.tv_nsec \in 0..(Giga - 1) /\ rhs.tv_nsec \in 0..(Giga - 1)
<1>1. lhs \in Normal /\ rhs \in Normal /\ lhs.tv_sec \in Nat /\ rhs.tv_sec \in Nat
  BY TimespecAssumption DEF TypeOK, Operands, Normal
<1>2. lhs.tv_sec * Giga \in Nat /\ rhs.tv_sec * Giga \in Nat
  BY <1>1, TimespecAssumption
<1>. QED  BY <1>1, <1>2, TimespecAssumption DEF Nanos, Normal

LEMMA TimeInit == Init => TimeInv
<1>. SUFFICES ASSUME Init PROVE TimeInv
  OBVIOUS
<1>1. [tv_sec |-> 0, tv_nsec |-> 0] \in Normal /\ lhs \in Normal /\ 0 \in (-Giga)..(2 * Giga)
  BY TimespecAssumption DEF Init, Normal, Operands
<1>2. TypeOK
  BY <1>1 DEF Init, TypeOK
<1>3. Nanos(now) \in Nat /\ now = clock
  BY <1>2, OperandFacts DEF Init
<1>. QED  BY <1>2, <1>3 DEF Init, TimeInv, Loops, Arithmetic, Read, Done, Finished

LEMMA TimeNext == ASSUME TimeInv, Next PROVE TimeInv'
<1>. USE DEF TimeInv, TypeOK
<1>1. CASE Call
  <2>1. TypeOK'
    BY <1>1, OperandFacts, TimespecAssumption DEF Call, Busy
  <2>2. (sec * Giga + nsec = Target)'
    <3>1. CASE Busy
      BY <1>1, <3>1, OperandFacts, ProductOfSum, Product, TimespecAssumption DEF Call, Busy, Target, Nanos
    <3>2. CASE ~Busy
      BY <1>1, <3>2, OperandFacts, ProductOfSum, Product, TimespecAssumption DEF Call, Busy, Target, Nanos
    <3>. QED  BY <3>1, <3>2
  <2>. QED  BY <1>1, <2>1, <2>2 DEF Call, Loops, Arithmetic, Finished, Read, Done, Busy
<1>2. CASE Carry
  <2>1. TypeOK'
    BY <1>2, TimespecAssumption DEF Carry, TooLong
  <2>2. sec' * Giga + nsec' = sec * Giga + nsec
    BY <1>2, Product, TimespecAssumption DEF Carry
  <2>. QED  BY <1>2, <2>1, <2>2 DEF Carry, Loops, Target, Arithmetic, Finished, Read, Done, Busy
<1>3. CASE Borrow
  <2>1. TypeOK'
    BY <1>3, TimespecAssumption DEF Borrow, Borrowed
  <2>2. sec' * Giga + nsec' = sec * Giga + nsec
    BY <1>3, Product, TimespecAssumption DEF Borrow, Borrowed
  <2>. QED  BY <1>3, <2>1, <2>2 DEF Borrow, Loops, Target, Arithmetic, Finished, Read, Done, Busy
<1>4. CASE Return
  <2>1. then' \in Normal
    BY <1>4, TimespecAssumption DEF Return, TooLong, Normal
  <2>2. Nanos(then') = Target
    BY <1>4 DEF Return, Nanos, Loops
  <2>. QED  BY <1>4, <2>1, <2>2 DEF Return, Loops, Target, Arithmetic, Read, Done, Busy
<1>5. CASE Compare
  <2>1. Nanos(now) \in Int /\ Nanos(then) \in Int
    BY Product, TimespecAssumption DEF Nanos, Normal
  <2>2. pc' = "returned" => Nanos(now) >= Nanos(then)
    BY <1>5, <2>1, CmpIsOrder DEF Compare
  <2>. QED  BY <1>5, <2>2 DEF Compare, Loops, Arithmetic, Finished, Read, Done, Busy
<1>6. CASE ClockGettime
  BY <1>6, Product, TimespecAssumption DEF ClockGettime, Reading, Loops, Target, Arithmetic, Finished, Read, Done, Busy,
     Nanos, Normal
<1>7. CASE Tick
  <2>1. TypeOK' /\ Nanos(clock') = Nanos(clock) + 1
    BY <1>7, LaterIsLater DEF Tick
  <2>2. Nanos(now) \in Int /\ Nanos(clock) \in Int
    BY Product, TimespecAssumption DEF Nanos, Normal
  <2>. QED  BY <1>7, <2>1, <2>2 DEF Tick, Loops, Target, Arithmetic, Finished, Read, Done, Busy
<1>. QED  BY <1>1, <1>2, <1>3, <1>4, <1>5, <1>6, <1>7 DEF Next, busy_wait

LEMMA TimeAlways == Spec => []TimeInv
<1>1. ASSUME TimeInv, UNCHANGED vars PROVE TimeInv'
  BY <1>1 DEF TimeInv, TypeOK, Loops, Target, Arithmetic, Finished, Read, Done, Busy, vars
<1>. QED  BY <1>1, TimeInit, TimeNext, PTL DEF Spec

-----------------------------------------------------------------------------
(* Type correctness: results are normalized. *)
THEOREM TypeCorrect == Spec => []TypeOK
<1>1. TimeInv => TypeOK
  BY DEF TimeInv
<1>. QED  BY <1>1, TimeAlways, PTL

(* timespec_add() and timespec_sub() compute what their names say.          *)
THEOREM ArithmeticIsExact == Spec => []Arithmetic
<1>1. TimeInv => Arithmetic
  BY DEF TimeInv
<1>. QED  BY <1>1, TimeAlways, PTL

(* busy_wait() does not return early.                                       *)
THEOREM BusyWaitIsLongEnough == Spec => []WaitsLongEnough
<1>1. TimeInv => WaitsLongEnough
  <2>. SUFFICES ASSUME TimeInv, Busy, pc = "returned" PROVE Nanos(clock) >= Nanos(lhs) + Nanos(rhs)
    BY DEF WaitsLongEnough
  <2>1. Nanos(now) \in Int /\ Nanos(clock) \in Int
    BY OperandFacts, Product, TimespecAssumption DEF TimeInv, TypeOK, Nanos, Normal
  <2>. QED  BY <2>1, OperandFacts DEF TimeInv, Arithmetic, Finished, Read, Done
<1>. QED  BY <1>1, TimeAlways, PTL

-----------------------------------------------------------------------------
(* A step of one routine leaves the others as they are. *)
MCNext == TimeStep \/ SampleStep \/ ArrayStep \/ MemoryStep \/ CommandStep \/ SettingStep
            \/ BusStep \/ PowerStep \/ DelayStep \/ SleepStep \/ NotifyStep \/ WindowStep \/ WordStep

-----------------------------------------------------------------------------
(* Notifications (UsbNotify) *)

LEMMA NotifySteps == [MCNext]_programVars => [Notify!Next]_notifyVars
<1>. USE DEF NotEx01, NotFlash, NotClocks, NotUsb, usbVars
<1>1. TimeStep \/ SampleStep \/ ArrayStep => UNCHANGED notifyVars
  BY DEF TimeStep, SampleStep, ArrayStep
<1>2. MemoryStep \/ CommandStep => UNCHANGED notifyVars
  BY DEF MemoryStep, CommandStep
<1>3. SettingStep \/ BusStep \/ PowerStep \/ DelayStep \/ SleepStep => UNCHANGED notifyVars
  BY DEF SettingStep, BusStep, PowerStep, DelayStep, SleepStep
<1>4. NotifyStep => Notify!Next
  BY DEF NotifyStep
<1>5. WindowStep \/ WordStep => UNCHANGED notifyVars
  BY DEF WindowStep, WordStep
<1>6. UNCHANGED programVars => UNCHANGED notifyVars
  BY DEF programVars
<1>. QED  BY <1>1, <1>2, <1>3, <1>4, <1>5, <1>6 DEF MCNext

Signals == Lines \cup Errors

Endpoints ==
  [enabled : BOOLEAN, busy : BOOLEAN, dma : BOOLEAN, done : BOOLEAN, bank : (SUBSET Signals) \cup {Notify!NoPacket},
   halted : BOOLEAN, stallRequested : BOOLEAN, bankIrq : BOOLEAN]
Notifiers == [pc : {"idle", "test", "fill", "check", "run", "store"}, result : BOOLEAN, signals : Int]

NotifyType ==
  /\ state \subseteq Signals /\ msg \subseteq Signals
  /\ ongoing \in BOOLEAN /\ refused \in BOOLEAN
  /\ endpoint \in Endpoints /\ notifier \in Notifiers

(* What the host knows when it has read all there is, of the lines.         *)
Known == (IF endpoint.bank # Notify!NoPacket THEN endpoint.bank ELSE hostState) \cap Lines

(* The message is what the host comes to know, but for one about to be sent, *)
(* one that is still to be moved and one that was refused; and the state,    *)
(* but for one the program has still to look at and for one that the end of *)
(* the notification under way looks at.                                     *)
MessageIsKnown  ==
  endpoint.enabled /\ ~endpoint.dma /\ ~refused /\ notifier.pc \notin {"check", "run"} => Known = msg \cap Lines
StateInMessage ==
  notifier.pc \in {"check", "run", "store"} \/ (notifier.pc = "idle" /\ ~ongoing) => state \cap Lines = msg \cap Lines

(* A job runs only while the driver knows of it, or is about to.            *)
JobIsKnown ==
  endpoint.busy => ongoing \/ notifier.pc = "store"
JobIsAlone ==
  endpoint.busy => notifier.pc \notin {"fill", "check", "run"} /\ (notifier.pc = "store" => notifier.result)

NotifyInv == NotifyType /\ MessageIsKnown /\ StateInMessage /\ JobIsKnown /\ JobIsAlone

LEMMA NoPacketIsNone == Notify!NoPacket \notin SUBSET Signals
  BY RoutinesAssumption DEF Notify!NoPacket, Signals

LEMMA ErrorsAreNotLines ==
  \A S : (S \ Errors) \cap Lines = S \cap Lines
  BY RoutinesAssumption

LEMMA NotifyInit == Notify!Init => NotifyInv
<1>. SUFFICES ASSUME Notify!Init PROVE NotifyInv
  OBVIOUS
<1>. USE DEF Notify!Init, Notify!Endpoint
<1>1. endpoint \in Endpoints
  BY DEF Endpoints
<1>2. notifier \in Notifiers
  BY DEF Notifiers
<1>. QED  BY <1>1, <1>2 DEF NotifyInv, NotifyType, MessageIsKnown, StateInMessage, JobIsKnown, JobIsAlone

LEMMA EndpointFields ==
  ASSUME NEW e \in Endpoints
  PROVE  /\ \A y \in BOOLEAN : [e EXCEPT !.busy = y] \in Endpoints
         /\ Notify!Run(e) \in Endpoints
         /\ Notify!Run(e).busy /\ (~e.busy => Notify!Run(e).dma) /\ (e.busy => Notify!Run(e) = e)
  BY DEF Endpoints, Notify!Run

(* The end of a job, of an endpoint that is as it was but for its halts, or  *)
(* has been given up.                                                       *)
LEMMA FinishKeeps ==
  ASSUME NotifyInv, NEW e \in Endpoints, e.busy = endpoint.busy,
         \/ ~e.enabled
         \/ e.enabled = endpoint.enabled /\ e.dma = endpoint.dma /\ e.bank = endpoint.bank,
         Notify!udd_ep_finish_job(e), UNCHANGED <<hostState, notifier>>
  PROVE  NotifyInv'
<1>. USE DEF NotifyInv, NotifyType, MessageIsKnown, StateInMessage, JobIsKnown, JobIsAlone, Known
<1>1. CASE ~e.busy
  BY <1>1 DEF Notify!udd_ep_finish_job
<1>2. CASE e.busy
  <2>. DEFINE f == [e EXCEPT !.busy = FALSE]
  <2>1. /\ f \in Endpoints /\ Notify!Run(f) \in Endpoints /\ Notify!Run(f).busy /\ Notify!Run(f).dma
        /\ ~f.busy /\ f.enabled = e.enabled /\ f.dma = e.dma /\ f.bank = e.bank
    <3>1. /\ f \in Endpoints /\ ~f.busy /\ f.enabled = e.enabled /\ f.dma = e.dma /\ f.bank = e.bank
      BY DEF Endpoints
    <3>. HIDE DEF f
    <3>. QED  BY <3>1, EndpointFields
  <2>. HIDE DEF f
  <2>2. Notify!udi_cdc_serial_state_msg_sent(state, msg, f)
    BY <1>2 DEF Notify!udd_ep_finish_job, f
  <2>3. state' = state \ Errors /\ msg' = state \ Errors
    BY <2>2 DEF Notify!udi_cdc_serial_state_msg_sent
  <2>4. CASE state \ Errors = msg \ Errors
    <3>1. endpoint' = f /\ ongoing' = FALSE /\ refused' = refused
      BY <2>2, <2>4 DEF Notify!udi_cdc_serial_state_msg_sent
    <3>2. msg' \cap Lines = msg \cap Lines
      BY <2>3, <2>4, ErrorsAreNotLines
    <3>. QED  BY <2>1, <2>3, <3>1, <3>2
  <2>5. CASE state \ Errors # msg \ Errors /\ ~Notify!Accepts(f)
    <3>1. endpoint' = f /\ ongoing' = FALSE /\ refused' = TRUE
      BY <2>2, <2>5 DEF Notify!udi_cdc_serial_state_msg_sent, Notify!Started, Notify!udd_ep_run
    <3>. QED  BY <2>1, <2>3, <3>1
  <2>6. CASE state \ Errors # msg \ Errors /\ Notify!Accepts(f)
    <3>1. endpoint' = Notify!Run(f) /\ ongoing' = TRUE /\ refused' = FALSE
      BY <2>1, <2>2, <2>6 DEF Notify!udi_cdc_serial_state_msg_sent, Notify!Started, Notify!udd_ep_run
    <3>2. notifier.pc \notin {"fill", "check", "run"} /\ (notifier.pc = "store" => notifier.result)
      BY <1>2
    <3>. QED  BY <2>1, <2>3, <3>1, <3>2
  <2>. QED  BY <2>4, <2>5, <2>6
<1>. QED  BY <1>1, <1>2

LEMMA NotifyNext == NotifyInv /\ [Notify!Next]_notifyVars => NotifyInv'
<1>. SUFFICES ASSUME NotifyInv, [Notify!Next]_notifyVars PROVE NotifyInv'
  OBVIOUS
<1>a. NotifyType /\ endpoint \in Endpoints /\ notifier \in Notifiers
  BY DEF NotifyInv, NotifyType
<1>b. \A p \in {"idle", "test", "fill", "check", "run", "store"} :
        /\ [notifier EXCEPT !.pc = p] \in Notifiers
        /\ [notifier EXCEPT !.pc = p].pc = p /\ [notifier EXCEPT !.pc = p].result = notifier.result
  BY <1>a DEF Notifiers
<1>. USE DEF NotifyInv, NotifyType, MessageIsKnown, StateInMessage, JobIsKnown, JobIsAlone, Known, Notify!At, Notify!Goto
<1>1. ASSUME NEW S \in SUBSET Signals, Notify!udi_cdc_ctrl_state_change(S) PROVE NotifyInv'
  <2>1. notifier' = [notifier EXCEPT !.pc = "test", !.signals = @ + 1]
    BY <1>1 DEF Notify!udi_cdc_ctrl_state_change
  <2>2. notifier' \in Notifiers /\ notifier'.pc = "test"
    <3>. DEFINE n == notifier.signals + 1
    <3>1. n \in Int
      BY <1>a DEF Notifiers
    <3>2. notifier' = [notifier EXCEPT !.pc = "test", !.signals = n]
      BY <2>1
    <3>. HIDE DEF n
    <3>. QED  BY <1>a, <3>1, <3>2 DEF Notifiers
  <2>3. state' = S /\ notifier.pc = "idle" /\ UNCHANGED <<msg, ongoing, endpoint, hostState, refused>>
    BY <1>1 DEF Notify!udi_cdc_ctrl_state_change
  <2>. HIDE DEF Notify!NoPacket
  <2>. QED  BY <2>2, <2>3
<1>2. CASE Notify!NotifyTest
  <2>1. CASE Notify!Changed
    BY <1>2, <1>b, <2>1 DEF Notify!NotifyTest, Notify!Changed
  <2>2. CASE ~Notify!Changed
    BY <1>2, <1>b, <2>2 DEF Notify!NotifyTest, Notify!Changed
  <2>. QED  BY <2>1, <2>2
<1>3. CASE Notify!NotifyFill
  BY <1>3, <1>b DEF Notify!NotifyFill
<1>4. CASE Notify!NotifyCheck
  <2>1. CASE Notify!Accepts(endpoint)
    BY <1>4, <1>b, <2>1 DEF Notify!NotifyCheck
  <2>2. CASE ~Notify!Accepts(endpoint)
    BY <1>4, <1>b, <2>2 DEF Notify!NotifyCheck
  <2>. QED  BY <2>1, <2>2
<1>5. CASE Notify!NotifyRun
  <2>1. notifier.pc = "run" /\ ~endpoint.busy
    BY <1>5 DEF Notify!NotifyRun
  <2>2. notifier' \in Notifiers /\ notifier'.pc = "store" /\ notifier'.result = TRUE
    BY <1>5, <1>a, <2>1 DEF Notify!NotifyRun, Notifiers
  <2>3. endpoint' \in Endpoints /\ endpoint'.busy /\ endpoint'.dma
    BY <1>5, <1>a, <2>1, EndpointFields DEF Notify!NotifyRun
  <2>. QED  BY <1>5, <2>1, <2>2, <2>3 DEF Notify!NotifyRun
<1>6. CASE Notify!NotifyStore
  <2>1. notifier' \in Notifiers /\ notifier'.pc = "idle" /\ ongoing' = notifier.result /\ notifier.result \in BOOLEAN
    BY <1>6, <1>a DEF Notify!NotifyStore, Notifiers
  <2>. QED  BY <1>6, <2>1 DEF Notify!NotifyStore
<1>7. CASE Notify!NotificationMoves
  <2>1. endpoint' \in Endpoints /\ endpoint'.bank = msg /\ endpoint'.busy = endpoint.busy
    BY <1>7, <1>a DEF Notify!NotificationMoves, Endpoints
  <2>2. msg # Notify!NoPacket
    BY NoPacketIsNone
  <2>. QED  BY <1>7, <2>1, <2>2 DEF Notify!NotificationMoves
<1>8. CASE Notify!NotificationSent
  <2>. DEFINE e == [endpoint EXCEPT !.done = FALSE]
  <2>1. /\ e \in Endpoints /\ e.busy = endpoint.busy /\ e.enabled = endpoint.enabled
        /\ e.dma = endpoint.dma /\ e.bank = endpoint.bank
    BY <1>a DEF Endpoints
  <2>2. Notify!udd_ep_finish_job(e) /\ UNCHANGED <<hostState, notifier>>
    BY <1>8 DEF Notify!NotificationSent
  <2>. HIDE DEF e
  <2>. QED  BY <2>1, <2>2, FinishKeeps
<1>9. CASE Notify!HostReads
  <2>1. /\ endpoint' \in Endpoints /\ endpoint'.bank = Notify!NoPacket /\ endpoint'.busy = endpoint.busy
        /\ endpoint'.dma = endpoint.dma /\ endpoint'.enabled = endpoint.enabled
    BY <1>9, <1>a DEF Notify!HostReads, Endpoints
  <2>. QED  BY <1>9, <2>1 DEF Notify!HostReads
<1>10. CASE Notify!Halts
  <2>1. CASE Notify!udd_ep_set_halt \/ Notify!BankEmpty
    <3>1. /\ endpoint' \in Endpoints /\ endpoint'.bank = endpoint.bank /\ endpoint'.busy = endpoint.busy
          /\ endpoint'.dma = endpoint.dma /\ endpoint'.enabled = endpoint.enabled
      BY <2>1, <1>a DEF Notify!udd_ep_set_halt, Notify!BankEmpty, Endpoints
    <3>. QED  BY <2>1, <3>1 DEF Notify!udd_ep_set_halt, Notify!BankEmpty
  <2>2. CASE Notify!udd_ep_clear_halt
    <3>. DEFINE e == [endpoint EXCEPT !.halted = FALSE, !.stallRequested = FALSE]
    <3>1. /\ e \in Endpoints /\ e.busy = endpoint.busy /\ e.enabled = endpoint.enabled
          /\ e.dma = endpoint.dma /\ e.bank = endpoint.bank
      BY <1>a DEF Endpoints
    <3>2. Notify!udd_ep_finish_job(e) /\ UNCHANGED <<hostState, notifier>>
      BY <2>2 DEF Notify!udd_ep_clear_halt
    <3>. HIDE DEF e
    <3>. QED  BY <3>1, <3>2, FinishKeeps
  <2>. QED  BY <1>10, <2>1, <2>2 DEF Notify!Halts
<1>11. \A e \in Notify!Freed(endpoint) :
         e \in Endpoints /\ e.busy = endpoint.busy /\ ~e.enabled /\ e.bank = Notify!NoPacket
  BY <1>a DEF Notify!Freed, Notify!udd_ep_free, Notify!Endpoint, Endpoints
<1>12. CASE Notify!udi_cdc_comm_enable
  <2>1. PICK e \in Notify!Freed(endpoint) : endpoint' = [Notify!Aborted(e) EXCEPT !.enabled = TRUE]
    BY <1>12 DEF Notify!udi_cdc_comm_enable
  <2>2. endpoint' \in Endpoints /\ endpoint'.busy = (endpoint.busy /\ ~endpoint.enabled) /\ endpoint'.bank = Notify!NoPacket
    BY <1>11, <1>a, <2>1 DEF Notify!Aborted, Endpoints
  <2>. HIDE DEF Notify!NoPacket
  <2>. QED  BY <1>12, <2>2 DEF Notify!udi_cdc_comm_enable
<1>13. CASE Notify!udc_reset
  <2>1. PICK e \in Notify!Freed(endpoint) : Notify!udd_ep_finish_job(e) /\ UNCHANGED <<hostState, notifier>>
    BY <1>13 DEF Notify!udc_reset
  <2>. QED  BY <1>11, <2>1, FinishKeeps
<1>14. CASE UNCHANGED notifyVars
  BY <1>14 DEF notifyVars
<1>15. ASSUME NEW l \in Lines, NEW b_set \in BOOLEAN, Notify!udi_cdc_ctrl_signal(l, b_set) PROVE NotifyInv'
  <2>1. (IF b_set THEN state \cup {l} ELSE state \ {l}) \in SUBSET Signals
    BY DEF Signals
  <2>. QED  BY <1>1, <1>15, <2>1 DEF Notify!udi_cdc_ctrl_signal
<1>16. ASSUME NEW e \in Errors, Notify!udi_cdc_signal_error(e) PROVE NotifyInv'
  <2>1. state \cup {e} \in SUBSET Signals
    BY DEF Signals
  <2>. QED  BY <1>1, <1>16, <2>1 DEF Notify!udi_cdc_signal_error
<1>. QED  BY <1>2, <1>3, <1>4, <1>5, <1>6, <1>7, <1>8, <1>9, <1>10, <1>12, <1>13, <1>14, <1>15, <1>16
          DEF Notify!Next, Notify!Program

(* Whatever ends, halts, resets and signals come between the steps of the    *)
(* program, at rest the host knows the lines unless the driver believes that *)
(* a notification is under way or a halted endpoint refused the last one     *)
(* (udi_cdc_ctrl_state_notify, udd_ep_run): for any lines, errors and number *)
(* of signals, halts and configurations.                                    *)
THEOREM ChangesAreAlwaysSent == MCSpec => []ChangesAreSent
<1>1. MCInit => NotifyInv
  BY NotifyInit DEF MCInit
<1>2. NotifyInv => ChangesAreSent
  BY DEF NotifyInv, NotifyType, MessageIsKnown, StateInMessage, Known, ChangesAreSent,
         Notify!ChangesAreSent, Notify!AtRest, Notify!At
<1>3. NotifyInv /\ [MCNext]_programVars => NotifyInv'
  BY NotifySteps, NotifyNext
<1>. QED  BY <1>1, <1>2, <1>3, PTL DEF MCSpec, MCNext

-----------------------------------------------------------------------------
(* Sleep modes (SleepManager) *)

LEMMA SleepSteps == [MCNext]_programVars => [Sleeping!Next]_sleepVars
<1>. USE DEF NotEx01, NotFlash, NotClocks, NotUsb, clockVars
<1>1. TimeStep \/ SampleStep \/ ArrayStep => UNCHANGED sleepVars
  BY DEF TimeStep, SampleStep, ArrayStep
<1>2. MemoryStep \/ CommandStep => UNCHANGED sleepVars
  BY DEF MemoryStep, CommandStep
<1>3. SettingStep \/ BusStep \/ PowerStep \/ DelayStep => UNCHANGED sleepVars
  BY DEF SettingStep, BusStep, PowerStep, DelayStep
<1>4. SleepStep => Sleeping!Next
  BY DEF SleepStep
<1>5. NotifyStep \/ WindowStep \/ WordStep => UNCHANGED sleepVars
  BY DEF NotifyStep, WindowStep, WordStep
<1>6. UNCHANGED programVars => UNCHANGED sleepVars
  BY DEF programVars
<1>. QED  BY <1>1, <1>2, <1>3, <1>4, <1>5, <1>6 DEF MCNext

Contexts == {"main", "handler"}

(* What is left of a call: of counting, or of going to sleep.               *)
From2(m, by) == <<Sleeping!Do("load", m, by), Sleeping!Do("store", m, by), Sleeping!Do("restore", m, by)>>
From3(m, by) == <<Sleeping!Do("store", m, by), Sleeping!Do("restore", m, by)>>
From4(m, by) == <<Sleeping!Do("restore", m, by)>>
Find2 == <<Sleeping!Do("find", 0, 0), Sleeping!Do("sleep", 0, 0)>>
Find3 == <<Sleeping!Do("sleep", 0, 0)>>

Left(x) ==
  \/ sleepTodo[x] = <<>>
  \/ \E m \in Sleeping!Modes, by \in {1, -1} :
       sleepTodo[x] \in {Sleeping!Counted(m, by), From2(m, by), From3(m, by), From4(m, by)}
  \/ x = "main" /\ sleepTodo[x] \in {Sleeping!sleepmgr_enter_sleep, Find2, Find3}

Op(x) == IF sleepTodo[x] = <<>> THEN "none" ELSE Head(sleepTodo[x]).op
Of(x) == IF sleepTodo[x] = <<>> THEN 0 ELSE Head(sleepTodo[x]).mode
By(x) == IF sleepTodo[x] = <<>> THEN 0 ELSE Head(sleepTodo[x]).by

Counting == {"save", "load", "store", "restore"}
Inside   == {"load", "store", "restore", "find", "sleep"}

(* Where a context may be, and where it goes from there.                    *)
Place(x) ==
  \/ Op(x) = "none" /\ sleepTodo[x] = <<>>
  \/ Op(x) \in Counting /\ Of(x) \in Sleeping!Modes /\ By(x) \in {1, -1} /\ sleepTodo[x] # <<>>
  \/ x = "main" /\ Op(x) \in {"disable", "find", "sleep"} /\ By(x) = 0 /\ sleepTodo[x] # <<>>
After(o) == CASE o = "save" -> "load" [] o = "load" -> "store" [] o = "store" -> "restore"
              [] o = "disable" -> "find" [] o = "find" -> "sleep" [] OTHER -> "none"

LEMMA PlaceOf ==
  ASSUME NEW x \in Contexts, Left(x) PROVE Place(x)
<1>. USE DEF Place, Op, Of, By, Counting
<1>1. CASE sleepTodo[x] = <<>>
  BY <1>1
<1>2. ASSUME NEW m \in Sleeping!Modes, NEW by \in {1, -1},
             sleepTodo[x] \in {Sleeping!Counted(m, by), From2(m, by), From3(m, by), From4(m, by)}
      PROVE Place(x)
  BY <1>2 DEF Sleeping!Counted, From2, From3, From4, Sleeping!Do
<1>3. CASE x = "main" /\ sleepTodo[x] \in {Sleeping!sleepmgr_enter_sleep, Find2, Find3}
  BY <1>3 DEF Sleeping!sleepmgr_enter_sleep, Find2, Find3, Sleeping!Do
<1>. QED  BY <1>1, <1>2, <1>3 DEF Left

LEMMA GoesOn ==
  ASSUME NEW x \in Contexts, Left(x), sleepTodo[x] # <<>>, sleepTodo'[x] = Tail(sleepTodo[x])
  PROVE  /\ Left(x)' /\ Op(x)' = After(Op(x))
         /\ Op(x)' # "none" => Of(x)' = Of(x) /\ By(x)' = By(x)
<1>. DEFINE Goal == /\ Left(x)' /\ Op(x)' = After(Op(x))
                    /\ Op(x)' # "none" => Of(x)' = Of(x) /\ By(x)' = By(x)
<1>1. ASSUME NEW m \in Sleeping!Modes, NEW by \in {1, -1},
             sleepTodo[x] \in {Sleeping!Counted(m, by), From2(m, by), From3(m, by), From4(m, by)}
      PROVE  Goal
  <2>1. CASE sleepTodo[x] = Sleeping!Counted(m, by)
    <3>1. sleepTodo'[x] = From2(m, by)
      BY <2>1 DEF Sleeping!Counted, From2
    <3>2. Left(x)'
      BY <3>1 DEF Left
    <3>3. From2(m, by) # <<>> /\ Sleeping!Counted(m, by) # <<>>
      BY DEF Sleeping!Counted, From2
    <3>4. /\ Head(From2(m, by)).mode = Head(Sleeping!Counted(m, by)).mode
          /\ Head(From2(m, by)).by = Head(Sleeping!Counted(m, by)).by
          /\ Head(From2(m, by)).op = After(Head(Sleeping!Counted(m, by)).op)
      BY DEF After, Sleeping!Counted, From2, Sleeping!Do
    <3>. QED  BY <2>1, <3>1, <3>2, <3>3, <3>4 DEF Op, Of, By
  <2>2. CASE sleepTodo[x] = From2(m, by)
    <3>1. sleepTodo'[x] = From3(m, by)
      BY <2>2 DEF From2, From3
    <3>2. Left(x)'
      BY <3>1 DEF Left
    <3>3. From3(m, by) # <<>> /\ From2(m, by) # <<>>
      BY DEF From2, From3
    <3>4. /\ Head(From3(m, by)).mode = Head(From2(m, by)).mode
          /\ Head(From3(m, by)).by = Head(From2(m, by)).by
          /\ Head(From3(m, by)).op = After(Head(From2(m, by)).op)
      BY DEF After, From2, From3, Sleeping!Do
    <3>. QED  BY <2>2, <3>1, <3>2, <3>3, <3>4 DEF Op, Of, By
  <2>3. CASE sleepTodo[x] = From3(m, by)
    <3>1. sleepTodo'[x] = From4(m, by)
      BY <2>3 DEF From3, From4
    <3>. QED  BY <2>3, <3>1 DEF Left, Op, Of, By, After, From3, From4, Sleeping!Do
  <2>4. CASE sleepTodo[x] = From4(m, by)
    <3>1. sleepTodo'[x] = <<>>
      BY <2>4 DEF From4
    <3>. QED  BY <2>4, <3>1 DEF Left, Op, Of, By, After, From4, Sleeping!Do
  <2>. QED  BY <1>1, <2>1, <2>2, <2>3, <2>4
<1>2. ASSUME x = "main", sleepTodo[x] \in {Sleeping!sleepmgr_enter_sleep, Find2, Find3} PROVE Goal
  <2>1. CASE sleepTodo[x] = Sleeping!sleepmgr_enter_sleep
    <3>1. sleepTodo'[x] = Find2
      BY <2>1 DEF Sleeping!sleepmgr_enter_sleep, Find2
    <3>. QED  BY <1>2, <2>1, <3>1 DEF Left, Op, Of, By, After, Sleeping!sleepmgr_enter_sleep, Find2, Sleeping!Do
  <2>2. CASE sleepTodo[x] = Find2
    <3>1. sleepTodo'[x] = Find3
      BY <2>2 DEF Find2, Find3
    <3>. QED  BY <1>2, <2>2, <3>1 DEF Left, Op, Of, By, After, Find2, Find3, Sleeping!Do
  <2>3. CASE sleepTodo[x] = Find3
    <3>1. sleepTodo'[x] = <<>>
      BY <2>3 DEF Find3
    <3>. QED  BY <1>2, <2>3, <3>1 DEF Left, Op, Of, By, After, Find3, Sleeping!Do
  <2>. QED  BY <1>2, <2>1, <2>2, <2>3
<1>. QED  BY <1>1, <1>2 DEF Left

Sleepless == Sleeping!ACTIVE
Allowed   == {h[2] : h \in held} \cup {Sleeping!Deepest}

SleepType ==
  /\ sleepmgr_locks \in [Sleeping!Modes -> Int]
  /\ DOMAIN sleepTodo = Contexts /\ sleepTodo = [x \in Contexts |-> sleepTodo[x]]
  /\ flags \in [Contexts -> BOOLEAN]
  /\ count \in [Contexts -> Int]
  /\ irqMask \in BOOLEAN /\ inHandler \in BOOLEAN
  /\ held \subseteq Contexts \X Sleeping!Modes
  /\ \A x \in Contexts : Left(x)

(* Interrupts are masked just while a context is inside a section, and the  *)
(* handler runs only while main is not.                                     *)
Sections ==
  /\ irqMask <=> \E x \in Contexts : Op(x) \in Inside
  /\ ~inHandler => Op("handler") = "none"
  /\ inHandler => Op("main") \notin Inside
  /\ \A x \in Contexts : Op(x) \in {"load", "store", "restore"} => flags[x] = FALSE
  /\ asleep # Sleepless => ~inHandler /\ Op("main") = "none"

(* A context's part in the counter of a mode: what it holds, what it is     *)
(* about to give back, and what it has taken and not returned with.         *)
Part(x, m) ==
  IF \/ <<x, m>> \in held
     \/ Of(x) = m /\ By(x) = -1 /\ Op(x) \in {"save", "load", "store"}
     \/ Of(x) = m /\ By(x) = 1 /\ Op(x) = "restore" THEN 1 ELSE 0
Always(m) == IF m = Sleeping!Deepest THEN 1 ELSE 0

Counts ==
  /\ \A m \in Sleeping!Modes : sleepmgr_locks[m] = Always(m) + Part("main", m) + Part("handler", m)
  /\ \A x \in Contexts :
       /\ Op(x) \in Counting => <<x, Of(x)>> \notin held
       /\ Op(x) = "store" => count[x] = sleepmgr_locks[Of(x)]

Found ==
  /\ Op("main") = "sleep" => sleep_mode = Sleeping!Min(Allowed)
  /\ asleep # Sleepless => asleep = Sleeping!Min(Allowed)

SleepInv == SleepType /\ Sections /\ Counts /\ Found

(* A step of x from access o leaves the other context where it is.          *)
Moved(x, o) ==
  /\ Op(x) = o /\ Op(x)' = After(o)
  /\ Op(x)' # "none" => Of(x)' = Of(x) /\ By(x)' = By(x)
  /\ \A y \in Contexts \ {x} : Op(y)' = Op(y) /\ Of(y)' = Of(y) /\ By(y)' = By(y)

LEMMA DoneMoves ==
  ASSUME SleepType, NEW x \in Contexts, NEW o, Sleeping!At(x, o), Sleeping!Done(x)
  PROVE  /\ Moved(x, o)
         /\ DOMAIN sleepTodo' = Contexts /\ sleepTodo' = [y \in Contexts |-> sleepTodo'[y]]
         /\ \A y \in Contexts : Left(y)'
<1>1. sleepTodo[x] # <<>> /\ Op(x) = o
  BY DEF Sleeping!At, Sleeping!Idle, Op
<1>2. /\ sleepTodo'[x] = Tail(sleepTodo[x])
      /\ \A y \in Contexts \ {x} : sleepTodo'[y] = sleepTodo[y]
      /\ DOMAIN sleepTodo' = Contexts /\ sleepTodo' = [y \in Contexts |-> sleepTodo'[y]]
  BY DEF Sleeping!Done, SleepType
<1>3. Left(x) /\ \A y \in Contexts : Left(y)
  BY DEF SleepType
<1>4. /\ Left(x)' /\ Op(x)' = After(Op(x))
      /\ Op(x)' # "none" => Of(x)' = Of(x) /\ By(x)' = By(x)
  BY <1>1, <1>2, <1>3, GoesOn
<1>5. \A y \in Contexts \ {x} : Op(y)' = Op(y) /\ Of(y)' = Of(y) /\ By(y)' = By(y) /\ Left(y)'
  BY <1>2, <1>3 DEF Op, Of, By, Left
<1>. QED  BY <1>1, <1>2, <1>4, <1>5 DEF Moved

LEMMA SleepPlaces == ASSUME SleepType, NEW x \in Contexts PROVE Place(x)
  BY PlaceOf DEF SleepType

Access(x, o) ==
  \/ o = "save" /\ Sleeping!Save(x)
  \/ o = "load" /\ Sleeping!Load(x)
  \/ o = "store" /\ Sleeping!Store(x)
  \/ o = "restore" /\ Sleeping!Restore(x)
  \/ o = "disable" /\ Sleeping!Disable(x)
  \/ o = "find" /\ Sleeping!Find(x)
  \/ o = "sleep" /\ Sleeping!Sleep(x)

(* The accesses of a context; the rest of a step is calls and interrupts.   *)
LEMMA SleepAccess ==
  ASSUME SleepInv, NEW x \in Contexts, NEW o, Sleeping!At(x, o), Sleeping!Done(x),
         Access(x, o)
  PROVE  SleepInv'
<1>1. /\ Moved(x, o)
      /\ DOMAIN sleepTodo' = Contexts /\ sleepTodo' = [y \in Contexts |-> sleepTodo'[y]]
      /\ \A y \in Contexts : Left(y)'
  BY DoneMoves DEF SleepInv
<1>2. Place("main") /\ Place("handler") /\ Place(x)
  BY SleepPlaces DEF SleepInv, Contexts
<1>3. inHandler = (x = "handler") /\ asleep = Sleepless
  BY DEF Sleeping!At, Sleeping!Runs, Sleepless
<1>4. Sleeping!This(x).mode = Of(x) /\ Sleeping!This(x).by = By(x)
  BY DEF Sleeping!This, Sleeping!At, Sleeping!Idle, Of, By
<1>t. SleepType /\ Sections /\ Counts /\ Found
  BY DEF SleepInv
<1>5. CASE o = "save" /\ Sleeping!Save(x)
  <2>0. flags' = [flags EXCEPT ![x] = irqMask] /\ irqMask' = TRUE
        /\ UNCHANGED <<sleepmgr_locks, count, sleep_mode, asleep, inHandler, held>>
    BY <1>5 DEF Sleeping!Save, Sleeping!cpu_irq_disable
  <2>. USE <1>1, <1>2, <1>3, <1>t, <2>0, <1>5
  <2>1. SleepType'
    BY DEF SleepType
  <2>2. irqMask = FALSE
    BY DEF Sections, Moved, Inside, Contexts, SleepType
  <2>3. Sections'
    BY <2>2 DEF Sections, Moved, Inside, Contexts, SleepType, After, Place, Counting
  <2>4. Counts'
    BY DEF Counts, Moved, Contexts, After, Part, Always, Counting
  <2>5. Found'
    BY DEF Found, Moved, Contexts, After, Allowed
  <2>. QED  BY <2>1, <2>3, <2>4, <2>5 DEF SleepInv
<1>6. CASE o = "load" /\ Sleeping!Load(x)
  <2>0. count' = [count EXCEPT ![x] = sleepmgr_locks[Of(x)]]
        /\ UNCHANGED <<sleepmgr_locks, flags, sleep_mode, asleep, irqMask, inHandler, held>>
    BY <1>6, <1>4 DEF Sleeping!Load
  <2>. USE <1>1, <1>2, <1>3, <1>t, <2>0, <1>6
  <2>1. SleepType'
    BY DEF SleepType, Place, Counting, Moved
  <2>3. Sections'
    BY DEF Sections, Moved, Inside, Contexts, SleepType, After, Place, Counting
  <2>4. Counts'
    BY SMTT(60) DEF Counts, Moved, Contexts, After, Part, Always, Counting, Place, SleepType
  <2>5. Found'
    BY DEF Found, Moved, Contexts, After, Allowed, Place, Counting
  <2>. QED  BY <2>1, <2>3, <2>4, <2>5 DEF SleepInv
<1>7. CASE o = "store" /\ Sleeping!Store(x)
  <2>0. sleepmgr_locks' = [sleepmgr_locks EXCEPT ![Of(x)] = (count[x] + By(x)) % 256]
        /\ UNCHANGED <<flags, count, sleep_mode, asleep, irqMask, inHandler, held>>
    BY <1>7, <1>4 DEF Sleeping!Store
  <2>. USE <1>1, <1>2, <1>3, <1>t, <2>0, <1>7
  <2>1. SleepType'
    BY DEF SleepType, Place, Counting, Moved
  <2>3. Sections'
    BY DEF Sections, Moved, Inside, Contexts, SleepType, After, Place, Counting
  <2>6. /\ Of(x) \in Sleeping!Modes /\ By(x) \in {1, -1} /\ <<x, Of(x)>> \notin held
        /\ count[x] = sleepmgr_locks[Of(x)]
    BY DEF Counts, Place, Moved, Counting
  <2>7. \A y \in Contexts, m \in Sleeping!Modes : Part(y, m) \in {0, 1}
    BY DEF Part
  <2>8. \A y \in Contexts, m \in Sleeping!Modes : y = x /\ m = Of(x) =>
          Part(y, m) = (IF By(x) = -1 THEN 1 ELSE 0)
    BY <2>6 DEF Part, Moved
  <2>9. \A y \in Contexts, m \in Sleeping!Modes : y = x /\ m = Of(x) =>
          Part(y, m)' = (IF By(x) = -1 THEN 0 ELSE 1)
    BY <2>6 DEF Part, Moved, After
  <2>10. \A y \in Contexts, m \in Sleeping!Modes : y # x \/ m # Of(x) => Part(y, m)' = Part(y, m)
    BY DEF Part, Moved, After
  <2>11. sleepmgr_locks[Of(x)] = Always(Of(x)) + Part("main", Of(x)) + Part("handler", Of(x))
    BY <2>6 DEF Counts
  <2>12. sleepmgr_locks'[Of(x)] = sleepmgr_locks[Of(x)] + By(x)
    <3>1. sleepmgr_locks[Of(x)] + By(x) \in 0..4
      BY <2>6, <2>7, <2>8, <2>11 DEF Always, Contexts
    <3>2. sleepmgr_locks'[Of(x)] = (sleepmgr_locks[Of(x)] + By(x)) % 256
      BY <2>6 DEF SleepType
    <3>. QED  BY <3>1, <3>2
  <2>13. ASSUME NEW m \in Sleeping!Modes
         PROVE  sleepmgr_locks'[m] = Always(m) + Part("main", m)' + Part("handler", m)'
    <3>1. CASE m = Of(x)
      <4>1. CASE x = "main"
        <5>1. Part("handler", m)' = Part("handler", m) /\ Part("handler", m) \in {0, 1} /\ Always(m) \in {0, 1}
          BY <2>6, <2>7, <2>10, <4>1 DEF Contexts, Always
        <5>2. Part("main", m) = (IF By(x) = -1 THEN 1 ELSE 0)
          BY <2>8, <3>1, <4>1
        <5>3. Part("main", m)' = (IF By(x) = -1 THEN 0 ELSE 1)
          BY <2>9, <3>1, <4>1
        <5>4. sleepmgr_locks'[m] = Always(m) + Part("main", m) + Part("handler", m) + By(x)
          BY <2>11, <2>12, <3>1
        <5>. HIDE <3>1, <4>1
        <5>5. CASE By(x) = 1
          BY <5>1, <5>2, <5>3, <5>4, <5>5
        <5>6. CASE By(x) = -1
          BY <5>1, <5>2, <5>3, <5>4, <5>6
        <5>. QED  BY <2>6, <5>5, <5>6
      <4>2. CASE x = "handler"
        <5>1. Part("main", m)' = Part("main", m) /\ Part("main", m) \in {0, 1} /\ Always(m) \in {0, 1}
          BY <2>6, <2>7, <2>10, <4>2 DEF Contexts, Always
        <5>2. Part("handler", m) = (IF By(x) = -1 THEN 1 ELSE 0)
          BY <2>8, <3>1, <4>2
        <5>3. Part("handler", m)' = (IF By(x) = -1 THEN 0 ELSE 1)
          BY <2>9, <3>1, <4>2
        <5>4. sleepmgr_locks'[m] = Always(m) + Part("main", m) + Part("handler", m) + By(x)
          BY <2>11, <2>12, <3>1
        <5>. HIDE <3>1, <4>2
        <5>5. CASE By(x) = 1
          BY <5>1, <5>2, <5>3, <5>4, <5>5
        <5>6. CASE By(x) = -1
          BY <5>1, <5>2, <5>3, <5>4, <5>6
        <5>. QED  BY <2>6, <5>5, <5>6
      <4>. QED  BY <4>1, <4>2 DEF Contexts
    <3>2. CASE m # Of(x)
      BY <2>10, <3>2 DEF Counts, Contexts, SleepType
    <3>. QED  BY <3>1, <3>2
  <2>14. \A y \in Contexts : (Op(y) \in Counting => <<y, Of(y)>> \notin held)'
    BY DEF Counts, Moved, After, Counting
  <2>15. \A y \in Contexts : Op(y)' # "store"
    BY DEF Moved, After, Sections, Inside, Contexts
  <2>4. Counts'
    BY <2>13, <2>14, <2>15 DEF Counts, Always
  <2>5. Found'
    BY DEF Found, Moved, Contexts, After, Allowed, Place, Counting
  <2>. QED  BY <2>1, <2>3, <2>4, <2>5 DEF SleepInv
<1>8. CASE o = "restore" /\ Sleeping!Restore(x)
  <2>0. irqMask' = flags[x]
        /\ held' = (IF By(x) = 1 THEN held \cup {<<x, Of(x)>>} ELSE held)
        /\ UNCHANGED <<sleepmgr_locks, flags, count, sleep_mode, asleep, inHandler>>
    BY <1>8, <1>4 DEF Sleeping!Restore
  <2>. USE <1>1, <1>2, <1>3, <1>t, <2>0, <1>8
  <2>1. SleepType'
    BY DEF SleepType, Place, Counting, Moved
  <2>3. Sections'
    BY DEF Sections, Moved, Inside, Contexts, SleepType, After, Place, Counting
  <2>6. /\ Of(x) \in Sleeping!Modes /\ By(x) \in {1, -1} /\ <<x, Of(x)>> \notin held
        /\ Op(x)' = "none" /\ Op(x) = "restore"
    BY DEF Counts, Place, Moved, Counting, After
  <2>7. \A m \in Sleeping!Modes : Part(x, m)' = Part(x, m)
    BY <2>6 DEF Part
  <2>8. \A y \in Contexts \ {x}, m \in Sleeping!Modes :
          Part(y, m)' = Part(y, m) /\ (<<y, m>> \in held' <=> <<y, m>> \in held)
    BY DEF Part, Moved
  <2>9. \A m \in Sleeping!Modes : sleepmgr_locks'[m] = Always(m) + Part("main", m)' + Part("handler", m)'
    BY <2>7, <2>8 DEF Counts, Contexts
  <2>10. \A y \in Contexts : Op(y)' \in Counting => y # x /\ Op(y) \in Counting /\ Of(y) \in Sleeping!Modes
    BY <2>6 DEF Moved, Counting, Contexts, Place
  <2>4. Counts'
    BY <2>8, <2>9, <2>10 DEF Counts, Always, Moved, Counting
  <2>5. Found'
    BY <2>6 DEF Found, Moved, Contexts, Sections, Inside
  <2>. QED  BY <2>1, <2>3, <2>4, <2>5 DEF SleepInv
<1>9. CASE o = "disable" /\ Sleeping!Disable(x)
  <2>0. irqMask' = TRUE
        /\ UNCHANGED <<sleepmgr_locks, flags, count, sleep_mode, asleep, inHandler, held>>
    BY <1>9, <1>4 DEF Sleeping!Disable, Sleeping!cpu_irq_disable
  <2>. USE <1>1, <1>2, <1>3, <1>t, <2>0, <1>9
  <2>1. SleepType'
    BY DEF SleepType, Place, Counting, Moved
  <2>3. Sections'
    BY DEF Sections, Moved, Inside, Contexts, SleepType, After, Place, Counting
  <2>4. Counts'
    BY SMTT(60) DEF Counts, Moved, Contexts, After, Part, Always, Counting, Place, SleepType
  <2>5. Found'
    BY DEF Found, Moved, Contexts, After, Allowed, Place, Counting
  <2>. QED  BY <2>1, <2>3, <2>4, <2>5 DEF SleepInv
<1>10. CASE o = "find" /\ Sleeping!Find(x)
  <2>0. sleep_mode' = Sleeping!Min({m \in Sleeping!Modes : sleepmgr_locks[m] > 0})
        /\ UNCHANGED <<sleepmgr_locks, flags, count, asleep, irqMask, inHandler, held>>
    BY <1>10, <1>4 DEF Sleeping!Find
  <2>. USE <1>1, <1>2, <1>3, <1>t, <2>0, <1>10
  <2>1. SleepType'
    BY DEF SleepType, Place, Counting, Moved
  <2>3. Sections'
    BY DEF Sections, Moved, Inside, Contexts, SleepType, After, Place, Counting
  <2>4. Counts'
    BY SMTT(60) DEF Counts, Moved, Contexts, After, Part, Always, Counting, Place, SleepType
  <2>6. Op("handler") = "none" /\ Op("main") = "find" /\ By("main") = 0
    BY DEF Sections, Moved, Place, Counting, Inside, Contexts
  <2>7. {m \in Sleeping!Modes : sleepmgr_locks[m] > 0} = Allowed
    <3>1. ASSUME NEW m \in Sleeping!Modes
          PROVE  sleepmgr_locks[m] > 0 <=> m = Sleeping!Deepest \/ \E y \in Contexts : <<y, m>> \in held
      BY <2>6 DEF Counts, Part, Always, Contexts
    <3>2. Sleeping!Deepest \in Sleeping!Modes
      BY RoutinesAssumption DEF Sleeping!Deepest, Sleeping!Modes
    <3>3. \A h \in held : h = <<h[1], h[2]>> /\ h[1] \in Contexts /\ h[2] \in Sleeping!Modes
      BY DEF SleepType
    <3>4. ASSUME NEW m \in Sleeping!Modes, sleepmgr_locks[m] > 0 PROVE m \in Allowed
      <4>1. CASE m = Sleeping!Deepest
        BY <4>1 DEF Allowed
      <4>2. ASSUME NEW y \in Contexts, <<y, m>> \in held PROVE m \in Allowed
        BY <4>2 DEF Allowed
      <4>. QED  BY <3>1, <3>4, <4>1, <4>2
    <3>5. ASSUME NEW m \in Allowed PROVE m \in Sleeping!Modes /\ sleepmgr_locks[m] > 0
      <4>1. CASE m = Sleeping!Deepest
        BY <3>1, <3>2, <4>1
      <4>2. ASSUME NEW h \in held, m = h[2] PROVE m \in Sleeping!Modes /\ sleepmgr_locks[m] > 0
        BY <3>1, <3>3, <4>2, ZenonT(60)
      <4>. QED  BY <4>1, <4>2 DEF Allowed
    <3>. QED  BY <3>4, <3>5
  <2>5. Found'
    BY <2>7 DEF Found, Moved, Contexts, After, Allowed
  <2>. QED  BY <2>1, <2>3, <2>4, <2>5 DEF SleepInv
<1>11. CASE o = "sleep" /\ Sleeping!Sleep(x)
  <2>0. asleep' = sleep_mode /\ irqMask' = FALSE
        /\ UNCHANGED <<sleepmgr_locks, flags, count, sleep_mode, inHandler, held>>
    BY <1>11, <1>4 DEF Sleeping!Sleep
  <2>. USE <1>1, <1>2, <1>3, <1>t, <2>0, <1>11
  <2>1. SleepType'
    BY DEF SleepType, Place, Counting, Moved
  <2>3. Sections'
    BY DEF Sections, Moved, Inside, Contexts, SleepType, After, Place, Counting
  <2>4. Counts'
    BY SMTT(60) DEF Counts, Moved, Contexts, After, Part, Always, Counting, Place, SleepType
  <2>5. Found'
    BY DEF Found, Moved, Contexts, After, Allowed, Place, Counting
  <2>. QED  BY <2>1, <2>3, <2>4, <2>5 DEF SleepInv
<1>. QED  BY <1>5, <1>6, <1>7, <1>8, <1>9, <1>10, <1>11 DEF Access

LEMMA SleepInit == Sleeping!Init => SleepInv
<1>. SUFFICES ASSUME Sleeping!Init PROVE SleepInv
  OBVIOUS
<1>. USE DEF Sleeping!Init, Sleeping!sleepmgr_init
<1>1. \A x \in Contexts : sleepTodo[x] = <<>> /\ Left(x) /\ Op(x) = "none"
  BY DEF Left, Op, Contexts, Sleeping!Contexts
<1>2. SleepType
  <2>1. sleepmgr_locks \in [Sleeping!Modes -> Int]
    OBVIOUS
  <2>2. DOMAIN sleepTodo = Contexts /\ sleepTodo = [x \in Contexts |-> sleepTodo[x]]
    BY DEF Contexts, Sleeping!Contexts
  <2>3. flags \in [Contexts -> BOOLEAN] /\ count \in [Contexts -> Int]
    BY DEF Contexts, Sleeping!Contexts
  <2>4. irqMask \in BOOLEAN /\ inHandler \in BOOLEAN /\ held \subseteq Contexts \X Sleeping!Modes
    OBVIOUS
  <2>. QED  BY <1>1, <2>1, <2>2, <2>3, <2>4 DEF SleepType
<1>3. Sections
  BY <1>1 DEF Sections, Inside, Contexts, Sleepless
<1>4. Counts
  BY <1>1 DEF Counts, Part, Always, Counting, Contexts
<1>5. Found
  BY <1>1 DEF Found, Contexts, Sleepless
<1>. QED  BY <1>2, <1>3, <1>4, <1>5 DEF SleepInv

(* A call begins with its first access. *)
Begins(x, m, by) ==
  IF by = 0 THEN x = "main" /\ sleepTodo' = [sleepTodo EXCEPT ![x] = Sleeping!sleepmgr_enter_sleep]
  ELSE m \in Sleeping!Modes /\ by \in {1, -1} /\ sleepTodo' = [sleepTodo EXCEPT ![x] = Sleeping!Counted(m, by)]

LEMMA SleepBegins ==
  ASSUME SleepType, NEW x \in Contexts, NEW m, NEW by, Begins(x, m, by)
  PROVE  /\ DOMAIN sleepTodo' = Contexts /\ sleepTodo' = [y \in Contexts |-> sleepTodo'[y]]
         /\ \A y \in Contexts : Left(y)'
         /\ by = 0 => Op(x)' = "disable" /\ By(x)' = 0 /\ x = "main"
         /\ by # 0 => Op(x)' = "save" /\ Of(x)' = m /\ By(x)' = by
         /\ \A y \in Contexts \ {x} : Op(y)' = Op(y) /\ Of(y)' = Of(y) /\ By(y)' = By(y)
<1>1. /\ \A y \in Contexts \ {x} : sleepTodo'[y] = sleepTodo[y]
      /\ DOMAIN sleepTodo' = Contexts /\ sleepTodo' = [y \in Contexts |-> sleepTodo'[y]]
      /\ \A y \in Contexts : Left(y)
  BY DEF Begins, SleepType
<1>2. \A y \in Contexts \ {x} : Op(y)' = Op(y) /\ Of(y)' = Of(y) /\ By(y)' = By(y) /\ Left(y)'
  BY <1>1 DEF Op, Of, By, Left
<1>3. CASE by = 0
  <2>1. x = "main" /\ sleepTodo'[x] = Sleeping!sleepmgr_enter_sleep
    BY <1>3 DEF Begins, SleepType
  <2>2. Left(x)'
    BY <2>1 DEF Left
  <2>3. Op(x)' = "disable" /\ By(x)' = 0
    BY <2>1 DEF Op, By, Sleeping!sleepmgr_enter_sleep, Sleeping!Do
  <2>. QED  BY <1>1, <1>2, <1>3, <2>1, <2>2, <2>3
<1>4. CASE by # 0
  <2>1. m \in Sleeping!Modes /\ by \in {1, -1} /\ sleepTodo'[x] = Sleeping!Counted(m, by)
    BY <1>4 DEF Begins, SleepType
  <2>2. Left(x)'
    BY <2>1 DEF Left
  <2>3. Op(x)' = "save" /\ Of(x)' = m /\ By(x)' = by
    BY <2>1 DEF Op, Of, By, Sleeping!Counted, Sleeping!Do
  <2>. QED  BY <1>1, <1>2, <1>4, <2>1, <2>2, <2>3
<1>. QED  BY <1>3, <1>4

LEMMA SleepCall == ASSUME SleepInv, NEW x \in Contexts, Sleeping!Call(x) PROVE SleepInv'
<1>0. /\ inHandler = (x = "handler") /\ asleep = Sleepless /\ sleepTodo[x] = <<>> /\ Op(x) = "none"
      /\ UNCHANGED <<sleepmgr_locks, flags, count, sleep_mode, asleep, irqMask, inHandler>>
  BY DEF Sleeping!Call, Sleeping!Runs, Sleeping!Idle, Op, Sleepless
<1>t. SleepType /\ Sections /\ Counts /\ Found
  BY DEF SleepInv
<1>. USE <1>0, <1>t
<1>1. ASSUME NEW m \in Sleeping!Modes, <<x, m>> \in held,
             sleepTodo' = [sleepTodo EXCEPT ![x] = Sleeping!Counted(m, -1)], held' = held \ {<<x, m>>}
      PROVE  SleepInv'
  <2>0. Begins(x, m, -1)
    BY <1>1 DEF Begins, Sleeping!sleepmgr_unlock_mode
  <2>5. -1 # 0 => Op(x)' = "save" /\ Of(x)' = m /\ By(x)' = -1
    BY <1>t, <2>0, SleepBegins
  <2>. USE <1>1, <2>0, SleepBegins
  <2>1. SleepType'
    BY DEF SleepType
  <2>2. Sections'
    BY DEF Sections, Inside, Contexts
  <2>3. Counts'
    <3>2. \A k \in Sleeping!Modes : Part(x, k)' = Part(x, k)
      BY <2>5 DEF Part
    <3>3. \A y \in Contexts \ {x}, k \in Sleeping!Modes : Part(y, k)' = Part(y, k)
      BY DEF Part
    <3>4. \A k \in Sleeping!Modes : sleepmgr_locks'[k] = Always(k) + Part("main", k)' + Part("handler", k)'
      BY <3>2, <3>3 DEF Counts, Contexts
    <3>5. \A y \in Contexts \ {x} : Op(y)' = Op(y) /\ Of(y)' = Of(y) /\ By(y)' = By(y)
      OBVIOUS
    <3>6. \A y \in Contexts : (Op(y) \in Counting => <<y, Of(y)>> \notin held)'
      BY <2>5, <3>5 DEF Counts, Counting
    <3>7. \A y \in Contexts : (Op(y) = "store" => count[y] = sleepmgr_locks[Of(y)])'
      BY <2>5, <3>5 DEF Counts
    <3>. QED  BY <3>4, <3>6, <3>7 DEF Counts, Always
  <2>4. Found'
    BY DEF Found, Contexts, Sections, Inside
  <2>. QED  BY <2>1, <2>2, <2>3, <2>4 DEF SleepInv
<1>2. ASSUME NEW m \in Sleeping!Modes, <<x, m>> \notin held,
             sleepTodo' = [sleepTodo EXCEPT ![x] = Sleeping!Counted(m, 1)], held' = held
      PROVE  SleepInv'
  <2>0. Begins(x, m, 1)
    BY <1>2 DEF Begins, Sleeping!sleepmgr_lock_mode
  <2>5. 1 # 0 => Op(x)' = "save" /\ Of(x)' = m /\ By(x)' = 1
    BY <1>t, <2>0, SleepBegins
  <2>. USE <1>2, <2>0, SleepBegins
  <2>1. SleepType'
    BY DEF SleepType
  <2>2. Sections'
    BY DEF Sections, Inside, Contexts
  <2>3. Counts'
    <3>2. \A k \in Sleeping!Modes : Part(x, k)' = Part(x, k)
      BY <2>5 DEF Part
    <3>3. \A y \in Contexts \ {x}, k \in Sleeping!Modes : Part(y, k)' = Part(y, k)
      BY DEF Part
    <3>4. \A k \in Sleeping!Modes : sleepmgr_locks'[k] = Always(k) + Part("main", k)' + Part("handler", k)'
      BY <3>2, <3>3 DEF Counts, Contexts
    <3>5. \A y \in Contexts \ {x} : Op(y)' = Op(y) /\ Of(y)' = Of(y) /\ By(y)' = By(y)
      OBVIOUS
    <3>6. \A y \in Contexts : (Op(y) \in Counting => <<y, Of(y)>> \notin held)'
      BY <2>5, <3>5 DEF Counts, Counting
    <3>7. \A y \in Contexts : (Op(y) = "store" => count[y] = sleepmgr_locks[Of(y)])'
      BY <2>5, <3>5 DEF Counts
    <3>. QED  BY <3>4, <3>6, <3>7 DEF Counts, Always
  <2>4. Found'
    BY DEF Found, Contexts, Allowed
  <2>. QED  BY <2>1, <2>2, <2>3, <2>4 DEF SleepInv
<1>3. ASSUME x = "main", sleepTodo' = [sleepTodo EXCEPT ![x] = Sleeping!sleepmgr_enter_sleep], held' = held
      PROVE  SleepInv'
  <2>0. Begins(x, 0, 0)
    BY <1>3 DEF Begins
  <2>. USE <1>3, <2>0, SleepBegins
  <2>1. SleepType'
    BY DEF SleepType
  <2>2. Sections'
    BY DEF Sections, Inside, Contexts
  <2>3. Counts'
    BY ZenonT(60) DEF Counts, Part, Always, Counting, Contexts
  <2>4. Found'
    BY DEF Found, Contexts, Allowed
  <2>. QED  BY <2>1, <2>2, <2>3, <2>4 DEF SleepInv
<1>. QED  BY <1>1, <1>2, <1>3
          DEF Sleeping!Call, Sleeping!sleepmgr_lock_mode, Sleeping!sleepmgr_unlock_mode

LEMMA SleepNext == SleepInv /\ [Sleeping!Next]_sleepVars => SleepInv'
<1>. SUFFICES ASSUME SleepInv, [Sleeping!Next]_sleepVars PROVE SleepInv'
  OBVIOUS
<1>1. ASSUME NEW x \in Contexts,
             \/ Sleeping!Save(x) \/ Sleeping!Load(x) \/ Sleeping!Store(x) \/ Sleeping!Restore(x)
             \/ Sleeping!Disable(x) \/ Sleeping!Find(x) \/ Sleeping!Sleep(x)
      PROVE  SleepInv'
  <2>1. CASE Sleeping!Save(x)
    <3>1. Sleeping!At(x, "save") /\ Sleeping!Done(x)
      BY <2>1 DEF Sleeping!Save
    <3>. QED  BY <2>1, <3>1, SleepAccess DEF Access
  <2>2. CASE Sleeping!Load(x)
    <3>1. Sleeping!At(x, "load") /\ Sleeping!Done(x)
      BY <2>2 DEF Sleeping!Load
    <3>. QED  BY <2>2, <3>1, SleepAccess DEF Access
  <2>3. CASE Sleeping!Store(x)
    <3>1. Sleeping!At(x, "store") /\ Sleeping!Done(x)
      BY <2>3 DEF Sleeping!Store
    <3>. QED  BY <2>3, <3>1, SleepAccess DEF Access
  <2>4. CASE Sleeping!Restore(x)
    <3>1. Sleeping!At(x, "restore") /\ Sleeping!Done(x)
      BY <2>4 DEF Sleeping!Restore
    <3>. QED  BY <2>4, <3>1, SleepAccess DEF Access
  <2>5. CASE Sleeping!Disable(x)
    <3>1. Sleeping!At(x, "disable") /\ Sleeping!Done(x)
      BY <2>5 DEF Sleeping!Disable
    <3>. QED  BY <2>5, <3>1, SleepAccess DEF Access
  <2>6. CASE Sleeping!Find(x)
    <3>1. Sleeping!At(x, "find") /\ Sleeping!Done(x)
      BY <2>6 DEF Sleeping!Find
    <3>. QED  BY <2>6, <3>1, SleepAccess DEF Access
  <2>7. CASE Sleeping!Sleep(x)
    <3>1. Sleeping!At(x, "sleep") /\ Sleeping!Done(x)
      BY <2>7 DEF Sleeping!Sleep
    <3>. QED  BY <2>7, <3>1, SleepAccess DEF Access
  <2>. QED  BY <1>1, <2>1, <2>2, <2>3, <2>4, <2>5, <2>6, <2>7
<1>2. CASE Sleeping!Interrupt
  BY <1>2 DEF Sleeping!Interrupt, SleepInv, SleepType, Sections, Counts, Found, Left, Op, Of, By, Part,
     Always, Contexts, Sleepless, Allowed
<1>3. CASE Sleeping!EndOfInterrupt
  BY <1>3, ZenonT(60) DEF Sleeping!EndOfInterrupt, Sleeping!Idle, SleepInv, SleepType, Sections, Counts, Found, Left,
     Op, Of, By, Part, Always, Contexts, Sleepless, Allowed
<1>4. CASE UNCHANGED sleepVars
  BY <1>4, SMTT(60) DEF sleepVars, SleepInv, SleepType, Sections, Counts, Found, Left, Op, Of, By, Part, Always,
     Sleepless, Allowed
<1>. QED  BY <1>1, <1>2, <1>3, <1>4, SleepCall DEF Sleeping!Next, Contexts, Sleeping!Contexts

(* The device sleeps in the shallowest mode that main or the handler holds, *)
(* wherever the handler interrupts main between the accesses of a call:     *)
(* for any number of modes, calls and interrupts (sleepmgr.h).              *)
THEOREM SleepsAsAllowed == MCSpec => []Sleeping!SleepsAsAllowed
<1>1. MCInit => SleepInv
  BY SleepInit DEF MCInit
<1>2. ASSUME SleepInv PROVE Sleeping!SleepsAsAllowed
  <2>1. asleep # Sleepless \/ (~inHandler /\ sleepTodo["main"] = <<>>) =>
          Op("handler") = "none" /\ Op("main") = "none"
    BY <1>2 DEF SleepInv, Sections, Op
  <2>2. asleep # Sleepless \/ (~inHandler /\ sleepTodo["main"] = <<>>) => ~irqMask
    BY <1>2, <2>1 DEF SleepInv, Sections, Inside, Contexts
  <2>3. asleep # Sleepless => asleep = Sleeping!Min(Allowed)
    BY <1>2 DEF SleepInv, Found
  <2>. QED  BY <2>2, <2>3 DEF Sleeping!SleepsAsAllowed, Sleepless, Allowed, Sleeping!Idle
<1>3. SleepInv /\ [MCNext]_programVars => SleepInv'
  BY SleepSteps, SleepNext
<1>. QED  BY <1>1, <1>2, <1>3, PTL DEF MCSpec, MCNext

-----------------------------------------------------------------------------
(* The power manager (PowerManager) *)

LEMMA PowerSteps == [MCNext]_programVars => [Power!Next]_powerVars
<1>. USE DEF NotEx01, NotFlash, NotClocks, NotUsb, clockVars
<1>1. TimeStep \/ SampleStep \/ ArrayStep => UNCHANGED powerVars
  BY DEF TimeStep, SampleStep, ArrayStep
<1>2. MemoryStep \/ CommandStep => UNCHANGED powerVars
  BY DEF MemoryStep, CommandStep
<1>3. SettingStep \/ BusStep \/ DelayStep \/ SleepStep => UNCHANGED powerVars
  BY DEF SettingStep, BusStep, DelayStep, SleepStep
<1>4. PowerStep => Power!Next
  BY DEF PowerStep
<1>5. NotifyStep \/ WindowStep \/ WordStep => UNCHANGED powerVars
  BY DEF NotifyStep, WindowStep, WordStep
<1>6. UNCHANGED programVars => UNCHANGED powerVars
  BY DEF programVars
<1>. QED  BY <1>1, <1>2, <1>3, <1>4, <1>5, <1>6 DEF MCNext

Sources == Power!Oscs \cup Plls

Registers == {"mode", "on", "ready", "mcsel", "pll", "gc"}

RegsShaped(r)  == DOMAIN r = Registers /\ r = [f \in DOMAIN r |-> r[f]]
PllShaped(c)   == DOMAIN c = {"src", "mul", "div", "div2", "low", "en"} /\ c = [f \in DOMAIN c |-> c[f]]
PllsShaped(c)  == DOMAIN c = Plls /\ c = [p \in Plls |-> c[p]] /\ \A p \in Plls : PllShaped(c[p])
ClockShaped(c) == DOMAIN c = {"src", "diven", "div", "cen"} /\ c = [f \in DOMAIN c |-> c[f]]
Shaped(r)      == DOMAIN r = {"wait", "seen", "asked", "calls"} /\ r = [f \in DOMAIN r |-> r[f]]

PowerType == RegsShaped(pm) /\ PllsShaped(pm.pll) /\ ClockShaped(pm.gc) /\ Shaped(user)

(* What the program has seen ready is ready, and so is what drives; the     *)
(* clock a wait ends with is the one before it or what it waits for.        *)
AllReady ==
  /\ user.seen \subseteq pm.ready
  /\ pm.mcsel \in pm.ready \cup {"rcsys"}
  /\ \A p \in Plls : pm.pll[p].en => pm.pll[p].src \in pm.ready
  /\ pm.gc.cen => pm.gc.src \in pm.ready
  /\ user.wait # Power!Idle => user.wait.then \in {pm.mcsel, user.wait.for}

PowerInv == PowerType /\ AllReady

(* What a call does to the program: it waits for s, and does what follows;  *)
(* it forgets what it has seen ready.                                       *)
Calls(w, seen) ==
  user.wait = Power!Idle /\ user'.wait = w /\ user'.seen = seen /\ Shaped(user')

LEMMA CallIs ==
  ASSUME NEW r, Shaped(r), Power!Call(r) PROVE Calls(r.wait, r.seen)
<1>. DEFINE n == r.calls + 1
<1>1. user' = [r EXCEPT !.calls = n] /\ user.wait = Power!Idle
  BY DEF Power!Call
<1>. HIDE DEF n
<1>. QED  BY <1>1 DEF Calls, Shaped

LEMMA ShapedUser ==
  ASSUME PowerType PROVE Shaped(user) /\ \A s : Shaped(Power!Forget(s)) /\ Power!Forget(s).seen = user.seen \ {s}
                                             /\ Power!Forget(s).wait = user.wait
<1>1. Shaped(user)
  BY DEF PowerType, Shaped
<1>2. ASSUME NEW s PROVE Shaped(Power!Forget(s)) /\ Power!Forget(s).seen = user.seen \ {s}
                         /\ Power!Forget(s).wait = user.wait
  <2>. DEFINE n == user.seen \ {s}
  <2>1. Power!Forget(s) = [user EXCEPT !.seen = n]
    BY DEF Power!Forget
  <2>. HIDE DEF n
  <2>2. Shaped([user EXCEPT !.seen = n]) /\ [user EXCEPT !.seen = n].seen = n
        /\ [user EXCEPT !.seen = n].wait = user.wait
    BY <1>1 DEF Shaped
  <2>. QED  BY <2>1, <2>2 DEF n
<1>. QED  BY <1>1, <1>2

LEMMA ShapedAsked ==
  ASSUME NEW r, Shaped(r), NEW n
  PROVE  LET q == [r EXCEPT !.asked = n] IN Shaped(q) /\ q.seen = r.seen /\ q.wait = r.wait
  BY DEF Shaped

LEMMA CallKeeps ==
  ASSUME PowerType, user.wait = Power!Idle
  PROVE  /\ Power!Call(user) => Calls(Power!Idle, user.seen)
         /\ \A s, t : Power!Call(Power!WaitFor(s, t)) => Calls([for |-> s, then |-> t], user.seen)
         /\ \A s : Power!Call(Power!Forget(s)) => Calls(Power!Idle, user.seen \ {s})
         /\ \A p, n : Power!Call([user EXCEPT !.asked.pll[p] = n]) => Calls(Power!Idle, user.seen)
         /\ \A n : Power!Call([user EXCEPT !.asked.divider = n]) => Calls(Power!Idle, user.seen)
         /\ \A p : Power!Call([Power!Forget(p) EXCEPT !.asked.pll[p] = 0]) => Calls(Power!Idle, user.seen \ {p})
<1>1. Power!Call(user) => Calls(Power!Idle, user.seen)
  BY CallIs, ShapedUser
<1>2. ASSUME NEW s, NEW t, Power!Call(Power!WaitFor(s, t)) PROVE Calls([for |-> s, then |-> t], user.seen)
  <2>. DEFINE w == [for |-> s, then |-> t]
               r == [user EXCEPT !.wait = w]
  <2>1. Power!Call(r)
    BY <1>2 DEF Power!WaitFor
  <2>. HIDE DEF w
  <2>2. Shaped(r) /\ r.wait = w /\ r.seen = user.seen
    BY ShapedUser DEF Shaped
  <2>. HIDE DEF r
  <2>3. Calls(w, user.seen)
    BY <2>1, <2>2, CallIs
  <2>. QED  BY <2>3 DEF w
<1>3. ASSUME NEW s, Power!Call(Power!Forget(s)) PROVE Calls(Power!Idle, user.seen \ {s})
  BY <1>3, CallIs, ShapedUser
<1>4. ASSUME NEW p, NEW n, Power!Call([user EXCEPT !.asked.pll[p] = n]) PROVE Calls(Power!Idle, user.seen)
  <2>. DEFINE a == [user.asked EXCEPT !.pll[p] = n]
               r == [user EXCEPT !.asked = a]
  <2>1. Power!Call(r)
    BY <1>4
  <2>. HIDE DEF a
  <2>2. Shaped(r) /\ r.wait = Power!Idle /\ r.seen = user.seen
    BY ShapedUser, ShapedAsked
  <2>. HIDE DEF r
  <2>. QED  BY <2>1, <2>2, CallIs
<1>5. ASSUME NEW n, Power!Call([user EXCEPT !.asked.divider = n]) PROVE Calls(Power!Idle, user.seen)
  <2>. DEFINE a == [user.asked EXCEPT !.divider = n]
               r == [user EXCEPT !.asked = a]
  <2>1. Power!Call(r)
    BY <1>5
  <2>. HIDE DEF a
  <2>2. Shaped(r) /\ r.wait = Power!Idle /\ r.seen = user.seen
    BY ShapedUser, ShapedAsked
  <2>. HIDE DEF r
  <2>. QED  BY <2>1, <2>2, CallIs
<1>6. ASSUME NEW p, Power!Call([Power!Forget(p) EXCEPT !.asked.pll[p] = 0])
      PROVE  Calls(Power!Idle, user.seen \ {p})
  <2>. DEFINE q == Power!Forget(p)
               a == [q.asked EXCEPT !.pll[p] = 0]
               r == [q EXCEPT !.asked = a]
  <2>1. Power!Call(r)
    BY <1>6
  <2>2. Shaped(q) /\ q.wait = Power!Idle /\ q.seen = user.seen \ {p}
    BY ShapedUser
  <2>. HIDE DEF a, q
  <2>3. Shaped(r) /\ r.wait = Power!Idle /\ r.seen = user.seen \ {p}
    BY <2>2, ShapedAsked
  <2>. HIDE DEF r
  <2>. QED  BY <2>1, <2>3, CallIs
<1>. QED  BY <1>1, <1>2, <1>3, <1>4, <1>5, <1>6

(* What a call does to the registers that matter here.                      *)
Becomes(ready, select, plls, clk) ==
  RegsShaped(pm') /\ pm'.ready = ready /\ pm'.mcsel = select /\ pm'.pll = plls /\ pm'.gc = clk

LEMMA Writes ==
  ASSUME PowerType, NEW v
  PROVE  /\ pm' = pm => Becomes(pm.ready, pm.mcsel, pm.pll, pm.gc)
         /\ pm' = [pm EXCEPT !.mode = v] => Becomes(pm.ready, pm.mcsel, pm.pll, pm.gc)
         /\ pm' = [pm EXCEPT !.on = v] => Becomes(pm.ready, pm.mcsel, pm.pll, pm.gc)
         /\ pm' = [pm EXCEPT !.ready = v] => Becomes(v, pm.mcsel, pm.pll, pm.gc)
         /\ pm' = [pm EXCEPT !.mcsel = v] => Becomes(pm.ready, v, pm.pll, pm.gc)
         /\ pm' = [pm EXCEPT !.pll = v] => Becomes(pm.ready, pm.mcsel, v, pm.gc)
         /\ pm' = [pm EXCEPT !.gc = v] => Becomes(pm.ready, pm.mcsel, pm.pll, v)
<1>1. RegsShaped(pm)
  BY DEF PowerType
<1>. USE <1>1 DEF RegsShaped, Registers, Becomes
<1>2. pm' = pm => Becomes(pm.ready, pm.mcsel, pm.pll, pm.gc)
  OBVIOUS
<1>3. pm' = [pm EXCEPT !.mode = v] => Becomes(pm.ready, pm.mcsel, pm.pll, pm.gc)
  OBVIOUS
<1>4. pm' = [pm EXCEPT !.on = v] => Becomes(pm.ready, pm.mcsel, pm.pll, pm.gc)
  OBVIOUS
<1>5. pm' = [pm EXCEPT !.ready = v] => Becomes(v, pm.mcsel, pm.pll, pm.gc)
  OBVIOUS
<1>6. pm' = [pm EXCEPT !.mcsel = v] => Becomes(pm.ready, v, pm.pll, pm.gc)
  OBVIOUS
<1>7. pm' = [pm EXCEPT !.pll = v] => Becomes(pm.ready, pm.mcsel, v, pm.gc)
  OBVIOUS
<1>8. pm' = [pm EXCEPT !.gc = v] => Becomes(pm.ready, pm.mcsel, pm.pll, v)
  OBVIOUS
<1>. HIDE DEF RegsShaped, Registers, Becomes
<1>. QED  BY <1>2, <1>3, <1>4, <1>5, <1>6, <1>7, <1>8

LEMMA Writes2 ==
  ASSUME PowerType, NEW v, NEW w
  PROVE  /\ pm' = [pm EXCEPT !.mode = v, !.on = w] => Becomes(pm.ready, pm.mcsel, pm.pll, pm.gc)
         /\ pm' = [pm EXCEPT !.on = v, !.ready = w] => Becomes(w, pm.mcsel, pm.pll, pm.gc)
         /\ pm' = [pm EXCEPT !.pll = v, !.ready = w] => Becomes(w, pm.mcsel, v, pm.gc)
<1>1. RegsShaped(pm)
  BY DEF PowerType
<1>. USE <1>1 DEF RegsShaped, Registers, Becomes
<1>2. pm' = [pm EXCEPT !.mode = v, !.on = w] => Becomes(pm.ready, pm.mcsel, pm.pll, pm.gc)
  OBVIOUS
<1>3. pm' = [pm EXCEPT !.on = v, !.ready = w] => Becomes(w, pm.mcsel, pm.pll, pm.gc)
  OBVIOUS
<1>4. pm' = [pm EXCEPT !.pll = v, !.ready = w] => Becomes(w, pm.mcsel, v, pm.gc)
  OBVIOUS
<1>. HIDE DEF RegsShaped, Registers, Becomes
<1>. QED  BY <1>2, <1>3, <1>4

LEMMA PowerKept ==
  ASSUME PowerInv, NEW ready, NEW select, NEW plls, NEW clk, NEW w, NEW seen,
         Becomes(ready, select, plls, clk), Shaped(user'), user'.wait = w, user'.seen = seen,
         PllsShaped(plls), ClockShaped(clk), seen \subseteq ready, select \in ready \cup {"rcsys"},
         \A p \in Plls : plls[p].en => plls[p].src \in ready,
         clk.cen => clk.src \in ready,
         w # Power!Idle => w.then \in {select, w.for}
  PROVE  PowerInv'
<1>1. PowerType'
  BY DEF PowerType, Becomes
<1>2. AllReady'
  BY DEF AllReady, Becomes
<1>. QED  BY <1>1, <1>2 DEF PowerInv

(* The oscillators are started, and waited for. *)
LEMMA OscillatorStarts ==
  ASSUME PowerInv, NEW o,
         \/ Power!pm_enable_osc_crystal(o) \/ Power!pm_enable_osc_ext_clock(o)
         \/ Power!pm_enable_clk_no_wait(o) \/ Power!pm_enable_clk(o)
         \/ Power!pm_wait_for_clk_ready(o) \/ Power!osc_enable(o)
  PROVE  PowerInv'
<1>0. PowerType /\ AllReady
  BY DEF PowerInv
<1>1. Becomes(pm.ready, pm.mcsel, pm.pll, pm.gc)
  <2>1. CASE Power!pm_enable_osc_crystal(o)
    BY <1>0, <2>1, Writes DEF Power!pm_enable_osc_crystal
  <2>2. CASE Power!pm_enable_osc_ext_clock(o)
    BY <1>0, <2>2, Writes DEF Power!pm_enable_osc_ext_clock
  <2>3. CASE Power!pm_enable_clk_no_wait(o)
    BY <1>0, <2>3, Writes DEF Power!pm_enable_clk_no_wait
  <2>4. CASE Power!pm_enable_clk(o)
    BY <1>0, <2>4, Writes DEF Power!pm_enable_clk
  <2>5. CASE Power!pm_wait_for_clk_ready(o)
    BY <1>0, <2>5, Writes DEF Power!pm_wait_for_clk_ready
  <2>6. CASE Power!osc_enable(o)
    BY <1>0, <2>6, Writes, Writes2, ZenonT(60) DEF Power!osc_enable
  <2>. QED  BY <2>1, <2>2, <2>3, <2>4, <2>5, <2>6
<1>2. Calls(Power!Idle, user.seen) \/ Calls([for |-> o, then |-> pm.mcsel], user.seen)
  <2>1. Power!Call(user) \/ Power!Call(Power!WaitFor(o, pm.mcsel))
    BY DEF Power!pm_enable_osc_crystal, Power!pm_enable_osc_ext_clock,
       Power!pm_enable_clk_no_wait, Power!pm_enable_clk, Power!pm_wait_for_clk_ready, Power!osc_enable
  <2>2. user.wait = Power!Idle
    BY <2>1 DEF Power!Call
  <2>. QED  BY <1>0, <2>1, <2>2, CallKeeps
<1>. QED  BY <1>0, <1>1, <1>2, PowerKept DEF PowerType, AllReady, Calls

LEMMA OscillatorStops ==
  ASSUME PowerInv, NEW o, Power!pm_disable_clk(o) \/ Power!osc_disable(o)
  PROVE  PowerInv'
<1>. DEFINE seen == user.seen \ {o}  ready == pm.ready \ {o}
<1>0. PowerType /\ AllReady
  BY DEF PowerInv
<1>1. Becomes(ready, pm.mcsel, pm.pll, pm.gc) \/ Becomes(pm.ready, pm.mcsel, pm.pll, pm.gc)
  BY <1>0, Writes, Writes2, ZenonT(60) DEF Power!pm_disable_clk, Power!osc_disable
<1>2. ~Power!Drives(o) /\ Calls(Power!Idle, seen)
  <2>1. ~Power!Drives(o) /\ Power!Call(Power!Forget(o)) /\ user.wait = Power!Idle
    BY DEF Power!pm_disable_clk, Power!osc_disable, Power!Call
  <2>. QED  BY <1>0, <2>1, CallKeeps
<1>3. seen \subseteq pm.ready /\ seen \subseteq ready
  BY <1>0 DEF AllReady
<1>4. /\ pm.mcsel \in ready \cup {"rcsys"}
      /\ \A p \in Plls : pm.pll[p].en => pm.pll[p].src \in ready
      /\ pm.gc.cen => pm.gc.src \in ready
  BY <1>0, <1>2 DEF AllReady, Power!Drives
<1>. HIDE DEF seen, ready
<1>5. CASE Becomes(pm.ready, pm.mcsel, pm.pll, pm.gc)
  BY <1>0, <1>2, <1>3, <1>5, PowerKept DEF PowerType, AllReady, Calls
<1>6. CASE Becomes(ready, pm.mcsel, pm.pll, pm.gc)
  BY <1>0, <1>2, <1>3, <1>4, <1>6, PowerKept DEF PowerType, Calls
<1>. QED  BY <1>1, <1>5, <1>6

(* The clock of the processor. *)
LEMMA ProcessorSwitches ==
  ASSUME PowerInv, NEW s, Power!pm_switch_to_clock(s) \/ Power!pcl_switch_to_osc(s)
  PROVE  PowerInv'
<1>0. PowerType /\ AllReady
  BY DEF PowerInv
<1>1. CASE Power!pm_switch_to_clock(s)
  <2>1. Becomes(pm.ready, s, pm.pll, pm.gc)
    BY <1>0, <1>1, Writes DEF Power!pm_switch_to_clock
  <2>2. s \in user.seen \cup {"rcsys"} /\ Calls(Power!Idle, user.seen)
    <3>1. s \in user.seen \cup {"rcsys"} /\ Power!Call(user) /\ user.wait = Power!Idle
      BY <1>1 DEF Power!pm_switch_to_clock, Power!Call
    <3>. QED  BY <1>0, <3>1, CallKeeps
  <2>. QED  BY <1>0, <2>1, <2>2, PowerKept DEF PowerType, AllReady, Calls
<1>2. CASE Power!pm_switch_to_osc0
  <2>1. Becomes(pm.ready, pm.mcsel, pm.pll, pm.gc)
    BY <1>0, <1>2, Writes2, ZenonT(60) DEF Power!pm_switch_to_osc0
  <2>2. Calls([for |-> "osc0", then |-> "osc0"], user.seen)
    <3>1. Power!Call(Power!WaitFor("osc0", "osc0")) /\ user.wait = Power!Idle
      BY <1>2 DEF Power!pm_switch_to_osc0, Power!Call
    <3>. QED  BY <1>0, <3>1, CallKeeps
  <2>. QED  BY <1>0, <2>1, <2>2, PowerKept DEF PowerType, AllReady, Calls
<1>3. CASE Power!Call(user) /\ UNCHANGED pm
  <2>1. Becomes(pm.ready, pm.mcsel, pm.pll, pm.gc)
    BY <1>0, <1>3, Writes
  <2>2. Calls(Power!Idle, user.seen)
    BY <1>0, <1>3, CallKeeps, Zenon DEF Power!Call
  <2>. QED  BY <1>0, <2>1, <2>2, PowerKept DEF PowerType, AllReady, Calls
<1>. QED  BY <1>1, <1>2, <1>3 DEF Power!pcl_switch_to_osc

(* One PLL is written. *)
LEMMA OnePll ==
  ASSUME NEW q, PllsShaped(q), NEW p \in Plls, NEW c, PllShaped(c)
  PROVE  LET r == [q EXCEPT ![p] = c] IN
         PllsShaped(r) /\ r[p] = c /\ \A x \in Plls \ {p} : r[x] = q[x]
  BY DEF PllsShaped

PllSet(p, c) == PllShaped(c) /\ Becomes(pm.ready, pm.mcsel, [pm.pll EXCEPT ![p] = c], pm.gc)

LEMMA PllKept ==
  ASSUME PowerInv, NEW p \in Plls, NEW c, PllSet(p, c), c.en => c.src \in pm.ready, Calls(Power!Idle, user.seen)
  PROVE  PowerInv'
<1>. DEFINE plls == [pm.pll EXCEPT ![p] = c]
<1>0. PowerType /\ AllReady
  BY DEF PowerInv
<1>1. PllsShaped(plls) /\ plls[p] = c /\ \A x \in Plls \ {p} : plls[x] = pm.pll[x]
  BY <1>0, OnePll DEF PowerType, PllSet
<1>2. Becomes(pm.ready, pm.mcsel, plls, pm.gc)
  BY DEF PllSet
<1>. HIDE DEF plls
<1>3. \A x \in Plls : plls[x].en => plls[x].src \in pm.ready
  BY <1>0, <1>1 DEF AllReady
<1>. QED  BY <1>0, <1>1, <1>2, <1>3, PowerKept DEF PowerType, AllReady, Calls

LEMMA PllEnabled ==
  ASSUME NEW c, PllShaped(c), NEW h
  PROVE  LET e == [c EXCEPT !.en = h] IN PllShaped(e) /\ e.en = h /\ e.src = c.src
  BY DEF PllShaped

LEMMA PllOptions ==
  ASSUME NEW c, PllShaped(c), NEW l, NEW h
  PROVE  LET e == [c EXCEPT !.low = l, !.div2 = h] IN PllShaped(e) /\ e.en = c.en
  BY DEF PllShaped

LEMMA PllSource ==
  ASSUME NEW c, PllShaped(c), NEW s, NEW m, NEW d
  PROVE  LET e == [c EXCEPT !.src = s, !.mul = m, !.div = d] IN PllShaped(e) /\ e.en = c.en
  BY DEF PllShaped

LEMMA PllConfig ==
  ASSUME NEW c, PllShaped(c), NEW s, NEW m, NEW d, NEW h, NEW l
  PROVE  LET e == [c EXCEPT !.src = s, !.mul = m, !.div = d, !.div2 = h, !.low = l]
         IN  PllShaped(e) /\ e.src = s
  BY DEF PllShaped

LEMMA NewPll == PllShaped(Power!NoPll) /\ ~Power!NoPll.en
  BY DEF PllShaped, Power!NoPll

LEMMA PllWritten ==
  ASSUME PowerType, NEW p \in Plls, NEW c, PllShaped(c),
         pm' = [pm EXCEPT !.pll = [pm.pll EXCEPT ![p] = c]]
  PROVE  PllSet(p, c)
<1>. DEFINE plls == [pm.pll EXCEPT ![p] = c]
<1>1. pm' = [pm EXCEPT !.pll = plls]
  OBVIOUS
<1>. HIDE DEF plls
<1>2. Becomes(pm.ready, pm.mcsel, plls, pm.gc)
  BY <1>1, Writes
<1>. QED  BY <1>2 DEF PllSet, plls

LEMMA PllIsSet ==
  ASSUME PowerInv, NEW p \in Plls,
         \/ \E s \in Power!Main, f \in Multiples : Power!pm_pll_setup(p, s, f) \/ Power!pll_enable(p, s, f)
         \/ \E low, div2 \in BOOLEAN : Power!pm_pll_set_option(p, low, div2)
         \/ Power!pm_pll_enable(p)
  PROVE  PowerInv'
<1>0. PowerType /\ AllReady /\ PllShaped(pm.pll[p])
  BY DEF PowerInv, PowerType, PllsShaped
<1>1. ASSUME NEW s, NEW f, Power!pm_pll_setup(p, s, f) PROVE PowerInv'
  <2>. DEFINE m == f[1]  d == f[2]  z == Power!NoPll
              c == [z EXCEPT !.src = s, !.mul = m, !.div = d]
  <2>1. Calls(Power!Idle, user.seen)
    <3>1. Power!Call([user EXCEPT !.asked.pll[p] = 0]) /\ user.wait = Power!Idle
      BY <1>1, Zenon DEF Power!pm_pll_setup, Power!Call
    <3>. QED  BY <1>0, <3>1, CallKeeps
  <2>2. pm' = [pm EXCEPT !.pll = [pm.pll EXCEPT ![p] = c]]
    BY <1>1, Zenon DEF Power!pm_pll_setup
  <2>0. PllShaped(z) /\ ~z.en
    BY NewPll
  <2>. HIDE DEF m, d, z
  <2>3. PllShaped(c)
    BY <2>0, PllSource, ZenonT(60)
  <2>4. ~c.en
    BY <2>0 DEF PllShaped
  <2>. HIDE DEF c
  <2>. QED  BY <1>0, <2>1, <2>2, <2>3, <2>4, PllWritten, PllKept
<1>2. ASSUME NEW s, NEW f, Power!pll_enable(p, s, f) PROVE PowerInv'
  <2>. DEFINE i == Power!pll_config_init(s, f)
              c == [i EXCEPT !.en = TRUE]
  <2>1. PllShaped(i) /\ i.src = s
    <3>. DEFINE slow == Power!Vco(s, f[1], f[2]) < 2 * PLL_MIN_HZ /\ f[1] <= 8
                mul  == IF slow THEN 2 * f[1] ELSE f[1]
                vco  == (IF slow THEN 2 ELSE 1) * Power!Vco(s, f[1], f[2])
                low  == vco < Power!Threshold
                d    == f[2]
                z    == Power!NoPll
    <3>1. i = [z EXCEPT !.src = s, !.mul = mul, !.div = d, !.div2 = slow, !.low = low]
      BY DEF Power!pll_config_init
    <3>2. PllShaped(z)
      BY NewPll
    <3>. HIDE DEF slow, mul, vco, low, d, i, z
    <3>. DEFINE e == [z EXCEPT !.src = s, !.mul = mul, !.div = d, !.div2 = slow, !.low = low]
    <3>3. PllShaped(e)
      BY <3>2, PllConfig, ZenonT(60)
    <3>4. e.src = s
      BY <3>2 DEF PllShaped
    <3>. HIDE DEF e
    <3>. QED  BY <3>1, <3>3, <3>4 DEF e
  <2>2. pm' = [pm EXCEPT !.pll = [pm.pll EXCEPT ![p] = c]] /\ s \in pm.ready
    BY <1>0, <1>2 DEF Power!pll_enable, AllReady
  <2>3. Calls(Power!Idle, user.seen)
    <3>1. \E n : Power!Call([user EXCEPT !.asked.pll[p] = n]) /\ user.wait = Power!Idle
      BY <1>2, Zenon DEF Power!pll_enable, Power!Call
    <3>. QED  BY <1>0, <3>1, CallKeeps
  <2>. HIDE DEF i
  <2>4. PllShaped(c) /\ c.src = s
    BY <2>1, PllEnabled
  <2>. HIDE DEF c
  <2>. QED  BY <1>0, <2>2, <2>3, <2>4, PllWritten, PllKept
<1>3. ASSUME NEW low, NEW div2, Power!pm_pll_set_option(p, low, div2) PROVE PowerInv'
  <2>. DEFINE c == [pm.pll[p] EXCEPT !.low = low, !.div2 = div2]
  <2>1. ~pm.pll[p].en /\ Calls(Power!Idle, user.seen)
    <3>1. ~pm.pll[p].en /\ Power!Call([user EXCEPT !.asked.pll[p] = 0]) /\ user.wait = Power!Idle
      BY <1>3, Zenon DEF Power!pm_pll_set_option, Power!Call
    <3>. QED  BY <1>0, <3>1, CallKeeps
  <2>2. PllShaped(c) /\ ~c.en
    <3>1. PllShaped(c)
      BY <1>0, PllOptions, ZenonT(60)
    <3>2. ~c.en
      BY <1>0, <2>1 DEF PllShaped
    <3>. QED  BY <3>1, <3>2
  <2>3. pm' = [pm EXCEPT !.pll = [pm.pll EXCEPT ![p] = c]]
    <3>1. pm' = [pm EXCEPT !.pll[p].low = low, !.pll[p].div2 = div2]
      BY <1>3, Zenon DEF Power!pm_pll_set_option
    <3>. DEFINE c1 == [pm.pll[p] EXCEPT !.low = low]
                plls1 == [pm.pll EXCEPT ![p] = c1]
                q == [pm EXCEPT !.pll = plls1]
    <3>2. pm' = [q EXCEPT !.pll = [q.pll EXCEPT ![p] = [q.pll[p] EXCEPT !.div2 = div2]]]
      BY <3>1
    <3>3. q.pll = plls1
      <4>. HIDE DEF plls1
      <4>. QED  BY <1>0 DEF PowerType, RegsShaped, Registers
    <3>4. plls1[p] = c1
      <4>. HIDE DEF c1
      <4>. QED  BY <1>0 DEF PowerType, PllsShaped
    <3>5. pm' = [q EXCEPT !.pll = [plls1 EXCEPT ![p] = c]]
      <4>1. c = [c1 EXCEPT !.div2 = div2]
        OBVIOUS
      <4>. HIDE DEF c, c1, q, plls1
      <4>. QED  BY <3>2, <3>3, <3>4, <4>1
    <3>6. [plls1 EXCEPT ![p] = c] = [pm.pll EXCEPT ![p] = c]
      <4>. HIDE DEF c, c1
      <4>. QED  BY <1>0 DEF PowerType, PllsShaped
    <3>. DEFINE plls == [pm.pll EXCEPT ![p] = c]
    <3>7. [[pm EXCEPT !.pll = plls1] EXCEPT !.pll = plls] = [pm EXCEPT !.pll = plls]
      <4>. HIDE DEF plls, plls1
      <4>. QED  BY <1>0 DEF PowerType, RegsShaped, Registers
    <3>. HIDE DEF plls1, c
    <3>. QED  BY <3>5, <3>6, <3>7
  <2>. HIDE DEF c
  <2>. QED  BY <1>0, <2>1, <2>2, <2>3, PllWritten, PllKept
<1>4. CASE Power!pm_pll_enable(p)
  <2>. DEFINE c == [pm.pll[p] EXCEPT !.en = TRUE]
  <2>1. pm.pll[p].src \in pm.ready /\ Calls(Power!Idle, user.seen)
    <3>1. pm.pll[p].src \in user.seen /\ Power!Call(user) /\ user.wait = Power!Idle
      BY <1>4 DEF Power!pm_pll_enable, Power!Call
    <3>. QED  BY <1>0, <3>1, CallKeeps DEF AllReady
  <2>2. PllShaped(c) /\ c.src = pm.pll[p].src
    BY <1>0, PllEnabled
  <2>3. pm' = [pm EXCEPT !.pll = [pm.pll EXCEPT ![p] = c]]
    BY <1>4 DEF Power!pm_pll_enable
  <2>. HIDE DEF c
  <2>. QED  BY <1>0, <2>1, <2>2, <2>3, PllWritten, PllKept
<1>. QED  BY <1>1, <1>2, <1>3, <1>4

LEMMA PllStops ==
  ASSUME PowerInv, NEW p \in Plls, Power!pm_pll_disable(p) \/ Power!pll_disable(p)
  PROVE  PowerInv'
<1>. DEFINE seen == user.seen \ {p}  ready == pm.ready \ {p}
<1>0. PowerType /\ AllReady /\ PllShaped(pm.pll[p]) /\ PllsShaped(pm.pll)
  BY DEF PowerInv, PowerType, PllsShaped
<1>1. ~Power!Drives(p) /\ Calls(Power!Idle, seen)
  <2>1. /\ ~Power!Drives(p) /\ user.wait = Power!Idle
        /\ \/ Power!Call(Power!Forget(p))
           \/ Power!Call([Power!Forget(p) EXCEPT !.asked.pll[p] = 0])
    BY DEF Power!pm_pll_disable, Power!pll_disable, Power!Call
  <2>. QED  BY <1>0, <2>1, CallKeeps
<1>2. PICK c : PllShaped(c) /\ ~c.en /\ pm' = [pm EXCEPT !.pll = [pm.pll EXCEPT ![p] = c], !.ready = ready]
  <2>1. CASE Power!pm_pll_disable(p)
    <3>. DEFINE c == [pm.pll[p] EXCEPT !.en = FALSE]
    <3>1. PllShaped(c) /\ ~c.en
      BY <1>0, PllEnabled
    <3>2. pm' = [pm EXCEPT !.pll = [pm.pll EXCEPT ![p] = c], !.ready = ready]
      <4>1. pm' = [pm EXCEPT !.pll[p].en = FALSE, !.ready = pm.ready \ {p}]
        BY <1>0, <2>1 DEF Power!pm_pll_disable, PowerType, RegsShaped, Registers
      <4>. QED  BY <4>1
    <3>. QED  BY <3>1, <3>2, ZenonT(60)
  <2>2. CASE Power!pll_disable(p)
    <3>1. pm' = [pm EXCEPT !.pll = [pm.pll EXCEPT ![p] = Power!NoPll], !.ready = ready]
      BY <1>0, <2>2 DEF Power!pll_disable, PowerType, RegsShaped, Registers
    <3>. QED  BY <3>1, NewPll, ZenonT(60)
  <2>. QED  BY <2>1, <2>2, ZenonT(60)
<1>. DEFINE plls == [pm.pll EXCEPT ![p] = c]
<1>3. seen \subseteq ready
  BY <1>0 DEF AllReady
<1>4. pm.mcsel \in ready \cup {"rcsys"} /\ (pm.gc.cen => pm.gc.src \in ready)
  BY <1>0, <1>1 DEF AllReady, Power!Drives
<1>5. PllsShaped(plls) /\ plls[p] = c /\ \A x \in Plls \ {p} : plls[x] = pm.pll[x]
  BY <1>0, <1>2, OnePll
<1>6. pm' = [pm EXCEPT !.pll = plls, !.ready = ready]
  BY <1>2
<1>. HIDE DEF plls
<1>7. \A x \in Plls : plls[x].en => plls[x].src \in ready
  BY <1>0, <1>1, <1>2, <1>5 DEF AllReady, Power!Drives
<1>. HIDE DEF seen, ready
<1>8. Becomes(ready, pm.mcsel, plls, pm.gc)
  BY <1>0, <1>6, Writes2, ZenonT(60)
<1>. QED  BY <1>0, <1>1, <1>3, <1>4, <1>5, <1>7, <1>8, PowerKept DEF PowerType, Calls

LEMMA PllWait == ASSUME PowerInv, NEW p, Power!pm_wait_for_pll_locked(p) PROVE PowerInv'
<1>0. PowerType /\ AllReady
  BY DEF PowerInv
<1>1. Becomes(pm.ready, pm.mcsel, pm.pll, pm.gc)
  BY <1>0, Writes DEF Power!pm_wait_for_pll_locked
<1>2. Calls([for |-> p, then |-> pm.mcsel], user.seen)
  <2>1. Power!Call(Power!WaitFor(p, pm.mcsel)) /\ user.wait = Power!Idle
    BY DEF Power!pm_wait_for_pll_locked, Power!Call
  <2>. QED  BY <1>0, <2>1, CallKeeps
<1>. QED  BY <1>0, <1>1, <1>2, PowerKept DEF PowerType, AllReady, Calls

(* The generic clock. *)
LEMMA ClockKept ==
  ASSUME PowerInv, NEW c, ClockShaped(c), pm' = [pm EXCEPT !.gc = c], c.cen => c.src \in pm.ready,
         Calls(Power!Idle, user.seen)
  PROVE  PowerInv'
<1>0. PowerType /\ AllReady
  BY DEF PowerInv
<1>1. Becomes(pm.ready, pm.mcsel, pm.pll, c)
  BY <1>0, Writes
<1>. QED  BY <1>0, <1>1, PowerKept DEF PowerType, AllReady, Calls

LEMMA ClockFields ==
  ASSUME NEW s, NEW d, NEW n, NEW e
  PROVE  LET c == [src |-> s, diven |-> d, div |-> n, cen |-> e] IN ClockShaped(c) /\ c.src = s /\ (c.cen <=> e)
  BY DEF ClockShaped

LEMMA ClockEnabled ==
  ASSUME NEW c, ClockShaped(c), NEW e
  PROVE  LET k == [c EXCEPT !.cen = e] IN ClockShaped(k) /\ k.src = c.src
  BY DEF ClockShaped

LEMMA ClockIsSet ==
  ASSUME PowerInv,
         \/ Power!pm_gc_enable \/ Power!pm_configure_usb_clock \/ Power!pm_gc_disable \/ Power!genclk_disable
         \/ \E s, d, n : Power!pm_gc_setup(s, d, n)
         \/ \E s, d : Power!genclk_enable(s, d)
  PROVE  PowerInv'
<1>0. PowerType /\ AllReady /\ ClockShaped(pm.gc)
  BY DEF PowerInv, PowerType
<1>1. Calls(Power!Idle, user.seen)
  <2>1. user.wait = Power!Idle /\ (Power!Call(user) \/ \E n : Power!Call([user EXCEPT !.asked.divider = n]))
    BY Zenon DEF Power!pm_gc_enable, Power!pm_configure_usb_clock, Power!pm_gc_disable, Power!genclk_disable,
       Power!pm_gc_setup, Power!genclk_enable, Power!Call
  <2>. QED  BY <1>0, <2>1, CallKeeps, ZenonT(60)
<1>2. CASE Power!pm_gc_enable
  <2>. DEFINE c == [pm.gc EXCEPT !.cen = TRUE]
  <2>1. pm' = [pm EXCEPT !.gc = c] /\ pm.gc.src \in pm.ready
    BY <1>0, <1>2 DEF Power!pm_gc_enable, AllReady
  <2>2. ClockShaped(c) /\ c.src = pm.gc.src
    BY <1>0, ClockEnabled
  <2>. HIDE DEF c
  <2>. QED  BY <1>1, <2>1, <2>2, ClockKept
<1>3. CASE Power!pm_gc_disable
  <2>. DEFINE c == [pm.gc EXCEPT !.cen = FALSE]
  <2>1. pm' = [pm EXCEPT !.gc = c]
    BY <1>3 DEF Power!pm_gc_disable
  <2>2. ClockShaped(c)
    BY <1>0, ClockEnabled
  <2>3. ~c.cen
    BY <1>0 DEF ClockShaped
  <2>. HIDE DEF c
  <2>. QED  BY <1>1, <2>1, <2>2, <2>3, ClockKept
<1>4. CASE Power!pm_configure_usb_clock
  <2>. DEFINE c == [Power!NoClk EXCEPT !.src = "osc0", !.cen = TRUE]
  <2>1. pm' = [pm EXCEPT !.gc = c] /\ "osc0" \in pm.ready
    BY <1>0, <1>4 DEF Power!pm_configure_usb_clock, AllReady
  <2>2. ClockShaped(c) /\ c.src = "osc0"
    BY DEF ClockShaped, Power!NoClk
  <2>. HIDE DEF c
  <2>. QED  BY <1>1, <2>1, <2>2, ClockKept
<1>5. CASE Power!genclk_disable
  <2>1. pm' = [pm EXCEPT !.gc = Power!NoClk]
    BY <1>5 DEF Power!genclk_disable
  <2>2. ClockShaped(Power!NoClk) /\ ~Power!NoClk.cen
    BY DEF ClockShaped, Power!NoClk
  <2>. QED  BY <1>1, <2>1, <2>2, ClockKept
<1>6. ASSUME NEW s, NEW d, NEW n, Power!pm_gc_setup(s, d, n) PROVE PowerInv'
  <2>. DEFINE c == [src |-> s, diven |-> d, div |-> n, cen |-> FALSE]
  <2>1. pm' = [pm EXCEPT !.gc = c]
    BY <1>6 DEF Power!pm_gc_setup
  <2>2. ClockShaped(c) /\ ~c.cen
    BY DEF ClockShaped
  <2>. HIDE DEF c
  <2>. QED  BY <1>1, <2>1, <2>2, ClockKept
<1>7. ASSUME NEW s, NEW d, Power!genclk_enable(s, d) PROVE PowerInv'
  <2>. DEFINE i == Power!genclk_config_set_divider(Power!NoClk, d)
              c == [i EXCEPT !.src = s, !.cen = TRUE]
  <2>1. pm' = [pm EXCEPT !.gc = c] /\ s \in pm.ready
    BY <1>0, <1>7, Zenon DEF Power!genclk_enable, AllReady
  <2>2. ClockShaped(i)
    <3>. DEFINE diven == d > 1  n == IF d > 1 THEN Power!DIV(d) ELSE 0  z == Power!NoClk
    <3>1. i = [z EXCEPT !.diven = diven, !.div = n]
      BY DEF Power!genclk_config_set_divider
    <3>2. ClockShaped(z)
      BY DEF ClockShaped, Power!NoClk
    <3>. HIDE DEF diven, n, z, i
    <3>. QED  BY <3>1, <3>2 DEF ClockShaped
  <2>. HIDE DEF i
  <2>3. ClockShaped(c)
    BY <2>2 DEF ClockShaped
  <2>4. c.src = s
    BY <2>2 DEF ClockShaped
  <2>. HIDE DEF c
  <2>. QED  BY <1>1, <2>1, <2>3, <2>4, ClockKept
<1>. QED  BY <1>2, <1>3, <1>4, <1>5, <1>6, <1>7

(* The hardware, and the end of a wait. *)
LEMMA HardwareKeeps ==
  ASSUME PowerInv, Power!OscReady \/ Power!PllLocks
  PROVE  PowerInv'
<1>0. PowerType /\ AllReady
  BY DEF PowerInv
<1>1. PICK x : pm' = [pm EXCEPT !.ready = pm.ready \cup {x}] /\ UNCHANGED user
  BY DEF Power!OscReady, Power!PllLocks
<1>. DEFINE ready == pm.ready \cup {x}
<1>2. pm.ready \subseteq ready /\ pm' = [pm EXCEPT !.ready = ready]
  BY <1>1
<1>. HIDE DEF ready
<1>3. Becomes(ready, pm.mcsel, pm.pll, pm.gc)
  BY <1>0, <1>2, Writes
<1>4. /\ user.seen \subseteq ready /\ pm.mcsel \in ready \cup {"rcsys"}
      /\ \A p \in Plls : pm.pll[p].en => pm.pll[p].src \in ready
      /\ pm.gc.cen => pm.gc.src \in ready
  BY <1>0, <1>2 DEF AllReady
<1>. QED  BY <1>0, <1>1, <1>3, <1>4, PowerKept DEF PowerType, AllReady

LEMMA WaitKeeps == ASSUME PowerInv, Power!WaitEnds PROVE PowerInv'
<1>. DEFINE s == user.wait.for  seen == user.seen \cup {s}  select == user.wait.then
<1>0. PowerType /\ AllReady /\ Shaped(user)
  BY DEF PowerInv, PowerType
<1>1. /\ user.wait # Power!Idle /\ s \in pm.ready
      /\ user' = [user EXCEPT !.wait = Power!Idle, !.seen = seen]
      /\ pm' = [pm EXCEPT !.mcsel = select]
  <2>1. user' = [user EXCEPT !.wait = Power!Idle, !.seen = user.seen \cup {s}]
    BY <1>0 DEF Power!WaitEnds, Shaped
  <2>. QED  BY <2>1 DEF Power!WaitEnds, Power!osc_is_ready
<1>2. select \in pm.ready \cup {"rcsys"} /\ seen \subseteq pm.ready
  BY <1>0, <1>1 DEF AllReady
<1>. HIDE DEF s, seen, select
<1>3. Becomes(pm.ready, select, pm.pll, pm.gc)
  BY <1>0, <1>1, Writes
<1>4. Shaped(user')
  BY <1>0, <1>1 DEF Shaped
<1>5. user'.wait = Power!Idle /\ user'.seen = seen
  BY <1>0, <1>1 DEF Shaped
<1>. QED  BY <1>0, <1>2, <1>3, <1>4, <1>5, PowerKept DEF PowerType, AllReady

LEMMA PowerInit == Power!Init => PowerInv
<1>. SUFFICES ASSUME Power!Init PROVE PowerInv
  OBVIOUS
<1>. USE DEF Power!Init
<1>1. RegsShaped(pm) /\ pm.ready = {} /\ pm.mcsel = "rcsys" /\ pm.gc = Power!NoClk
  BY DEF RegsShaped, Registers
<1>2. pm.pll = [p \in Plls |-> Power!NoPll]
  OBVIOUS
<1>3. PllsShaped(pm.pll) /\ \A p \in Plls : ~pm.pll[p].en
  BY <1>2, NewPll DEF PllsShaped
<1>4. ClockShaped(Power!NoClk) /\ ~Power!NoClk.cen
  BY DEF ClockShaped, Power!NoClk
<1>5. Shaped(user) /\ user.seen = {} /\ user.wait = Power!Idle
  BY DEF Shaped
<1>. QED  BY <1>1, <1>3, <1>4, <1>5 DEF PowerInv, PowerType, AllReady

LEMMA PowerNext == PowerInv /\ [Power!Next]_powerVars => PowerInv'
<1>. SUFFICES ASSUME PowerInv, [Power!Next]_powerVars PROVE PowerInv'
  OBVIOUS
<1>1. CASE Power!Oscillators
  BY <1>1, OscillatorStarts, OscillatorStops DEF Power!Oscillators
<1>2. CASE Power!Processor
  BY <1>2, ProcessorSwitches DEF Power!Processor
<1>3. CASE Power!PllCalls
  BY <1>3, PllIsSet, PllStops, PllWait DEF Power!PllCalls
<1>4. CASE Power!ClockCalls
  BY <1>4, ClockIsSet DEF Power!ClockCalls
<1>5. CASE UNCHANGED powerVars
  BY <1>5 DEF powerVars, PowerInv, PowerType, AllReady
<1>. QED  BY <1>1, <1>2, <1>3, <1>4, <1>5, HardwareKeeps, WaitKeeps DEF Power!Next

(* Nothing is driven by an oscillator that does not swing or a PLL that is  *)
(* not locked, whatever the functions of both drivers are called for, in    *)
(* any order that waits (pm.c, osc.h, pll.h, genclk.h): for any number of    *)
(* PLLs, rates and calls.                                                   *)
THEOREM SourcesAreReady == MCSpec => []Power!SourcesAreReady
<1>1. MCInit => PowerInv
  BY PowerInit DEF MCInit
<1>2. ASSUME PowerInv PROVE Power!SourcesAreReady
  <2>1. \A s \in Sources : s # "rcsys"
    BY RoutinesAssumption DEF Sources, Power!Oscs
  <2>. QED  BY <1>2, <2>1 DEF PowerInv, AllReady, Power!SourcesAreReady, Power!Drives, Sources
<1>3. PowerInv /\ [MCNext]_programVars => PowerInv'
  BY PowerSteps, PowerNext
<1>. QED  BY <1>1, <1>2, <1>3, PTL DEF MCSpec, MCNext

-----------------------------------------------------------------------------
(* The array (GrowingArray) *)

LEMMA ArraySteps == [MCNext]_programVars => [Array!Next]_arrayVars
<1>. USE DEF NotEx01, NotFlash, NotClocks, NotUsb, ex01Vars
<1>1. TimeStep \/ SampleStep => UNCHANGED arrayVars
  BY DEF TimeStep, SampleStep
<1>2. ArrayStep => Array!Next
  BY DEF ArrayStep
<1>3. MemoryStep \/ CommandStep => UNCHANGED arrayVars
  BY DEF MemoryStep, CommandStep
<1>4. SettingStep \/ BusStep \/ PowerStep \/ DelayStep \/ SleepStep => UNCHANGED arrayVars
  BY DEF SettingStep, BusStep, PowerStep, DelayStep, SleepStep
<1>5. NotifyStep \/ WindowStep \/ WordStep => UNCHANGED arrayVars
  BY DEF NotifyStep, WindowStep, WordStep
<1>6. UNCHANGED programVars => UNCHANGED arrayVars
  BY DEF programVars
<1>. QED  BY <1>1, <1>2, <1>3, <1>4, <1>5, <1>6 DEF MCNext

Content == Elements \cup {"junk"}

ArrayType ==
  /\ task \in {"E", "F", "G"} /\ crashed \in BOOLEAN
  /\ front \in Nat /\ back \in Nat /\ capacity \in Nat /\ front <= back
  /\ b \in [kind : {"none", "forward", "reverse", "print"}, front : Nat, back : Nat, seen : Seq(Content)]

(* Before a crash the block has room for the capacity and for the elements, *)
(* which are the cells between the cursors.                                 *)
Room ==
  /\ block \in Seq(Content) /\ back <= Len(block) /\ capacity <= Len(block)
  /\ capacity >= Capacity /\ (task # "G" => capacity = Capacity)
  /\ task = "E" => Len(block) = Capacity

Stored ==
  /\ elements \in Seq(Content) /\ Len(elements) = back - front
  /\ \A i \in 1..Len(elements) : elements[i] = block[front + i]

(* An iteration has seen the elements on one side of the cursor it moves.    *)
Seen ==
  b.kind # "none" =>
    /\ front <= b.front /\ b.front <= b.back /\ b.back <= back
    /\ b.kind = "reverse" => /\ b.front = front /\ Len(b.seen) = back - b.back
                             /\ \A i \in 1..Len(b.seen) : b.seen[i] = block[b.back + i]
    /\ b.kind # "reverse" => /\ b.back = back /\ Len(b.seen) = b.front - front
                             /\ \A i \in 1..Len(b.seen) : b.seen[i] = block[front + i]

Excused == front > 0 \/ block = <<>> \/ (task = "E" /\ back > Capacity)

ArrayInv == ArrayType /\ (~crashed => Room /\ Stored /\ Seen) /\ (crashed => Excused /\ b.kind = "none")

(* What realloc() returns. *)
LEMMA Reserved ==
  ASSUME NEW n \in Nat, block \in Seq(Content)
  PROVE  LET g == Array!array_reserve(n)
         IN  g \in Seq(Content) /\ Len(g) = n /\ \A i \in 1..n : i <= Len(block) => g[i] = block[i]
<1>. DEFINE g == Array!array_reserve(n)
<1>1. g = [i \in 1..n |-> IF i <= Len(block) THEN block[i] ELSE "junk"]
  BY DEF Array!array_reserve, Array!Junk
<1>2. Len(block) \in Nat /\ "junk" \in Content
  BY LenProperties DEF Content
<1>3. \A i \in 1..n : i <= Len(block) => block[i] \in Content
  BY <1>2, ElementOfSeq
<1>4. g \in [1..n -> Content]
  BY <1>1, <1>2, <1>3
<1>. HIDE DEF g
<1>5. g \in Seq(Content) /\ Len(g) = n
  BY <1>4
<1>6. \A i \in 1..n : i <= Len(block) => g[i] = block[i]
  BY <1>1
<1>. QED  BY <1>5, <1>6 DEF g

LEMMA InsertKeeps ==
  ASSUME ArrayInv, NEW e \in Elements, Array!array_insertBack(e)
  PROVE  ArrayInv'
<1>1. /\ ~crashed /\ b.kind = "none" /\ front' = front /\ back' = back + 1 /\ b' = b /\ task' = task
      /\ elements' = Append(elements, e) /\ capacity' = Array!NewCapacity
  BY DEF Array!array_insertBack, Array!Calling
<1>2. ArrayType /\ Room /\ Stored
  BY <1>1 DEF ArrayInv
<1>3. /\ front \in Nat /\ back \in Nat /\ capacity \in Nat /\ front <= back /\ Capacity \in Nat /\ Len(block) \in Nat
      /\ e \in Content
  BY <1>2, LenProperties, RoutinesAssumption DEF ArrayType, Room, Content
<1>. DEFINE n == back - front + 1
<1>4. /\ Array!newLength = n /\ (Array!MustGrow <=> n > capacity)
      /\ (Array!Grows <=> task # "E" /\ n > capacity)
      /\ Array!NewCapacity = (IF task = "G" /\ n > capacity THEN n ELSE capacity)
  BY DEF Array!newLength, Array!array_length, Array!MustGrow, Array!Grows, Array!NewCapacity
<1>5. PICK grown :
        /\ \/ ~Array!Grows /\ grown = block
           \/ Array!Grows /\ grown = Array!array_reserve(n)
           \/ Array!Grows /\ grown = <<>>
        /\ block' = IF back < Len(grown) THEN [grown EXCEPT ![back + 1] = e] ELSE grown
        /\ crashed' = (back >= Len(grown))
  BY <1>4 DEF Array!array_insertBack, Array!NULL
<1>a. crashed' \in BOOLEAN /\ (crashed' <=> back >= Len(grown))
  <2>. DEFINE full == back >= Len(grown)
  <2>1. full \in BOOLEAN
    OBVIOUS
  <2>2. crashed' = full
    BY <1>5, Zenon
  <2>. HIDE DEF full
  <2>3. crashed' \in BOOLEAN /\ (crashed' <=> full)
    BY <2>1, <2>2, Zenon
  <2>. QED  BY <2>3, Zenon DEF full
<1>c. /\ (~Array!Grows /\ grown = block) \/ (Array!Grows /\ grown = Array!array_reserve(n)) \/ (Array!Grows /\ grown = <<>>)
      /\ block' = IF back < Len(grown) THEN [grown EXCEPT ![back + 1] = e] ELSE grown
  BY <1>5, Zenon
<1>6. n \in Nat /\ n >= 1
  BY <1>3
<1>. HIDE DEF n
<1>7. grown \in Seq(Content) /\ Len(grown) \in Nat
  <2>1. CASE ~Array!Grows /\ grown = block
    BY <1>2, <1>3, <2>1 DEF Room
  <2>2. CASE Array!Grows /\ grown = Array!array_reserve(n)
    BY <1>2, <1>6, <2>2, Reserved DEF Room
  <2>3. CASE grown = <<>>
    BY <2>3, EmptySeq
  <2>. QED  BY <1>c, <2>1, <2>2, <2>3
<1>8. ArrayType'
  <2>1. capacity' \in Nat /\ back' \in Nat /\ front' <= back' /\ crashed' \in BOOLEAN
    BY <1>1, <1>3, <1>4, <1>a, <1>6, <1>7
  <2>. QED  BY <1>1, <1>2, <2>1 DEF ArrayType
<1>9. CASE back >= Len(grown)
  <2>1. crashed' /\ block' = grown
    BY <1>3, <1>a, <1>c, <1>7, <1>9
  <2>2. CASE ~Array!Grows /\ grown = block
    <3>1. back = Len(block)
      BY <1>2, <1>3, <1>9, <2>2 DEF Room
    <3>2. task = "E" => back' > Capacity /\ task' = "E"
      BY <1>1, <1>2, <1>3, <3>1 DEF Room
    <3>3. ASSUME task # "E" PROVE front' > 0
      <4>1. n <= capacity /\ capacity <= back
        BY <1>2, <1>3, <1>4, <1>6, <2>2, <3>1, <3>3 DEF Room
      <4>2. front > 0
        BY <1>3, <4>1 DEF n
      <4>. QED  BY <1>1, <4>2
    <3>4. Excused'
      BY <3>2, <3>3 DEF Excused
    <3>. QED  BY <1>1, <1>8, <2>1, <3>4 DEF ArrayInv
  <2>3. CASE Array!Grows /\ grown = Array!array_reserve(n)
    <3>1. Len(grown) = n
      BY <1>2, <1>6, <2>3, Reserved DEF Room
    <3>2. front > 0
      BY <1>3, <1>9, <3>1 DEF n
    <3>. QED  BY <1>1, <1>8, <2>1, <3>2 DEF ArrayInv, Excused
  <2>4. CASE grown = <<>>
    BY <1>1, <1>8, <2>1, <2>4 DEF ArrayInv, Excused
  <2>. QED  BY <1>c, <2>2, <2>3, <2>4
<1>10. CASE back < Len(grown)
  <2>1. ~crashed' /\ block' = [grown EXCEPT ![back + 1] = e] /\ back + 1 \in 1..Len(grown)
    BY <1>3, <1>a, <1>c, <1>7, <1>10
  <2>2. /\ block' \in Seq(Content) /\ Len(block') = Len(grown)
        /\ \A j \in 1..Len(grown) : block'[j] = IF j = back + 1 THEN e ELSE grown[j]
    BY <1>3, <1>7, <2>1, ExceptSeq
  <2>3. \A j \in 1..back : grown[j] = block[j]
    <3>1. CASE grown = block
      BY <3>1
    <3>2. CASE grown = Array!array_reserve(n)
      <4>1. Len(grown) = n /\ \A j \in 1..n : j <= Len(block) => grown[j] = block[j]
        BY <1>2, <1>6, <3>2, Reserved DEF Room
      <4>. QED  BY <1>2, <1>3, <1>6, <1>10, <4>1 DEF Room
    <3>3. CASE grown = <<>>
      <4>1. Len(grown) = 0
        BY <3>3, EmptySeq
      <4>. QED  BY <1>3, <1>10, <4>1
    <3>. QED  BY <1>c, <3>1, <3>2, <3>3
  <2>4. \A j \in 1..back : block'[j] = block[j]
    BY <1>3, <1>7, <1>10, <2>2, <2>3
  <2>5. block'[back + 1] = e
    BY <2>1, <2>2
  <2>6. Room'
    <3>1. CASE ~Array!Grows /\ grown = block
      BY <1>1, <1>2, <1>3, <1>4, <1>10, <2>2, <3>1 DEF Room
    <3>2. CASE Array!Grows /\ grown = Array!array_reserve(n)
      <4>1. Len(grown) = n /\ n > capacity /\ task # "E"
        BY <1>2, <1>4, <1>6, <3>2, Reserved DEF Room
      <4>. QED  BY <1>1, <1>2, <1>3, <1>4, <1>6, <1>10, <2>2, <4>1 DEF Room
    <3>3. CASE grown = <<>>
      <4>1. Len(grown) = 0
        BY <3>3, EmptySeq
      <4>. QED  BY <1>3, <1>10, <4>1
    <3>. QED  BY <1>c, <3>1, <3>2, <3>3
  <2>7. Stored'
    <3>1. /\ elements' \in Seq(Content) /\ Len(elements') = Len(elements) + 1
          /\ \A i \in 1..Len(elements) : elements'[i] = elements[i]
          /\ elements'[Len(elements) + 1] = e
      BY <1>1, <1>2, <1>3, AppendProperties DEF Stored
    <3>2. Len(elements) = back - front /\ \A i \in 1..Len(elements) : elements[i] = block[front + i]
      BY <1>2 DEF Stored
    <3>3. Len(elements') = back' - front'
      BY <1>1, <1>3, <3>1, <3>2
    <3>4. ASSUME NEW i \in 1..Len(elements') PROVE elements'[i] = block'[front' + i]
      <4>1. CASE i \in 1..Len(elements)
        <5>1. front + i \in 1..back
          BY <1>3, <3>2, <4>1
        <5>. QED  BY <1>1, <2>4, <3>1, <3>2, <4>1, <5>1
      <4>2. CASE i = Len(elements) + 1
        <5>1. front + i = back + 1
          BY <1>3, <3>2, <4>2
        <5>. QED  BY <1>1, <2>5, <3>1, <4>2, <5>1
      <4>. QED  BY <1>3, <3>1, <3>2, <4>1, <4>2
    <3>. QED  BY <3>1, <3>3, <3>4 DEF Stored
  <2>8. Seen'
    BY <1>1 DEF Seen
  <2>. QED  BY <1>8, <2>1, <2>6, <2>7, <2>8 DEF ArrayInv
<1>. QED  BY <1>3, <1>7, <1>9, <1>10


LEMMA PopKeeps ==
  ASSUME ArrayInv, Array!array_popFront \/ Array!array_popBack
  PROVE  ArrayInv'
<1>1. /\ ~crashed /\ b.kind = "none" /\ back > front /\ b' = b /\ task' = task /\ block' = block
      /\ capacity' = capacity /\ crashed' = crashed
  <2>1. front \in Nat /\ back \in Nat
    BY DEF ArrayInv, ArrayType
  <2>2. ~(back <= front)
    BY DEF Array!array_popFront, Array!array_popBack, Array!array_empty
  <2>3. back > front
    BY <2>1, <2>2
  <2>. QED  BY <2>3 DEF Array!array_popFront, Array!array_popBack, Array!Calling
<1>2. ArrayType /\ Room /\ Stored
  BY <1>1 DEF ArrayInv
<1>3. front \in Nat /\ back \in Nat /\ Len(block) \in Nat
  BY <1>2, LenProperties DEF ArrayType, Room
<1>4. /\ elements \in Seq(Content) /\ Len(elements) = back - front /\ elements # <<>>
      /\ \A i \in 1..Len(elements) : elements[i] = block[front + i]
  <2>1. Len(elements) = back - front /\ Len(elements) > 0
    BY <1>1, <1>2, <1>3 DEF Stored
  <2>2. elements # <<>>
    BY <2>1, EmptySeq
  <2>. QED  BY <1>2, <2>2 DEF Stored
<1>5. Seen'
  BY <1>1 DEF Seen
<1>6. CASE Array!array_popFront
  <2>1. front' = front + 1 /\ back' = back /\ elements' = Tail(elements)
    BY <1>6 DEF Array!array_popFront
  <2>2. ArrayType' /\ Room'
    BY <1>1, <1>2, <1>3, <2>1 DEF ArrayType, Room
  <2>3. /\ elements' \in Seq(Content) /\ Len(elements') = Len(elements) - 1
        /\ \A i \in 1..Len(elements') : elements'[i] = elements[i + 1]
    BY <1>4, <2>1, HeadTailProperties
  <2>4. ASSUME NEW i \in 1..Len(elements') PROVE elements'[i] = block[front' + i]
    <3>1. i + 1 \in 1..Len(elements) /\ front + (i + 1) = front' + i
      BY <1>3, <1>4, <2>1, <2>3
    <3>2. elements[i + 1] = block[front + (i + 1)]
      BY <1>4, <3>1
    <3>. QED  BY <2>3, <3>1, <3>2
  <2>5. Stored'
    BY <1>1, <1>3, <1>4, <2>1, <2>3, <2>4 DEF Stored
  <2>. QED  BY <1>1, <1>5, <2>2, <2>5 DEF ArrayInv
<1>7. CASE Array!array_popBack
  <2>1. front' = front /\ back' = back - 1 /\ elements' = SubSeq(elements, 1, Len(elements) - 1)
    BY <1>7 DEF Array!array_popBack
  <2>2. ArrayType' /\ Room'
    BY <1>1, <1>2, <1>3, <2>1 DEF ArrayType, Room
  <2>. DEFINE n == Len(elements) - 1
  <2>3. n \in Nat /\ n = back' - front' /\ Len(elements) = n + 1
    BY <1>1, <1>3, <1>4, <2>1
  <2>4. \A i \in 1..n : elements[i] \in Content
    BY <1>4, <2>3, ElementOfSeq
  <2>5. elements' = SubSeq(elements, 1, n)
    BY <2>1
  <2>. HIDE DEF n
  <2>6. /\ elements' \in Seq(Content) /\ Len(elements') = n
        /\ \A i \in 1..n : elements'[i] = elements[i]
    <3>1. /\ elements' \in Seq(Content) /\ Len(elements') = (IF 1 <= n THEN n - 1 + 1 ELSE 0)
          /\ \A i \in 1..(n - 1 + 1) : elements'[i] = elements[1 + i - 1]
      BY <2>3, <2>4, <2>5, SubSeqProperties
    <3>2. \A i \in 1..n : 1 + i - 1 = i
      BY <2>3
    <3>. QED  BY <2>3, <3>1, <3>2
  <2>7. Stored'
    BY <1>1, <1>3, <1>4, <2>1, <2>3, <2>6 DEF Stored
  <2>. QED  BY <1>1, <1>5, <2>2, <2>7 DEF ArrayInv
<1>. QED  BY <1>6, <1>7

(* A step that leaves the array alone.                                      *)
LEMMA IterationKeeps ==
  ASSUME ArrayInv, ~crashed, UNCHANGED <<task, block, front, back, capacity, elements, inserts, crashed>>,
         b' \in [kind : {"none", "forward", "reverse", "print"}, front : Nat, back : Nat, seen : Seq(Content)],
         Seen'
  PROVE  ArrayInv'
  BY DEF ArrayInv, ArrayType, Room, Stored

LEMMA SaveKeeps ==
  ASSUME ArrayInv, Array!array_print \/ Array!IterationEnds
                   \/ \E kind \in {"forward", "reverse"} : Array!array_save(kind)
  PROVE  ArrayInv'
<1>. DEFINE Bs == [kind : {"none", "forward", "reverse", "print"}, front : Nat, back : Nat, seen : Seq(Content)]
<1>1. UNCHANGED <<task, block, front, back, capacity, elements, inserts, crashed>>
  BY DEF Array!array_print, Array!IterationEnds, Array!array_save
<1>2. /\ front \in Nat /\ back \in Nat /\ front <= back /\ b \in Bs /\ <<>> \in Seq(Content)
      /\ <<>> \in Seq(Content) /\ Len(<<>>) = 0
  BY EmptySeq DEF ArrayInv, ArrayType
<1>3. CASE Array!IterationEnds
  <2>1. b' = [kind |-> "none", front |-> 0, back |-> 0, seen |-> <<>>]
    BY <1>3 DEF Array!IterationEnds, Array!NoIteration
  <2>2. b'.kind = "none" /\ b' \in Bs
    BY <1>2, <2>1
  <2>3. Seen'
    BY <2>2 DEF Seen
  <2>4. ~crashed
    BY <1>3 DEF Array!IterationEnds, ArrayInv
  <2>. QED  BY <1>1, <2>2, <2>3, <2>4, IterationKeeps
<1>4. ASSUME NEW kind \in {"forward", "reverse"}, Array!array_save(kind) PROVE ArrayInv'
  <2>1. ~crashed /\ b' = [kind |-> kind, front |-> front, back |-> back, seen |-> <<>>]
    BY <1>4 DEF Array!array_save, Array!Calling
  <2>2. b'.kind = kind /\ b'.front = front /\ b'.back = back /\ b'.seen = <<>> /\ b' \in Bs
    BY <1>2, <2>1
  <2>3. Len(b'.seen) = 0
    BY <1>2, <2>2
  <2>4. Seen'
    BY <1>1, <1>2, <2>2, <2>3 DEF Seen
  <2>. QED  BY <1>1, <2>1, <2>2, <2>4, IterationKeeps
<1>5. CASE Array!array_print
  <2>. DEFINE begun == IF back <= front THEN <<>> ELSE <<block[front + 1]>>
  <2>1. ~crashed /\ b' = [kind |-> "print", front |-> front + Len(begun), back |-> back, seen |-> begun]
    BY <1>5 DEF Array!array_print, Array!Calling, Array!array_empty, Array!array_front
  <2>2. begun \in Seq(Content) /\ Len(begun) \in Nat /\ front + Len(begun) <= back
        /\ \A i \in 1..Len(begun) : begun[i] = block[front + i]
    <3>1. CASE back <= front
      <4>1. begun = <<>>
        BY <3>1
      <4>. HIDE DEF begun
      <4>. QED  BY <1>2, <4>1
    <3>2. CASE ~(back <= front)
      <4>. DEFINE c == block[front + 1]  one == <<c>>
      <4>1. begun = one
        BY <3>2
      <4>2. front + 1 \in 1..Len(block) /\ block \in Seq(Content)
        BY <1>2, <2>1, <3>2, LenProperties DEF ArrayInv, Room
      <4>3. c \in Content
        BY <4>2, ElementOfSeq
      <4>. HIDE DEF begun, c
      <4>4. one \in Seq(Content) /\ Len(one) = 1 /\ one[1] = c
        BY <4>3
      <4>. HIDE DEF one
      <4>. QED  BY <1>2, <3>2, <4>1, <4>4 DEF c
    <3>. QED  BY <3>1, <3>2
  <2>. HIDE DEF begun
  <2>3. /\ b'.kind = "print" /\ b'.front = front + Len(begun) /\ b'.back = back /\ b'.seen = begun
        /\ b' \in Bs
    BY <1>2, <2>1, <2>2
  <2>4. Seen'
    BY <1>1, <1>2, <2>2, <2>3 DEF Seen
  <2>. QED  BY <1>1, <2>1, <2>3, <2>4, IterationKeeps
<1>. QED  BY <1>3, <1>4, <1>5

LEMMA Prepended ==
  ASSUME NEW c \in Content, NEW q \in Seq(Content)
  PROVE  /\ <<c>> \o q \in Seq(Content) /\ Len(<<c>> \o q) = 1 + Len(q)
         /\ \A i \in 1..(1 + Len(q)) : (<<c>> \o q)[i] = IF i <= 1 THEN <<c>>[i] ELSE q[i - 1]
<1>. DEFINE one == <<c>>
<1>1. one \in Seq(Content) /\ Len(one) = 1
  OBVIOUS
<1>. HIDE DEF one
<1>2. /\ one \o q \in Seq(Content) /\ Len(one \o q) = Len(one) + Len(q)
      /\ \A i \in 1..(Len(one) + Len(q)) : (one \o q)[i] = IF i <= Len(one) THEN one[i] ELSE q[i - Len(one)]
  BY <1>1, ConcatProperties, Zenon
<1>3. /\ one \o q \in Seq(Content) /\ Len(one \o q) = 1 + Len(q)
      /\ \A i \in 1..(1 + Len(q)) : (one \o q)[i] = IF i <= 1 THEN one[i] ELSE q[i - 1]
  BY <1>1, <1>2, Zenon
<1>. QED  BY <1>3, Zenon DEF one

LEMMA VisitKeeps ==
  ASSUME ArrayInv, Array!Visit
  PROVE  ArrayInv'
<1>. DEFINE Bs == [kind : {"none", "forward", "reverse", "print"}, front : Nat, back : Nat, seen : Seq(Content)]
            f == b.front  k == b.back  s == b.seen  m == Len(s)
<1>1. /\ UNCHANGED <<task, block, front, back, capacity, elements, inserts, crashed>>
      /\ b.kind # "none" /\ ~(k <= f) /\ ~crashed
      /\ b' = IF b.kind = "reverse" THEN [b EXCEPT !.back = k - 1, !.seen = <<block[k]>> \o s]
              ELSE [b EXCEPT !.front = f + 1, !.seen = Append(s, block[f + 1])]
  BY DEF Array!Visit, Array!array_empty, Array!array_back, Array!array_front, ArrayInv
<1>2. /\ front \in Nat /\ back \in Nat /\ b \in Bs /\ f \in Nat /\ k \in Nat /\ s \in Seq(Content) /\ m \in Nat
  BY LenProperties DEF ArrayInv, ArrayType
<1>3. /\ block \in Seq(Content) /\ Len(block) \in Nat /\ back <= Len(block)
  BY <1>1, LenProperties DEF ArrayInv, Room
<1>4. Seen
  BY <1>1 DEF ArrayInv
<1>5. CASE b.kind = "reverse"
  <2>. DEFINE c == block[k]  one == <<c>>  t == one \o s
  <2>1. front = f /\ k <= back /\ m = back - k /\ \A i \in 1..m : s[i] = block[k + i]
    BY <1>1, <1>4, <1>5 DEF Seen
  <2>2. k \in 1..Len(block) /\ k - 1 \in Nat
    BY <1>1, <1>2, <1>3, <2>1
  <2>3. c \in Content
    BY <1>3, <2>2, ElementOfSeq
  <2>4. b' = [b EXCEPT !.back = k - 1, !.seen = t]
    BY <1>1, <1>5
  <2>. HIDE DEF c
  <2>5. one \in Seq(Content) /\ Len(one) = 1 /\ one[1] = c
    BY <2>3
  <2>. HIDE DEF one, s, m
  <2>6. /\ t \in Seq(Content) /\ Len(t) = 1 + m
        /\ \A i \in 1..(1 + m) : t[i] = IF i <= 1 THEN one[i] ELSE s[i - 1]
    BY <1>2, <2>3, Prepended DEF one, m
  <2>. HIDE DEF t
  <2>7. ASSUME NEW i \in 1..Len(t) PROVE t[i] = block[(k - 1) + i]
    <3>1. CASE i = 1
      BY <1>2, <2>5, <2>6, <3>1 DEF c
    <3>2. CASE i # 1
      <4>1. i - 1 \in 1..m /\ t[i] = s[i - 1] /\ k + (i - 1) = (k - 1) + i
        BY <1>2, <2>6, <3>2
      <4>. QED  BY <2>1, <4>1
    <3>. QED  BY <3>1, <3>2
  <2>8. b'.kind = "reverse" /\ b'.front = front /\ b'.back = k - 1 /\ b'.seen = t
    BY <1>2, <1>5, <2>1, <2>4
  <2>9. b' \in Bs
    BY <1>2, <2>2, <2>4, <2>6
  <2>10. Seen'
    <3>1. front' <= front' /\ front' <= k - 1 /\ k - 1 <= back' /\ Len(t) = back' - (k - 1) /\ block' = block /\ front' = front
      BY <1>1, <1>2, <2>1, <2>2, <2>6
    <3>. HIDE DEF f, k
    <3>. QED  BY <2>7, <2>8, <3>1 DEF Seen
  <2>. QED  BY <1>1, <2>9, <2>10, IterationKeeps
<1>6. CASE b.kind # "reverse"
  <2>. DEFINE c == block[f + 1]  t == Append(s, c)
  <2>1. back = k /\ front <= f /\ m = f - front /\ \A i \in 1..m : s[i] = block[front + i]
    BY <1>1, <1>4, <1>6 DEF Seen
  <2>2. f + 1 \in 1..Len(block) /\ f + 1 <= k /\ front + (m + 1) = f + 1
    BY <1>1, <1>2, <1>3, <2>1
  <2>3. c \in Content
    BY <1>3, <2>2, ElementOfSeq
  <2>4. b' = [b EXCEPT !.front = f + 1, !.seen = t]
    BY <1>1, <1>6
  <2>. HIDE DEF c, s, m
  <2>5. /\ t \in Seq(Content) /\ Len(t) = m + 1 /\ t[m + 1] = c
        /\ \A i \in 1..m : t[i] = s[i]
    BY <1>2, <2>3, AppendProperties DEF m
  <2>. HIDE DEF t
  <2>6. ASSUME NEW i \in 1..Len(t) PROVE t[i] = block[front + i]
    <3>1. CASE i = m + 1
      BY <2>2, <2>5, <3>1 DEF c
    <3>2. CASE i # m + 1
      <4>1. i \in 1..m
        BY <1>2, <2>5, <3>2
      <4>. QED  BY <2>1, <2>5, <4>1
    <3>. QED  BY <3>1, <3>2
  <2>7. b'.kind = b.kind /\ b'.front = f + 1 /\ b'.back = k /\ b'.seen = t
    BY <1>2, <2>4
  <2>8. b' \in Bs
    <3>1. f + 1 \in Nat
      BY <1>2
    <3>. QED  BY <1>2, <2>4, <2>5, <3>1
  <2>9. Seen'
    <3>1. /\ front' <= f + 1 /\ f + 1 <= k /\ k = back' /\ k <= back' /\ Len(t) = (f + 1) - front'
          /\ block' = block /\ front' = front
      BY <1>1, <1>2, <2>1, <2>2, <2>5
    <3>. HIDE DEF f, k
    <3>. QED  BY <1>6, <2>6, <2>7, <3>1 DEF Seen
  <2>. QED  BY <1>1, <2>8, <2>9, IterationKeeps
<1>. QED  BY <1>5, <1>6

LEMMA ArrayInit == Array!Init => ArrayInv
<1>. SUFFICES ASSUME Array!Init PROVE ArrayInv
  OBVIOUS
<1>1. /\ task \in {"E", "F", "G"} /\ block = [i \in 1..Capacity |-> "junk"] /\ front = 0 /\ back = 0
      /\ capacity = Capacity /\ elements = <<>> /\ crashed = FALSE
      /\ b = [kind |-> "none", front |-> 0, back |-> 0, seen |-> <<>>]
  BY DEF Array!Init, Array!array_new, Array!Junk, Array!NoIteration
<1>2. Capacity \in Nat /\ <<>> \in Seq(Content) /\ Len(<<>>) = 0
  BY RoutinesAssumption
<1>3. block \in Seq(Content) /\ Len(block) = Capacity
  BY <1>1, <1>2 DEF Content
<1>4. ArrayType
  <2>1. b \in [kind : {"none", "forward", "reverse", "print"}, front : Nat, back : Nat, seen : Seq(Content)]
    BY <1>1, <1>2
  <2>2. task \in {"E", "F", "G"} /\ front \in Nat /\ back \in Nat /\ capacity \in Nat /\ front <= back
    BY <1>1, <1>2
  <2>3. crashed \in BOOLEAN
    BY <1>1, Zenon
  <2>. QED  BY <2>1, <2>2, <2>3 DEF ArrayType
<1>5. Room /\ Stored
  BY <1>1, <1>2, <1>3 DEF Room, Stored
<1>6. Seen
  BY <1>1 DEF Seen
<1>. QED  BY <1>1, <1>4, <1>5, <1>6 DEF ArrayInv

LEMMA ArrayNext == ArrayInv /\ [Array!Next]_arrayVars => ArrayInv'
<1>. SUFFICES ASSUME ArrayInv, [Array!Next]_arrayVars PROVE ArrayInv'
  OBVIOUS
<1>1. CASE UNCHANGED arrayVars
  BY <1>1 DEF arrayVars, ArrayInv, ArrayType, Room, Stored, Seen, Excused
<1>. QED  BY <1>1, InsertKeeps, PopKeeps, SaveKeeps, VisitKeeps DEF Array!Next

(* What has been stored is what the block holds between the cursors, and    *)
(* an iteration that has ended has seen it.                                 *)
LEMMA ArrayHolds == ArrayInv => Array!HoldsItsElements
<1>. SUFFICES ASSUME ArrayInv PROVE Array!HoldsItsElements
  OBVIOUS
<1>1. CASE crashed
  BY <1>1 DEF ArrayInv, Excused, Array!HoldsItsElements, Array!NULL
<1>2. CASE ~crashed
  <2>. DEFINE between == SubSeq(block, front + 1, back)
  <2>1. ArrayType /\ Room /\ Stored /\ Seen
    BY <1>2 DEF ArrayInv
  <2>2. /\ front \in Nat /\ back \in Nat /\ front <= back /\ Len(block) \in Nat /\ back <= Len(block)
        /\ block \in Seq(Content)
    BY <2>1, LenProperties DEF ArrayType, Room
  <2>3. /\ elements \in Seq(Content) /\ Len(elements) = back - front
        /\ \A i \in 1..Len(elements) : elements[i] = block[front + i]
    BY <2>1 DEF Stored
  <2>4. /\ between \in Seq(Content) /\ Len(between) = back - front
        /\ \A i \in 1..(back - front) : between[i] = block[front + i]
    <3>1. \A i \in (front + 1)..back : block[i] \in Content
      BY <2>2, ElementOfSeq
    <3>2. /\ between \in Seq(Content)
          /\ Len(between) = (IF front + 1 <= back THEN back - (front + 1) + 1 ELSE 0)
          /\ \A i \in 1..(back - (front + 1) + 1) : between[i] = block[(front + 1) + i - 1]
      BY <2>2, <3>1, SubSeqProperties
    <3>. HIDE DEF between
    <3>3. back - (front + 1) + 1 = back - front /\ \A i \in 1..(back - front) : (front + 1) + i - 1 = front + i
      BY <2>2
    <3>. QED  BY <2>2, <3>2, <3>3
  <2>. HIDE DEF between
  <2>5. between = elements
    BY <2>2, <2>3, <2>4, SeqEqual
  <2>6. ASSUME b.kind # "none", b.back <= b.front PROVE b.seen = elements
    <3>1. /\ b.seen \in Seq(Content) /\ b.front \in Nat /\ b.back \in Nat
      BY <2>1 DEF ArrayType
    <3>2. b.front = b.back
      BY <2>1, <2>6, <3>1 DEF Seen
    <3>3. Len(b.seen) = back - front /\ \A i \in 1..Len(b.seen) : b.seen[i] = block[front + i]
      BY <2>1, <2>6, <3>2 DEF Seen
    <3>. QED  BY <2>3, <3>1, <3>3, SeqEqual
  <2>7. Array!Tell(elements)
    BY <2>6 DEF Array!Tell, Array!array_empty
  <2>. QED  BY <1>2, <2>5, <2>7 DEF Array!HoldsItsElements, between
<1>. QED  BY <1>1, <1>2

(* Unless the memory after the block has been written to, the array holds   *)
(* what was put in and not taken out, in order, and each iteration sees all  *)
(* of it; and that happens only once an element was taken from the front,    *)
(* realloc() failed, or the array of task E is full (array.c, main.c): for   *)
(* any capacity, any elements and any sequence of calls.                    *)
THEOREM ArrayHoldsItsElements == MCSpec => []Array!HoldsItsElements
<1>1. MCInit => ArrayInv
  BY ArrayInit DEF MCInit
<1>2. ArrayInv /\ [MCNext]_programVars => ArrayInv'
  BY ArraySteps, ArrayNext
<1>. QED  BY <1>1, <1>2, ArrayHolds, PTL DEF MCSpec, MCNext

-----------------------------------------------------------------------------
(* The clocks of the peripherals.                                           *)

Users    == MainUses \cup HandlerUses
Groups   == {"hsb", "pba", "pbb"}
Members  == [g \in Groups |-> IF g = "hsb" THEN Buses!HasData ELSE IF g = "pba" THEN Buses!OnPba ELSE Buses!OnPbb]
Bridges  == {"PBB_BRIDGE", "PBC_BRIDGE"}
Bits     == {"", "HRAMC0", "HRAMC1", "PBA_BRIDGE"} \cup Bridges \cup Buses!OnPba \cup Buses!OnPbb
Ops      == {"none", "save", "read", "write", "restore", "bridge", "count", "osc_enable", "osc_wait_ready", "genclk"}
Accesses == [op : Ops, grp : Groups \cup {""}, bit : Bits, on : BOOLEAN, bus : {0, 1}]

(* The access at a place of what is left of a call, if there is one.         *)
Nth(q, i) == IF i \in 1..Len(q) THEN q[i] ELSE Buses!Do("none")

(* What begins where no section is.                                         *)
Opening == {"none", "save", "osc_enable", "genclk"}

(* How the accesses of a call follow each other, two at a time.             *)
Follows(a, s, t) ==
  /\ a.op = "save" => s.op = "read" \/ (s.op = "bridge" /\ s.on) \/ (s.op = "count" /\ ~s.on)
  /\ a.op = "read" => s.op = "write" /\ s.grp = a.grp /\ s.bit = a.bit /\ s.on = a.on
  /\ a.op = "write" => /\ s.op = "restore"
                       /\ IF a.bit \notin Bridges THEN t.op \in Opening
                          ELSE IF a.on THEN t.op = "count" /\ t.on ELSE t.op = "restore"
  /\ a.op = "bridge" => IF a.on THEN s.op = "count" /\ s.on ELSE s.op = "restore" /\ t.op \in Opening
  /\ a.op = "count" => IF a.on THEN s.op = "restore" /\ t.op \in Opening ELSE s.op = "bridge" /\ ~s.on
  /\ a.op = "restore" => s.op \in Opening \/ (s.op = "count" /\ s.on) \/ (s.op = "restore" /\ t.op \in Opening)
  /\ a.op = "osc_enable" => s.op = "osc_wait_ready"
  /\ a.op = "osc_wait_ready" => s.op = "genclk"
  /\ a.op = "genclk" => s.op \in Opening
  /\ s.op = "genclk" /\ s.on => a.op = "osc_wait_ready"
  /\ s.op = "save" => ~(t.op = "read" /\ t.bit \in Bridges)

(* An access of a call that enables p, or disables it.                      *)
Mine(p, on, a) ==
  /\ a.op \in {"read", "write"} =>
       /\ a.on = on /\ a.grp \in Groups
       /\ IF a.bit \in Bridges THEN p \in Buses!OnPbb /\ a.grp = "hsb" /\ a.bit = Buses!Bridge[Buses!pbus_id(p)]
          ELSE p \in Members[a.grp] /\ a.bit = Buses!Module(p)
  /\ a.op \in {"bridge", "count"} => p \in Buses!OnPbb /\ a.bus = Buses!pbus_id(p) /\ a.on = on
  /\ a.op = "genclk" => p = "USB" /\ a.on = on

(* What a call does for its peripheral, each only once.                     *)
Kinds == {"hsb", "pba", "pbb", "count", "genclk"}
Kind(a) ==
  IF a.op = "write" THEN IF a.bit \in Bridges THEN "none" ELSE a.grp
  ELSE IF a.op \in {"count", "genclk"} THEN a.op ELSE "none"
Pending(q, e) == \E i \in 1..Len(q) : Kind(q[i]) = e
Needs(p, e) ==
  \/ e \in Groups /\ p \in Members[e]
  \/ e = "count" /\ p \in Buses!OnPbb
  \/ e = "genclk" /\ p = "USB"

Ordinary(q, p, on) == \A i \in 1..Len(q) : Follows(q[i], Nth(q, i + 1), Nth(q, i + 2)) /\ Mine(p, on, q[i])
Once(q) == \A i, j \in 1..Len(q) : i < j /\ Kind(q[i]) \in Kinds => Kind(q[j]) # Kind(q[i])
Plan(q, p, on) == q \in Seq(Accesses) /\ Ordinary(q, p, on) /\ Once(q)

(* How often a call has saved the flags when a is next, and then s.          *)
Level(a, s) ==
  IF a.op = "save" THEN IF s.op = "read" /\ s.bit \in Bridges THEN 1 ELSE 0
  ELSE IF a.op \in {"read", "write"} THEN IF a.bit \in Bridges THEN 2 ELSE 1
  ELSE IF a.op \in {"bridge", "count"} THEN 1
  ELSE IF a.op = "restore" THEN IF s.op \in {"count", "restore"} THEN 2 ELSE 1
  ELSE 0

LEMMA NthOfTail ==
  ASSUME NEW q \in Seq(Accesses), q # <<>>
  PROVE  /\ Tail(q) \in Seq(Accesses) /\ Len(Tail(q)) = Len(q) - 1 /\ Len(q) \in Nat /\ Len(q) > 0 /\ Nth(q, 1) = Head(q) /\ Head(q) = q[1]
         /\ \A i \in Nat \ {0} : Nth(Tail(q), i) = Nth(q, i + 1)
         /\ \A i \in 1..Len(Tail(q)) : Tail(q)[i] = q[i + 1]
<1>1. Len(q) \in Nat /\ Len(q) > 0 /\ Tail(q) \in Seq(Accesses) /\ Len(Tail(q)) = Len(q) - 1 /\ Head(q) = q[1]
  BY EmptySeq
<1>2. \A i \in 1..Len(Tail(q)) : Tail(q)[i] = q[i + 1]
  BY <1>1
<1>3. \A i \in Nat \ {0} : i \in 1..Len(Tail(q)) <=> i + 1 \in 1..Len(q)
  BY <1>1
<1>. QED  BY <1>1, <1>2, <1>3 DEF Nth

Rest(q, t) ==
  /\ Nth(t, 1) = Nth(q, 2) /\ Nth(t, 2) = Nth(q, 3)
  /\ Follows(Nth(q, 1), Nth(q, 2), Nth(q, 3))
  /\ \A e \in Kinds : Pending(q, e) <=> Kind(Nth(q, 1)) = e \/ Pending(t, e)
  /\ Kind(Nth(q, 1)) \in Kinds => ~Pending(t, Kind(Nth(q, 1)))

LEMMA PlanOfTail ==
  ASSUME NEW q, NEW p, NEW on, Plan(q, p, on), q # <<>>
  PROVE  Plan(Tail(q), p, on) /\ Rest(q, Tail(q)) /\ Mine(p, on, Nth(q, 1)) /\ q[1] = Nth(q, 1)
<1>. DEFINE t == Tail(q)
<1>1. q \in Seq(Accesses) /\ Ordinary(q, p, on) /\ Once(q)
  BY DEF Plan
<1>2. /\ t \in Seq(Accesses) /\ Len(t) = Len(q) - 1 /\ Len(q) \in Nat /\ Len(q) > 0 /\ Nth(q, 1) = q[1]
      /\ \A i \in Nat \ {0} : Nth(t, i) = Nth(q, i + 1)
      /\ \A i \in 1..Len(t) : t[i] = q[i + 1]
  BY <1>1, NthOfTail
<1>. HIDE DEF t
<1>3. ASSUME NEW i \in 1..Len(t) PROVE Follows(t[i], Nth(t, i + 1), Nth(t, i + 2)) /\ Mine(p, on, t[i])
  <2>. DEFINE n == Len(q)
  <2>. HIDE DEF n
  <2>0. Len(t) = n - 1 /\ n \in Nat
    BY <1>2 DEF n
  <2>1. i + 1 \in 1..n /\ i + 1 \in Nat \ {0} /\ i + 2 \in Nat \ {0} /\ (i + 1) + 1 = i + 2 /\ (i + 1) + 2 = (i + 2) + 1
    BY <2>0
  <2>2. t[i] = q[i + 1] /\ Nth(t, i + 1) = Nth(q, (i + 1) + 1) /\ Nth(t, i + 2) = Nth(q, (i + 1) + 2)
    BY <1>2, <2>1
  <2>. QED  BY <1>1, <2>1, <2>2 DEF Ordinary, n
<1>4. Once(t)
  <2>1. SUFFICES ASSUME NEW i \in 1..Len(t), NEW j \in 1..Len(t), i < j, Kind(t[i]) \in Kinds PROVE Kind(t[j]) # Kind(t[i])
    BY DEF Once
  <2>. DEFINE n == Len(q)
  <2>. HIDE DEF n
  <2>2. Len(t) = n - 1 /\ n \in Nat /\ i \in 1..Len(t) /\ j \in 1..Len(t) /\ i < j
    BY <1>2, <2>1 DEF n
  <2>3. i + 1 \in 1..n /\ j + 1 \in 1..n /\ i + 1 < j + 1
    BY <2>2
  <2>4. t[i] = q[i + 1] /\ t[j] = q[j + 1]
    BY <1>2
  <2>. QED  BY <1>1, <2>1, <2>3, <2>4 DEF Once, n
<1>5. Nth(t, 1) = Nth(q, 2) /\ Nth(t, 2) = Nth(q, 3)
  BY <1>2
<1>6. 1 \in 1..Len(q) /\ Follows(q[1], Nth(q, 2), Nth(q, 3)) /\ Mine(p, on, q[1])
  <2>1. 1 \in 1..Len(q) /\ 1 + 1 = 2 /\ 1 + 2 = 3
    BY <1>2
  <2>2. Follows(q[1], Nth(q, 1 + 1), Nth(q, 1 + 2)) /\ Mine(p, on, q[1])
    BY <1>1, <2>1 DEF Ordinary
  <2>. QED  BY <2>1, <2>2
<1>7. ASSUME NEW e \in Kinds PROVE Pending(q, e) <=> Kind(q[1]) = e \/ Pending(t, e)
  <2>1. ASSUME NEW i \in 1..Len(q), Kind(q[i]) = e, i # 1 PROVE Pending(t, e)
    <3>1. i - 1 \in 1..Len(t) /\ t[i - 1] = q[i]
      BY <1>2, <2>1
    <3>. QED  BY <2>1, <3>1 DEF Pending
  <2>2. ASSUME NEW i \in 1..Len(t), Kind(t[i]) = e PROVE Pending(q, e)
    <3>1. i + 1 \in 1..Len(q) /\ t[i] = q[i + 1]
      BY <1>2
    <3>. QED  BY <2>2, <3>1 DEF Pending
  <2>. QED  BY <1>6, <2>1, <2>2 DEF Pending
<1>8. ASSUME Kind(q[1]) \in Kinds, NEW i \in 1..Len(t) PROVE Kind(t[i]) # Kind(q[1])
  <2>1. i + 1 \in 1..Len(q) /\ 1 < i + 1 /\ t[i] = q[i + 1]
    BY <1>2
  <2>. QED  BY <1>1, <1>6, <1>8, <2>1 DEF Once
<1>11. Kind(q[1]) \in Kinds => ~Pending(t, Kind(q[1]))
  BY <1>8 DEF Pending
<1>9. Rest(q, t)
  BY <1>2, <1>5, <1>6, <1>7, <1>11 DEF Rest
<1>10. Plan(t, p, on)
  BY <1>2, <1>3, <1>4 DEF Plan, Ordinary
<1>. QED  BY <1>2, <1>6, <1>9, <1>10 DEF t

(* A part of a call that begins and ends outside of sections.               *)
Starts(a, s) == a.op \in Opening /\ ~(a.op = "genclk" /\ a.on) /\ ~(a.op = "save" /\ s.op = "read" /\ s.bit \in Bridges)
Good(q, p, on) == Plan(q, p, on) /\ Starts(Nth(q, 1), Nth(q, 2))
Does(q, E) == \A e \in Kinds : Pending(q, e) <=> e \in E

LEMMA FollowsOn ==
  ASSUME NEW a, NEW s, NEW t, NEW u, NEW w, t.op = "none", Starts(u, w)
  PROVE  /\ Follows(a, s, t) => Follows(a, s, u)
         /\ Follows(a, t, t) => Follows(a, u, w)
  BY DEF Follows, Starts, Opening

LEMMA NthOfConcat ==
  ASSUME NEW q \in Seq(Accesses), NEW r \in Seq(Accesses)
  PROVE  /\ q \o r \in Seq(Accesses) /\ Len(q \o r) = Len(q) + Len(r) /\ Len(q) \in Nat /\ Len(r) \in Nat
         /\ \A i \in 1..Len(q) : (q \o r)[i] = q[i]
         /\ \A i \in Nat \ {0} : i <= Len(q) => Nth(q \o r, i) = Nth(q, i)
         /\ \A i \in Nat \ {0} : Nth(q \o r, i + Len(q)) = Nth(r, i)
         /\ \A i \in 1..Len(q \o r) : i > Len(q) => i - Len(q) \in 1..Len(r) /\ (q \o r)[i] = r[i - Len(q)]
<1>. DEFINE z == q \o r
            m == Len(q)
            n == Len(r)
<1>1. /\ z \in Seq(Accesses) /\ Len(z) = m + n /\ m \in Nat /\ n \in Nat
      /\ \A i \in 1..Len(z) : z[i] = IF i <= m THEN q[i] ELSE r[i - m]
  BY ConcatProperties
<1>. HIDE DEF z
<1>2. /\ \A i \in Nat \ {0} : Nth(z, i) = IF i \in 1..Len(z) THEN z[i] ELSE Buses!Do("none")
      /\ \A i \in Nat \ {0} : Nth(q, i) = IF i \in 1..m THEN q[i] ELSE Buses!Do("none")
      /\ \A i \in Nat \ {0} : Nth(r, i) = IF i \in 1..n THEN r[i] ELSE Buses!Do("none")
  BY DEF Nth
<1>. HIDE DEF m, n
<1>3. ASSUME NEW i \in 1..m PROVE i \in 1..Len(z) /\ z[i] = q[i]
  <2>1. i \in 1..Len(z) /\ i <= m
    BY <1>1
  <2>. QED  BY <1>1, <2>1
<1>4. ASSUME NEW i \in Nat \ {0}, i <= m PROVE Nth(z, i) = Nth(q, i)
  <2>1. i \in 1..m
    BY <1>1, <1>4
  <2>. QED  BY <1>2, <1>3, <2>1
<1>5. ASSUME NEW i \in Nat \ {0} PROVE Nth(z, i + m) = Nth(r, i)
  <2>0. i + m \in Nat \ {0} /\ ~(i + m <= m) /\ (i + m) - m = i
    BY <1>1
  <2>1. i \in 1..n <=> i + m \in 1..Len(z)
    BY <1>1
  <2>2. CASE i \in 1..n
    <3>1. z[i + m] = r[i]
      BY <1>1, <2>0, <2>1, <2>2
    <3>. QED  BY <1>2, <2>0, <2>1, <2>2, <3>1
  <2>3. CASE i \notin 1..n
    BY <1>2, <2>0, <2>1, <2>3
  <2>. QED  BY <2>2, <2>3
<1>6. ASSUME NEW i \in 1..Len(z), i > m PROVE i - m \in 1..n /\ z[i] = r[i - m]
  <2>1. ~(i <= m) /\ i - m \in 1..n
    BY <1>1, <1>6
  <2>. QED  BY <1>1, <2>1
<1>. QED  BY <1>1, <1>3, <1>4, <1>5, <1>6 DEF z, m, n

LEMMA GoodConcat ==
  ASSUME NEW q, NEW r, NEW p, NEW on, NEW D, NEW E, Good(q, p, on), Good(r, p, on),
         Does(q, D), Does(r, E), D \cap E = {}, D \subseteq Kinds, E \subseteq Kinds
  PROVE  Good(q \o r, p, on) /\ Does(q \o r, D \cup E)
<1>. DEFINE z == q \o r
            m == Len(q)
            n == Len(r)
<1>1. /\ q \in Seq(Accesses) /\ r \in Seq(Accesses) /\ Ordinary(q, p, on) /\ Ordinary(r, p, on) /\ Once(q) /\ Once(r)
      /\ Starts(Nth(q, 1), Nth(q, 2)) /\ Starts(Nth(r, 1), Nth(r, 2))
  BY DEF Good, Plan
<1>2. /\ z \in Seq(Accesses) /\ Len(z) = m + n /\ m \in Nat /\ n \in Nat
      /\ \A i \in 1..m : z[i] = q[i]
      /\ \A i \in Nat \ {0} : i <= m => Nth(z, i) = Nth(q, i)
      /\ \A i \in Nat \ {0} : Nth(z, i + m) = Nth(r, i)
      /\ \A i \in 1..Len(z) : i > m => i - m \in 1..n /\ z[i] = r[i - m]
  BY <1>1, NthOfConcat
<1>0. PICK none : Nth(q, m + 1) = none /\ Nth(q, m + 2) = none /\ none.op = "none"
  <2>1. m + 1 \notin 1..m /\ m + 2 \notin 1..m
    BY <1>2
  <2>2. Nth(q, m + 1) = Buses!Do("none") /\ Nth(q, m + 2) = Buses!Do("none") /\ Buses!Do("none").op = "none"
    BY <2>1, Zenon DEF Nth, Buses!Do
  <2>. QED  BY <2>2
<1>. HIDE DEF z
<1>3. ASSUME NEW i \in 1..m PROVE Follows(z[i], Nth(z, i + 1), Nth(z, i + 2)) /\ Mine(p, on, z[i])
  <2>1. z[i] = q[i] /\ Follows(q[i], Nth(q, i + 1), Nth(q, i + 2)) /\ Mine(p, on, q[i])
    BY <1>1, <1>2 DEF Ordinary
  <2>. HIDE DEF m
  <2>2. CASE i + 2 <= m
    <3>1. i + 1 \in Nat \ {0} /\ i + 2 \in Nat \ {0} /\ i + 1 <= m
      BY <1>2, <2>2
    <3>. QED  BY <1>2, <2>1, <2>2, <3>1
  <2>3. CASE i + 1 = m
    <3>1. i + 1 \in Nat \ {0} /\ i + 1 <= m /\ i + 2 = 1 + m /\ 1 \in Nat \ {0} /\ i + 2 = m + 1
      BY <1>2, <2>3
    <3>2. Nth(z, i + 1) = Nth(q, i + 1) /\ Nth(z, i + 2) = Nth(r, 1) /\ Nth(q, i + 2) = none
      BY <1>0, <1>2, <3>1
    <3>3. Follows(q[i], Nth(q, i + 1), none) => Follows(q[i], Nth(q, i + 1), Nth(r, 1))
      BY <1>0, <1>1 DEF Follows, Starts, Opening
    <3>. QED  BY <2>1, <3>2, <3>3
  <2>4. CASE i = m
    <3>1. i + 1 = 1 + m /\ i + 2 = 2 + m /\ i + 1 = m + 1 /\ i + 2 = m + 2 /\ 1 \in Nat \ {0} /\ 2 \in Nat \ {0}
      BY <1>2, <2>4
    <3>2. Nth(z, i + 1) = Nth(r, 1) /\ Nth(z, i + 2) = Nth(r, 2) /\ Nth(q, i + 1) = none /\ Nth(q, i + 2) = none
      BY <1>0, <1>2, <3>1
    <3>3. Follows(q[i], none, none) => Follows(q[i], Nth(r, 1), Nth(r, 2))
      BY <1>0, <1>1, FollowsOn
    <3>. QED  BY <2>1, <3>2, <3>3
  <2>. QED  BY <1>2, <2>2, <2>3, <2>4
<1>4. ASSUME NEW i \in 1..Len(z), i > m PROVE Follows(z[i], Nth(z, i + 1), Nth(z, i + 2)) /\ Mine(p, on, z[i])
  <2>. DEFINE j == i - m
  <2>1. j \in 1..n /\ z[i] = r[j]
    BY <1>2, <1>4
  <2>2. Follows(r[j], Nth(r, j + 1), Nth(r, j + 2)) /\ Mine(p, on, r[j])
    BY <1>1, <2>1 DEF Ordinary
  <2>. HIDE DEF m
  <2>3. j + 1 \in Nat \ {0} /\ j + 2 \in Nat \ {0} /\ (j + 1) + m = i + 1 /\ (j + 2) + m = i + 2
    BY <1>2, <1>4
  <2>. HIDE DEF j
  <2>. QED  BY <1>2, <2>1, <2>2, <2>3
<1>5. Ordinary(z, p, on)
  <2>. HIDE DEF m
  <2>1. \A i \in 1..Len(z) : i > m \/ i \in 1..m
    BY <1>2
  <2>. QED  BY <1>3, <1>4, <2>1 DEF Ordinary
<1>6. ASSUME NEW i \in 1..Len(z), NEW j \in 1..Len(z), i < j, Kind(z[i]) \in Kinds PROVE Kind(z[j]) # Kind(z[i])
  <2>. HIDE DEF m, n
  <2>1. CASE j <= m
    <3>1. i \in 1..m /\ j \in 1..m
      BY <1>2, <1>6, <2>1
    <3>. QED  BY <1>1, <1>2, <1>6, <3>1 DEF Once, m
  <2>2. CASE i > m
    <3>1. i - m \in 1..n /\ j - m \in 1..n /\ i - m < j - m /\ j > m
      BY <1>2, <1>6, <2>2
    <3>2. z[i] = r[i - m] /\ z[j] = r[j - m]
      BY <1>2, <2>2, <3>1
    <3>. QED  BY <1>1, <1>6, <3>1, <3>2 DEF Once, n
  <2>3. CASE i <= m /\ j > m
    <3>1. i \in 1..m /\ j - m \in 1..n /\ z[i] = q[i] /\ z[j] = r[j - m]
      BY <1>2, <2>3
    <3>2. Pending(q, Kind(z[i])) /\ Pending(r, Kind(z[j]))
      BY <3>1 DEF Pending, m, n
    <3>. QED  BY <1>6, <3>2 DEF Does
  <2>. QED  BY <1>2, <2>1, <2>2, <2>3
<1>7. ASSUME NEW e \in Kinds PROVE Pending(z, e) <=> e \in D \cup E
  <2>. HIDE DEF m, n
  <2>1. ASSUME NEW i \in 1..Len(z), Kind(z[i]) = e PROVE Pending(q, e) \/ Pending(r, e)
    <3>1. CASE i <= m
      <4>1. i \in 1..m /\ z[i] = q[i]
        BY <1>2, <3>1
      <4>. QED  BY <2>1, <4>1 DEF Pending, m
    <3>2. CASE i > m
      <4>1. i - m \in 1..n /\ z[i] = r[i - m]
        BY <1>2, <3>2
      <4>. QED  BY <2>1, <4>1 DEF Pending, n
    <3>. QED  BY <1>2, <3>1, <3>2
  <2>2. ASSUME NEW i \in 1..m, Kind(q[i]) = e PROVE Pending(z, e)
    <3>1. i \in 1..Len(z) /\ z[i] = q[i]
      BY <1>2
    <3>. QED  BY <2>2, <3>1 DEF Pending
  <2>3. ASSUME NEW i \in 1..n, Kind(r[i]) = e PROVE Pending(z, e)
    <3>1. i + m \in 1..Len(z) /\ i + m > m /\ (i + m) - m = i
      BY <1>2
    <3>2. z[i + m] = r[i]
      BY <1>2, <3>1
    <3>. QED  BY <2>3, <3>1, <3>2 DEF Pending
  <2>4. Pending(z, e) <=> Pending(q, e) \/ Pending(r, e)
    BY <2>1, <2>2, <2>3 DEF Pending, m, n
  <2>. QED  BY <2>4 DEF Does
<1>8. Starts(Nth(z, 1), Nth(z, 2))
  <2>. HIDE DEF m, n
  <2>1. CASE m = 0
    <3>1. 1 + m = 1 /\ 2 + m = 2 /\ 1 \in Nat \ {0} /\ 2 \in Nat \ {0}
      BY <2>1
    <3>. QED  BY <1>1, <1>2, <3>1
  <2>2. CASE m = 1
    <3>1. 1 + m = 2 /\ 1 <= m /\ 1 \in Nat \ {0} /\ 2 = m + 1
      BY <2>2
    <3>2. Nth(z, 1) = Nth(q, 1) /\ Nth(z, 2) = Nth(r, 1)
      BY <1>2, <3>1
    <3>3. Nth(q, 2) = none
      BY <1>0, <3>1
    <3>. QED  BY <1>0, <1>1, <3>2, <3>3 DEF Starts, Opening
  <2>3. CASE m > 1
    <3>1. 1 <= m /\ 2 <= m /\ 1 \in Nat \ {0} /\ 2 \in Nat \ {0}
      BY <1>2, <2>3
    <3>. QED  BY <1>1, <1>2, <3>1
  <2>. QED  BY <1>2, <2>1, <2>2, <2>3
<1>9. Plan(z, p, on)
  BY <1>2, <1>5, <1>6 DEF Plan, Once
<1>. QED  BY <1>7, <1>8, <1>9 DEF Good, Does, z

LEMMA DoNothing == Buses!Do("none") \in Accesses /\ Buses!Do("none").op = "none"
  BY DEF Buses!Do, Accesses, Ops, Bits

LEMMA GoodNothing == ASSUME NEW p, NEW on PROVE Good(<<>>, p, on) /\ Does(<<>>, {})
<1>1. <<>> \in Seq(Accesses) /\ 1..Len(<<>>) = {} /\ Nth(<<>>, 1) = Buses!Do("none")
  BY DEF Nth
<1>. QED  BY <1>1, DoNothing DEF Good, Plan, Ordinary, Once, Does, Pending, Starts, Opening

LEMMA GoodFour ==
  ASSUME NEW p, NEW on, NEW a \in Accesses, NEW s \in Accesses, NEW t \in Accesses, NEW u \in Accesses, NEW none,
         none = Buses!Do("none"),
         Follows(a, s, t), Follows(s, t, u), Follows(t, u, none), Follows(u, none, none),
         Mine(p, on, a), Mine(p, on, s), Mine(p, on, t), Mine(p, on, u), Starts(a, s),
         NEW e \in Kinds, \/ Kind(s) = e /\ Kind(t) = "none"
                          \/ Kind(t) = e /\ Kind(s) = "none",
         Kind(a) = "none", Kind(u) = "none"
  PROVE  Good(<<a, s, t, u>>, p, on) /\ Does(<<a, s, t, u>>, {e})
<1>. DEFINE q == <<a, s, t, u>>
<1>1. q \in Seq(Accesses) /\ Len(q) = 4 /\ 1..Len(q) = {1, 2, 3, 4} /\ q[1] = a /\ q[2] = s /\ q[3] = t /\ q[4] = u
  OBVIOUS
<1>. HIDE DEF q
<1>2. Nth(q, 1) = a /\ Nth(q, 2) = s /\ Nth(q, 3) = t /\ Nth(q, 4) = u /\ Nth(q, 5) = none /\ Nth(q, 6) = none
  BY <1>1 DEF Nth
<1>3. ASSUME NEW i \in 1..Len(q) PROVE Follows(q[i], Nth(q, i + 1), Nth(q, i + 2)) /\ Mine(p, on, q[i])
  <2>1. CASE i = 1
    BY <1>1, <1>2, <2>1
  <2>2. CASE i = 2
    BY <1>1, <1>2, <2>2
  <2>3. CASE i = 3
    BY <1>1, <1>2, <2>3
  <2>4. CASE i = 4
    BY <1>1, <1>2, <2>4
  <2>. QED  BY <1>1, <2>1, <2>2, <2>3, <2>4
<1>4. "none" \notin Kinds
  BY DEF Kinds, Groups
<1>5. PICK k \in 1..Len(q) : Kind(q[k]) = e /\ \A i \in 1..Len(q) : i # k => Kind(q[i]) = "none"
  BY <1>1
<1>6. Once(q) /\ Does(q, {e})
  <2>1. \A i \in 1..Len(q) : Kind(q[i]) \in Kinds <=> i = k
    BY <1>4, <1>5
  <2>2. \A i, j \in 1..Len(q) : i < j => ~(i = k /\ j = k)
    BY <1>1
  <2>3. Once(q)
    BY <2>1, <2>2 DEF Once
  <2>4. \A f \in Kinds : Pending(q, f) <=> f = e
    BY <1>5, <2>1 DEF Pending
  <2>. QED  BY <2>3, <2>4 DEF Does
<1>. QED  BY <1>1, <1>2, <1>3, <1>6 DEF Good, Plan, Ordinary, q

LEMMA GoodThree ==
  ASSUME NEW p, NEW on, NEW a \in Accesses, NEW s \in Accesses, NEW t \in Accesses, NEW none, none = Buses!Do("none"),
         Follows(a, s, t), Follows(s, t, none), Follows(t, none, none),
         Mine(p, on, a), Mine(p, on, s), Mine(p, on, t), Starts(a, s),
         NEW e \in Kinds, Kind(t) = e, Kind(a) = "none", Kind(s) = "none"
  PROVE  Good(<<a, s, t>>, p, on) /\ Does(<<a, s, t>>, {e})
<1>. DEFINE q == <<a, s, t>>
<1>1. q \in Seq(Accesses) /\ Len(q) = 3 /\ 1..Len(q) = {1, 2, 3} /\ q[1] = a /\ q[2] = s /\ q[3] = t
  OBVIOUS
<1>. HIDE DEF q
<1>2. Nth(q, 1) = a /\ Nth(q, 2) = s /\ Nth(q, 3) = t /\ Nth(q, 4) = none /\ Nth(q, 5) = none
  BY <1>1 DEF Nth
<1>3. ASSUME NEW i \in 1..Len(q) PROVE Follows(q[i], Nth(q, i + 1), Nth(q, i + 2)) /\ Mine(p, on, q[i])
  <2>1. CASE i = 1
    BY <1>1, <1>2, <2>1
  <2>2. CASE i = 2
    BY <1>1, <1>2, <2>2
  <2>3. CASE i = 3
    BY <1>1, <1>2, <2>3
  <2>. QED  BY <1>1, <2>1, <2>2, <2>3
<1>4. "none" \notin Kinds
  BY DEF Kinds, Groups
<1>5. \A i \in 1..Len(q) : Kind(q[i]) = IF i = 3 THEN e ELSE "none"
  BY <1>1
<1>6. Once(q) /\ Does(q, {e})
  <2>1. \A i, j \in 1..Len(q) : i < j => ~(i = 3 /\ j = 3)
    BY <1>1
  <2>2. Once(q)
    BY <1>4, <1>5, <2>1 DEF Once
  <2>3. \A f \in Kinds : Pending(q, f) <=> f = e
    BY <1>1, <1>4, <1>5 DEF Pending
  <2>. QED  BY <2>2, <2>3 DEF Does
<1>. QED  BY <1>1, <1>2, <1>3, <1>6 DEF Good, Plan, Ordinary, q

LEMMA GoodOne ==
  ASSUME NEW p, NEW on, NEW a \in Accesses, NEW none, none = Buses!Do("none"), Follows(a, none, none), Mine(p, on, a), Starts(a, none),
         Kind(a) \in Kinds
  PROVE  Good(<<a>>, p, on) /\ Does(<<a>>, {Kind(a)})
<1>. DEFINE q == <<a>>
<1>1. q \in Seq(Accesses) /\ Len(q) = 1 /\ 1..Len(q) = {1} /\ q[1] = a
  OBVIOUS
<1>. HIDE DEF q
<1>2. Nth(q, 1) = a /\ Nth(q, 2) = none /\ Nth(q, 3) = none
  BY <1>1 DEF Nth
<1>3. Once(q) /\ Does(q, {Kind(a)})
  <2>1. \A f \in Kinds : Pending(q, f) <=> f = Kind(a)
    BY <1>1 DEF Pending
  <2>2. \A i, j \in 1..Len(q) : ~(i < j)
    BY <1>1
  <2>. QED  BY <2>1, <2>2 DEF Does, Once
<1>4. Ordinary(q, p, on)
  BY <1>1, <1>2 DEF Ordinary
<1>. QED  BY <1>1, <1>2, <1>3, <1>4 DEF Good, Plan, q

LEMMA ModuleTypes ==
  ASSUME NEW g \in Groups, NEW p \in Members[g]
  PROVE  /\ Buses!Module(p) \in Bits /\ Buses!Module(p) \notin Bridges
         /\ p \in Buses!OnPba \cup Buses!OnPbb
  BY Zenon DEF Groups, Members, Bits, Bridges, Buses!Module, Buses!OnPba, Buses!OnPbb, Buses!HasData

LEMMA ModulePart ==
  ASSUME NEW g \in Groups, NEW p \in Members[g], NEW on \in BOOLEAN
  PROVE  /\ Good(Buses!sysclk_priv_module(g, Buses!Module(p), on), p, on)
         /\ Does(Buses!sysclk_priv_module(g, Buses!Module(p), on), {g})
<1>. DEFINE m == Buses!Module(p)
            a == Buses!Do("save")
            s == Buses!Access("read", g, m, on)
            t == Buses!Access("write", g, m, on)
            u == Buses!Do("restore")
            none == Buses!Do("none")
<1>1. m \in Bits /\ m \notin Bridges
  BY ModuleTypes
<1>2. /\ a \in Accesses /\ a.op = "save" /\ a.on = FALSE /\ u \in Accesses /\ u.op = "restore" /\ none.op = "none"
      /\ s \in Accesses /\ s.op = "read" /\ s.grp = g /\ s.bit = m /\ s.on = on
      /\ t \in Accesses /\ t.op = "write" /\ t.grp = g /\ t.bit = m /\ t.on = on
  BY <1>1, ZenonT(60) DEF Buses!Do, Buses!Access, Accesses, Ops, Bits
<1>3. Buses!sysclk_priv_module(g, m, on) = <<a, s, t, u>>
  BY DEF Buses!sysclk_priv_module
<1>4. m = Buses!Module(p) /\ none = Buses!Do("none")
  OBVIOUS
<1>. HIDE DEF a, s, t, u, none, m
<1>5. Follows(a, s, t) /\ Follows(s, t, u) /\ Follows(t, u, none) /\ Follows(u, none, none) /\ Starts(a, s)
  BY <1>1, <1>2 DEF Follows, Starts, Opening
<1>6. Mine(p, on, a) /\ Mine(p, on, s) /\ Mine(p, on, t) /\ Mine(p, on, u)
  BY <1>1, <1>2, <1>4 DEF Mine
<1>7. Kind(a) = "none" /\ Kind(s) = "none" /\ Kind(t) = g /\ Kind(u) = "none" /\ g \in Kinds
  BY <1>1, <1>2 DEF Kind, Kinds, Groups
<1>8. Good(<<a, s, t, u>>, p, on) /\ Does(<<a, s, t, u>>, {g})
  BY <1>2, <1>4, <1>5, <1>6, <1>7, GoodFour
<1>. QED  BY <1>3, <1>4, <1>8

LEMMA BusIds == ASSUME NEW p PROVE Buses!pbus_id(Buses!Module(p)) = Buses!pbus_id(p) /\ Buses!pbus_id(p) \in {0, 1}
  BY DEF Buses!pbus_id, Buses!Module

BusPart(k, on) ==
  IF on THEN <<Buses!Do("save"), Buses!OnBus("bridge", k, TRUE), Buses!OnBus("count", k, TRUE), Buses!Do("restore")>>
  ELSE <<Buses!Do("save"), Buses!OnBus("count", k, FALSE), Buses!OnBus("bridge", k, FALSE), Buses!Do("restore")>>

LEMMA CountPart ==
  ASSUME NEW p \in Buses!OnPbb, NEW on \in BOOLEAN
  PROVE  /\ Good(BusPart(Buses!pbus_id(p), on), p, on)
         /\ Does(BusPart(Buses!pbus_id(p), on), {"count"})
<1>. DEFINE k == Buses!pbus_id(p)
            a == Buses!Do("save")
            s == Buses!OnBus("bridge", k, on)
            t == Buses!OnBus("count", k, on)
            u == Buses!Do("restore")
            none == Buses!Do("none")
<1>1. k \in {0, 1}
  BY BusIds
<1>2. /\ a \in Accesses /\ a.op = "save" /\ a.on = FALSE /\ u \in Accesses /\ u.op = "restore" /\ none.op = "none"
      /\ s \in Accesses /\ s.op = "bridge" /\ s.bus = k /\ s.on = on
      /\ t \in Accesses /\ t.op = "count" /\ t.bus = k /\ t.on = on
  BY <1>1, Zenon DEF Buses!Do, Buses!OnBus, Accesses, Ops, Bits
<1>3. (on => BusPart(k, on) = <<a, s, t, u>>) /\ (~on => BusPart(k, on) = <<a, t, s, u>>)
  <2>1. CASE on
    BY <2>1, on = TRUE DEF BusPart
  <2>2. CASE ~on
    BY <2>2, on = FALSE DEF BusPart
  <2>. QED  BY <2>1, <2>2
<1>4. k = Buses!pbus_id(p) /\ none = Buses!Do("none")
  OBVIOUS
<1>. HIDE DEF a, s, t, u, none, k
<1>5. /\ on => Follows(a, s, t) /\ Follows(s, t, u) /\ Follows(t, u, none) /\ Starts(a, s)
      /\ ~on => Follows(a, t, s) /\ Follows(t, s, u) /\ Follows(s, u, none) /\ Starts(a, t)
      /\ Follows(u, none, none)
  BY <1>2 DEF Follows, Starts, Opening
<1>6. Mine(p, on, a) /\ Mine(p, on, s) /\ Mine(p, on, t) /\ Mine(p, on, u)
  BY <1>2, <1>4 DEF Mine
<1>7. Kind(a) = "none" /\ Kind(s) = "none" /\ Kind(t) = "count" /\ Kind(u) = "none" /\ "count" \in Kinds
  BY <1>2 DEF Kind, Kinds
<1>8. CASE on
  <2>1. Good(<<a, s, t, u>>, p, on) /\ Does(<<a, s, t, u>>, {"count"})
    BY <1>2, <1>4, <1>5, <1>6, <1>7, <1>8, GoodFour
  <2>. QED  BY <1>3, <1>4, <1>8, <2>1
<1>9. CASE ~on
  <2>1. Good(<<a, t, s, u>>, p, on) /\ Does(<<a, t, s, u>>, {"count"})
    BY <1>2, <1>4, <1>5, <1>6, <1>7, <1>9, GoodFour
  <2>. QED  BY <1>3, <1>4, <1>9, <2>1
<1>. QED  BY <1>4, <1>8, <1>9

LEMMA PbbParts ==
  ASSUME NEW p \in Buses!OnPbb
  PROVE  /\ Buses!sysclk_enable_pbb_module(Buses!Module(p))
              = BusPart(Buses!pbus_id(p), TRUE) \o Buses!sysclk_priv_module("pbb", Buses!Module(p), TRUE)
         /\ Buses!sysclk_disable_pbb_module(Buses!Module(p))
              = Buses!sysclk_priv_module("pbb", Buses!Module(p), FALSE) \o BusPart(Buses!pbus_id(p), FALSE)
<1>. DEFINE m == Buses!Module(p)
<1>. HIDE DEF m
<1>1. Buses!pbus_id(m) = Buses!pbus_id(p)
  BY BusIds DEF m
<1>2. Buses!sysclk_enable_pbb_module(m) = BusPart(Buses!pbus_id(m), TRUE) \o Buses!sysclk_priv_module("pbb", m, TRUE)
  BY DEF Buses!sysclk_enable_pbb_module, BusPart
<1>3. Buses!sysclk_disable_pbb_module(m) = Buses!sysclk_priv_module("pbb", m, FALSE) \o BusPart(Buses!pbus_id(m), FALSE)
  BY DEF Buses!sysclk_disable_pbb_module, BusPart
<1>. QED  BY <1>1, <1>2, <1>3 DEF m

LEMMA PbbGood ==
  ASSUME NEW p \in Buses!OnPbb
  PROVE  /\ Good(Buses!sysclk_enable_pbb_module(Buses!Module(p)), p, TRUE)
         /\ Does(Buses!sysclk_enable_pbb_module(Buses!Module(p)), {"count", "pbb"})
         /\ Good(Buses!sysclk_disable_pbb_module(Buses!Module(p)), p, FALSE)
         /\ Does(Buses!sysclk_disable_pbb_module(Buses!Module(p)), {"count", "pbb"})
<1>1. p \in Members["pbb"] /\ "pbb" \in Groups /\ TRUE \in BOOLEAN /\ FALSE \in BOOLEAN
  BY DEF Members, Groups
<1>. DEFINE e == BusPart(Buses!pbus_id(p), TRUE)
            f == BusPart(Buses!pbus_id(p), FALSE)
            r == Buses!sysclk_priv_module("pbb", Buses!Module(p), TRUE)
            w == Buses!sysclk_priv_module("pbb", Buses!Module(p), FALSE)
<1>2. Good(e, p, TRUE) /\ Does(e, {"count"}) /\ Good(f, p, FALSE) /\ Does(f, {"count"})
  BY CountPart
<1>3. Good(r, p, TRUE) /\ Does(r, {"pbb"}) /\ Good(w, p, FALSE) /\ Does(w, {"pbb"})
  BY <1>1, ModulePart
<1>4. Buses!sysclk_enable_pbb_module(Buses!Module(p)) = e \o r /\ Buses!sysclk_disable_pbb_module(Buses!Module(p)) = w \o f
  BY PbbParts
<1>. HIDE DEF e, f, r, w
<1>5. {"count"} \cap {"pbb"} = {} /\ {"count"} \subseteq Kinds /\ {"pbb"} \subseteq Kinds
      /\ {"count"} \cup {"pbb"} = {"count", "pbb"} /\ {"pbb"} \cup {"count"} = {"count", "pbb"} /\ {"pbb"} \cap {"count"} = {}
  BY DEF Kinds
<1>6. Good(e \o r, p, TRUE) /\ Does(e \o r, {"count"} \cup {"pbb"})
  BY <1>2, <1>3, <1>5, GoodConcat
<1>7. Good(w \o f, p, FALSE) /\ Does(w \o f, {"pbb"} \cup {"count"})
  BY <1>2, <1>3, <1>5, GoodConcat
<1>. QED  BY <1>4, <1>5, <1>6, <1>7

LEMMA DataGood ==
  ASSUME NEW p, NEW on \in BOOLEAN
  PROVE  LET E == IF p \in Buses!HasData THEN {"hsb"} ELSE {}
         IN  Good(Buses!Data(p, on), p, on) /\ Does(Buses!Data(p, on), E)
<1>1. CASE p \in Buses!HasData
  <2>1. p \in Members["hsb"] /\ "hsb" \in Groups
    BY <1>1 DEF Members, Groups
  <2>. QED  BY <1>1, <2>1, ModulePart DEF Buses!Data
<1>2. CASE p \notin Buses!HasData
  BY <1>2, GoodNothing DEF Buses!Data
<1>. QED  BY <1>1, <1>2

LEMMA UsbGood ==
  ASSUME NEW none, none = Buses!Do("none")
  PROVE  /\ Good(<<Buses!Do("osc_enable"), Buses!Do("osc_wait_ready"), [Buses!Do("genclk") EXCEPT !.on = TRUE]>>, "USB", TRUE)
         /\ Does(<<Buses!Do("osc_enable"), Buses!Do("osc_wait_ready"), [Buses!Do("genclk") EXCEPT !.on = TRUE]>>, {"genclk"})
         /\ Good(<<Buses!Do("genclk")>>, "USB", FALSE)
         /\ Does(<<Buses!Do("genclk")>>, {"genclk"})
<1>. DEFINE a == Buses!Do("osc_enable")
            s == Buses!Do("osc_wait_ready")
            t == [Buses!Do("genclk") EXCEPT !.on = TRUE]
            u == Buses!Do("genclk")
<1>2. /\ a \in Accesses /\ a.op = "osc_enable" /\ s \in Accesses /\ s.op = "osc_wait_ready" /\ none.op = "none"
      /\ t \in Accesses /\ t.op = "genclk" /\ t.on = TRUE
      /\ u \in Accesses /\ u.op = "genclk" /\ u.on = FALSE
  BY Zenon DEF Buses!Do, Accesses, Ops, Bits
<1>. HIDE DEF a, s, t, u
<1>5. Follows(a, s, t) /\ Follows(s, t, none) /\ Follows(t, none, none) /\ Follows(u, none, none) /\ Starts(a, s) /\ Starts(u, none)
  BY <1>2 DEF Follows, Starts, Opening
<1>6. Mine("USB", TRUE, a) /\ Mine("USB", TRUE, s) /\ Mine("USB", TRUE, t) /\ Mine("USB", FALSE, u)
  BY <1>2 DEF Mine
<1>7. Kind(a) = "none" /\ Kind(s) = "none" /\ Kind(t) = "genclk" /\ Kind(u) = "genclk" /\ "genclk" \in Kinds
  BY <1>2 DEF Kind, Kinds
<1>8. Good(<<a, s, t>>, "USB", TRUE) /\ Does(<<a, s, t>>, {"genclk"})
  BY <1>2, <1>5, <1>6, <1>7, GoodThree
<1>9. Good(<<u>>, "USB", FALSE) /\ Does(<<u>>, {"genclk"})
  BY <1>2, <1>5, <1>6, <1>7, GoodOne
<1>. QED  BY <1>8, <1>9 DEF a, s, t, u

(* The kinds of what a peripheral needs.                                    *)
Needed(p) == {e \in Kinds : Needs(p, e)}

LEMMA CallsGood ==
  ASSUME NEW p \in Buses!OnPba \cup Buses!OnPbb
  PROVE  /\ Good(Buses!Enabling(p), p, TRUE) /\ Does(Buses!Enabling(p), Needed(p))
         /\ Good(Buses!Disabling(p), p, FALSE) /\ Does(Buses!Disabling(p), Needed(p))
<1>. DEFINE E == IF p \in Buses!HasData THEN {"hsb"} ELSE {}
<1>1. \A on \in BOOLEAN : Good(Buses!Data(p, on), p, on) /\ Does(Buses!Data(p, on), E)
  BY DataGood
<1>2. E \subseteq {"hsb"}
  OBVIOUS
<1>3. Needed(p) = E \cup (IF p \in Buses!OnPba THEN {"pba"} ELSE {"count", "pbb"}) \cup (IF p = "USB" THEN {"genclk"} ELSE {})
  <2>1. p \in Buses!OnPba => p \notin Buses!OnPbb
    BY DEF Buses!OnPba, Buses!OnPbb
  <2>. QED  BY <2>1 DEF Needed, Needs, Kinds, Groups, Members
<1>. HIDE DEF E
<1>4. CASE p \in Buses!OnPba
  <2>. DEFINE q(on) == Buses!sysclk_priv_module("pba", p, on)
  <2>1. p \in Members["pba"] /\ "pba" \in Groups /\ p # "USB" /\ Buses!Module(p) = p
    BY <1>4 DEF Members, Groups, Buses!OnPba, Buses!Module
  <2>2. \A on \in BOOLEAN : Good(q(on), p, on) /\ Does(q(on), {"pba"})
    BY <2>1, ModulePart
  <2>3. /\ Buses!Enabling(p) = Buses!Data(p, TRUE) \o q(TRUE)
        /\ Buses!Disabling(p) = Buses!Data(p, FALSE) \o q(FALSE)
    BY <1>4, <2>1 DEF Buses!Enabling, Buses!Disabling, Buses!sysclk_enable_peripheral_clock, Buses!sysclk_disable_peripheral_clock
  <2>. HIDE DEF q
  <2>4. E \cap {"pba"} = {} /\ E \subseteq Kinds /\ {"pba"} \subseteq Kinds /\ E \cup {"pba"} = Needed(p)
    BY <1>2, <1>3, <1>4, <2>1 DEF Kinds
  <2>5. ASSUME NEW on \in BOOLEAN PROVE Good(Buses!Data(p, on) \o q(on), p, on) /\ Does(Buses!Data(p, on) \o q(on), E \cup {"pba"})
    BY <1>1, <2>2, <2>4, GoodConcat
  <2>. QED  BY <2>3, <2>4, <2>5
<1>5. CASE p \notin Buses!OnPba /\ p # "USB"
  <2>. DEFINE e == Buses!sysclk_enable_pbb_module(p)
              f == Buses!sysclk_disable_pbb_module(p)
  <2>1. p \in Buses!OnPbb /\ Buses!Module(p) = p
    BY <1>5 DEF Buses!Module
  <2>2. Good(e, p, TRUE) /\ Does(e, {"count", "pbb"}) /\ Good(f, p, FALSE) /\ Does(f, {"count", "pbb"})
    BY <2>1, PbbGood
  <2>3. Buses!Enabling(p) = Buses!Data(p, TRUE) \o e /\ Buses!Disabling(p) = Buses!Data(p, FALSE) \o f
    BY <1>5 DEF Buses!Enabling, Buses!Disabling, Buses!sysclk_enable_peripheral_clock, Buses!sysclk_disable_peripheral_clock
  <2>. HIDE DEF e, f
  <2>4. /\ E \cap {"count", "pbb"} = {} /\ E \subseteq Kinds /\ {"count", "pbb"} \subseteq Kinds
        /\ E \cup {"count", "pbb"} = Needed(p)
    BY <1>2, <1>3, <1>5 DEF Kinds
  <2>5. Good(Buses!Data(p, TRUE), p, TRUE) /\ Does(Buses!Data(p, TRUE), E) /\ Good(Buses!Data(p, FALSE), p, FALSE) /\ Does(Buses!Data(p, FALSE), E)
    BY <1>1
  <2>6. Good(Buses!Data(p, TRUE) \o e, p, TRUE) /\ Does(Buses!Data(p, TRUE) \o e, E \cup {"count", "pbb"})
    BY <2>2, <2>4, <2>5, GoodConcat
  <2>7. Good(Buses!Data(p, FALSE) \o f, p, FALSE) /\ Does(Buses!Data(p, FALSE) \o f, E \cup {"count", "pbb"})
    BY <2>2, <2>4, <2>5, GoodConcat
  <2>. QED  BY <2>3, <2>4, <2>6, <2>7
<1>6. CASE p = "USB"
  <2>. DEFINE e == Buses!sysclk_enable_pbb_module("USBB")
              f == Buses!sysclk_disable_pbb_module("USBB")
              o == <<Buses!Do("osc_enable"), Buses!Do("osc_wait_ready"), [Buses!Do("genclk") EXCEPT !.on = TRUE]>>
              z == <<Buses!Do("genclk")>>
              d == Buses!Data("USB", TRUE)
              c == Buses!Data("USB", FALSE)
  <2>1. "USB" \in Buses!OnPbb /\ "USB" \notin Buses!OnPba /\ Buses!Module("USB") = "USBB" /\ "USB" \in Buses!HasData
    BY DEF Buses!Module, Buses!OnPbb, Buses!OnPba, Buses!HasData
  <2>2. Good(e, "USB", TRUE) /\ Does(e, {"count", "pbb"}) /\ Good(f, "USB", FALSE) /\ Does(f, {"count", "pbb"})
    BY <2>1, PbbGood
  <2>3. Good(o, "USB", TRUE) /\ Does(o, {"genclk"}) /\ Good(z, "USB", FALSE) /\ Does(z, {"genclk"})
    BY UsbGood
  <2>4. Good(d, "USB", TRUE) /\ Does(d, E) /\ Good(c, "USB", FALSE) /\ Does(c, E)
    BY <1>1, <1>6
  <2>5. Buses!Enabling("USB") = (e \o d) \o o /\ Buses!Disabling("USB") = (z \o c) \o f
    BY DEF Buses!Enabling, Buses!Disabling, Buses!sysclk_enable_usb, Buses!sysclk_disable_usb
  <2>. HIDE DEF e, f, o, z, d, c
  <2>6. E = {"hsb"}
    BY <1>6, <2>1 DEF E
  <2>7. Good(e \o d, "USB", TRUE) /\ Does(e \o d, {"count", "pbb"} \cup {"hsb"})
    <3>1. {"count", "pbb"} \cap {"hsb"} = {} /\ {"count", "pbb"} \subseteq Kinds /\ {"hsb"} \subseteq Kinds
      BY DEF Kinds
    <3>. QED  BY <2>2, <2>4, <2>6, <3>1, GoodConcat
  <2>8. Good(z \o c, "USB", FALSE) /\ Does(z \o c, {"genclk"} \cup {"hsb"})
    <3>1. {"genclk"} \cap {"hsb"} = {} /\ {"genclk"} \subseteq Kinds /\ {"hsb"} \subseteq Kinds
      BY DEF Kinds
    <3>. QED  BY <2>3, <2>4, <2>6, <3>1, GoodConcat
  <2>9. Good((e \o d) \o o, "USB", TRUE) /\ Does((e \o d) \o o, ({"count", "pbb"} \cup {"hsb"}) \cup {"genclk"})
    <3>1. /\ ({"count", "pbb"} \cup {"hsb"}) \cap {"genclk"} = {} /\ ({"count", "pbb"} \cup {"hsb"}) \subseteq Kinds
          /\ {"genclk"} \subseteq Kinds
      BY DEF Kinds
    <3>. QED  BY <2>3, <2>7, <3>1, GoodConcat
  <2>10. Good((z \o c) \o f, "USB", FALSE) /\ Does((z \o c) \o f, ({"genclk"} \cup {"hsb"}) \cup {"count", "pbb"})
    <3>1. /\ ({"genclk"} \cup {"hsb"}) \cap {"count", "pbb"} = {} /\ ({"genclk"} \cup {"hsb"}) \subseteq Kinds
          /\ {"count", "pbb"} \subseteq Kinds
      BY DEF Kinds
    <3>. QED  BY <2>2, <2>8, <3>1, GoodConcat
  <2>11. /\ ({"count", "pbb"} \cup {"hsb"}) \cup {"genclk"} = Needed(p)
         /\ ({"genclk"} \cup {"hsb"}) \cup {"count", "pbb"} = Needed(p)
    BY <1>3, <1>6, <2>1, <2>6
  <2>. QED  BY <1>6, <2>5, <2>9, <2>10, <2>11
<1>. QED  BY <1>4, <1>5, <1>6

(* The bridge's own section, in the middle of another.                      *)
Turns(q, z, on) == z = Buses!sysclk_priv_module("hsb", Buses!Bridge[Nth(q, 1).bus], on) \o Tail(q)
Splices(q, z, p, on) ==
  /\ Plan(z, p, on)
  /\ \A e \in Kinds : Pending(z, e) <=> Pending(q, e)
  /\ Nth(z, 1).op = "save" /\ Nth(z, 2).op = "read" /\ Nth(z, 2).bit = Buses!Bridge[Nth(q, 1).bus] /\ Nth(z, 2).on = on

LEMMA Spliced ==
  ASSUME NEW q, NEW p, NEW on \in BOOLEAN, Plan(q, p, on), q # <<>>, Nth(q, 1).op = "bridge", NEW z, Turns(q, z, on)
  PROVE  Splices(q, z, p, on)
<1>. DEFINE r == Tail(q)
            m == Buses!Bridge[Buses!pbus_id(p)]
            a == Buses!Do("save")
            s == Buses!Access("read", "hsb", m, on)
            t == Buses!Access("write", "hsb", m, on)
            u == Buses!Do("restore")
            b4 == <<a, s, t, u>>
<1>1. /\ Plan(r, p, on) /\ Rest(q, r) /\ Mine(p, on, Nth(q, 1))
  BY PlanOfTail
<1>2. /\ r \in Seq(Accesses) /\ Ordinary(r, p, on) /\ Once(r)
      /\ Nth(q, 1).bus = Buses!pbus_id(p) /\ Nth(q, 1).on = on /\ p \in Buses!OnPbb
  BY <1>1 DEF Plan, Mine
<1>3. m \in Bits /\ m \in Bridges
  BY BusIds, ZenonT(60) DEF Bits, Bridges, Buses!Bridge
<1>4. /\ a \in Accesses /\ a.op = "save" /\ a.on = FALSE /\ u \in Accesses /\ u.op = "restore"
      /\ s \in Accesses /\ s.op = "read" /\ s.grp = "hsb" /\ s.bit = m /\ s.on = on
      /\ t \in Accesses /\ t.op = "write" /\ t.grp = "hsb" /\ t.bit = m /\ t.on = on
  BY <1>3, Zenon DEF Buses!Do, Buses!Access, Accesses, Ops, Bits, Groups
<1>5. Buses!sysclk_priv_module("hsb", m, on) = b4
  BY DEF Buses!sysclk_priv_module
<1>6. z = b4 \o r
  BY <1>2, <1>5 DEF Turns
<1>7. m = Buses!Bridge[Buses!pbus_id(p)]
  OBVIOUS
<1>. HIDE DEF a, s, t, u, m, r
<1>8. b4 \in Seq(Accesses) /\ Len(b4) = 4 /\ b4[1] = a /\ b4[2] = s /\ b4[3] = t /\ b4[4] = u /\ 1..4 = {1, 2, 3, 4}
  BY <1>4
<1>9. Nth(b4, 1) = a /\ Nth(b4, 2) = s /\ Nth(b4, 3) = t /\ Nth(b4, 4) = u
  BY <1>8 DEF Nth
<1>. HIDE DEF b4
<1>10. /\ z \in Seq(Accesses) /\ Len(z) = 4 + Len(r) /\ Len(r) \in Nat
       /\ \A i \in 1..4 : z[i] = b4[i]
       /\ \A i \in Nat \ {0} : i <= 4 => Nth(z, i) = Nth(b4, i)
       /\ \A i \in Nat \ {0} : Nth(z, i + 4) = Nth(r, i)
       /\ \A i \in 1..Len(z) : i > 4 => i - 4 \in 1..Len(r) /\ z[i] = r[i - 4]
  <2>. DEFINE y == b4 \o r
  <2>0. b4 \in Seq(Accesses) /\ r \in Seq(Accesses)
    BY <1>2, <1>8
  <2>1. /\ y \in Seq(Accesses) /\ Len(y) = Len(b4) + Len(r) /\ Len(r) \in Nat
        /\ \A i \in 1..Len(b4) : y[i] = b4[i]
        /\ \A i \in Nat \ {0} : i <= Len(b4) => Nth(y, i) = Nth(b4, i)
        /\ \A i \in Nat \ {0} : Nth(y, i + Len(b4)) = Nth(r, i)
        /\ \A i \in 1..Len(y) : i > Len(b4) => i - Len(b4) \in 1..Len(r) /\ y[i] = r[i - Len(b4)]
    BY <2>0, NthOfConcat
  <2>3. y = z
    BY <1>6
  <2>. HIDE DEF y
  <2>2. Len(b4) = 4
    BY <1>8
  <2>. HIDE <1>8
  <2>. QED  BY <2>1, <2>2, <2>3
<1>11. z[1] = a /\ z[2] = s /\ z[3] = t /\ z[4] = u
  BY <1>8, <1>10
<1>12. /\ Nth(z, 1) = a /\ Nth(z, 2) = s /\ Nth(z, 3) = t /\ Nth(z, 4) = u
       /\ Nth(z, 5) = Nth(q, 2) /\ Nth(z, 6) = Nth(q, 3)
  <2>1. Nth(z, 1 + 4) = Nth(r, 1) /\ Nth(z, 2 + 4) = Nth(r, 2)
    BY <1>10
  <2>. QED  BY <1>1, <1>9, <1>10, <2>1 DEF Rest
<1>13. /\ Follows(a, s, t) /\ Follows(s, t, u) /\ Follows(t, u, Nth(q, 2)) /\ Follows(u, Nth(q, 2), Nth(q, 3))
  <2>1. Follows(Nth(q, 1), Nth(q, 2), Nth(q, 3))
    BY <1>1 DEF Rest
  <2>2. IF on THEN Nth(q, 2).op = "count" /\ Nth(q, 2).on ELSE Nth(q, 2).op = "restore" /\ Nth(q, 3).op \in Opening
    BY <1>2, <2>1 DEF Follows
  <2>. QED  BY <1>3, <1>4, <2>2 DEF Follows, Opening
<1>14. Mine(p, on, a) /\ Mine(p, on, s) /\ Mine(p, on, t) /\ Mine(p, on, u)
  BY <1>2, <1>3, <1>4, <1>7 DEF Mine, Groups
<1>15. ASSUME NEW i \in 1..Len(z) PROVE Follows(z[i], Nth(z, i + 1), Nth(z, i + 2)) /\ Mine(p, on, z[i])
  <2>1. CASE i = 1
    BY <1>11, <1>12, <1>13, <1>14, <2>1
  <2>2. CASE i = 2
    BY <1>11, <1>12, <1>13, <1>14, <2>2
  <2>3. CASE i = 3
    BY <1>11, <1>12, <1>13, <1>14, <2>3
  <2>4. CASE i = 4
    BY <1>11, <1>12, <1>13, <1>14, <2>4
  <2>5. CASE i > 4
    <3>. DEFINE j == i - 4
    <3>1. j \in 1..Len(r) /\ z[i] = r[j]
      BY <1>10, <2>5
    <3>2. Follows(r[j], Nth(r, j + 1), Nth(r, j + 2)) /\ Mine(p, on, r[j])
      BY <1>2, <3>1 DEF Ordinary
    <3>3. j + 1 \in Nat \ {0} /\ j + 2 \in Nat \ {0} /\ (j + 1) + 4 = i + 1 /\ (j + 2) + 4 = i + 2
      <4>1. i \in Nat /\ i > 4
        BY <2>5
      <4>. QED  BY <4>1
    <3>. HIDE DEF j
    <3>. QED  BY <1>10, <3>1, <3>2, <3>3
  <2>6. i \in {1, 2, 3, 4} \/ i > 4
    BY <1>10
  <2>. QED  BY <2>1, <2>2, <2>3, <2>4, <2>5, <2>6
<1>16. Kind(a) \notin Kinds /\ Kind(s) \notin Kinds /\ Kind(t) \notin Kinds /\ Kind(u) \notin Kinds
  BY <1>3, <1>4 DEF Kind, Kinds, Groups
<1>17. \A i \in 1..Len(z) : Kind(z[i]) \in Kinds => i > 4 /\ i - 4 \in 1..Len(r) /\ z[i] = r[i - 4]
  <2>1. \A i \in 1..Len(z) : i > 4 \/ i = 1 \/ i = 2 \/ i = 3 \/ i = 4
    BY <1>10
  <2>. QED  BY <1>10, <1>11, <1>16, <2>1
<1>18. ASSUME NEW i \in 1..Len(z), NEW j \in 1..Len(z), i < j, Kind(z[i]) \in Kinds PROVE Kind(z[j]) # Kind(z[i])
  <2>1. CASE Kind(z[j]) \in Kinds
    <3>1. i - 4 \in 1..Len(r) /\ j - 4 \in 1..Len(r) /\ z[i] = r[i - 4] /\ z[j] = r[j - 4]
      BY <1>17, <1>18, <2>1
    <3>2. i - 4 < j - 4
      <4>1. i \in Nat /\ j \in Nat /\ i < j
        BY <1>18
      <4>. QED  BY <4>1
    <3>. QED  BY <1>2, <1>18, <3>1, <3>2 DEF Once
  <2>. QED  BY <1>18, <2>1
<1>19. ASSUME NEW e \in Kinds PROVE Pending(z, e) <=> Pending(q, e)
  <2>1. Pending(q, e) <=> Pending(r, e)
    <3>1. Kind(Nth(q, 1)) = "none" /\ "none" \notin Kinds
      BY DEF Kind, Kinds, Groups
    <3>. QED  BY <1>1, <3>1 DEF Rest
  <2>2. ASSUME NEW i \in 1..Len(z), Kind(z[i]) = e PROVE Pending(r, e)
    BY <1>17, <2>2 DEF Pending
  <2>3. ASSUME NEW i \in 1..Len(r), Kind(r[i]) = e PROVE Pending(z, e)
    <3>1. i + 4 \in 1..Len(z) /\ i + 4 > 4 /\ (i + 4) - 4 = i
      BY <1>10
    <3>2. z[i + 4] = r[i]
      BY <1>10, <3>1
    <3>. QED  BY <2>3, <3>1, <3>2 DEF Pending
  <2>4. Pending(z, e) <=> Pending(r, e)
    BY <2>2, <2>3 DEF Pending
  <2>. QED  BY <2>1, <2>4
<1>20. Plan(z, p, on)
  BY <1>10, <1>15, <1>18 DEF Plan, Ordinary, Once
<1>. QED  BY <1>2, <1>4, <1>7, <1>12, <1>19, <1>20 DEF Splices

LEMMA PlanTyped ==
  ASSUME NEW q, NEW p, NEW on, Plan(q, p, on), NEW i \in Nat
  PROVE  Nth(q, i) \in Accesses /\ Nth(q, i).op \in Ops /\ Mine(p, on, Nth(q, i))
<1>1. CASE i \in 1..Len(q)
  <2>1. Nth(q, i) = q[i] /\ q[i] \in Accesses /\ Mine(p, on, q[i])
    BY <1>1 DEF Nth, Plan, Ordinary
  <2>. QED  BY <2>1, Zenon DEF Accesses
<1>2. CASE i \notin 1..Len(q)
  <2>. DEFINE none == Buses!Do("none")
  <2>1. Nth(q, i) = none /\ none \in Accesses /\ none.op = "none"
    BY <1>2, DoNothing DEF Nth
  <2>. HIDE DEF none
  <2>. QED  BY <2>1, Zenon DEF Mine, Accesses
<1>. QED  BY <1>1, <1>2

LEMMA PlanFollows ==
  ASSUME NEW q, NEW p, NEW on, Plan(q, p, on)
  PROVE  Follows(Nth(q, 1), Nth(q, 2), Nth(q, 3)) /\ Mine(p, on, Nth(q, 1))
<1>1. CASE q = <<>>
  <2>. DEFINE none == Buses!Do("none")
  <2>1. Nth(q, 1) = none /\ Nth(q, 2) = none /\ Nth(q, 3) = none /\ none.op = "none"
    BY <1>1, DoNothing DEF Nth
  <2>. HIDE DEF none
  <2>. QED  BY <2>1 DEF Follows, Mine
<1>2. CASE q # <<>>
  BY <1>2, PlanOfTail DEF Rest
<1>. QED  BY <1>1, <1>2

(* Where main or the handler keep a bridge on, although nothing is counted, *)
(* and where they are about to turn one off.                                *)
Stopping(a, s, k) ==
  \/ a.op \in {"read", "write"} /\ a.bit = Buses!Bridge[k] /\ ~a.on
  \/ a.op = "save" /\ s.op = "read" /\ s.bit = Buses!Bridge[k] /\ ~s.on
Between(a, s, k) ==
  \/ a.op = "count" /\ a.on /\ a.bus = k
  \/ a.op = "restore" /\ s.op = "count" /\ s.on /\ s.bus = k
  \/ a.op = "bridge" /\ ~a.on /\ a.bus = k
  \/ Stopping(a, s, k)

LEMMA LevelMoves ==
  ASSUME NEW a, NEW s, NEW t, NEW u, Follows(a, s, t), Follows(s, t, u), a.op \in Ops
  PROVE  /\ a.op = "save" => Level(a, s) \in {0, 1} /\ Level(s, t) = Level(a, s) + 1
         /\ a.op = "restore" => Level(s, t) \in {0, 1} /\ Level(a, s) = Level(s, t) + 1
         /\ a.op \notin {"save", "restore", "none"} => Level(s, t) = Level(a, s)
<1>1. a.op = "save" => Level(a, s) \in {0, 1} /\ Level(s, t) = Level(a, s) + 1
  BY DEF Follows, Level, Opening
<1>2. a.op = "restore" => Level(s, t) \in {0, 1} /\ Level(a, s) = Level(s, t) + 1
  BY DEF Follows, Level, Opening
<1>3. a.op \notin {"save", "restore", "none"} => Level(s, t) = Level(a, s)
  <2>1. a.op = "read" => Level(s, t) = Level(a, s)
    BY DEF Follows, Level, Opening
  <2>2. a.op = "write" => Level(s, t) = Level(a, s)
    BY DEF Follows, Level, Opening
  <2>3. a.op \in {"bridge", "count"} => Level(s, t) = Level(a, s)
    BY DEF Follows, Level, Opening
  <2>4. a.op \in {"osc_enable", "osc_wait_ready", "genclk"} => Level(s, t) = Level(a, s)
    BY DEF Follows, Level, Opening
  <2>. QED  BY <2>1, <2>2, <2>3, <2>4 DEF Ops
<1>. QED  BY <1>1, <1>2, <1>3

(* A step by which main or the handler get from a to s.                     *)
LEMMA BetweenMoves ==
  ASSUME NEW a \in Accesses, NEW s \in Accesses, NEW t \in Accesses, NEW u, Follows(a, s, t), Follows(s, t, u),
         a.op \in Ops, a.op # "none",
         NEW p, NEW on \in BOOLEAN, Mine(p, on, a), Mine(p, on, s), Mine(p, on, t), NEW k \in {0, 1}
  PROVE  LET j == Buses!pbus_id(p) IN
         /\ a.op \notin {"bridge", "count"} /\ ~(a.op = "write" /\ a.bit \in Bridges) =>
              (Between(s, t, k) <=> Between(a, s, k)) /\ (Stopping(s, t, k) <=> Stopping(a, s, k))
         /\ a.op \in {"bridge", "count"} \/ (a.op = "write" /\ a.bit \in Bridges) => ~Stopping(s, t, k)
         /\ a.op = "write" /\ a.bit \in Bridges =>
              IF on THEN ~Between(a, s, k) /\ (Between(s, t, k) <=> k = j)
              ELSE (Stopping(a, s, k) <=> k = j) /\ (Between(a, s, k) <=> k = j) /\ ~Between(s, t, k)
         /\ a.op = "bridge" =>
              IF on THEN ~Between(a, s, k) /\ (Between(s, t, k) <=> k = j)
              ELSE (Between(a, s, k) <=> k = j) /\ ~Between(s, t, k)
         /\ a.op = "count" =>
              IF on THEN (Between(a, s, k) <=> k = j) /\ ~Between(s, t, k)
              ELSE ~Between(a, s, k) /\ (Between(s, t, k) <=> k = j)
<1>. DEFINE j == Buses!pbus_id(p)
            br == Buses!Bridge[j]
            bk == Buses!Bridge[k]
<1>1. j \in {0, 1} /\ br \in Bridges /\ bk \in Bridges /\ (br = bk <=> k = j)
  BY BusIds DEF Buses!Bridge, Bridges
<1>. HIDE DEF j, br, bk
<1>0. a.on \in BOOLEAN /\ s.on \in BOOLEAN /\ t.on \in BOOLEAN
  BY Zenon DEF Accesses
<1>2. /\ Stopping(a, s, k) <=> (\/ a.op \in {"read", "write"} /\ a.bit = bk /\ ~a.on
                                \/ a.op = "save" /\ s.op = "read" /\ s.bit = bk /\ ~s.on)
      /\ Stopping(s, t, k) <=> (\/ s.op \in {"read", "write"} /\ s.bit = bk /\ ~s.on
                                \/ s.op = "save" /\ t.op = "read" /\ t.bit = bk /\ ~t.on)
  <2>1. bk = Buses!Bridge[k]
    BY DEF bk
  <2>. QED  BY <1>0, <2>1 DEF Stopping
<1>3. /\ a.op \in {"read", "write"} => (a.on <=> on) /\ (a.bit \in Bridges => a.bit = br)
      /\ s.op \in {"read", "write"} => (s.on <=> on) /\ (s.bit \in Bridges => s.bit = br)
      /\ t.op \in {"read", "write"} => (t.on <=> on) /\ (t.bit \in Bridges => t.bit = br)
      /\ a.op \in {"bridge", "count"} => a.bus = j /\ (a.on <=> on)
      /\ s.op \in {"bridge", "count"} => s.bus = j /\ (s.on <=> on)
      /\ t.op \in {"bridge", "count"} => t.bus = j /\ (t.on <=> on)
  BY <1>0 DEF Mine, j, br
<1>4. a.op \notin {"bridge", "count"} /\ ~(a.op = "write" /\ a.bit \in Bridges) =>
        (Between(s, t, k) <=> Between(a, s, k)) /\ (Stopping(s, t, k) <=> Stopping(a, s, k))
  <2>1. CASE a.op = "save"
    <3>1. CASE s.op = "read"
      BY <1>0, <1>1, <1>2, <1>3, <2>1, <3>1 DEF Follows, Between
    <3>2. CASE s.op = "bridge" /\ s.on
      BY <1>0, <1>1, <1>2, <1>3, <2>1, <3>2 DEF Follows, Between
    <3>3. CASE s.op = "count" /\ ~s.on
      BY <1>0, <1>1, <1>2, <1>3, <2>1, <3>3 DEF Follows, Between
    <3>. QED  BY <2>1, <3>1, <3>2, <3>3 DEF Follows
  <2>2. CASE a.op = "read"
    BY <1>0, <1>1, <1>2, <1>3, <2>2 DEF Follows, Between, Opening
  <2>3. CASE a.op = "write" /\ a.bit \notin Bridges
    BY <1>0, <1>1, <1>2, <1>3, <2>3 DEF Follows, Between, Opening
  <2>4. CASE a.op = "restore"
    BY <1>0, <1>1, <1>2, <1>3, <2>4 DEF Follows, Between, Opening
  <2>5. CASE a.op \in {"osc_enable", "osc_wait_ready", "genclk"}
    BY <1>0, <1>1, <1>2, <1>3, <2>5 DEF Follows, Between, Opening
  <2>. QED  BY <2>1, <2>2, <2>3, <2>4, <2>5 DEF Ops
<1>5. a.op \in {"bridge", "count"} \/ (a.op = "write" /\ a.bit \in Bridges) => ~Stopping(s, t, k)
  BY <1>0, <1>1, <1>2, <1>3 DEF Follows, Opening
<1>6. a.op = "write" /\ a.bit \in Bridges =>
        IF on THEN ~Between(a, s, k) /\ (Between(s, t, k) <=> k = j)
        ELSE (Stopping(a, s, k) <=> k = j) /\ (Between(a, s, k) <=> k = j) /\ ~Between(s, t, k)
  <2>. SUFFICES ASSUME a.op = "write", a.bit \in Bridges
                PROVE  IF on THEN ~Between(a, s, k) /\ (Between(s, t, k) <=> k = j)
                       ELSE (Stopping(a, s, k) <=> k = j) /\ (Between(a, s, k) <=> k = j) /\ ~Between(s, t, k)
    OBVIOUS
  <2>1. CASE on
    BY <1>0, <1>1, <1>2, <1>3, <2>1 DEF Follows, Between
  <2>2. CASE ~on
    BY <1>0, <1>1, <1>2, <1>3, <2>2 DEF Follows, Between
  <2>. QED  BY <2>1, <2>2
<1>7. a.op = "bridge" =>
        IF on THEN ~Between(a, s, k) /\ (Between(s, t, k) <=> k = j)
        ELSE (Between(a, s, k) <=> k = j) /\ ~Between(s, t, k)
  BY <1>0, <1>1, <1>2, <1>3 DEF Follows, Between, Opening
<1>8. a.op = "count" =>
        IF on THEN (Between(a, s, k) <=> k = j) /\ ~Between(s, t, k)
        ELSE ~Between(a, s, k) /\ (Between(s, t, k) <=> k = j)
  BY <1>0, <1>1, <1>2, <1>3 DEF Follows, Between, Opening
<1>. QED  BY <1>4, <1>5, <1>6, <1>7, <1>8 DEF j

Now(x)   == Nth(accesses[x], 1)
Soon(x)  == Nth(accesses[x], 2)
Depth(x) == Level(Now(x), Soon(x))
Stack(n) == IF n = 0 THEN <<>> ELSE IF n = 1 THEN <<FALSE>> ELSE <<TRUE, FALSE>>

(* What is done for p: it is wanted, or a call is under way that has done    *)
(* it or has not undone it.                                                 *)
Has(p, e) ==
  p \in wanted \/ \E x \in Contexts : current[x] # <<>> /\ current[x][1] = p /\ (current[x][2] <=> ~Pending(accesses[x], e))
Holders(e) == {p \in Users : Has(p, e)}
Counted(k) == {p \in Holders("count") : p \in Buses!OnPbb /\ Buses!pbus_id(p) = k}

BridgeOn(k) == sysclk_bus_refcount[k] > 0 \/ \E x \in Contexts : Between(Now(x), Soon(x), k)

BusType ==
  /\ accesses \in [Contexts -> Seq(Accesses)]
  /\ saved \in [Contexts -> {Stack(0), Stack(1), Stack(2)}]
  /\ mask \in [Contexts -> SUBSET Bits]
  /\ current \in [Contexts -> {<<>>} \cup (Users \X BOOLEAN)]
  /\ gm \in BOOLEAN /\ handling \in BOOLEAN
  /\ masks \in [Groups -> SUBSET Bits]
  /\ sysclk_bus_refcount \in [{0, 1} -> Nat]
  /\ genclk \in BOOLEAN
  /\ wanted \subseteq Users

Planned(x) ==
  IF current[x] = <<>> THEN accesses[x] = <<>>
  ELSE /\ current[x][1] \in Buses!Uses[x]
       /\ Plan(accesses[x], current[x][1], current[x][2])
       /\ current[x][1] \notin wanted

BusSections ==
  /\ \A x \in Contexts : saved[x] = Stack(Depth(x))
  /\ gm <=> \E x \in Contexts : Depth(x) > 0
  /\ handling => Depth("main") = 0
  /\ ~handling => current["handler"] = <<>>

OfGroup(g) == Buses!Minimal[g] \cup {Buses!Module(p) : p \in Holders(g) \cap Members[g]}
BridgesOn  == {Buses!Bridge[k] : k \in {k \in {0, 1} : BridgeOn(k)}}

LastRead == \A x \in Contexts : Now(x).op = "write" => mask[x] = masks[Now(x).grp]
BusMasks ==
  /\ masks["hsb"] = OfGroup("hsb") \cup BridgesOn
  /\ masks["pba"] = OfGroup("pba")
  /\ masks["pbb"] = OfGroup("pbb")

BusCounts ==
  \A k \in {0, 1} :
    /\ sysclk_bus_refcount[k] = Cardinality(Counted(k))
    /\ \A x \in Contexts : Stopping(Now(x), Soon(x), k) => sysclk_bus_refcount[k] = 0

OscSeen == \A x \in Contexts : Now(x).op = "genclk" /\ Now(x).on => usbOsc = "ready"
UsbClock ==
  /\ genclk <=> "USB" \in Holders("genclk")
  /\ genclk => usbOsc = "ready"

BusInv ==
  /\ BusType /\ (\A x \in Contexts : Planned(x)) /\ BusSections
  /\ LastRead /\ BusMasks /\ BusCounts /\ OscSeen /\ UsbClock

LEMMA UsesApart ==
  /\ \A x \in Contexts : Buses!Uses[x] \subseteq Users
  /\ \A x, y \in Contexts : x # y => Buses!Uses[x] \cap Buses!Uses[y] = {}
  /\ Users \subseteq Buses!OnPba \cup Buses!OnPbb
<1>1. Buses!Uses["main"] = MainUses /\ Buses!Uses["handler"] = HandlerUses
  BY DEF Buses!Uses
<1>. QED  BY <1>1, BusAssumption DEF Users, Contexts

(* What a step of a context from q to z, that leaves current and wanted as  *)
(* they are, does to the holders.                                           *)
Steps(x, z) == accesses' = [accesses EXCEPT ![x] = z] /\ current' = current /\ wanted' = wanted

LEMMA HoldersMove ==
  ASSUME BusInv, NEW x \in Contexts, current[x] # <<>>, NEW z, Steps(x, z), NEW e,
         NEW p, p = current[x][1], NEW on, on = current[x][2]
  PROVE  /\ (Pending(z, e) <=> Pending(accesses[x], e)) => Holders(e)' = Holders(e)
         /\ Pending(accesses[x], e) /\ ~Pending(z, e) =>
              /\ p \in Holders(e) <=> ~on
              /\ Holders(e)' = IF on THEN Holders(e) \cup {p} ELSE Holders(e) \ {p}
<1>1. BusType /\ Planned(x) /\ \A y \in Contexts : Planned(y)
  BY DEF BusInv
<1>2. p \in Users /\ p \in Buses!Uses[x] /\ p \notin wanted /\ on \in BOOLEAN /\ current[x] = <<p, on>>
  BY <1>1, UsesApart DEF Planned, BusType
<1>3. \A y \in Contexts \ {x} : accesses'[y] = accesses[y] /\ (current[y] # <<>> => current[y][1] # p)
  <2>. TAKE y \in Contexts \ {x}
  <2>1. accesses'[y] = accesses[y]
    BY <1>1 DEF Steps, BusType
  <2>2. ASSUME current[y] # <<>> PROVE current[y][1] # p
    <3>1. current[y][1] \in Buses!Uses[y] /\ Buses!Uses[x] \cap Buses!Uses[y] = {}
      BY <1>1, <2>2, UsesApart DEF Planned
    <3>. QED  BY <1>2, <3>1
  <2>. QED  BY <2>1, <2>2
<1>4. accesses'[x] = z /\ current' = current /\ wanted' = wanted
  BY <1>1 DEF Steps, BusType
<1>5. Has(p, e) <=> (on <=> ~Pending(accesses[x], e))
  BY <1>2, <1>3 DEF Has
<1>6. Has(p, e)' <=> (on <=> ~Pending(z, e))
  BY <1>2, <1>3, <1>4 DEF Has
<1>7. ASSUME NEW u \in Users, u # p PROVE Has(u, e)' <=> Has(u, e)
  BY <1>2, <1>3, <1>4, <1>7 DEF Has
<1>8. Users' = Users
  BY DEF Users
<1>. QED  BY <1>2, <1>5, <1>6, <1>7, <1>8 DEF Holders

(* A step of x to the access that follows.                                  *)
Stepped(x, p, on, a, s, t) ==
  /\ Now(x) = a /\ Soon(x) = s /\ Now(x)' = s /\ Soon(x)' = t
  /\ p \in Users /\ p \in Buses!OnPba \cup Buses!OnPbb /\ p \notin wanted /\ on \in BOOLEAN /\ current[x] = <<p, on>>
  /\ a \in Accesses /\ s \in Accesses /\ t \in Accesses /\ a.op \in Ops
  /\ Mine(p, on, a) /\ Mine(p, on, s) /\ Mine(p, on, t)
  /\ Follows(a, s, t) /\ \E u : Follows(s, t, u)
  /\ accesses' \in [Contexts -> Seq(Accesses)]
  /\ \A y \in Contexts : Planned(y)' /\ (y # x => Now(y)' = Now(y) /\ Soon(y)' = Soon(y))
  /\ \A e \in Kinds : IF Kind(a) # e THEN Holders(e)' = Holders(e)
                      ELSE /\ p \in Holders(e) <=> ~on
                           /\ Holders(e)' = IF on THEN Holders(e) \cup {p} ELSE Holders(e) \ {p}

LEMMA StepFacts ==
  ASSUME BusInv, NEW x \in Contexts, accesses[x] # <<>>, accesses' = [accesses EXCEPT ![x] = Tail(@)],
         current' = current, wanted' = wanted
  PROVE  \E p, on, a, s, t : Stepped(x, p, on, a, s, t) /\ a = Head(accesses[x])
<1>. DEFINE q == accesses[x]
            z == Tail(q)
            p == current[x][1]
            on == current[x][2]
            a == Nth(q, 1)
            s == Nth(q, 2)
            t == Nth(q, 3)
<1>1. BusType /\ \A y \in Contexts : Planned(y)
  BY DEF BusInv
<1>2. current[x] # <<>>
  BY <1>1 DEF Planned
<1>3. p \in Users /\ on \in BOOLEAN /\ current[x] = <<p, on>>
  BY <1>1, <1>2 DEF BusType
<1>4. p \in Buses!Uses[x] /\ Plan(q, p, on) /\ p \notin wanted
  BY <1>1, <1>2 DEF Planned
<1>5. q \in Seq(Accesses) /\ a = Head(q) /\ q # <<>>
  BY <1>1, NthOfTail DEF BusType
<1>6. Steps(x, z) /\ accesses'[x] = z /\ \A y \in Contexts \ {x} : accesses'[y] = accesses[y]
  BY <1>1 DEF Steps, BusType
<1>7. Plan(z, p, on) /\ Rest(q, z) /\ Mine(p, on, a)
  BY <1>4, <1>5, PlanOfTail
<1>8. Nth(z, 1) = s /\ Nth(z, 2) = t /\ Follows(a, s, t)
  BY <1>7 DEF Rest
<1>9. Follows(s, t, Nth(z, 3))
  BY <1>7, <1>8, PlanFollows
<1>10. /\ a \in Accesses /\ a.op \in Ops
       /\ s \in Accesses /\ t \in Accesses /\ Mine(p, on, s) /\ Mine(p, on, t)
  <2>1. 1 \in Nat /\ 2 \in Nat /\ 3 \in Nat
    OBVIOUS
  <2>. QED  BY <1>4, <2>1, PlanTyped
<1>11. ASSUME NEW e \in Kinds
       PROVE  IF Kind(a) # e THEN Holders(e)' = Holders(e)
              ELSE /\ p \in Holders(e) <=> ~on
                   /\ Holders(e)' = IF on THEN Holders(e) \cup {p} ELSE Holders(e) \ {p}
  <2>1. /\ Pending(q, e) <=> Kind(a) = e \/ Pending(z, e)
        /\ Kind(a) = e => ~Pending(z, e)
    BY <1>7 DEF Rest
  <2>2. /\ (Pending(z, e) <=> Pending(q, e)) => Holders(e)' = Holders(e)
        /\ Pending(q, e) /\ ~Pending(z, e) =>
             /\ p \in Holders(e) <=> ~on
             /\ Holders(e)' = IF on THEN Holders(e) \cup {p} ELSE Holders(e) \ {p}
    BY <1>2, <1>6, HoldersMove
  <2>. QED  BY <2>1, <2>2
<1>12. accesses' \in [Contexts -> Seq(Accesses)]
  <2>1. z \in Seq(Accesses)
    BY <1>5, NthOfTail
  <2>. QED  BY <1>1, <2>1 DEF BusType
<1>13. ASSUME NEW y \in Contexts PROVE Planned(y)'
  <2>1. CASE y = x
    BY <1>2, <1>4, <1>6, <1>7, <2>1 DEF Planned
  <2>2. CASE y # x
    BY <1>1, <1>6, <2>2 DEF Planned
  <2>. QED  BY <2>1, <2>2
<1>14. \A y \in Contexts \ {x} : Now(y)' = Now(y) /\ Soon(y)' = Soon(y)
  BY <1>6 DEF Now, Soon
<1>15. Now(x) = a /\ Soon(x) = s /\ Now(x)' = s /\ Soon(x)' = t
  BY <1>6, <1>8 DEF Now, Soon
<1>16. p \in Buses!OnPba \cup Buses!OnPbb
  BY <1>3, UsesApart
<1>. HIDE DEF q, z, p, on, a, s, t
<1>17. Stepped(x, p, on, a, s, t)
  BY <1>3, <1>4, <1>7, <1>8, <1>9, <1>10, <1>11, <1>12, <1>13, <1>14, <1>15, <1>16 DEF Stepped
<1>. QED  BY <1>5, <1>17 DEF q

(* The context that does not run is in no section.                          *)
Out(y) ==
  /\ Depth(y) = 0 /\ Now(y).op \notin {"read", "write", "restore", "bridge", "count"}
  /\ \A k \in {0, 1} : ~Between(Now(y), Soon(y), k)

LEMMA DepthIsOut == ASSUME NEW y \in Contexts, Depth(y) = 0 PROVE Out(y)
<1>1. ASSUME NEW k \in {0, 1} PROVE Buses!Bridge[k] \in Bridges
  BY <1>1 DEF Bridges, Buses!Bridge
<1>2. Now(y).op \notin {"read", "write", "restore", "bridge", "count"}
  BY DEF Depth, Level
<1>3. ~(Now(y).op = "save" /\ Soon(y).op = "read" /\ Soon(y).bit \in Bridges)
  BY DEF Depth, Level
<1>4. ASSUME NEW k \in {0, 1} PROVE ~Between(Now(y), Soon(y), k)
  <2>1. Buses!Bridge[k] \in Bridges
    BY <1>1
  <2>. QED  BY <1>2, <1>3, <2>1 DEF Between, Stopping
<1>. QED  BY <1>2, <1>4 DEF Out

LEMMA OthersOut ==
  ASSUME BusInv, NEW x \in Contexts, Buses!Runs(x), NEW y \in Contexts \ {x}
  PROVE  Out(y)
<1>1. BusSections /\ Planned(y) /\ y \in Contexts
  BY DEF BusInv
<1>2. CASE x = "main"
  <2>1. ~handling /\ y = "handler"
    BY <1>2 DEF Buses!Runs, Contexts
  <2>2. accesses[y] = <<>>
    BY <1>1, <2>1 DEF BusSections, Planned
  <2>. DEFINE none == Buses!Do("none")
  <2>3. Now(y) = none /\ none.op = "none"
    BY <2>2, DoNothing DEF Now, Nth
  <2>. HIDE DEF none
  <2>4. Depth(y) = 0
    BY <2>3 DEF Depth, Level
  <2>. QED  BY <1>1, <2>4, DepthIsOut
<1>3. CASE x = "handler"
  <2>1. handling /\ y = "main"
    BY <1>3 DEF Buses!Runs, Contexts
  <2>. QED  BY <1>1, <2>1, DepthIsOut DEF BusSections
<1>. QED  BY <1>2, <1>3 DEF Contexts

LEMMA DepthMoves ==
  ASSUME NEW x \in Contexts, NEW p, NEW on, NEW a, NEW s, NEW t, Stepped(x, p, on, a, s, t), a.op # "none"
  PROVE  /\ a.op = "save" => Depth(x) \in {0, 1} /\ Depth(x)' = Depth(x) + 1
         /\ a.op = "restore" => Depth(x)' \in {0, 1} /\ Depth(x) = Depth(x)' + 1
         /\ a.op \notin {"save", "restore"} => Depth(x)' = Depth(x)
         /\ \A y \in Contexts \ {x} : Depth(y)' = Depth(y)
<1>1. Depth(x) = Level(a, s) /\ Depth(x)' = Level(s, t)
  BY DEF Stepped, Depth
<1>2. PICK u : Follows(a, s, t) /\ Follows(s, t, u) /\ a.op \in Ops
  BY DEF Stepped
<1>3. \A y \in Contexts \ {x} : Depth(y)' = Depth(y)
  BY DEF Stepped, Depth
<1>. QED  BY <1>1, <1>2, <1>3, LevelMoves

LEMMA SectionsStay ==
  ASSUME BusInv, NEW x \in Contexts, NEW p, NEW on, NEW a, NEW s, NEW t, Stepped(x, p, on, a, s, t),
         a.op \notin {"save", "restore", "none"}, UNCHANGED <<saved, gm, handling, current>>
  PROVE  BusSections'
<1>1. \A y \in Contexts : Depth(y)' = Depth(y)
  BY DepthMoves
<1>2. BusSections /\ saved' = saved /\ gm' = gm /\ handling' = handling /\ current' = current
  BY DEF BusInv
<1>. QED  BY <1>1, <1>2 DEF BusSections, Contexts

LEMMA ShortStacks ==
  ASSUME NEW u, NEW w
  PROVE  /\ Tail(<<u>>) = <<>> /\ Head(<<u>>) = u /\ Tail(<<u, w>>) = <<w>> /\ Head(<<u, w>>) = u
         /\ <<u>> \o <<w>> = <<u, w>> /\ <<u>> \o <<>> = <<u>>
<1>1. Tail(<<u>>) = <<>> /\ Head(<<u>>) = u
  OBVIOUS
<1>2. Tail(<<u, w>>) = <<w>> /\ Head(<<u, w>>) = u
  OBVIOUS
<1>3. <<u>> \o <<w>> = <<u, w>>
  <2>. DEFINE S == {u, w}
              q == <<u>>
              r == <<w>>
              z == <<u, w>>
  <2>1. q \in Seq(S) /\ Len(q) = 1 /\ q[1] = u /\ r \in Seq(S) /\ Len(r) = 1 /\ r[1] = w
    OBVIOUS
  <2>2. z \in Seq(S) /\ Len(z) = 2 /\ z[1] = u /\ z[2] = w
    OBVIOUS
  <2>. HIDE DEF q, r, z, S
  <2>3. /\ q \o r \in Seq(S) /\ Len(q \o r) = 2
        /\ (q \o r)[1] = u /\ (q \o r)[2] = w
    <3>1. /\ q \o r \in Seq(S) /\ Len(q \o r) = Len(q) + Len(r)
          /\ \A i \in 1..Len(q) + Len(r) : (q \o r)[i] = IF i <= Len(q) THEN q[i] ELSE r[i - Len(q)]
      BY <2>1, ConcatProperties
    <3>. QED  BY <2>1, <3>1
  <2>4. \A i \in 1..2 : (q \o r)[i] = z[i]
    BY <2>2, <2>3
  <2>5. q \o r = z
    BY <2>2, <2>3, <2>4, SeqEqual
  <2>. QED  BY <2>5 DEF q, r, z
<1>4. <<u>> \o <<>> = <<u>>
  OBVIOUS
<1>. QED  BY <1>1, <1>2, <1>3, <1>4

LEMMA SaveSections ==
  ASSUME BusInv, NEW x \in Contexts, NEW p, NEW on, NEW a, NEW s, NEW t, Stepped(x, p, on, a, s, t),
         a.op = "save", Buses!Runs(x), saved' = [saved EXCEPT ![x] = <<gm>> \o @], gm' = TRUE, UNCHANGED <<handling, current>>
  PROVE  BusSections' /\ saved' \in [Contexts -> {Stack(0), Stack(1), Stack(2)}]
<1>1. /\ Depth(x) \in {0, 1} /\ Depth(x)' = Depth(x) + 1
      /\ \A y \in Contexts \ {x} : Depth(y)' = Depth(y) /\ Depth(y) = 0
  BY DepthMoves, OthersOut DEF Out
<1>2. /\ BusSections /\ handling' = handling /\ current' = current
      /\ saved \in [Contexts -> {Stack(0), Stack(1), Stack(2)}] /\ gm \in BOOLEAN
  BY DEF BusInv, BusType
<1>3. gm <=> Depth(x) > 0
  <2>1. \A y \in Contexts : Depth(y) > 0 => y = x
    BY <1>1
  <2>. QED  BY <1>2, <2>1 DEF BusSections
<1>4. <<gm>> \o saved[x] = Stack(Depth(x) + 1)
  <2>1. saved[x] = Stack(Depth(x))
    BY <1>2 DEF BusSections
  <2>2. CASE Depth(x) = 0
    <3>1. gm = FALSE /\ saved[x] = <<>> /\ Stack(Depth(x) + 1) = <<FALSE>>
      BY <1>2, <1>3, <2>1, <2>2 DEF Stack
    <3>2. <<FALSE>> \o <<>> = <<FALSE>>
      BY ShortStacks
    <3>. QED  BY <3>1, <3>2
  <2>3. CASE Depth(x) = 1
    <3>1. gm = TRUE /\ saved[x] = <<FALSE>> /\ Stack(Depth(x) + 1) = <<TRUE, FALSE>>
      BY <1>2, <1>3, <2>1, <2>3 DEF Stack
    <3>2. <<TRUE>> \o <<FALSE>> = <<TRUE, FALSE>>
      BY ShortStacks
    <3>. QED  BY <3>1, <3>2
  <2>. QED  BY <1>1, <2>2, <2>3
<1>5. Depth(x)' \in {1, 2} /\ Stack(Depth(x)') \in {Stack(0), Stack(1), Stack(2)}
  BY <1>1
<1>6. saved'[x] = Stack(Depth(x)') /\ \A y \in Contexts \ {x} : saved'[y] = saved[y]
  BY <1>1, <1>2, <1>4
<1>7. \A y \in Contexts : saved'[y] = Stack(Depth(y)')
  BY <1>1, <1>2, <1>6 DEF BusSections
<1>8. saved' \in [Contexts -> {Stack(0), Stack(1), Stack(2)}]
  BY <1>1, <1>2, <1>4, <1>5
<1>9. handling => x = "handler"
  BY DEF Buses!Runs, Contexts
<1>10. handling' => Depth("main")' = 0
  BY <1>1, <1>2, <1>9 DEF Contexts
<1>11. gm' <=> \E y \in Contexts : Depth(y)' > 0
  BY <1>1
<1>12. (~handling)' => (current["handler"] = <<>>)'
  BY <1>2 DEF BusSections
<1>. QED  BY <1>7, <1>8, <1>10, <1>11, <1>12 DEF BusSections

LEMMA RestoreSections ==
  ASSUME BusInv, NEW x \in Contexts, NEW p, NEW on, NEW a, NEW s, NEW t, Stepped(x, p, on, a, s, t),
         a.op = "restore", Buses!Runs(x), saved' = [saved EXCEPT ![x] = Tail(@)], gm' = Head(saved[x]),
         UNCHANGED <<handling, current>>
  PROVE  BusSections' /\ saved' \in [Contexts -> {Stack(0), Stack(1), Stack(2)}] /\ gm' \in BOOLEAN
<1>1. /\ Depth(x)' \in {0, 1} /\ Depth(x) = Depth(x)' + 1
      /\ \A y \in Contexts \ {x} : Depth(y)' = Depth(y) /\ Depth(y) = 0
  BY DepthMoves, OthersOut DEF Out
<1>2. /\ BusSections /\ handling' = handling /\ current' = current
      /\ saved \in [Contexts -> {Stack(0), Stack(1), Stack(2)}] /\ gm \in BOOLEAN
  BY DEF BusInv, BusType
<1>4. Tail(saved[x]) = Stack(Depth(x)') /\ Head(saved[x]) \in BOOLEAN /\ (Head(saved[x]) <=> Depth(x)' > 0)
  <2>1. saved[x] = Stack(Depth(x))
    BY <1>2 DEF BusSections
  <2>2. CASE Depth(x)' = 0
    <3>1. saved[x] = <<FALSE>> /\ Stack(Depth(x)') = <<>>
      BY <1>1, <2>1, <2>2 DEF Stack
    <3>2. Tail(<<FALSE>>) = <<>> /\ Head(<<FALSE>>) = FALSE
      BY ShortStacks, Zenon
    <3>3. ~(Depth(x)' > 0)
      BY <2>2
    <3>. QED  BY <3>1, <3>2, <3>3, Zenon
  <2>3. CASE Depth(x)' = 1
    <3>1. saved[x] = <<TRUE, FALSE>> /\ Stack(Depth(x)') = <<FALSE>>
      BY <1>1, <2>1, <2>3 DEF Stack
    <3>2. Tail(<<TRUE, FALSE>>) = <<FALSE>> /\ Head(<<TRUE, FALSE>>) = TRUE
      BY ShortStacks, Zenon
    <3>3. Depth(x)' > 0
      BY <2>3
    <3>. QED  BY <3>1, <3>2, <3>3, Zenon
  <2>. QED  BY <1>1, <2>2, <2>3, ZenonT(60)
<1>5. Stack(Depth(x)') \in {Stack(0), Stack(1), Stack(2)}
  BY <1>1
<1>6. saved'[x] = Stack(Depth(x)') /\ \A y \in Contexts \ {x} : saved'[y] = saved[y]
  BY <1>1, <1>2, <1>4, ZenonT(60)
<1>7. \A y \in Contexts : saved'[y] = Stack(Depth(y)')
  BY <1>1, <1>2, <1>6 DEF BusSections
<1>8. saved' \in [Contexts -> {Stack(0), Stack(1), Stack(2)}]
  BY <1>1, <1>2, <1>4, <1>5, ZenonT(60)
<1>9. handling => x = "handler"
  BY DEF Buses!Runs, Contexts
<1>10. handling' => Depth("main")' = 0
  BY <1>1, <1>2, <1>9 DEF Contexts
<1>11. gm' <=> \E y \in Contexts : Depth(y)' > 0
  <2>1. (\E y \in Contexts : Depth(y)' > 0) <=> Depth(x)' > 0
    BY <1>1
  <2>2. gm' <=> Head(saved[x])
    BY Zenon
  <2>. QED  BY <1>4, <2>1, <2>2, Zenon
<1>12. (~handling)' => (current["handler"] = <<>>)'
  BY <1>2 DEF BusSections
<1>. QED  BY <1>4, <1>7, <1>8, <1>10, <1>11, <1>12, ZenonT(60) DEF BusSections

LEMMA HoldersKept ==
  ASSUME NEW x, NEW p, NEW on, NEW a, NEW s, NEW t, Stepped(x, p, on, a, s, t)
  PROVE  /\ \A e \in Kinds \ {Kind(a)} : Holders(e)' = Holders(e)
         /\ \A g \in Groups \ {Kind(a)} : OfGroup(g)' = OfGroup(g)
         /\ Kind(a) # "count" => \A k \in {0, 1} : Counted(k)' = Counted(k)
         /\ Kind(a) # "genclk" => ("USB" \in Holders("genclk"))' = ("USB" \in Holders("genclk"))
<1>1. ASSUME NEW e \in Kinds \ {Kind(a)} PROVE Holders(e)' = Holders(e)
  BY DEF Stepped
<1>2. Groups \subseteq Kinds /\ "count" \in Kinds /\ "genclk" \in Kinds
  BY DEF Groups, Kinds
<1>3. ASSUME NEW g \in Groups \ {Kind(a)} PROVE OfGroup(g)' = OfGroup(g)
  BY <1>1, <1>2 DEF OfGroup, Members
<1>4. ASSUME Kind(a) # "count", NEW k \in {0, 1} PROVE Counted(k)' = Counted(k)
  BY <1>1, <1>2, <1>4 DEF Counted
<1>. QED  BY <1>1, <1>2, <1>3, <1>4

LEMMA BridgesKept ==
  ASSUME NEW x \in Contexts, NEW p, NEW on, NEW a, NEW s, NEW t, Stepped(x, p, on, a, s, t),
         a.op \notin {"none", "bridge", "count"}, ~(a.op = "write" /\ a.bit \in Bridges),
         sysclk_bus_refcount' = sysclk_bus_refcount
  PROVE  /\ BridgesOn' = BridgesOn
         /\ \A y \in Contexts, k \in {0, 1} : Stopping(Now(y), Soon(y), k)' <=> Stopping(Now(y), Soon(y), k)
<1>1. PICK u : /\ Follows(a, s, t) /\ Follows(s, t, u) /\ a.op \in Ops
               /\ a \in Accesses /\ s \in Accesses /\ t \in Accesses /\ on \in BOOLEAN
               /\ Mine(p, on, a) /\ Mine(p, on, s) /\ Mine(p, on, t)
  BY DEF Stepped
<1>2. /\ Now(x) = a /\ Soon(x) = s /\ Now(x)' = s /\ Soon(x)' = t
      /\ \A y \in Contexts \ {x} : Now(y)' = Now(y) /\ Soon(y)' = Soon(y)
  BY DEF Stepped
<1>3. ASSUME NEW k \in {0, 1}
      PROVE  (Between(s, t, k) <=> Between(a, s, k)) /\ (Stopping(s, t, k) <=> Stopping(a, s, k))
  BY <1>1, BetweenMoves
<1>4. ASSUME NEW y \in Contexts, NEW k \in {0, 1}
      PROVE  /\ Between(Now(y), Soon(y), k)' <=> Between(Now(y), Soon(y), k)
             /\ Stopping(Now(y), Soon(y), k)' <=> Stopping(Now(y), Soon(y), k)
  <2>1. CASE y = x
    BY <1>2, <1>3, <2>1
  <2>2. CASE y # x
    <3>1. Now(y)' = Now(y) /\ Soon(y)' = Soon(y)
      BY <1>2, <2>2
    <3>. QED  BY <3>1 DEF Between, Stopping
  <2>. QED  BY <2>1, <2>2
<1>5. ASSUME NEW k \in {0, 1} PROVE BridgeOn(k)' <=> BridgeOn(k)
  BY <1>4 DEF BridgeOn
<1>6. BridgesOn' = BridgesOn
  BY <1>5 DEF BridgesOn
<1>. QED  BY <1>4, <1>6

LEMMA ReadKept ==
  ASSUME BusInv, NEW x \in Contexts, NEW p, NEW on, NEW a, NEW s, NEW t, Stepped(x, p, on, a, s, t),
         a.op \notin {"none", "write"}, masks' = masks,
         mask' = IF a.op = "read" THEN [mask EXCEPT ![x] = masks[a.grp]] ELSE mask
  PROVE  LastRead' /\ mask' \in [Contexts -> SUBSET Bits]
<1>1. /\ Follows(a, s, t) /\ a.op \in Ops /\ Now(x)' = s /\ Mine(p, on, a)
      /\ \A y \in Contexts \ {x} : Now(y)' = Now(y)
  BY DEF Stepped
<1>2. LastRead /\ mask \in [Contexts -> SUBSET Bits] /\ masks \in [Groups -> SUBSET Bits]
  BY DEF BusInv, BusType
<1>3. a.op = "read" => a.grp \in Groups
  BY <1>1 DEF Mine
<1>4. mask' \in [Contexts -> SUBSET Bits] /\ \A y \in Contexts \ {x} : mask'[y] = mask[y]
  BY <1>2, <1>3
<1>5. s.op = "write" => a.op = "read" /\ s.grp = a.grp
  BY <1>1 DEF Follows, Ops, Opening
<1>6. s.op = "write" => mask'[x] = masks[s.grp]
  BY <1>2, <1>5
<1>. QED  BY <1>1, <1>2, <1>4, <1>6 DEF LastRead

LEMMA OscKept ==
  ASSUME BusInv, NEW x \in Contexts, NEW p, NEW on, NEW a, NEW s, NEW t, Stepped(x, p, on, a, s, t),
         a.op # "none", a.op = "osc_wait_ready" => usbOsc = "ready", usbOsc = "ready" => usbOsc' = "ready"
  PROVE  OscSeen'
<1>1. Follows(a, s, t) /\ Now(x)' = s /\ \A y \in Contexts \ {x} : Now(y)' = Now(y)
  BY DEF Stepped
<1>2. s.op = "genclk" /\ s.on => usbOsc' = "ready"
  BY <1>1 DEF Follows
<1>. QED  BY <1>1, <1>2 DEF BusInv, OscSeen

(* A step that clocks nothing.                                              *)
LEMMA QuietStep ==
  ASSUME BusInv, NEW x \in Contexts, NEW p, NEW on, NEW a, NEW s, NEW t, Stepped(x, p, on, a, s, t),
         a.op \in {"save", "restore", "read", "osc_enable", "osc_wait_ready"},
         UNCHANGED <<current, handling, masks, sysclk_bus_refcount, genclk, wanted>>,
         mask' = IF a.op = "read" THEN [mask EXCEPT ![x] = masks[a.grp]] ELSE mask,
         a.op = "osc_wait_ready" => usbOsc = "ready", usbOsc = "ready" => usbOsc' = "ready",
         BusSections', saved' \in [Contexts -> {Stack(0), Stack(1), Stack(2)}], gm' \in BOOLEAN
  PROVE  BusInv'
<1>1. BusType /\ BusMasks /\ BusCounts /\ UsbClock
  BY DEF BusInv
<1>2. /\ LastRead' /\ mask' \in [Contexts -> SUBSET Bits]
  BY ReadKept
<1>3. OscSeen'
  BY OscKept
<1>4. Kind(a) = "none" /\ "none" \notin Kinds /\ "none" \notin Groups
  BY DEF Kind, Kinds, Groups
<1>5. /\ \A g \in Groups : OfGroup(g)' = OfGroup(g)
      /\ \A k \in {0, 1} : Counted(k)' = Counted(k)
      /\ ("USB" \in Holders("genclk"))' = ("USB" \in Holders("genclk"))
  BY <1>4, HoldersKept
<1>6. /\ BridgesOn' = BridgesOn
      /\ \A y \in Contexts, k \in {0, 1} : Stopping(Now(y), Soon(y), k)' <=> Stopping(Now(y), Soon(y), k)
  BY BridgesKept
<1>7. BusMasks'
  BY <1>1, <1>5, <1>6 DEF BusMasks, Groups
<1>8. BusCounts'
  BY <1>1, <1>5, <1>6 DEF BusCounts
<1>9. UsbClock'
  BY <1>1, <1>5 DEF UsbClock
<1>10. BusType'
  BY <1>1, <1>2 DEF BusType, Stepped
<1>11. \A y \in Contexts : Planned(y)'
  BY DEF Stepped
<1>. QED  BY <1>2, <1>3, <1>7, <1>8, <1>9, <1>10, <1>11 DEF BusInv

LEMMA SaveStep == ASSUME BusInv, NEW x \in Contexts, Buses!cpu_irq_save(x) PROVE BusInv'
<1>. USE DEF Buses!cpu_irq_save, Buses!Next_access, Buses!Done
<1>1. PICK p, on, a, s, t : Stepped(x, p, on, a, s, t) /\ a = Head(accesses[x])
  BY StepFacts
<1>2. a.op = "save" /\ Buses!Runs(x) /\ gm' = TRUE /\ saved' = [saved EXCEPT ![x] = <<gm>> \o @]
  BY <1>1 DEF Buses!Masked
<1>3. BusSections' /\ saved' \in [Contexts -> {Stack(0), Stack(1), Stack(2)}]
  BY <1>1, <1>2, SaveSections
<1>. QED  BY <1>1, <1>2, <1>3, QuietStep

LEMMA RestoreStep == ASSUME BusInv, NEW x \in Contexts, Buses!cpu_irq_restore(x) PROVE BusInv'
<1>. USE DEF Buses!cpu_irq_restore, Buses!Next_access, Buses!Done
<1>1. PICK p, on, a, s, t : Stepped(x, p, on, a, s, t) /\ a = Head(accesses[x])
  BY StepFacts
<1>2. a.op = "restore" /\ Buses!Runs(x) /\ gm' = Head(saved[x]) /\ saved' = [saved EXCEPT ![x] = Tail(@)]
  BY <1>1 DEF Buses!Restored
<1>3. BusSections' /\ saved' \in [Contexts -> {Stack(0), Stack(1), Stack(2)}] /\ gm' \in BOOLEAN
  BY <1>1, <1>2, RestoreSections
<1>. QED  BY <1>1, <1>2, <1>3, QuietStep

LEMMA OtherQuietSteps ==
  ASSUME BusInv, NEW x \in Contexts, Buses!ReadMask(x) \/ Buses!OscEnable(x) \/ Buses!OscWaitReady(x) PROVE BusInv'
<1>. USE DEF Buses!ReadMask, Buses!OscEnable, Buses!OscWaitReady, Buses!Next_access, Buses!Done, Buses!IsReady
<1>1. PICK p, on, a, s, t : Stepped(x, p, on, a, s, t) /\ a = Head(accesses[x])
  BY StepFacts
<1>2. a.op \in {"read", "osc_enable", "osc_wait_ready"}
  BY <1>1
<1>3. UNCHANGED <<saved, gm, handling, current, masks, sysclk_bus_refcount, genclk, wanted>>
  OBVIOUS
<1>4. mask' = IF a.op = "read" THEN [mask EXCEPT ![x] = masks[a.grp]] ELSE mask
  BY <1>1
<1>5. (a.op = "osc_wait_ready" => usbOsc = "ready") /\ (usbOsc = "ready" => usbOsc' = "ready")
  BY <1>1
<1>6. BusSections'
  BY <1>1, <1>2, <1>3, SectionsStay
<1>7. saved' \in [Contexts -> {Stack(0), Stack(1), Stack(2)}] /\ gm' \in BOOLEAN
  BY <1>3 DEF BusInv, BusType
<1>. QED  BY <1>1, <1>2, <1>3, <1>4, <1>5, <1>6, <1>7, QuietStep

(* What is common to the steps that clock something.                        *)
LEMMA ClockingStep ==
  ASSUME BusInv, NEW x \in Contexts, NEW p, NEW on, NEW a, NEW s, NEW t, Stepped(x, p, on, a, s, t),
         a.op \in {"write", "count", "bridge", "genclk"},
         UNCHANGED <<saved, gm, current, handling, mask, usbOsc, wanted>>
  PROVE  /\ BusSections' /\ OscSeen' /\ (\A y \in Contexts : Planned(y)')
         /\ masks' \in [Groups -> SUBSET Bits] /\ sysclk_bus_refcount' \in [{0, 1} -> Nat] /\ genclk' \in BOOLEAN => BusType'
         /\ a.op # "write" /\ masks' = masks => LastRead'
<1>1. BusSections'
  BY SectionsStay
<1>2. OscSeen'
  BY OscKept
<1>3. masks' \in [Groups -> SUBSET Bits] /\ sysclk_bus_refcount' \in [{0, 1} -> Nat] /\ genclk' \in BOOLEAN => BusType'
  BY DEF BusInv, BusType, Stepped
<1>4. a.op # "write" /\ masks' = masks => LastRead'
  BY ReadKept
<1>. QED  BY <1>1, <1>2, <1>3, <1>4 DEF Stepped

LEMMA ModulesApart ==
  ASSUME NEW p \in Users
  PROVE  /\ \A q \in Users \ {p} : Buses!Module(q) # Buses!Module(p)
         /\ \A g \in Groups : Buses!Module(p) \notin Buses!Minimal[g]
         /\ Buses!Module(p) \notin Bridges
<1>1. /\ Users \subseteq (Buses!OnPba \cup Buses!OnPbb) \ {"INTC", "GPIO", "PM", "FLASHC"}
      /\ ~("USB" \in Users /\ "USBB" \in Users)
  BY BusAssumption DEF Users
<1>2. \A q \in Users \ {p} : Buses!Module(q) # Buses!Module(p)
  BY <1>1 DEF Buses!Module
<1>3. Buses!Module(p) \in (Buses!OnPba \cup Buses!OnPbb) \ {"INTC", "GPIO", "PM", "FLASHC"}
  BY <1>1 DEF Buses!Module, Buses!OnPbb
<1>4. \A g \in Groups : Buses!Minimal[g] \subseteq {"INTC", "GPIO", "PM", "FLASHC", "PBA_BRIDGE", "HRAMC0", "HRAMC1"}
  BY DEF Groups, Buses!Minimal
<1>5. Buses!Module(p) \notin {"PBA_BRIDGE", "HRAMC0", "HRAMC1"} \cup Bridges
  BY <1>3 DEF Buses!OnPba, Buses!OnPbb, Bridges
<1>6. \A g \in Groups : Buses!Module(p) \notin Buses!Minimal[g]
  BY <1>3, <1>4, <1>5
<1>. QED  BY <1>2, <1>5, <1>6

(* A module's bit is set when it becomes needed, and cleared when not.       *)
LEMMA GroupMoves ==
  ASSUME NEW g \in Groups, NEW p \in Users, p \in Members[g], NEW on \in BOOLEAN,
         Holders(g)' = IF on THEN Holders(g) \cup {p} ELSE Holders(g) \ {p}
  PROVE  OfGroup(g)' = IF on THEN OfGroup(g) \cup {Buses!Module(p)} ELSE OfGroup(g) \ {Buses!Module(p)}
<1>1. Holders(g) \subseteq Users
  BY DEF Holders
<1>2. Buses!Module(p) \notin Buses!Minimal[g] /\ \A q \in Users \ {p} : Buses!Module(q) # Buses!Module(p)
  BY ModulesApart
<1>3. OfGroup(g)' = Buses!Minimal[g] \cup {Buses!Module(q) : q \in (Holders(g)') \cap Members[g]}
  BY DEF OfGroup
<1>4. CASE on
  BY <1>3, <1>4 DEF OfGroup
<1>5. CASE ~on
  <2>1. OfGroup(g)' \subseteq OfGroup(g) \ {Buses!Module(p)}
    BY <1>1, <1>2, <1>3, <1>5 DEF OfGroup
  <2>2. OfGroup(g) \ {Buses!Module(p)} \subseteq OfGroup(g)'
    BY <1>1, <1>2, <1>3, <1>5 DEF OfGroup
  <2>. QED  BY <1>5, <2>1, <2>2
<1>. QED  BY <1>4, <1>5

(* What a write to the masks does.                                          *)
Written(a, x) ==
  masks' = [masks EXCEPT ![a.grp] = IF a.on THEN mask[x] \cup {a.bit} ELSE mask[x] \ {a.bit}]

Overwritten(x, on, a) ==
  /\ masks' \in [Groups -> SUBSET Bits] /\ a.grp \in Groups /\ LastRead'
  /\ \A g \in Groups \ {a.grp} : masks'[g] = masks[g]
  /\ masks'[a.grp] = IF on THEN masks[a.grp] \cup {a.bit} ELSE masks[a.grp] \ {a.bit}
  /\ \A y \in Contexts \ {x} : Out(y)

LEMMA WriteBasics ==
  ASSUME BusInv, NEW x \in Contexts, NEW p, NEW on, NEW a, NEW s, NEW t, Stepped(x, p, on, a, s, t),
         a.op = "write", Written(a, x), Buses!Runs(x)
  PROVE  Overwritten(x, on, a)
<1>1. /\ Mine(p, on, a) /\ a \in Accesses /\ Now(x) = a /\ Now(x)' = s /\ Follows(a, s, t)
      /\ \A y \in Contexts \ {x} : Now(y)' = Now(y)
  BY DEF Stepped
<1>2. a.grp \in Groups /\ a.on = on /\ a.bit \in Bits
  BY <1>1, ZenonT(60) DEF Mine, Accesses
<1>3. mask[x] = masks[a.grp] /\ masks \in [Groups -> SUBSET Bits]
  BY <1>1 DEF BusInv, BusType, LastRead
<1>4. masks' \in [Groups -> SUBSET Bits]
  BY <1>2, <1>3 DEF Written
<1>5. \A y \in Contexts \ {x} : Out(y)
  BY OthersOut
<1>6. s.op # "write"
  BY <1>1 DEF Follows
<1>7. \A y \in Contexts : Now(y)'.op # "write"
  BY <1>1, <1>5, <1>6 DEF Out
<1>8. LastRead'
  BY <1>7 DEF LastRead
<1>9. \A g \in Groups \ {a.grp} : masks'[g] = masks[g]
  BY <1>2, <1>3 DEF Written
<1>10. masks'[a.grp] = IF on THEN masks[a.grp] \cup {a.bit} ELSE masks[a.grp] \ {a.bit}
  BY <1>2, <1>3 DEF Written
<1>. QED  BY <1>2, <1>4, <1>5, <1>8, <1>9, <1>10 DEF Overwritten

LEMMA WriteModule ==
  ASSUME BusInv, NEW x \in Contexts, NEW p, NEW on, NEW a, NEW s, NEW t, Stepped(x, p, on, a, s, t),
         a.op = "write", Written(a, x), Buses!Runs(x), a.bit \notin Bridges,
         UNCHANGED <<sysclk_bus_refcount, genclk, usbOsc>>
  PROVE  BusMasks' /\ BusCounts' /\ UsbClock'
<1>1. BusMasks /\ BusCounts /\ UsbClock
  BY DEF BusInv
<1>. DEFINE g == a.grp
            m == Buses!Module(p)
<1>2. g \in Groups /\ p \in Members[g] /\ a.bit = m /\ Kind(a) = g /\ p \in Users /\ on \in BOOLEAN /\ g \in Kinds
  BY DEF Stepped, Mine, Kind, Kinds, Groups
<1>3. /\ \A h \in Groups \ {g} : masks'[h] = masks[h]
      /\ masks'[g] = IF on THEN masks[g] \cup {m} ELSE masks[g] \ {m}
  <2>1. Overwritten(x, on, a)
    BY WriteBasics
  <2>. QED  BY <1>2, <2>1 DEF Overwritten
<1>4. Holders(g)' = IF on THEN Holders(g) \cup {p} ELSE Holders(g) \ {p}
  BY <1>2 DEF Stepped
<1>5. OfGroup(g)' = IF on THEN OfGroup(g) \cup {m} ELSE OfGroup(g) \ {m}
  BY <1>2, <1>4, GroupMoves
<1>6. /\ \A h \in Groups \ {g} : OfGroup(h)' = OfGroup(h)
      /\ \A k \in {0, 1} : Counted(k)' = Counted(k)
      /\ ("USB" \in Holders("genclk"))' = ("USB" \in Holders("genclk"))
  <2>1. Kind(a) # "count" /\ Kind(a) # "genclk"
    BY <1>2 DEF Groups
  <2>. QED  BY <1>2, <2>1, HoldersKept
<1>7. /\ BridgesOn' = BridgesOn
      /\ \A y \in Contexts, k \in {0, 1} : Stopping(Now(y), Soon(y), k)' <=> Stopping(Now(y), Soon(y), k)
  BY BridgesKept
<1>8. m \notin BridgesOn
  BY <1>2, ModulesApart DEF BridgesOn, Buses!Bridge, Bridges
<1>. HIDE DEF g, m
<1>9. BusMasks'
  <2>1. CASE g = "hsb"
    BY <1>1, <1>3, <1>5, <1>6, <1>7, <1>8, <2>1 DEF BusMasks, Groups
  <2>2. CASE g = "pba"
    BY <1>1, <1>3, <1>5, <1>6, <1>7, <2>2 DEF BusMasks, Groups
  <2>3. CASE g = "pbb"
    BY <1>1, <1>3, <1>5, <1>6, <1>7, <2>3 DEF BusMasks, Groups
  <2>. QED  BY <1>2, <2>1, <2>2, <2>3 DEF Groups
<1>10. BusCounts'
  BY <1>1, <1>6, <1>7 DEF BusCounts
<1>11. UsbClock'
  BY <1>1, <1>6 DEF UsbClock
<1>. QED  BY <1>9, <1>10, <1>11

LEMMA WriteBridge ==
  ASSUME BusInv, NEW x \in Contexts, NEW p, NEW on, NEW a, NEW s, NEW t, Stepped(x, p, on, a, s, t),
         a.op = "write", Written(a, x), Buses!Runs(x), a.bit \in Bridges,
         UNCHANGED <<sysclk_bus_refcount, genclk, usbOsc>>
  PROVE  BusMasks' /\ BusCounts' /\ UsbClock'
<1>1. BusMasks /\ BusCounts /\ UsbClock
  BY DEF BusInv
<1>. DEFINE j == Buses!pbus_id(p)
            m == Buses!Bridge[j]
<1>2. j \in {0, 1} /\ a.grp = "hsb" /\ a.bit = m /\ Kind(a) = "none" /\ on \in BOOLEAN
  BY BusIds DEF Stepped, Mine, Kind
<1>3. /\ \A h \in Groups \ {"hsb"} : masks'[h] = masks[h]
      /\ masks'["hsb"] = IF on THEN masks["hsb"] \cup {m} ELSE masks["hsb"] \ {m}
      /\ \A y \in Contexts \ {x} : Out(y)
  <2>1. Overwritten(x, on, a)
    BY WriteBasics
  <2>. QED  BY <1>2, <2>1 DEF Overwritten
<1>4. /\ \A h \in Groups : OfGroup(h)' = OfGroup(h)
      /\ \A k \in {0, 1} : Counted(k)' = Counted(k)
      /\ ("USB" \in Holders("genclk"))' = ("USB" \in Holders("genclk"))
  <2>1. "none" \notin Groups
    BY DEF Groups
  <2>. QED  BY <1>2, <2>1, HoldersKept
<1>5. m \notin OfGroup("hsb")
  <2>1. m \in Bridges /\ m \notin Buses!Minimal["hsb"]
    BY <1>2 DEF Buses!Bridge, Bridges, Buses!Minimal
  <2>2. \A q \in Users : Buses!Module(q) # m
    BY <2>1, ModulesApart
  <2>. QED  BY <2>1, <2>2 DEF OfGroup, Holders
<1>6. PICK u : /\ Follows(a, s, t) /\ Follows(s, t, u) /\ a.op \in Ops
               /\ a \in Accesses /\ s \in Accesses /\ t \in Accesses
               /\ Mine(p, on, a) /\ Mine(p, on, s) /\ Mine(p, on, t)
  BY DEF Stepped
<1>7. /\ Now(x) = a /\ Soon(x) = s /\ Now(x)' = s /\ Soon(x)' = t
      /\ \A y \in Contexts \ {x} : Now(y)' = Now(y) /\ Soon(y)' = Soon(y)
  BY DEF Stepped
<1>8. ASSUME NEW k \in {0, 1}
      PROVE  /\ ~Stopping(s, t, k)
             /\ IF on THEN ~Between(a, s, k) /\ (Between(s, t, k) <=> k = j)
                ELSE (Stopping(a, s, k) <=> k = j) /\ (Between(a, s, k) <=> k = j) /\ ~Between(s, t, k)
  BY <1>2, <1>6, BetweenMoves
<1>. HIDE DEF m, j
<1>9. ASSUME NEW k \in {0, 1}, NEW y \in Contexts \ {x}
      PROVE  /\ ~Between(Now(y), Soon(y), k) /\ ~Between(Now(y)', Soon(y)', k)
             /\ ~Stopping(Now(y)', Soon(y)', k)
  <2>1. ~Between(Now(y), Soon(y), k)
    BY <1>3 DEF Out
  <2>. QED  BY <1>7, <2>1 DEF Between
<1>10. ASSUME NEW k \in {0, 1}
       PROVE  BridgeOn(k)' <=> IF k = j THEN on ELSE BridgeOn(k)
  <2>1. BridgeOn(k)' <=> sysclk_bus_refcount[k] > 0 \/ Between(s, t, k)
    BY <1>7, <1>9 DEF BridgeOn
  <2>2. BridgeOn(k) <=> sysclk_bus_refcount[k] > 0 \/ Between(a, s, k)
    BY <1>7, <1>9 DEF BridgeOn
  <2>3. ~on /\ k = j => sysclk_bus_refcount[k] = 0
    BY <1>1, <1>7, <1>8 DEF BusCounts
  <2>. QED  BY <1>2, <1>8, <2>1, <2>2, <2>3
<1>11. BridgesOn' = IF on THEN BridgesOn \cup {m} ELSE BridgesOn \ {m}
  <2>1. \A k \in {0, 1} : Buses!Bridge[k] = m <=> k = j
    BY <1>2 DEF m, Buses!Bridge
  <2>2. BridgesOn' = {Buses!Bridge[k] : k \in {k \in {0, 1} : BridgeOn(k)'}}
    BY DEF BridgesOn
  <2>3. CASE on
    <3>1. \A k \in {0, 1} : BridgeOn(k)' <=> k = j \/ BridgeOn(k)
      BY <1>2, <1>10, <2>3
    <3>. QED  BY <1>2, <2>1, <2>2, <2>3, <3>1 DEF BridgesOn
  <2>4. CASE ~on
    <3>1. \A k \in {0, 1} : BridgeOn(k)' <=> k # j /\ BridgeOn(k)
      BY <1>2, <1>10, <2>4
    <3>. QED  BY <1>2, <2>1, <2>2, <2>4, <3>1 DEF BridgesOn
  <2>. QED  BY <2>3, <2>4
<1>12. BusMasks'
  BY <1>1, <1>3, <1>4, <1>5, <1>11 DEF BusMasks, Groups
<1>13. BusCounts'
  <2>1. \A k \in {0, 1}, y \in Contexts : ~Stopping(Now(y)', Soon(y)', k)
    BY <1>7, <1>8, <1>9
  <2>. QED  BY <1>1, <1>4, <2>1 DEF BusCounts
<1>14. UsbClock'
  BY <1>1, <1>4 DEF UsbClock
<1>. QED  BY <1>12, <1>13, <1>14

LEMMA WriteStep == ASSUME BusInv, NEW x \in Contexts, Buses!WriteMask(x) PROVE BusInv'
<1>1. PICK p, on, a, s, t : Stepped(x, p, on, a, s, t) /\ a = Head(accesses[x])
  BY StepFacts DEF Buses!WriteMask, Buses!Next_access, Buses!Done
<1>2. a.op = "write" /\ Buses!Runs(x) /\ Written(a, x)
  BY <1>1 DEF Buses!WriteMask, Buses!Next_access, Written
<1>3. UNCHANGED <<saved, mask, current, gm, handling, sysclk_bus_refcount, usbOsc, genclk, wanted>>
  BY DEF Buses!WriteMask
<1>4. masks' \in [Groups -> SUBSET Bits] /\ LastRead'
  BY <1>1, <1>2, WriteBasics DEF Overwritten
<1>5. BusMasks' /\ BusCounts' /\ UsbClock'
  <2>1. CASE a.bit \in Bridges
    BY <1>1, <1>2, <1>3, <2>1, WriteBridge
  <2>2. CASE a.bit \notin Bridges
    BY <1>1, <1>2, <1>3, <2>2, WriteModule
  <2>. QED  BY <2>1, <2>2
<1>6. sysclk_bus_refcount' \in [{0, 1} -> Nat] /\ genclk' \in BOOLEAN
  BY <1>3 DEF BusInv, BusType
<1>7. BusSections' /\ OscSeen' /\ (\A y \in Contexts : Planned(y)') /\ BusType'
  BY <1>1, <1>2, <1>3, <1>4, <1>6, ClockingStep
<1>. QED  BY <1>4, <1>5, <1>7 DEF BusInv

AtMost(n, S) == IsFiniteSet(S) /\ Cardinality(S) <= n

LEMMA OneMore == ASSUME NEW S, NEW n \in Nat, AtMost(n, S), NEW e PROVE AtMost(n + 1, S \cup {e})
<1>1. Cardinality(S) \in Nat
  BY FS_CardinalityType DEF AtMost
<1>. QED  BY <1>1, FS_AddElement DEF AtMost

(* No bus has more modules than its counter counts.                         *)
LEMMA FewModules ==
  ASSUME NEW k \in {0, 1}
  PROVE  IsFiniteSet(Counted(k)) /\ Cardinality(Counted(k)) \in 0..11
<1>. DEFINE S0 == {}
            S1 == S0 \cup {"HMATRIX"}
            S2 == S1 \cup {"USBB"}
            S3 == S2 \cup {"FLASHC"}
            S4 == S3 \cup {"SMC"}
            S5 == S4 \cup {"SDRAMC"}
            S6 == S5 \cup {"ECCHRS"}
            S7 == S6 \cup {"MCI"}
            S8 == S7 \cup {"BUSMON"}
            S9 == S8 \cup {"MSI"}
            S10 == S9 \cup {"AES"}
            S11 == S10 \cup {"USB"}
<1>0. AtMost(0, S0)
  BY FS_EmptySet DEF AtMost
<1>12. Buses!OnPbb = S11
  BY DEF Buses!OnPbb
<1>. HIDE DEF S0, S1, S2, S3, S4, S5, S6, S7, S8, S9, S10, S11
<1>1. AtMost(1, S1)
  <2>1. AtMost(0 + 1, S0 \cup {"HMATRIX"})
    BY <1>0, OneMore
  <2>. QED  BY <2>1 DEF S1
<1>2. AtMost(2, S2)
  <2>1. AtMost(1 + 1, S1 \cup {"USBB"})
    BY <1>1, OneMore
  <2>. QED  BY <2>1 DEF S2
<1>3. AtMost(3, S3)
  <2>1. AtMost(2 + 1, S2 \cup {"FLASHC"})
    BY <1>2, OneMore
  <2>. QED  BY <2>1 DEF S3
<1>4. AtMost(4, S4)
  <2>1. AtMost(3 + 1, S3 \cup {"SMC"})
    BY <1>3, OneMore
  <2>. QED  BY <2>1 DEF S4
<1>5. AtMost(5, S5)
  <2>1. AtMost(4 + 1, S4 \cup {"SDRAMC"})
    BY <1>4, OneMore
  <2>. QED  BY <2>1 DEF S5
<1>6. AtMost(6, S6)
  <2>1. AtMost(5 + 1, S5 \cup {"ECCHRS"})
    BY <1>5, OneMore
  <2>. QED  BY <2>1 DEF S6
<1>7. AtMost(7, S7)
  <2>1. AtMost(6 + 1, S6 \cup {"MCI"})
    BY <1>6, OneMore
  <2>. QED  BY <2>1 DEF S7
<1>8. AtMost(8, S8)
  <2>1. AtMost(7 + 1, S7 \cup {"BUSMON"})
    BY <1>7, OneMore
  <2>. QED  BY <2>1 DEF S8
<1>9. AtMost(9, S9)
  <2>1. AtMost(8 + 1, S8 \cup {"MSI"})
    BY <1>8, OneMore
  <2>. QED  BY <2>1 DEF S9
<1>10. AtMost(10, S10)
  <2>1. AtMost(9 + 1, S9 \cup {"AES"})
    BY <1>9, OneMore
  <2>. QED  BY <2>1 DEF S10
<1>11. AtMost(11, S11)
  <2>1. AtMost(10 + 1, S10 \cup {"USB"})
    BY <1>10, OneMore
  <2>. QED  BY <2>1 DEF S11
<1>13. Counted(k) \subseteq S11
  BY <1>12 DEF Counted
<1>14. IsFiniteSet(Counted(k)) /\ Cardinality(Counted(k)) <= Cardinality(S11)
  BY <1>11, <1>13, FS_Subset DEF AtMost
<1>. QED  BY <1>11, <1>14, FS_CardinalityType DEF AtMost

LEMMA CountStep == ASSUME BusInv, NEW x \in Contexts, Buses!Count(x) PROVE BusInv'
<1>1. PICK p, on, a, s, t : Stepped(x, p, on, a, s, t) /\ a = Head(accesses[x])
  BY StepFacts DEF Buses!Count, Buses!Next_access, Buses!Done
<1>. DEFINE j == Buses!pbus_id(p)
<1>2. /\ a.op = "count" /\ Buses!Runs(x)
      /\ sysclk_bus_refcount' = [sysclk_bus_refcount EXCEPT ![a.bus] = (IF a.on THEN @ + 1 ELSE @ - 1) % 256]
  BY <1>1 DEF Buses!Count, Buses!Next_access
<1>3. UNCHANGED <<saved, mask, current, gm, handling, masks, usbOsc, genclk, wanted>>
  BY DEF Buses!Count
<1>4. /\ BusType /\ BusMasks /\ BusCounts /\ UsbClock
  BY DEF BusInv
<1>5. /\ j \in {0, 1} /\ a.bus = j /\ a.on = on /\ on \in BOOLEAN /\ p \in Buses!OnPbb /\ Kind(a) = "count"
  BY <1>1, <1>2, BusIds, ZenonT(60) DEF Stepped, Mine, Kind, Accesses
<1>6. /\ \A h \in Groups : OfGroup(h)' = OfGroup(h)
      /\ ("USB" \in Holders("genclk"))' = ("USB" \in Holders("genclk"))
  <2>1. Kind(a) # "genclk" /\ "count" \notin Groups
    BY <1>5 DEF Groups
  <2>. QED  BY <1>1, <1>5, <2>1, HoldersKept
<1>7. /\ p \in Holders("count") <=> ~on
      /\ Holders("count")' = IF on THEN Holders("count") \cup {p} ELSE Holders("count") \ {p}
  <2>1. "count" \in Kinds
    BY DEF Kinds
  <2>. QED  BY <1>1, <1>5, <2>1 DEF Stepped
<1>. HIDE DEF j
<1>8. /\ \A k \in {0, 1} \ {j} : Counted(k)' = Counted(k)
      /\ p \in Counted(j) <=> ~on
      /\ Counted(j)' = IF on THEN Counted(j) \cup {p} ELSE Counted(j) \ {p}
  BY <1>5, <1>7 DEF Counted, j
<1>9. ASSUME NEW k \in {0, 1}
      PROVE  /\ sysclk_bus_refcount'[k] = Cardinality(Counted(k)') /\ sysclk_bus_refcount'[k] \in Nat
             /\ k # j => sysclk_bus_refcount'[k] = sysclk_bus_refcount[k]
             /\ on => sysclk_bus_refcount'[j] > 0
             /\ ~on => sysclk_bus_refcount[j] > 0
  <2>. DEFINE c == Cardinality(Counted(j))
  <2>1. c \in 0..11 /\ IsFiniteSet(Counted(j)) /\ sysclk_bus_refcount[j] = c
    BY <1>4, <1>5, FewModules DEF BusCounts
  <2>2. on => Cardinality(Counted(j) \cup {p}) = c + 1
    BY <1>8, <2>1, FS_AddElement
  <2>3. ~on => Cardinality(Counted(j) \ {p}) = c - 1 /\ Cardinality(Counted(j) \ {p}) \in Nat
    <3>1. IsFiniteSet(Counted(j) \ {p}) /\ (p \in Counted(j) => Cardinality(Counted(j) \ {p}) = c - 1)
      BY <2>1, FS_RemoveElement
    <3>. QED  BY <1>8, <3>1, FS_CardinalityType
  <2>4. sysclk_bus_refcount'[j] = (IF on THEN c + 1 ELSE c - 1) % 256
    BY <1>2, <1>4, <1>5, <2>1 DEF BusType
  <2>. HIDE DEF c
  <2>5. ~on => c > 0
    BY <2>1, <2>3
  <2>6. sysclk_bus_refcount'[j] = IF on THEN c + 1 ELSE c - 1
    BY <2>1, <2>4, <2>5
  <2>7. sysclk_bus_refcount'[j] = Cardinality(Counted(j)')
    BY <1>5, <1>8, <2>2, <2>3, <2>6
  <2>8. k # j => sysclk_bus_refcount'[k] = sysclk_bus_refcount[k] /\ sysclk_bus_refcount[k] \in Nat
    BY <1>2, <1>4, <1>5 DEF BusType
  <2>9. k # j => sysclk_bus_refcount[k] = Cardinality(Counted(k))
    BY <1>4 DEF BusCounts
  <2>10. /\ sysclk_bus_refcount'[j] \in Nat
         /\ on => sysclk_bus_refcount'[j] > 0
         /\ ~on => sysclk_bus_refcount[j] > 0
    BY <2>1, <2>5, <2>6
  <2>11. CASE k = j
    BY <2>7, <2>10, <2>11
  <2>12. CASE k # j
    BY <1>8, <2>8, <2>9, <2>10, <2>12
  <2>. QED  BY <2>11, <2>12
<1>10. \A y \in Contexts \ {x} : Out(y) /\ Now(y)' = Now(y) /\ Soon(y)' = Soon(y)
  BY <1>1, <1>2, OthersOut DEF Stepped
<1>11. ASSUME NEW k \in {0, 1}
       PROVE  /\ ~Stopping(s, t, k)
              /\ IF on THEN (Between(a, s, k) <=> k = j) /\ ~Between(s, t, k)
                 ELSE ~Between(a, s, k) /\ (Between(s, t, k) <=> k = j)
  <2>1. PICK u : /\ Follows(a, s, t) /\ Follows(s, t, u) /\ a.op \in Ops
                 /\ a \in Accesses /\ s \in Accesses /\ t \in Accesses
                 /\ Mine(p, on, a) /\ Mine(p, on, s) /\ Mine(p, on, t)
    BY <1>1 DEF Stepped
  <2>. QED  BY <1>2, <1>5, <2>1, BetweenMoves DEF j
<1>12. Now(x) = a /\ Soon(x) = s /\ Now(x)' = s /\ Soon(x)' = t
  BY <1>1 DEF Stepped
<1>13. ASSUME NEW k \in {0, 1}, NEW y \in Contexts \ {x}
       PROVE  /\ ~Between(Now(y), Soon(y), k) /\ ~Between(Now(y)', Soon(y)', k)
              /\ ~Stopping(Now(y)', Soon(y)', k)
  <2>1. ~Between(Now(y), Soon(y), k)
    BY <1>10 DEF Out
  <2>. QED  BY <1>10, <2>1 DEF Between
<1>14. BridgesOn' = BridgesOn
  <2>1. ASSUME NEW k \in {0, 1} PROVE BridgeOn(k)' <=> BridgeOn(k)
    <3>1. BridgeOn(k)' <=> sysclk_bus_refcount'[k] > 0 \/ Between(s, t, k)
      BY <1>12, <1>13 DEF BridgeOn
    <3>2. BridgeOn(k) <=> sysclk_bus_refcount[k] > 0 \/ Between(a, s, k)
      BY <1>12, <1>13 DEF BridgeOn
    <3>. QED  BY <1>5, <1>9, <1>11, <3>1, <3>2
  <2>. QED  BY <2>1 DEF BridgesOn
<1>15. BusMasks'
  BY <1>3, <1>4, <1>6, <1>14 DEF BusMasks, Groups
<1>16. BusCounts'
  <2>1. \A k \in {0, 1}, y \in Contexts : ~Stopping(Now(y)', Soon(y)', k)
    BY <1>11, <1>12, <1>13
  <2>. QED  BY <1>9, <2>1 DEF BusCounts
<1>17. UsbClock'
  BY <1>3, <1>4, <1>6 DEF UsbClock
<1>18. masks' \in [Groups -> SUBSET Bits] /\ sysclk_bus_refcount' \in [{0, 1} -> Nat] /\ genclk' \in BOOLEAN
  BY <1>2, <1>3, <1>4, <1>9 DEF BusType
<1>19. BusSections' /\ OscSeen' /\ (\A y \in Contexts : Planned(y)') /\ BusType' /\ LastRead'
  BY <1>1, <1>2, <1>3, <1>18, ClockingStep
<1>. QED  BY <1>15, <1>16, <1>17, <1>19 DEF BusInv

LEMMA GenclkStep == ASSUME BusInv, NEW x \in Contexts, Buses!Genclk(x) PROVE BusInv'
<1>1. PICK p, on, a, s, t : Stepped(x, p, on, a, s, t) /\ a = Head(accesses[x])
  BY StepFacts DEF Buses!Genclk, Buses!Next_access, Buses!Done
<1>2. a.op = "genclk" /\ Buses!Runs(x) /\ genclk' = a.on
  BY <1>1 DEF Buses!Genclk, Buses!Next_access
<1>3. UNCHANGED <<saved, mask, current, gm, handling, masks, sysclk_bus_refcount, usbOsc, wanted>>
  BY DEF Buses!Genclk
<1>4. /\ BusType /\ BusMasks /\ BusCounts /\ UsbClock /\ OscSeen
  BY DEF BusInv
<1>5. a.on = on /\ on \in BOOLEAN /\ p = "USB" /\ Kind(a) = "genclk" /\ Now(x) = a
  BY <1>1, <1>2, ZenonT(60) DEF Stepped, Mine, Kind, Accesses
<1>6. /\ \A h \in Groups : OfGroup(h)' = OfGroup(h)
      /\ \A k \in {0, 1} : Counted(k)' = Counted(k)
  <2>1. Kind(a) # "count" /\ "genclk" \notin Groups
    BY <1>5 DEF Groups
  <2>. QED  BY <1>1, <1>5, <2>1, HoldersKept
<1>7. ("USB" \in Holders("genclk"))' <=> on
  <2>1. "genclk" \in Kinds
    BY DEF Kinds
  <2>2. Holders("genclk")' = IF on THEN Holders("genclk") \cup {p} ELSE Holders("genclk") \ {p}
    BY <1>1, <1>5, <2>1 DEF Stepped
  <2>. QED  BY <1>5, <2>2
<1>8. UsbClock'
  <2>1. genclk' <=> on
    BY <1>2, <1>5
  <2>2. on => usbOsc' = "ready"
    BY <1>2, <1>3, <1>4, <1>5 DEF OscSeen
  <2>. QED  BY <1>7, <2>1, <2>2 DEF UsbClock
<1>9. /\ BridgesOn' = BridgesOn
      /\ \A y \in Contexts, k \in {0, 1} : Stopping(Now(y), Soon(y), k)' <=> Stopping(Now(y), Soon(y), k)
  BY <1>1, <1>2, <1>3, BridgesKept
<1>10. BusMasks'
  BY <1>3, <1>4, <1>6, <1>9 DEF BusMasks, Groups
<1>11. BusCounts'
  BY <1>3, <1>4, <1>6, <1>9 DEF BusCounts
<1>12. masks' \in [Groups -> SUBSET Bits] /\ sysclk_bus_refcount' \in [{0, 1} -> Nat] /\ genclk' \in BOOLEAN
  BY <1>2, <1>3, <1>4, <1>5 DEF BusType
<1>13. BusSections' /\ OscSeen' /\ (\A y \in Contexts : Planned(y)') /\ BusType' /\ LastRead'
  BY <1>1, <1>2, <1>3, <1>12, ClockingStep
<1>. QED  BY <1>8, <1>10, <1>11, <1>13 DEF BusInv

(* A bridge that stays as it is.                                            *)
LEMMA SkipBridge ==
  ASSUME BusInv, NEW x \in Contexts, NEW p, NEW on, NEW a, NEW s, NEW t, Stepped(x, p, on, a, s, t),
         a.op = "bridge", Buses!Runs(x), sysclk_bus_refcount[a.bus] # 0,
         UNCHANGED <<saved, mask, current, gm, handling, masks, sysclk_bus_refcount, usbOsc, genclk, wanted>>
  PROVE  BusInv'
<1>. DEFINE j == Buses!pbus_id(p)
<1>1. /\ BusType /\ BusMasks /\ BusCounts /\ UsbClock
  BY DEF BusInv
<1>2. /\ j \in {0, 1} /\ a.bus = j /\ on \in BOOLEAN /\ Kind(a) = "none" /\ "none" \notin Groups
  BY BusIds DEF Stepped, Mine, Kind, Groups
<1>3. /\ \A h \in Groups : OfGroup(h)' = OfGroup(h)
      /\ \A k \in {0, 1} : Counted(k)' = Counted(k)
      /\ ("USB" \in Holders("genclk"))' = ("USB" \in Holders("genclk"))
  BY <1>2, HoldersKept
<1>4. \A y \in Contexts \ {x} : Out(y) /\ Now(y)' = Now(y) /\ Soon(y)' = Soon(y)
  BY OthersOut DEF Stepped
<1>5. ASSUME NEW k \in {0, 1}
      PROVE  /\ ~Stopping(s, t, k)
             /\ IF on THEN ~Between(a, s, k) /\ (Between(s, t, k) <=> k = j)
                ELSE (Between(a, s, k) <=> k = j) /\ ~Between(s, t, k)
  <2>1. PICK u : /\ Follows(a, s, t) /\ Follows(s, t, u) /\ a.op \in Ops
                 /\ a \in Accesses /\ s \in Accesses /\ t \in Accesses
                 /\ Mine(p, on, a) /\ Mine(p, on, s) /\ Mine(p, on, t)
    BY DEF Stepped
  <2>. QED  BY <1>2, <2>1, BetweenMoves
<1>6. Now(x) = a /\ Soon(x) = s /\ Now(x)' = s /\ Soon(x)' = t
  BY DEF Stepped
<1>. HIDE DEF j
<1>7. ASSUME NEW k \in {0, 1}, NEW y \in Contexts \ {x}
      PROVE  /\ ~Between(Now(y), Soon(y), k) /\ ~Between(Now(y)', Soon(y)', k)
             /\ ~Stopping(Now(y)', Soon(y)', k)
  <2>1. ~Between(Now(y), Soon(y), k)
    BY <1>4 DEF Out
  <2>. QED  BY <1>4, <2>1 DEF Between
<1>8. sysclk_bus_refcount[j] > 0
  BY <1>1, <1>2 DEF BusType
<1>9. BridgesOn' = BridgesOn
  <2>1. ASSUME NEW k \in {0, 1} PROVE BridgeOn(k)' <=> BridgeOn(k)
    <3>1. BridgeOn(k)' <=> sysclk_bus_refcount[k] > 0 \/ Between(s, t, k)
      BY <1>6, <1>7 DEF BridgeOn
    <3>2. BridgeOn(k) <=> sysclk_bus_refcount[k] > 0 \/ Between(a, s, k)
      BY <1>6, <1>7 DEF BridgeOn
    <3>. QED  BY <1>5, <1>8, <3>1, <3>2
  <2>. QED  BY <2>1 DEF BridgesOn
<1>10. BusMasks'
  BY <1>1, <1>3, <1>9 DEF BusMasks, Groups
<1>11. BusCounts'
  <2>1. \A k \in {0, 1}, y \in Contexts : ~Stopping(Now(y)', Soon(y)', k)
    BY <1>5, <1>6, <1>7
  <2>. QED  BY <1>1, <1>3, <2>1 DEF BusCounts
<1>12. UsbClock'
  BY <1>1, <1>3 DEF UsbClock
<1>13. masks' \in [Groups -> SUBSET Bits] /\ sysclk_bus_refcount' \in [{0, 1} -> Nat] /\ genclk' \in BOOLEAN
  BY <1>1 DEF BusType
<1>14. BusSections' /\ OscSeen' /\ (\A y \in Contexts : Planned(y)') /\ BusType' /\ LastRead'
  BY <1>13, ClockingStep
<1>. QED  BY <1>10, <1>11, <1>12, <1>14 DEF BusInv

(* A bridge that is turned on or off: the section for its bit comes next.    *)
LEMMA TurnBridge ==
  ASSUME BusInv, NEW x \in Contexts, Buses!Runs(x), accesses[x] # <<>>, NEW a, a = Nth(accesses[x], 1), a.op = "bridge",
         sysclk_bus_refcount[a.bus] = 0,
         accesses' = [accesses EXCEPT ![x] = Buses!sysclk_priv_module("hsb", Buses!Bridge[a.bus], a.on) \o Tail(@)],
         UNCHANGED <<saved, mask, current, gm, handling, masks, sysclk_bus_refcount, usbOsc, genclk, wanted>>
  PROVE  BusInv'
<1>. DEFINE q == accesses[x]
            p == current[x][1]
            on == current[x][2]
            z == Buses!sysclk_priv_module("hsb", Buses!Bridge[a.bus], a.on) \o Tail(q)
            s == Nth(q, 2)
            b1 == Nth(z, 1)
            b2 == Nth(z, 2)
            j == a.bus
<1>1. /\ BusType /\ BusMasks /\ BusCounts /\ UsbClock /\ BusSections /\ LastRead /\ OscSeen /\ \A y \in Contexts : Planned(y)
  BY DEF BusInv
<1>2. current[x] # <<>>
  BY <1>1 DEF Planned
<1>3. p \in Users /\ on \in BOOLEAN /\ current[x] = <<p, on>> /\ p \in Buses!Uses[x] /\ Plan(q, p, on) /\ p \notin wanted
  BY <1>1, <1>2 DEF BusType, Planned
<1>4. a.on = on /\ a.bus = Buses!pbus_id(p)
  <2>1. Mine(p, on, a)
    BY <1>3, PlanFollows
  <2>. QED  BY <2>1 DEF Mine
<1>5. /\ Plan(z, p, on) /\ \A e \in Kinds : Pending(z, e) <=> Pending(q, e)
      /\ b1.op = "save" /\ b2.op = "read" /\ b2.bit = Buses!Bridge[j] /\ b2.on = on
  <2>1. Nth(q, 1) = a /\ q # <<>>
    OBVIOUS
  <2>2. Turns(q, z, on)
    BY <1>4, <2>1 DEF Turns
  <2>. HIDE DEF z, q
  <2>3. Splices(q, z, p, on)
    <3>1. Plan(q, p, on) /\ on \in BOOLEAN /\ Nth(q, 1).op = "bridge" /\ q # <<>>
      BY <1>3, <2>1
    <3>. HIDE DEF p, on
    <3>. QED  BY <2>2, <3>1, Spliced
  <2>. QED  BY <2>1, <2>3 DEF Splices
<1>6. Steps(x, z) /\ accesses'[x] = z /\ \A y \in Contexts \ {x} : accesses'[y] = accesses[y]
  BY <1>1 DEF Steps, BusType
<1>7. j \in {0, 1} /\ Buses!Bridge[j] \in Bridges /\ \A k \in {0, 1} : Buses!Bridge[j] = Buses!Bridge[k] <=> k = j
  BY <1>4, BusIds DEF Buses!Bridge, Bridges
<1>. HIDE DEF z, p, on, s, b1, b2, j
<1>8. \A e \in Kinds : Holders(e)' = Holders(e)
  BY <1>2, <1>5, <1>6, HoldersMove DEF p, on, q
<1>9. /\ \A h \in Groups : OfGroup(h)' = OfGroup(h)
      /\ \A k \in {0, 1} : Counted(k)' = Counted(k)
      /\ Holders("genclk")' = Holders("genclk")
  <2>1. Groups \subseteq Kinds /\ "count" \in Kinds /\ "genclk" \in Kinds
    BY DEF Groups, Kinds
  <2>2. \A h \in Groups : OfGroup(h)' = OfGroup(h)
    BY <1>8, <2>1 DEF OfGroup, Members
  <2>3. \A k \in {0, 1} : Counted(k)' = Counted(k)
    BY <1>8, <2>1 DEF Counted
  <2>. QED  BY <1>8, <2>1, <2>2, <2>3
<1>10. Now(x) = a /\ Soon(x) = s /\ Now(x)' = b1 /\ Soon(x)' = b2
  BY <1>6 DEF Now, Soon, s, b1, b2
<1>11. \A y \in Contexts \ {x} : Out(y) /\ Now(y)' = Now(y) /\ Soon(y)' = Soon(y)
  BY <1>6, OthersOut DEF Now, Soon
<1>12. ASSUME NEW k \in {0, 1}
       PROVE  /\ Stopping(b1, b2, k) <=> k = j /\ ~on
              /\ Between(b1, b2, k) <=> k = j /\ ~on
              /\ Between(a, s, k) <=> k = j /\ ~on
  <2>1. Stopping(b1, b2, k) <=> k = j /\ ~on
    BY <1>5, <1>7 DEF Stopping
  <2>2. Between(b1, b2, k) <=> k = j /\ ~on
    BY <1>5, <2>1 DEF Between
  <2>3. Between(a, s, k) <=> k = j /\ ~on
    BY <1>4 DEF Between, Stopping, j
  <2>. QED  BY <2>1, <2>2, <2>3
<1>13. ASSUME NEW k \in {0, 1}, NEW y \in Contexts \ {x}
       PROVE  /\ ~Between(Now(y), Soon(y), k) /\ ~Between(Now(y)', Soon(y)', k)
              /\ ~Stopping(Now(y)', Soon(y)', k)
  <2>1. ~Between(Now(y), Soon(y), k)
    BY <1>11 DEF Out
  <2>. QED  BY <1>11, <2>1 DEF Between
<1>14. BridgesOn' = BridgesOn
  <2>1. ASSUME NEW k \in {0, 1} PROVE BridgeOn(k)' <=> BridgeOn(k)
    <3>1. BridgeOn(k)' <=> sysclk_bus_refcount[k] > 0 \/ Between(b1, b2, k)
      BY <1>10, <1>13 DEF BridgeOn
    <3>2. BridgeOn(k) <=> sysclk_bus_refcount[k] > 0 \/ Between(a, s, k)
      BY <1>10, <1>13 DEF BridgeOn
    <3>. QED  BY <1>12, <3>1, <3>2
  <2>. QED  BY <2>1 DEF BridgesOn
<1>15. BusMasks'
  BY <1>1, <1>9, <1>14 DEF BusMasks, Groups
<1>16. BusCounts'
  <2>1. ASSUME NEW k \in {0, 1}, NEW y \in Contexts, Stopping(Now(y)', Soon(y)', k) PROVE sysclk_bus_refcount[k] = 0
    <3>1. y = x
      BY <1>13, <2>1
    <3>2. k = j
      BY <1>10, <1>12, <2>1, <3>1
    <3>. QED  BY <3>2 DEF j
  <2>. QED  BY <1>1, <1>9, <2>1 DEF BusCounts
<1>17. UsbClock'
  BY <1>1, <1>9 DEF UsbClock
<1>18. LastRead' /\ OscSeen'
  <2>1. \A y \in Contexts \ {x} : Now(y)' = Now(y)
    BY <1>11
  <2>. QED  BY <1>1, <1>5, <1>10, <2>1 DEF LastRead, OscSeen
<1>19. BusSections'
  <2>1. Depth(x)' = 1 /\ Depth(x) = 1
    BY <1>5, <1>7, <1>10 DEF Depth, Level
  <2>2. \A y \in Contexts \ {x} : Depth(y)' = Depth(y)
    BY <1>11 DEF Depth
  <2>3. \A y \in Contexts : Depth(y)' = Depth(y)
    BY <2>1, <2>2
  <2>. QED  BY <1>1, <2>3 DEF BusSections, Contexts
<1>20. ASSUME NEW y \in Contexts PROVE Planned(y)'
  <2>1. CASE y = x
    <3>1. Plan(accesses'[x], current'[x][1], current'[x][2])
      BY <1>5, <1>6 DEF p, on
    <3>. QED  BY <1>1, <1>2, <2>1, <3>1 DEF Planned
  <2>2. CASE y # x
    BY <1>1, <1>6, <2>2 DEF Planned
  <2>. QED  BY <2>1, <2>2
<1>21. BusType'
  <2>1. accesses' \in [Contexts -> Seq(Accesses)]
    <3>1. z \in Seq(Accesses)
      BY <1>5 DEF Plan
    <3>. QED  BY <1>1, <1>6, <3>1 DEF BusType, Steps
  <2>. QED  BY <1>1, <2>1 DEF BusType
<1>. QED  BY <1>15, <1>16, <1>17, <1>18, <1>19, <1>20, <1>21 DEF BusInv

LEMMA BridgeStep == ASSUME BusInv, NEW x \in Contexts, Buses!SwitchBridge(x) PROVE BusInv'
<1>. DEFINE a == Head(accesses[x])
<1>1. /\ Buses!Runs(x) /\ accesses[x] # <<>> /\ a.op = "bridge"
      /\ UNCHANGED <<saved, mask, current, gm, handling, masks, sysclk_bus_refcount, usbOsc, genclk, wanted>>
  BY DEF Buses!SwitchBridge, Buses!Next_access
<1>2. accesses[x] \in Seq(Accesses)
  BY DEF BusInv, BusType
<1>3. a = Nth(accesses[x], 1) /\ Tail(accesses[x]) \in Seq(Accesses)
  BY <1>1, <1>2, NthOfTail
<1>4. CASE sysclk_bus_refcount[a.bus] = 0
  <2>1. accesses' = [accesses EXCEPT ![x] = Buses!sysclk_priv_module("hsb", Buses!Bridge[a.bus], a.on) \o Tail(@)]
    BY <1>4 DEF Buses!SwitchBridge, Buses!Unused
  <2>. HIDE DEF a
  <2>. QED  BY <1>1, <1>3, <1>4, <2>1, TurnBridge
<1>5. CASE sysclk_bus_refcount[a.bus] # 0
  <2>1. accesses' = [accesses EXCEPT ![x] = <<>> \o Tail(@)]
    BY <1>5 DEF Buses!SwitchBridge, Buses!Unused
  <2>2. <<>> \o Tail(accesses[x]) = Tail(accesses[x])
    BY <1>3, ConcatEmptySeq
  <2>3. accesses' = [accesses EXCEPT ![x] = Tail(@)]
    BY <2>1, <2>2
  <2>. HIDE DEF a
  <2>4. PICK p, on, c, s, t : Stepped(x, p, on, c, s, t) /\ c = a
    BY <1>1, <2>3, StepFacts DEF a
  <2>. QED  BY <1>1, <1>5, <2>4, SkipBridge
<1>. QED  BY <1>4, <1>5

(* A context that begins or ends a call is in no section.                   *)
LEMMA StartsOut ==
  ASSUME NEW a, NEW s, Starts(a, s)
  PROVE  /\ Level(a, s) = 0 /\ a.op # "write" /\ ~(a.op = "genclk" /\ a.on)
         /\ \A k \in {0, 1} : ~Between(a, s, k) /\ ~Stopping(a, s, k)
<1>1. a.op \in Opening /\ ~(a.op = "genclk" /\ a.on) /\ ~(a.op = "save" /\ s.op = "read" /\ s.bit \in Bridges)
  BY DEF Starts
<1>2. \A k \in {0, 1} : Buses!Bridge[k] \in Bridges
  BY DEF Bridges, Buses!Bridge
<1>. QED  BY <1>1, <1>2 DEF Level, Between, Stopping, Opening

SameHolders ==
  /\ \A g \in Groups : OfGroup(g)' = OfGroup(g)
  /\ \A k \in {0, 1} : Counted(k)' = Counted(k)
  /\ ("USB" \in Holders("genclk"))' = ("USB" \in Holders("genclk"))

(* What a call does not do for its peripheral, the peripheral does not need. *)
LEMMA NeedsKept ==
  ASSUME NEW p \in Users, \A u \in Users, e \in Kinds : u # p \/ e \in Needed(p) => (Has(u, e)' <=> Has(u, e))
  PROVE  SameHolders
<1>1. ASSUME NEW g \in Groups PROVE OfGroup(g)' = OfGroup(g)
  <2>1. g \in Kinds /\ (p \in Members[g] => g \in Needed(p))
    BY DEF Groups, Kinds, Needed, Needs
  <2>2. (Holders(g) \cap Members[g])' = Holders(g) \cap Members[g]
    BY <2>1 DEF Holders, Members, Users
  <2>. QED  BY <2>2 DEF OfGroup, Members
<1>2. ASSUME NEW k \in {0, 1} PROVE Counted(k)' = Counted(k)
  <2>1. "count" \in Kinds /\ (p \in Buses!OnPbb => "count" \in Needed(p))
    BY DEF Kinds, Needed, Needs
  <2>2. \A u \in Users : u \in Buses!OnPbb => (Has(u, "count")' <=> Has(u, "count"))
    BY <2>1
  <2>. QED  BY <2>2 DEF Counted, Holders, Users
<1>3. ("USB" \in Holders("genclk"))' = ("USB" \in Holders("genclk"))
  <2>1. "genclk" \in Kinds /\ (p = "USB" => "genclk" \in Needed(p))
    BY DEF Kinds, Needed, Needs
  <2>2. "USB" \in Users => (Has("USB", "genclk")' <=> Has("USB", "genclk"))
    BY <2>1
  <2>. QED  BY <2>2 DEF Holders, Users
<1>. QED  BY <1>1, <1>2, <1>3 DEF SameHolders

(* What a context that begins or ends a call leaves as it was.               *)
Turnover(x) ==
  /\ UNCHANGED <<saved, mask, gm, masks, sysclk_bus_refcount, usbOsc, genclk>>
  /\ Starts(Now(x), Soon(x)) /\ Starts(Now(x)', Soon(x)')
  /\ \A y \in Contexts \ {x} : Now(y)' = Now(y) /\ Soon(y)' = Soon(y)

LEMMA TurnoverStep ==
  ASSUME BusInv, NEW x \in Contexts, Turnover(x), SameHolders,
         accesses' \in [Contexts -> Seq(Accesses)], current' \in [Contexts -> {<<>>} \cup (Users \X BOOLEAN)],
         handling' \in BOOLEAN, wanted' \subseteq Users, \A y \in Contexts : Planned(y)',
         handling' => ~gm \/ handling, ~handling' => current'["handler"] = <<>>
  PROVE  BusInv'
<1>1. /\ BusType /\ BusMasks /\ BusCounts /\ UsbClock /\ BusSections /\ LastRead /\ OscSeen
  BY DEF BusInv
<1>2. /\ Depth(x) = 0 /\ Depth(x)' = 0 /\ Now(x)'.op # "write" /\ ~(Now(x)'.op = "genclk" /\ Now(x)'.on)
      /\ \A k \in {0, 1} : /\ ~Between(Now(x), Soon(x), k) /\ ~Stopping(Now(x), Soon(x), k)
                           /\ ~Between(Now(x)', Soon(x)', k) /\ ~Stopping(Now(x)', Soon(x)', k)
  BY StartsOut DEF Turnover, Depth
<1>3. /\ \A y \in Contexts \ {x} : Now(y)' = Now(y) /\ Soon(y)' = Soon(y)
      /\ UNCHANGED <<saved, mask, gm, masks, sysclk_bus_refcount, usbOsc, genclk>>
  BY DEF Turnover
<1>4. \A y \in Contexts : Depth(y)' = Depth(y)
  BY <1>2, <1>3 DEF Depth
<1>5. \A y \in Contexts, k \in {0, 1} : /\ Between(Now(y)', Soon(y)', k) <=> Between(Now(y), Soon(y), k)
                                        /\ Stopping(Now(y)', Soon(y)', k) <=> Stopping(Now(y), Soon(y), k)
  BY <1>2, <1>3
<1>6. BridgesOn' = BridgesOn
  <2>1. \A k \in {0, 1} : BridgeOn(k)' <=> BridgeOn(k)
    BY <1>3, <1>5 DEF BridgeOn
  <2>. QED  BY <2>1 DEF BridgesOn
<1>7. BusMasks'
  BY <1>1, <1>3, <1>6 DEF BusMasks, Groups, SameHolders
<1>8. BusCounts'
  BY <1>1, <1>3, <1>5 DEF BusCounts, SameHolders
<1>9. UsbClock'
  BY <1>1, <1>3 DEF UsbClock, SameHolders
<1>10. LastRead'
  BY <1>1, <1>2, <1>3 DEF LastRead
<1>11. OscSeen'
  BY <1>1, <1>2, <1>3 DEF OscSeen
<1>12. BusSections'
  <2>1. \A y \in Contexts : Depth(y) \in 0..2
    BY DEF Depth, Level
  <2>2. handling' => Depth("main") = 0
    BY <1>1, <2>1 DEF BusSections, Contexts
  <2>3. (handling => Depth("main") = 0)'
    BY <1>4, <2>2 DEF Contexts
  <2>. QED  BY <1>1, <1>3, <1>4, <2>3 DEF BusSections
<1>13. BusType'
  BY <1>1, <1>3 DEF BusType
<1>. QED  BY <1>7, <1>8, <1>9, <1>10, <1>11, <1>12, <1>13 DEF BusInv

LEMMA NothingStarts == ASSUME NEW x, accesses[x] = <<>> PROVE Starts(Now(x), Soon(x)) /\ \A e \in Kinds : ~Pending(accesses[x], e)
<1>. DEFINE none == Buses!Do("none")
<1>1. Now(x) = none /\ Soon(x) = none /\ none.op = "none"
  BY DoNothing DEF Now, Soon, Nth
<1>. HIDE DEF none
<1>. QED  BY <1>1 DEF Starts, Opening, Pending

LEMMA StartStep == ASSUME BusInv, NEW x \in Contexts, Buses!Start(x) PROVE BusInv'
<1>1. PICK p \in Buses!Uses[x] :
        /\ current' = [current EXCEPT ![x] = <<p, p \notin wanted>>]
        /\ accesses' = [accesses EXCEPT ![x] = IF p \in wanted THEN Buses!Disabling(p) ELSE Buses!Enabling(p)]
        /\ wanted' = wanted \ {p}
  BY DEF Buses!Start
<1>2. /\ accesses[x] = <<>> /\ current[x] = <<>>
      /\ UNCHANGED <<saved, mask, gm, masks, sysclk_bus_refcount, usbOsc, genclk>>
      /\ IF x = "main" THEN ~handling /\ handling' = handling ELSE ~handling /\ ~gm /\ handling' = TRUE
  BY DEF Buses!Start, Buses!Idle, Buses!Interrupt
<1>3. BusType /\ BusSections /\ \A y \in Contexts : Planned(y)
  BY DEF BusInv
<1>4. p \in Users /\ p \in Buses!OnPba \cup Buses!OnPbb
  BY UsesApart
<1>. DEFINE on == p \notin wanted
            q == IF p \in wanted THEN Buses!Disabling(p) ELSE Buses!Enabling(p)
<1>5. Good(q, p, on) /\ Does(q, Needed(p)) /\ on \in BOOLEAN
  <2>1. CASE p \in wanted
    BY <1>4, <2>1, CallsGood
  <2>2. CASE p \notin wanted
    BY <1>4, <2>2, CallsGood
  <2>. QED  BY <2>1, <2>2
<1>6. on <=> p \notin wanted
  OBVIOUS
<1>. HIDE DEF on, q
<1>7. /\ accesses'[x] = q /\ current'[x] = <<p, on>>
      /\ \A y \in Contexts \ {x} : accesses'[y] = accesses[y] /\ current'[y] = current[y]
  BY <1>1, <1>3 DEF BusType, on, q
<1>8. q \in Seq(Accesses) /\ Plan(q, p, on) /\ Starts(Nth(q, 1), Nth(q, 2))
  BY <1>5 DEF Good, Plan
<1>9. Turnover(x)
  <2>1. Starts(Now(x), Soon(x))
    BY <1>2, NothingStarts
  <2>2. Now(x)' = Nth(q, 1) /\ Soon(x)' = Nth(q, 2)
    BY <1>7 DEF Now, Soon
  <2>3. \A y \in Contexts \ {x} : Now(y)' = Now(y) /\ Soon(y)' = Soon(y)
    BY <1>7 DEF Now, Soon
  <2>. QED  BY <1>2, <1>8, <2>1, <2>2, <2>3 DEF Turnover
<1>10. ASSUME NEW y \in Contexts \ {x}, current[y] # <<>> PROVE current[y][1] # p
  <2>1. current[y][1] \in Buses!Uses[y] /\ Buses!Uses[x] \cap Buses!Uses[y] = {}
    BY <1>3, <1>10, UsesApart DEF Planned
  <2>. QED  BY <1>1, <2>1
<1>11. SameHolders
  <2>1. ASSUME NEW u \in Users, NEW e \in Kinds, u # p PROVE Has(u, e)' <=> Has(u, e)
    BY <1>1, <1>2, <1>7, <2>1 DEF Has
  <2>2. ASSUME NEW e \in Needed(p) PROVE Has(p, e)' <=> Has(p, e)
    <3>1. Pending(q, e)
      BY <1>5 DEF Does, Needed
    <3>2. Has(p, e) <=> p \in wanted
      BY <1>2, <1>10 DEF Has
    <3>3. Has(p, e)' <=> ~on
      BY <1>1, <1>5, <1>7, <1>10, <3>1 DEF Has
    <3>. QED  BY <1>6, <3>2, <3>3
  <2>. QED  BY <1>4, <2>1, <2>2, NeedsKept
<1>12. ASSUME NEW y \in Contexts PROVE Planned(y)'
  <2>1. CASE y = x
    <3>1. p \notin wanted' /\ current'[x] # <<>> /\ current'[x][1] = p /\ current'[x][2] = on
      BY <1>1, <1>7
    <3>. QED  BY <1>7, <1>8, <2>1, <3>1 DEF Planned
  <2>2. CASE y # x
    <3>1. current[y] # <<>> => current[y][1] \notin wanted'
      BY <1>1, <1>3, <2>2 DEF Planned
    <3>. QED  BY <1>3, <1>7, <2>2, <3>1 DEF Planned
  <2>. QED  BY <2>1, <2>2
<1>13. /\ accesses' \in [Contexts -> Seq(Accesses)] /\ current' \in [Contexts -> {<<>>} \cup (Users \X BOOLEAN)]
       /\ wanted' \subseteq Users /\ handling' \in BOOLEAN
  <2>1. <<p, on>> \in Users \X BOOLEAN
    BY <1>4, <1>5
  <2>2. accesses' \in [Contexts -> Seq(Accesses)]
    BY <1>1, <1>3, <1>8 DEF BusType, q
  <2>3. current' \in [Contexts -> {<<>>} \cup (Users \X BOOLEAN)]
    BY <1>1, <1>3, <2>1 DEF BusType, on
  <2>. QED  BY <1>1, <1>2, <1>3, <2>2, <2>3 DEF BusType
<1>14. (handling' => ~gm \/ handling) /\ (~handling' => current'["handler"] = <<>>)
  BY <1>2, <1>3, <1>7 DEF BusSections, Contexts
<1>. QED  BY <1>9, <1>11, <1>12, <1>13, <1>14, TurnoverStep

LEMMA ReturnStep == ASSUME BusInv, NEW x \in Contexts, Buses!Return(x) PROVE BusInv'
<1>0. PICK p, on : p = current[x][1] /\ on = current[x][2]
  OBVIOUS
<1>1. /\ Buses!Runs(x) /\ accesses[x] = <<>> /\ current[x] # <<>>
      /\ wanted' = IF on THEN wanted \cup {p} ELSE wanted
      /\ current' = [current EXCEPT ![x] = <<>>] /\ handling' = FALSE /\ accesses' = accesses
      /\ UNCHANGED <<saved, mask, gm, masks, sysclk_bus_refcount, usbOsc, genclk>>
  BY <1>0 DEF Buses!Return
<1>2. BusType /\ BusSections /\ \A y \in Contexts : Planned(y)
  BY DEF BusInv
<1>3. p \in Users /\ on \in BOOLEAN /\ current[x] = <<p, on>> /\ p \in Buses!Uses[x] /\ p \notin wanted
  BY <1>0, <1>1, <1>2 DEF BusType, Planned
<1>4. current'[x] = <<>> /\ \A y \in Contexts \ {x} : current'[y] = current[y]
  BY <1>1, <1>2 DEF BusType
<1>5. Starts(Now(x), Soon(x)) /\ \A e \in Kinds : ~Pending(accesses[x], e)
  BY <1>1, NothingStarts
<1>6. Turnover(x)
  <2>1. \A y \in Contexts : Now(y)' = Now(y) /\ Soon(y)' = Soon(y)
    BY <1>1 DEF Now, Soon
  <2>. QED  BY <1>1, <1>5, <2>1 DEF Turnover
<1>7. ASSUME NEW y \in Contexts \ {x}, current[y] # <<>> PROVE current[y][1] # p
  <2>1. current[y][1] \in Buses!Uses[y] /\ Buses!Uses[x] \cap Buses!Uses[y] = {}
    BY <1>2, <1>7, UsesApart DEF Planned
  <2>. QED  BY <1>3, <2>1
<1>8. SameHolders
  <2>1. ASSUME NEW u \in Users, NEW e \in Kinds, u # p PROVE Has(u, e)' <=> Has(u, e)
    BY <1>1, <1>3, <1>4, <2>1 DEF Has
  <2>2. ASSUME NEW e \in Kinds PROVE Has(p, e)' <=> Has(p, e)
    <3>1. Has(p, e) <=> on
      BY <1>3, <1>5, <1>7 DEF Has
    <3>2. Has(p, e)' <=> on
      <4>1. p \in wanted' <=> on
        BY <1>1, <1>3
      <4>2. \A y \in Contexts : ~(current'[y] # <<>> /\ current'[y][1] = p)
        BY <1>4, <1>7
      <4>. QED  BY <4>1, <4>2 DEF Has
    <3>. QED  BY <3>1, <3>2
  <2>3. \A u \in Users, e \in Kinds : Has(u, e)' <=> Has(u, e)
    BY <2>1, <2>2
  <2>. QED  BY <1>3, <2>3, NeedsKept
<1>9. ASSUME NEW y \in Contexts PROVE Planned(y)'
  <2>1. CASE y = x
    BY <1>1, <1>4, <2>1 DEF Planned
  <2>2. CASE y # x
    <3>1. current[y] # <<>> => current[y][1] \notin wanted'
      BY <1>1, <1>2, <1>7, <2>2 DEF Planned
    <3>. QED  BY <1>1, <1>2, <1>4, <2>2, <3>1 DEF Planned
  <2>. QED  BY <2>1, <2>2
<1>10. /\ accesses' \in [Contexts -> Seq(Accesses)] /\ current' \in [Contexts -> {<<>>} \cup (Users \X BOOLEAN)]
       /\ wanted' \subseteq Users /\ handling' \in BOOLEAN
  <2>1. current' \in [Contexts -> {<<>>} \cup (Users \X BOOLEAN)]
    BY <1>1, <1>2 DEF BusType
  <2>. QED  BY <1>1, <1>2, <1>3, <2>1 DEF BusType
<1>11. current'["handler"] = <<>> /\ ~handling'
  BY <1>1, <1>2, <1>4 DEF BusSections, Buses!Runs, Contexts
<1>. QED  BY <1>6, <1>8, <1>9, <1>10, <1>11, TurnoverStep

LEMMA BusStarts == Buses!Init => BusInv
<1>. SUFFICES ASSUME Buses!Init PROVE BusInv
  OBVIOUS
<1>1. /\ accesses = [x \in Contexts |-> <<>>] /\ saved = [x \in Contexts |-> <<>>] /\ mask = [x \in Contexts |-> {}]
      /\ current = [x \in Contexts |-> <<>>] /\ gm = FALSE /\ handling = FALSE /\ masks = Buses!Minimal
      /\ sysclk_bus_refcount = [k \in {0, 1} |-> 0] /\ genclk = FALSE /\ wanted = {}
  BY DEF Buses!Init, Buses!Contexts, Contexts
<1>2. \A x \in Contexts : Starts(Now(x), Soon(x))
  BY <1>1, NothingStarts
<1>3. ASSUME NEW x \in Contexts
      PROVE  /\ Depth(x) = 0 /\ Now(x).op # "write" /\ ~(Now(x).op = "genclk" /\ Now(x).on)
             /\ \A k \in {0, 1} : ~Between(Now(x), Soon(x), k) /\ ~Stopping(Now(x), Soon(x), k)
  BY <1>2, StartsOut DEF Depth
<1>4. \A e \in Kinds : Holders(e) = {}
  BY <1>1 DEF Holders, Has
<1>5. /\ \A g \in Groups : OfGroup(g) = Buses!Minimal[g]
      /\ \A k \in {0, 1} : Counted(k) = {}
      /\ "USB" \notin Holders("genclk")
  <2>1. Groups \subseteq Kinds /\ "count" \in Kinds /\ "genclk" \in Kinds
    BY DEF Groups, Kinds
  <2>2. ASSUME NEW g \in Groups PROVE OfGroup(g) = Buses!Minimal[g]
    <3>1. Holders(g) \cap Members[g] = {}
      BY <1>4, <2>1
    <3>. QED  BY <3>1 DEF OfGroup
  <2>. QED  BY <1>4, <2>1, <2>2 DEF Counted
<1>6. BusType
  <2>1. \A g \in Groups : Buses!Minimal[g] \in SUBSET Bits
    <3>1. /\ Buses!Minimal["hsb"] = {"FLASHC", "PBA_BRIDGE", "HRAMC0", "HRAMC1"}
          /\ Buses!Minimal["pba"] = {"INTC", "GPIO", "PM"} /\ Buses!Minimal["pbb"] = {}
      BY DEF Buses!Minimal
    <3>2. "FLASHC" \in Bits /\ "INTC" \in Bits /\ "GPIO" \in Bits /\ "PM" \in Bits
      BY DEF Bits, Buses!OnPba, Buses!OnPbb
    <3>3. "PBA_BRIDGE" \in Bits /\ "HRAMC0" \in Bits /\ "HRAMC1" \in Bits
      BY DEF Bits
    <3>. QED  BY <3>1, <3>2, <3>3 DEF Groups
  <2>2. masks \in [Groups -> SUBSET Bits]
    <3>1. Buses!Minimal = [g \in Groups |-> Buses!Minimal[g]]
      BY DEF Groups, Buses!Minimal
    <3>. QED  BY <1>1, <2>1, <3>1
  <2>3. <<>> \in Seq(Accesses) /\ <<>> = Stack(0)
    BY DEF Stack
  <2>. QED  BY <1>1, <2>2, <2>3 DEF BusType
<1>7. \A x \in Contexts : Planned(x)
  BY <1>1 DEF Planned
<1>8. BusSections
  <2>1. Stack(0) = <<>>
    BY DEF Stack
  <2>. QED  BY <1>1, <1>3, <2>1 DEF BusSections, Contexts
<1>9. BridgesOn = {}
  BY <1>1, <1>3 DEF BridgesOn, BridgeOn
<1>10. BusMasks
  BY <1>1, <1>5, <1>9 DEF BusMasks, Groups
<1>11. BusCounts
  <2>1. Cardinality({}) = 0
    BY FS_EmptySet
  <2>. QED  BY <1>1, <1>3, <1>5, <2>1 DEF BusCounts
<1>. QED  BY <1>1, <1>3, <1>5, <1>6, <1>7, <1>8, <1>10, <1>11 DEF BusInv, LastRead, OscSeen, UsbClock

LEMMA SameOwners ==
  ASSUME UNCHANGED <<accesses, current, wanted>>
  PROVE  /\ SameHolders /\ \A x \in Contexts : Now(x)' = Now(x) /\ Soon(x)' = Soon(x) /\ (Planned(x)' <=> Planned(x))
<1>1. \A u \in Users, e \in Kinds : Has(u, e)' <=> Has(u, e)
  BY DEF Has
<1>2. \A e \in Kinds : Holders(e)' = Holders(e)
  BY <1>1 DEF Holders, Users
<1>3. Groups \subseteq Kinds /\ "count" \in Kinds /\ "genclk" \in Kinds
  BY DEF Groups, Kinds
<1>4. SameHolders
  BY <1>2, <1>3 DEF SameHolders, OfGroup, Counted, Members
<1>. QED  BY <1>4 DEF Now, Soon, Planned

(* What the hardware does of its own, and what other routines do.           *)
LEMMA BusRests ==
  ASSUME BusInv, usbOsc = "ready" => usbOsc' = "ready",
         UNCHANGED <<accesses, saved, mask, current, gm, handling, masks, sysclk_bus_refcount, genclk, wanted>>
  PROVE  BusInv'
<1>1. /\ BusType /\ BusMasks /\ BusCounts /\ UsbClock /\ BusSections /\ LastRead /\ OscSeen /\ \A x \in Contexts : Planned(x)
  BY DEF BusInv
<1>2. /\ SameHolders /\ \A x \in Contexts : Now(x)' = Now(x) /\ Soon(x)' = Soon(x) /\ (Planned(x)' <=> Planned(x))
  BY SameOwners
<1>3. \A x \in Contexts : Depth(x)' = Depth(x)
  BY <1>2 DEF Depth
<1>4. BridgesOn' = BridgesOn
  <2>1. \A k \in {0, 1} : BridgeOn(k)' <=> BridgeOn(k)
    BY <1>2 DEF BridgeOn
  <2>. QED  BY <2>1 DEF BridgesOn
<1>5. BusMasks'
  BY <1>1, <1>2, <1>4 DEF BusMasks, Groups, SameHolders
<1>6. BusCounts'
  BY <1>1, <1>2 DEF BusCounts, SameHolders
<1>7. UsbClock'
  BY <1>1, <1>2 DEF UsbClock, SameHolders
<1>8. LastRead' /\ OscSeen'
  BY <1>1, <1>2 DEF LastRead, OscSeen
<1>9. BusSections'
  BY <1>1, <1>3 DEF BusSections, Contexts
<1>10. BusType'
  BY <1>1 DEF BusType
<1>. QED  BY <1>1, <1>2, <1>5, <1>6, <1>7, <1>8, <1>9, <1>10 DEF BusInv

LEMMA BusNext == BusInv /\ [Buses!Next]_busVars => BusInv'
<1>. SUFFICES ASSUME BusInv, [Buses!Next]_busVars PROVE BusInv'
  OBVIOUS
<1>1. ASSUME NEW x \in Contexts,
             \/ Buses!Start(x) \/ Buses!Return(x) \/ Buses!cpu_irq_save(x) \/ Buses!cpu_irq_restore(x)
             \/ Buses!ReadMask(x) \/ Buses!WriteMask(x) \/ Buses!Count(x) \/ Buses!SwitchBridge(x)
             \/ Buses!OscEnable(x) \/ Buses!OscWaitReady(x) \/ Buses!Genclk(x)
      PROVE  BusInv'
  BY <1>1, StartStep, ReturnStep, SaveStep, RestoreStep, OtherQuietSteps, WriteStep, CountStep, BridgeStep, GenclkStep
<1>2. CASE Buses!MaskReady
  BY <1>2, BusRests DEF Buses!MaskReady
<1>3. CASE Buses!OscReady
  BY <1>3, BusRests DEF Buses!OscReady
<1>4. CASE UNCHANGED busVars
  BY <1>4, BusRests DEF busVars
<1>. QED  BY <1>1, <1>2, <1>3, <1>4 DEF Buses!Next, Buses!Contexts, Contexts

LEMMA BusClocked == BusInv => Buses!WantedAreClocked
<1>. SUFFICES ASSUME BusInv PROVE Buses!WantedAreClocked
  OBVIOUS
<1>1. /\ BusType /\ BusMasks /\ BusCounts /\ UsbClock /\ BusSections /\ \A x \in Contexts : Planned(x)
  BY DEF BusInv
<1>2. /\ masks.hsb = OfGroup("hsb") \cup BridgesOn /\ masks.pba = OfGroup("pba") /\ masks.pbb = OfGroup("pbb")
      /\ masks.hsb = masks["hsb"] /\ masks.pba = masks["pba"] /\ masks.pbb = masks["pbb"]
  BY <1>1 DEF BusMasks
<1>3. /\ OfGroup("hsb") = Buses!Minimal.hsb \cup {Buses!Module(p) : p \in Holders("hsb") \cap Buses!HasData}
      /\ OfGroup("pba") = Buses!Minimal.pba \cup {Buses!Module(p) : p \in Holders("pba") \cap Buses!OnPba}
      /\ OfGroup("pbb") = {Buses!Module(p) : p \in Holders("pbb") \cap Buses!OnPbb}
  BY DEF OfGroup, Members, Groups, Buses!Minimal
<1>4. \A p \in Buses!OnPba : Buses!Module(p) = p /\ p # "USB" /\ p \notin Buses!OnPbb
  BY DEF Buses!OnPba, Buses!OnPbb, Buses!Module
<1>5. \A p \in wanted : \A e \in Kinds : p \in Holders(e)
  BY <1>1 DEF BusType, Holders, Has
<1>6. /\ "hsb" \in Kinds /\ "pba" \in Kinds /\ "pbb" \in Kinds /\ "count" \in Kinds /\ "genclk" \in Kinds
  BY DEF Kinds
<1>7. ASSUME NEW k \in {0, 1}
      PROVE  sysclk_bus_refcount[k] > 0 <=> Counted(k) # {}
  <2>1. IsFiniteSet(Counted(k)) /\ Cardinality(Counted(k)) \in Nat /\ sysclk_bus_refcount[k] = Cardinality(Counted(k))
    BY <1>1, FewModules DEF BusCounts
  <2>2. Cardinality(Counted(k)) = 0 <=> Counted(k) = {}
    BY <2>1, FS_EmptySet
  <2>. QED  BY <2>1, <2>2
<1>8. ASSUME NEW p \in wanted PROVE Buses!Clocked(p)
  <2>1. p \in Buses!OnPba \cup Buses!OnPbb /\ p \in Users
    BY <1>1, UsesApart DEF BusType
  <2>2. p \in Holders("hsb") /\ p \in Holders("pba") /\ p \in Holders("pbb") /\ p \in Holders("count") /\ p \in Holders("genclk")
    BY <1>5, <1>6
  <2>3. p \in Buses!HasData => Buses!Module(p) \in masks.hsb
    BY <1>2, <1>3, <2>2
  <2>4. p \in Buses!OnPba => p \in masks.pba
    BY <1>2, <1>3, <1>4, <2>2
  <2>5. p \notin Buses!OnPba => Buses!Module(p) \in masks.pbb /\ Buses!Bridge[Buses!pbus_id(p)] \in masks.hsb
    <3>. SUFFICES ASSUME p \notin Buses!OnPba PROVE Buses!Module(p) \in masks.pbb /\ Buses!Bridge[Buses!pbus_id(p)] \in masks.hsb
      OBVIOUS
    <3>. DEFINE k == Buses!pbus_id(p)
    <3>1. k \in {0, 1} /\ p \in Buses!OnPbb
      BY <2>1, BusIds
    <3>2. p \in Counted(k)
      BY <2>2, <3>1 DEF Counted
    <3>. HIDE DEF k
    <3>3. BridgeOn(k)
      BY <1>7, <3>1, <3>2 DEF BridgeOn
    <3>4. Buses!Bridge[k] \in BridgesOn
      BY <3>1, <3>3 DEF BridgesOn
    <3>. QED  BY <1>2, <1>3, <2>2, <3>1, <3>4 DEF k
  <2>6. p = "USB" => genclk /\ usbOsc = "ready"
    BY <1>1, <2>2 DEF UsbClock
  <2>. QED  BY <2>3, <2>4, <2>5, <2>6 DEF Buses!Clocked
<1>9. ASSUME \A x \in Contexts : Buses!Idle(x)
      PROVE  /\ ~gm
             /\ masks.pba = Buses!Minimal.pba \cup (wanted \cap Buses!OnPba)
             /\ masks.pbb = {Buses!Module(p) : p \in wanted \cap Buses!OnPbb}
             /\ masks.hsb = Buses!Minimal.hsb \cup {Buses!Module(p) : p \in wanted \cap Buses!HasData}
                              \cup {Buses!Bridge[Buses!pbus_id(p)] : p \in wanted \cap Buses!OnPbb}
  <2>1. \A x \in Contexts : accesses[x] = <<>> /\ current[x] = <<>>
    BY <1>9 DEF Buses!Idle
  <2>2. ASSUME NEW x \in Contexts PROVE Depth(x) = 0 /\ \A k \in {0, 1} : ~Between(Now(x), Soon(x), k)
    <3>1. Starts(Now(x), Soon(x))
      BY <2>1, NothingStarts
    <3>. QED  BY <3>1, StartsOut DEF Depth
  <2>3. ~gm
    BY <1>1, <2>2 DEF BusSections
  <2>4. \A e \in Kinds : Holders(e) = wanted
    BY <1>1, <2>1 DEF Holders, Has, BusType
  <2>5. {Buses!Module(p) : p \in wanted \cap Buses!OnPba} = wanted \cap Buses!OnPba
    BY <1>4
  <2>6. BridgesOn = {Buses!Bridge[Buses!pbus_id(p)] : p \in wanted \cap Buses!OnPbb}
    <3>1. ASSUME NEW k \in {0, 1} PROVE BridgeOn(k) <=> \E p \in wanted \cap Buses!OnPbb : Buses!pbus_id(p) = k
      <4>1. BridgeOn(k) <=> Counted(k) # {}
        BY <1>7, <2>2 DEF BridgeOn
      <4>2. Counted(k) = {p \in wanted : p \in Buses!OnPbb /\ Buses!pbus_id(p) = k}
        BY <1>6, <2>4 DEF Counted
      <4>. QED  BY <4>1, <4>2
    <3>2. \A p \in wanted : Buses!pbus_id(p) \in {0, 1}
      BY BusIds
    <3>. QED  BY <3>1, <3>2 DEF BridgesOn
  <2>7. Holders("hsb") = wanted /\ Holders("pba") = wanted /\ Holders("pbb") = wanted
    BY <1>6, <2>4
  <2>. QED  BY <1>2, <1>3, <2>3, <2>5, <2>6, <2>7
<1>. QED  BY <1>8, <1>9 DEF Buses!WantedAreClocked, Buses!Contexts, Contexts

LEMMA BusSteps == [MCNext]_programVars => [Buses!Next]_busVars
<1>. USE DEF NotEx01, NotFlash, NotClocks, NotUsb, clockVars
<1>1. TimeStep \/ SampleStep \/ ArrayStep => UNCHANGED busVars
  BY DEF TimeStep, SampleStep, ArrayStep
<1>2. MemoryStep \/ CommandStep => UNCHANGED busVars
  BY DEF MemoryStep, CommandStep
<1>3. SettingStep \/ PowerStep \/ DelayStep \/ SleepStep => UNCHANGED busVars
  BY DEF SettingStep, PowerStep, DelayStep, SleepStep
<1>4. BusStep => Buses!Next
  BY DEF BusStep
<1>5. NotifyStep \/ WindowStep \/ WordStep => UNCHANGED busVars
  BY DEF NotifyStep, WindowStep, WordStep
<1>6. UNCHANGED programVars => UNCHANGED busVars
  BY DEF programVars
<1>. QED  BY <1>1, <1>2, <1>3, <1>4, <1>5, <1>6 DEF MCNext

(* A peripheral that main or the handler has enabled keeps its clocks and   *)
(* the bridge to its bus wherever the handler interrupts the accesses of a  *)
(* call, and at rest nothing else has a clock: for all peripherals either   *)
(* uses and any number of calls (sysclk.c, sysclk.h).                       *)
THEOREM WantedStayClocked == MCSpec => []Buses!WantedAreClocked
<1>1. MCInit => BusInv
  BY BusStarts DEF MCInit
<1>2. BusInv /\ [MCNext]_programVars => BusInv'
  BY BusSteps, BusNext
<1>. QED  BY <1>1, <1>2, BusClocked, PTL DEF MCSpec, MCNext

(* So what is asked for is kept, of clocks and of sleep modes.              *)
THEOREM RequestsAreAlwaysKept == MCSpec => []RequestsAreKept
<1>1. Buses!WantedAreClocked /\ Sleeping!SleepsAsAllowed => RequestsAreKept
  BY DEF RequestsAreKept
<1>. QED  BY <1>1, WantedStayClocked, SleepsAsAllowed, PTL

=============================================================================
