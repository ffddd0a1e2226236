------------------------------ MODULE UsbNotify ------------------------------
(***************************************************************************)
(* The notifications of udi_cdc.c: a program raises and lowers the lines of *)
(* its serial port and reports errors, and the host learns of it through an *)
(* interrupt endpoint, which it may halt.  The program's steps are those    *)
(* between which an interrupt can come; an interrupt is one step.           *)
(***************************************************************************)
EXTENDS Integers

CONSTANTS
  Lines,       \* DCD and DSR, which stay as they are set
  Errors,      \* framing, parity, overrun: reported once
  MaxSignals,  \* bound: calls of the program
  MaxOpened,   \* bound: times the host chooses the configuration
  MaxHalts     \* bound: times it halts the endpoint

VARIABLES
  state,       \* udi_cdc_state
  msg,         \* uid_cdc_state_msg.value
  ongoing,     \* udi_cdc_serial_state_msg_ongoing
  endpoint,    \* as Endpoint
  hostState,   \* what the host has been told
  program,     \* where the program is, the result of udd_ep_run, and the calls so far
  opened,      \* how often the host has chosen the configuration
  halts,       \* how often it has halted the endpoint
  refused      \* history: the last notification was not accepted, by an endpoint that is halted

vars == <<state, msg, ongoing, endpoint, hostState, program, opened, halts, refused>>

NoPacket == {"none"}

(* busy: a job is running; dma: its message is to be moved; done: it has     *)
(* been, and the interrupt is still to come; bank: the packet on its way;    *)
(* bankIrq: an interrupt is wanted when it is gone.                         *)
Endpoint == [enabled |-> FALSE, busy |-> FALSE, dma |-> FALSE, done |-> FALSE, bank |-> NoPacket,
             halted |-> FALSE, stallRequested |-> FALSE, bankIrq |-> FALSE]
At(pc)   == program.pc = pc
Goto(pc) == program' = [program EXCEPT !.pc = pc]

Init ==
  /\ state = {} /\ msg = {} /\ ongoing = FALSE
  /\ endpoint = Endpoint /\ hostState = {}
  /\ program = [pc |-> "idle", result |-> FALSE, signals |-> 0]
  /\ opened = 0 /\ halts = 0 /\ refused = FALSE

-----------------------------------------------------------------------------
(* The program.                                                             *)

udi_cdc_ctrl_state_change(s) ==
  /\ At("idle") /\ program.signals < MaxSignals
  /\ state' = s
  /\ program' = [program EXCEPT !.pc = "test", !.signals = @ + 1]
  /\ UNCHANGED <<msg, ongoing, endpoint, hostState, opened, halts, refused>>

udi_cdc_ctrl_signal(l, b_set) == udi_cdc_ctrl_state_change(IF b_set THEN state \cup {l} ELSE state \ {l})
udi_cdc_signal_error(e)       == udi_cdc_ctrl_state_change(state \cup {e})

Changed == ~ongoing /\ state # msg
NotifyTest ==
  /\ At("test") /\ Goto(IF Changed THEN "fill" ELSE "idle")
  /\ UNCHANGED <<state, msg, ongoing, endpoint, hostState, opened, halts, refused>>

NotifyFill ==
  /\ At("fill") /\ Goto("check")
  /\ msg' = state
  /\ UNCHANGED <<state, ongoing, endpoint, hostState, opened, halts, refused>>

(* The halt is looked at before, the job in a critical section.  A transfer  *)
(* that still goes on is started again.                                     *)
Accepts(e)    == e.enabled /\ ~e.halted /\ ~e.stallRequested
Run(e)        == IF e.busy THEN e ELSE [e EXCEPT !.busy = TRUE, !.dma = TRUE]
Started(e)    == Accepts(e) /\ ~e.busy
udd_ep_run(e) == IF Accepts(e) THEN Run(e) ELSE e

NotifyCheck ==
  /\ At("check") /\ Goto(IF Accepts(endpoint) THEN "run" ELSE "store")
  /\ refused' = ~Accepts(endpoint)
  /\ UNCHANGED <<state, msg, ongoing, endpoint, hostState, opened, halts>>

NotifyRun ==
  /\ At("run")
  /\ endpoint' = Run(endpoint)
  /\ program' = [program EXCEPT !.pc = "store", !.result = ~endpoint.busy]
  /\ UNCHANGED <<state, msg, ongoing, hostState, opened, halts, refused>>

(* The notification may have been sent by now, and its end been handled.    *)
NotifyStore ==
  /\ At("store")
  /\ ongoing' = program.result
  /\ program' = [program EXCEPT !.pc = "idle", !.result = FALSE]
  /\ UNCHANGED <<state, msg, endpoint, hostState, opened, halts, refused>>

-----------------------------------------------------------------------------
(* The end of a notification, in an interrupt: errors are taken back, those  *)
(* reported meanwhile too, and a change of the others is sent.              *)

NotNotified(s, m, e) ==  \* MUTANT: what changed meanwhile is not sent
  /\ state' = s \ Errors /\ msg' = m \ Errors
  /\ ongoing' = FALSE /\ endpoint' = e /\ UNCHANGED refused

udi_cdc_serial_state_msg_sent(s, m, e) ==
  LET again == s \ Errors # m \ Errors
  IN  /\ state' = s \ Errors
      /\ msg' = s \ Errors
      /\ ongoing' = (again /\ Started(e))
      /\ endpoint' = IF again THEN udd_ep_run(e) ELSE e
      /\ refused' = IF again THEN ~Accepts(e) ELSE refused

udd_ep_finish_job(e) ==
  IF e.busy THEN udi_cdc_serial_state_msg_sent(state, msg, [e EXCEPT !.busy = FALSE])
  ELSE endpoint' = e /\ UNCHANGED <<state, msg, ongoing, refused>>

(* The hardware moves the message as it is then.                            *)
NotificationMoves ==
  /\ endpoint.dma /\ endpoint.enabled /\ endpoint.bank = NoPacket
  /\ endpoint' = [endpoint EXCEPT !.dma = FALSE, !.done = TRUE, !.bank = msg]
  /\ UNCHANGED <<state, msg, ongoing, hostState, program, opened, halts, refused>>

NotificationSent ==
  /\ endpoint.done
  /\ udd_ep_finish_job([endpoint EXCEPT !.done = FALSE])
  /\ UNCHANGED <<hostState, program, opened, halts>>

HostReads ==
  /\ endpoint.bank # NoPacket /\ ~endpoint.halted
  /\ hostState' = endpoint.bank
  /\ endpoint' = [endpoint EXCEPT !.bank = NoPacket]
  /\ UNCHANGED <<state, msg, ongoing, program, opened, halts, refused>>

-----------------------------------------------------------------------------
(* The host halts the endpoint: at once, or when its packet is gone; not    *)
(* while a job is running.  The interrupt of the empty bank stays enabled   *)
(* when the halt is taken back, and halts the endpoint nevertheless.        *)

udd_ep_set_halt ==
  /\ halts < MaxHalts /\ halts' = halts + 1
  /\ endpoint.enabled /\ ~endpoint.busy
  /\ endpoint' = IF endpoint.bank # NoPacket THEN [endpoint EXCEPT !.stallRequested = TRUE, !.bankIrq = TRUE]
                 ELSE [endpoint EXCEPT !.halted = TRUE]
  /\ UNCHANGED <<state, msg, ongoing, hostState, program, opened, refused>>

BankEmpty ==
  /\ endpoint.bankIrq /\ endpoint.bank = NoPacket
  /\ endpoint' = [endpoint EXCEPT !.bankIrq = FALSE, !.stallRequested = FALSE, !.halted = TRUE]
  /\ UNCHANGED <<state, msg, ongoing, hostState, program, opened, halts, refused>>

(* A running job is taken for one that waits for this: it is given up, its  *)
(* transfer goes on, and its callback is called.                            *)
udd_ep_clear_halt ==
  /\ endpoint.halted \/ endpoint.stallRequested
  /\ udd_ep_finish_job([endpoint EXCEPT !.halted = FALSE, !.stallRequested = FALSE])
  /\ UNCHANGED <<hostState, program, opened, halts>>

-----------------------------------------------------------------------------
(* The endpoint is given up: nothing stops a transfer that waits, and the    *)
(* hardware may or may not go on with it.  A requested stall stays.         *)
udd_ep_free(e, dma) ==
  [Endpoint EXCEPT !.stallRequested = e.stallRequested, !.busy = e.busy, !.dma = dma, !.done = e.done]
Freed(e) == {udd_ep_free(e, dma) : dma \in {FALSE, e.dma}}

(* SET_CONFIGURATION: a job of the former configuration is aborted and its   *)
(* callback called; one that was run on an endpoint given up meanwhile goes  *)
(* on.  Then the interface is enabled.                                      *)
Aborted(e) == IF endpoint.enabled THEN [e EXCEPT !.busy = FALSE] ELSE e

udi_cdc_comm_enable ==
  /\ opened < MaxOpened
  /\ state' = {} /\ msg' = {}
  /\ ongoing' = (ongoing /\ ~(endpoint.enabled /\ endpoint.busy))
  /\ \E e \in Freed(endpoint) : endpoint' = [Aborted(e) EXCEPT !.enabled = TRUE]
  /\ hostState' = {}
  /\ opened' = opened + 1 /\ refused' = FALSE
  /\ UNCHANGED <<program, halts>>

(* A reset of the bus, or the configuration zero.                           *)
udc_reset ==
  /\ endpoint.enabled \/ endpoint.busy
  /\ \E e \in Freed(endpoint) : udd_ep_finish_job(e)
  /\ UNCHANGED <<hostState, program, opened, halts>>

Program  == NotifyTest \/ NotifyFill \/ NotifyCheck \/ NotifyRun \/ NotifyStore
Halts    == udd_ep_set_halt \/ BankEmpty \/ udd_ep_clear_halt
Next ==
  \/ \E l \in Lines, b \in BOOLEAN : udi_cdc_ctrl_signal(l, b)
  \/ \E e \in Errors : udi_cdc_signal_error(e)
  \/ Program \/ NotificationMoves \/ NotificationSent \/ HostReads \/ Halts
  \/ udi_cdc_comm_enable \/ udc_reset

Spec == Init /\ [][Next]_vars

-----------------------------------------------------------------------------
AtRest ==
  At("idle") /\ endpoint.enabled /\ ~endpoint.busy /\ ~endpoint.dma /\ endpoint.bank = NoPacket

(* When all is at rest, nothing on its way and the program outside the      *)
(* driver, the host knows the lines as the program has set them, unless it  *)
(* had the endpoint halted when they were to be sent.                       *)
(* (udi_cdc_ctrl_signal_dcd, udi_cdc_ctrl_signal_dsr)                       *)
HostKnowsTheLines == AtRest /\ ~refused => hostState \cap Lines = state \cap Lines

(* The same while the driver does not believe that a notification is still  *)
(* on its way: whatever ends, halts, resets and signals come between the     *)
(* program's steps, the change that is not sent at once is sent at the end  *)
(* of the notification that was in its way.  Only the one that a halted     *)
(* endpoint refuses is lost, until the next.                                *)
ChangesAreSent == AtRest /\ ~ongoing /\ ~refused => hostState \cap Lines = state \cap Lines

=============================================================================
