----------------------------- MODULE UsbControl -----------------------------
(***************************************************************************)
(* The control side of the USB device the ex03 firmware brings up:         *)
(* usbb_device.c (line events, control endpoint) and udc.c (requests).     *)
(* The interrupt is one action per event it dispatches; between two of     *)
(* them a host transfers packets, abandons a transfer, resets or suspends  *)
(* the bus, or the cable is pulled.  Packets are counted, not read.        *)
(***************************************************************************)
EXTENDS Integers, Sequences, FiniteSetsExt

CONSTANTS
  CtrlSize,     \* USB_DEVICE_EP_CTRL_SIZE
  LineCoding,   \* sizeof(usb_cdc_line_coding_t)
  Requests,     \* the requests the host sends; a get_descriptor's value is the size of the descriptor, 0 if unknown
  LockModulus   \* a sleep lock is a uint8_t

InKinds    == {"get_descriptor", "get_status", "get_halt", "get_configuration", "get_interface", "get_line_coding"}
ClassKinds == {"get_line_coding", "set_line_coding", "set_control_line_state"}
Kinds ==
  InKinds \cup ClassKinds \cup {"set_address", "clear_feature", "set_feature", "set_configuration", "set_interface",
                              "clear_halt", "set_halt"}

(* A host gives no device the address 0, which USB leaves undefined once a  *)
(* device is configured.                                                    *)
ASSUME UsbControlAssumption ==
  /\ CtrlSize \in Nat \ {0} /\ LineCoding \in Nat \ {0} /\ LockModulus \in Nat \ 0..1
  /\ Requests \subseteq [kind : Kinds, value : Nat, index : Nat, length : Nat]
  /\ \A r \in Requests : r.kind = "set_address" => r.value # 0

VARIABLES
  line,     \* cable, bus and the interrupts about them; udd_b_idle and its sleep lock
  hw,       \* registers of the control endpoint
  address,  \* the device's USB address
  ctrl,     \* udd_ep_control_state and udd_g_ctrlreq, whose request is dropped when it is over
  dev,      \* configuration, enabled endpoints and udi_cdc_running
  host      \* the host's transfer

ctrlVars == <<hw, address, ctrl, dev, host>>
vars == <<line, hw, address, ctrl, dev, host>>

-----------------------------------------------------------------------------
(* Requests.  Replies of a fixed size fit in less than a packet: size 1.   *)

Request(kind, value, index, length) ==
  [kind |-> kind, value |-> value, index |-> index, length |-> length]

NoRequest == Request("none", 0, 0, 0)

Udd_setup_is_in(r) == r.kind \in InKinds

(* The configuration's descriptor: interface 0 notifies on endpoint 3,      *)
(* interface 1 sends on 1 and receives on 2.  Its four functional           *)
(* descriptors are one.                                                     *)
Interface(i)    == [kind |-> "interface", number |-> i]
EndpointDesc(e) == [kind |-> "endpoint", number |-> e]
UDI_CDC_COMM_DESC == <<Interface(0), [kind |-> "functional", number |-> 0], EndpointDesc(3)>>
UDI_CDC_DATA_DESC == <<Interface(1), EndpointDesc(1), EndpointDesc(2)>>
udc_desc          == UDI_CDC_COMM_DESC \o UDI_CDC_DATA_DESC
udc_get_eof_conf  == Len(udc_desc)

(* The next descriptor of the kind before the next interface begins.        *)
udc_next_desc_in_iface(at, kind) ==
  {n \in at + 1..udc_get_eof_conf :
     /\ udc_desc[n].kind = kind
     /\ \A k \in at + 1..n - 1 : udc_desc[k].kind \notin {kind, "interface"}}

EndpointsFrom[at \in 1..udc_get_eof_conf] ==
  UNION {{udc_desc[n].number} \cup EndpointsFrom[n] : n \in udc_next_desc_in_iface(at, "endpoint")}
Endpoints == [i \in 0..1 |-> EndpointsFrom[CHOOSE n \in 1..udc_get_eof_conf : udc_desc[n] = Interface(i)]]
NumConfigurations == 1

(* Each interface has the alternate setting 0 only.                         *)
udi_cdc_getsetting == 0
udc_update_iface_desc(d, i, setting) == d.conf # 0 /\ i \in DOMAIN Endpoints /\ setting = 0

Outcome(ok, d, callback, size) == [ok |-> ok, dev |-> d, callback |-> callback, size |-> size]
Refused(d)   == Outcome(FALSE, d, "none", 0)
Done(d)      == Outcome(TRUE, d, "none", 0)
Reply(d, n)  == Outcome(TRUE, d, "none", n)
If(p, o, d)  == IF p THEN o ELSE Refused(d)

(* The data interface has nothing to undo when it is disabled.  Whether it   *)
(* starts to receive, when it is enabled, depends on the endpoint's jobs    *)
(* (UsbCdc); when it does not, its endpoints stay allocated.                *)
udc_iface_disable(d, i) == [d EXCEPT !.enabled = @ \ Endpoints[i], !.running = @ /\ i # 0]
EnableAnyway(d, i, setting, starts) ==  \* MUTANT: what enable() returns is not looked at
  If(udc_update_iface_desc(d, i, setting),
     Done([d EXCEPT !.enabled = @ \cup Endpoints[i], !.running = IF i = 0 THEN @ ELSE starts]), d)
udc_iface_enable(d, i, setting, starts) ==
  LET allocated == [d EXCEPT !.enabled = @ \cup Endpoints[i]]
  IN  If(udc_update_iface_desc(d, i, setting) /\ Endpoints[i] \cap d.enabled = {},
         IF i = 0 THEN Done(allocated) ELSE Outcome(starts, [allocated EXCEPT !.running = starts], "none", 0), d)
udc_reset(d) == [(IF d.conf = 0 THEN d ELSE udc_iface_disable(udc_iface_disable(d, 0), 1)) EXCEPT !.conf = 0]

(* The size is cut to what the host asked for; size 0 is an unknown one.    *)
udc_req_std_dev_get_descriptor(d, r) == If(r.value > 0, Reply(d, Min({r.length, r.value})), d)

(* A configuration that fails to be enabled is the configuration             *)
(* nevertheless.                                                            *)
udc_req_std_dev_set_configuration(d, r, addr, starts) ==
  LET bare == [udc_reset(d) EXCEPT !.conf = r.value]
      comm == udc_iface_enable(bare, 0, 0, starts)
  IN  If(r.length = 0 /\ addr # 0 /\ r.value <= NumConfigurations,
         IF r.value = 0 THEN Done(bare) ELSE IF comm.ok THEN udc_iface_enable(comm.dev, 1, 0, starts) ELSE comm, d)

(* The interface is disabled before the new setting is looked up.           *)
udc_req_std_iface_set_setting(d, r, starts) ==
  If(udc_update_iface_desc(d, r.index, 0) /\ r.length = 0,
     udc_iface_enable(udc_iface_disable(d, r.index), r.index, r.value, starts), d)

FixedReply(d, r)                        == If(r.length = 1, Reply(d, 1), d)
udc_req_std_dev_get_status(d, r)        == FixedReply(d, r)
udc_req_std_ep_get_status(d, r)         == FixedReply(d, r)
udc_req_std_dev_get_configuration(d, r) == FixedReply(d, r)
udc_req_std_iface_get_setting(d, r)     ==
  If(udc_update_iface_desc(d, r.index, 0) /\ udc_update_iface_desc(d, r.index, udi_cdc_getsetting), FixedReply(d, r), d)

udc_req_std_dev_set_address(d, r) == If(r.length = 0, Outcome(TRUE, d, "valid_address", 0), d)
udc_valid_address(r)              == r.value

(* A device that draws no power from the bus does not wake it up either: the *)
(* feature can be cleared but not set.                                      *)
RemoteWakeup == 1
udc_req_std_dev_clear_feature(d, r) == If(r.length = 0 /\ r.value = RemoteWakeup, Done(d), d)
udc_req_std_dev_set_feature(d, r)   == Refused(d)
udc_req_std_ep_clear_feature(d, r)  == If(r.length = 0, Done(d), d)
udc_req_std_epset_feature(d, r)     == If(r.length = 0, Done(d), d)

udi_cdc_comm_setup(d, r) ==
  CASE r.kind = "get_line_coding" -> If(r.length = LineCoding, Reply(d, LineCoding), d)
    [] r.kind = "set_line_coding" ->
         If(r.length = LineCoding, Outcome(TRUE, d, "line_coding_received", LineCoding), d)
    [] r.kind = "set_control_line_state" -> Done(d)

udi_cdc_data_setup(d) == Refused(d)
udc_req_iface(d, r) ==
  If(udc_update_iface_desc(d, r.index, 0), IF r.index = 0 THEN udi_cdc_comm_setup(d, r) ELSE udi_cdc_data_setup(d), d)

(* Whether an endpoint can be halted depends on its job, too.               *)
OrRefused(o) == {o, [o EXCEPT !.ok = FALSE]}
udc_reqstd(d, r, addr) ==
  CASE r.kind = "get_descriptor"    -> {udc_req_std_dev_get_descriptor(d, r)}
    [] r.kind = "get_status"        -> {udc_req_std_dev_get_status(d, r)}
    [] r.kind = "get_halt"          -> {udc_req_std_ep_get_status(d, r)}
    [] r.kind = "get_configuration" -> {udc_req_std_dev_get_configuration(d, r)}
    [] r.kind = "get_interface"     -> {udc_req_std_iface_get_setting(d, r)}
    [] r.kind = "set_address"       -> {udc_req_std_dev_set_address(d, r)}
    [] r.kind = "clear_feature"     -> {udc_req_std_dev_clear_feature(d, r)}
    [] r.kind = "set_feature"       -> {udc_req_std_dev_set_feature(d, r)}
    [] r.kind = "set_configuration" -> {udc_req_std_dev_set_configuration(d, r, addr, starts) : starts \in BOOLEAN}
    [] r.kind = "set_interface"     -> {udc_req_std_iface_set_setting(d, r, starts) : starts \in BOOLEAN}
    [] r.kind = "clear_halt"        -> {udc_req_std_ep_clear_feature(d, r)}
    [] r.kind = "set_halt"          -> OrRefused(udc_req_std_epset_feature(d, r))

udc_process_setup(d, r, addr) ==
  IF Udd_setup_is_in(r) /\ r.length = 0 THEN {Refused(d)}
  ELSE IF r.kind \in ClassKinds THEN {udc_req_iface(d, r)}
  ELSE udc_reqstd(d, r, addr)

-----------------------------------------------------------------------------
(* The control endpoint.  A packet waiting in the IN bank is the set {n};  *)
(* no request of this firmware has an over_under_run callback.             *)

Idle == [state |-> "setup", req |-> NoRequest, callback |-> "none", size |-> 0, trans |-> 0, zlp |-> FALSE]
udd_ctrl_init(h) == [h EXCEPT !.inEnabled = FALSE, !.flags = @ \ {"out"}, !.out = 0]

udd_ctrl_endofrequest(c, a) == IF c.callback = "valid_address" THEN udc_valid_address(c.req) ELSE a

NoStall(c, h) == ctrl' = [c EXCEPT !.state = "stall_req"] /\ hw' = h  \* MUTANT: nothing is stalled
udd_ctrl_stall_data(c, h) == /\ ctrl' = [c EXCEPT !.state = "stall_req"]
                             /\ hw' = [h EXCEPT !.stall = TRUE]
udd_ctrl_send_zlp_in(c, h) ==
  /\ ctrl' = [c EXCEPT !.state = "wait_in_zlp"]
  /\ hw' = [h EXCEPT !.flags = @ \ {"in", "nak_out"}, !.bank = {0}, !.inEnabled = TRUE, !.nak = {"nak_out"}]
udd_ctrl_send_zlp_out(c, h) ==
  /\ ctrl' = [c EXCEPT !.state = "wait_out_zlp"]
  /\ hw' = [h EXCEPT !.flags = @ \ {"nak_in"}, !.inEnabled = FALSE, !.nak = {"nak_in"}]

NoZlp(size)    == FALSE  \* MUTANT: no packet of length zero
NeedZlp(size)  == size % CtrlSize = 0

SendIn(c, h) ==
  LET n == Min({c.size - c.trans, CtrlSize})
  IN  IF c.size = c.trans /\ ~c.zlp THEN udd_ctrl_send_zlp_out(c, h)
      ELSE IF "out" \in h.flags
           THEN ctrl' = [c EXCEPT !.state = "wait_out_zlp"] /\ hw' = [h EXCEPT !.inEnabled = FALSE]
           ELSE /\ ctrl' = [c EXCEPT !.trans = @ + n, !.zlp = @ /\ c.size # c.trans]
                /\ hw' = [h EXCEPT !.flags = @ \ {"in"}, !.bank = {n}, !.inEnabled = TRUE]

(* Every control interrupt disables the NAK interrupts.                     *)
Handled == [hw EXCEPT !.nak = {}]

udd_ctrl_setup_received ==
  LET pending == ctrl.state # "setup"
      addr    == IF pending THEN udd_ctrl_endofrequest(ctrl, address) ELSE address
      h       == IF pending THEN udd_ctrl_init(Handled) ELSE Handled
      r       == hw.setup
      acked   == [h EXCEPT !.flags = @ \ {"setup"}, !.setup = NoRequest]
  IN  /\ "setup" \in hw.flags
      /\ address' = addr /\ UNCHANGED host
      /\ \E o \in udc_process_setup(dev, r, addr) :
           LET c == [Idle EXCEPT !.req = r, !.callback = o.callback, !.size = o.size]
           IN  /\ dev' = o.dev
               /\ IF ~o.ok THEN udd_ctrl_stall_data(c, acked)
                  ELSE IF Udd_setup_is_in(r)
                  THEN SendIn([c EXCEPT !.state = "data_in", !.zlp = NeedZlp(o.size)], acked)
                  ELSE IF r.length = 0 THEN udd_ctrl_send_zlp_in(c, acked)
                  ELSE /\ ctrl' = [c EXCEPT !.state = "data_out"]
                       /\ hw' = [acked EXCEPT !.nak = {"nak_in"}, !.flags = @ \ {"nak_in"}]

EndOfRequest ==
  /\ address' = udd_ctrl_endofrequest(ctrl, address)
  /\ ctrl' = Idle /\ hw' = udd_ctrl_init(Handled)

udd_ctrl_in_sent ==
  /\ "setup" \notin hw.flags /\ "in" \in hw.flags /\ hw.inEnabled
  /\ IF ctrl.state = "wait_in_zlp" THEN EndOfRequest
     ELSE SendIn(ctrl, Handled) /\ UNCHANGED address
  /\ UNCHANGED <<dev, host>>

udd_ctrl_out_received ==
  LET n     == Min({hw.out, ctrl.size - ctrl.trans})
      total == ctrl.trans + n
      c     == [ctrl EXCEPT !.trans = total]
      acked == [Handled EXCEPT !.flags = @ \ {"out"}, !.out = 0]
  IN  /\ "out" \in hw.flags /\ "setup" \notin hw.flags /\ ~("in" \in hw.flags /\ hw.inEnabled)
      /\ IF ctrl.state \in {"data_in", "wait_out_zlp"} THEN EndOfRequest
         ELSE IF ctrl.state # "data_out"
         THEN /\ hw' = [udd_ctrl_init(Handled) EXCEPT !.stall = TRUE] /\ ctrl' = Idle
              /\ UNCHANGED address
         ELSE /\ UNCHANGED address
              /\ IF n # CtrlSize \/ ctrl.req.length <= total THEN udd_ctrl_send_zlp_in([c EXCEPT !.size = total], acked)
                 ELSE IF total = ctrl.size THEN udd_ctrl_stall_data(c, acked)
                 ELSE ctrl' = c /\ hw' = [acked EXCEPT !.nak = {"nak_in"}, !.flags = @ \ {"nak_in"}]
      /\ UNCHANGED <<dev, host>>

(* Overflow (the host sent OUT and got a NAK) and underflow (it polled IN): *)
(* the flags are set whether or not their interrupts are enabled, and the   *)
(* first flag that is found is handled.                                     *)
PacketInterrupt == hw.flags \cap {"setup", "out"} # {} \/ ("in" \in hw.flags /\ hw.inEnabled)
NakInterrupt    == ~PacketInterrupt /\ hw.flags \cap hw.nak # {}

udd_ctrl_overflow ==
  /\ NakInterrupt /\ "nak_out" \in hw.flags
  /\ hw' = [Handled EXCEPT !.flags = @ \ {"nak_out"},
                           !.stall = @ \/ ("in" \notin hw.flags /\ ctrl.state = "wait_in_zlp")]
  /\ UNCHANGED <<address, ctrl, dev, host>>

udd_ctrl_underflow ==
  LET acked == [Handled EXCEPT !.flags = @ \ {"nak_in"}]
  IN  /\ NakInterrupt /\ "nak_out" \notin hw.flags
      /\ IF ctrl.state = "data_out" THEN udd_ctrl_send_zlp_in(ctrl, acked)
         ELSE hw' = [acked EXCEPT !.stall = @ \/ ctrl.state = "wait_out_zlp"] /\ UNCHANGED ctrl
      /\ UNCHANGED <<address, dev, host>>

udd_ctrl_interrupt ==
  /\ \/ udd_ctrl_setup_received \/ udd_ctrl_in_sent \/ udd_ctrl_out_received
     \/ udd_ctrl_underflow \/ udd_ctrl_overflow
  /\ UNCHANGED line

-----------------------------------------------------------------------------
(* Line events.  udd_sleep_mode locks when it should unlock, and the other  *)
(* way round; the lock wraps around.                                        *)

udd_sleep_mode(l, idle) ==
  [l EXCEPT !.idle = idle,
            !.lock = IF idle = l.idle THEN @ ELSE IF idle THEN (@ + LockModulus - 1) % LockModulus
                     ELSE (@ + 1) % LockModulus]

FreshEndpoint == [flags |-> {"in"}, inEnabled |-> FALSE, nak |-> {}, setup |-> NoRequest,
                  bank |-> {}, out |-> 0, stall |-> FALSE]

KeepAddress == dev' = udc_reset(dev) /\ hw' = FreshEndpoint /\ ctrl' = Idle /\ UNCHANGED address  \* MUTANT
Restart == /\ dev' = udc_reset(dev) /\ address' = 0 /\ hw' = FreshEndpoint
           /\ ctrl' = Idle

(* The control endpoint comes first, then reset, suspend, wake-up and VBus. *)
NoCtrl  == ~PacketInterrupt /\ ~NakInterrupt
NoBusReset == NoCtrl /\ "reset" \notin line.events
NoSuspend == NoBusReset /\ ~(line.suspended /\ line.suspendInt)
NoWakeUp  == NoSuspend /\ ~(line.woken /\ line.wakeInt)

BusReset ==
  /\ NoCtrl /\ "reset" \in line.events
  /\ Restart
  /\ line' = [line EXCEPT !.events = @ \ {"reset"}] /\ UNCHANGED host

ForgetSuspend(l) == [l EXCEPT !.suspendInt = FALSE, !.wakeInt = TRUE]  \* MUTANT: no udd_sleep_mode
Suspend(l) == udd_sleep_mode([l EXCEPT !.suspendInt = FALSE, !.wakeInt = TRUE], FALSE)

BusSuspend ==
  /\ NoBusReset /\ line.suspended /\ line.suspendInt
  /\ line' = Suspend(line)
  /\ UNCHANGED ctrlVars

BusWakeUp ==
  /\ NoSuspend /\ line.woken /\ line.wakeInt
  /\ line' = udd_sleep_mode([line EXCEPT !.wakeInt = FALSE, !.suspendInt = TRUE], TRUE)
  /\ UNCHANGED ctrlVars

udd_attach ==
  /\ NoWakeUp /\ "vbus" \in line.events /\ line.vbus
  /\ Restart
  /\ line' = udd_sleep_mode([line EXCEPT !.events = {}, !.attached = TRUE, !.suspendInt = TRUE,
                                         !.wakeInt = TRUE, !.suspended = FALSE, !.woken = FALSE], TRUE)
  /\ UNCHANGED host

(* Nothing but the pull-up is undone: configuration and jobs stay.          *)
udd_detach ==
  /\ NoWakeUp /\ "vbus" \in line.events /\ ~line.vbus
  /\ line' = udd_sleep_mode([line EXCEPT !.events = @ \ {"vbus"}, !.attached = FALSE], FALSE)
  /\ UNCHANGED ctrlVars

stdio_usb_vbus_event == udd_attach \/ udd_detach
udd_interrupt == udd_ctrl_interrupt \/ BusReset \/ BusSuspend \/ BusWakeUp \/ stdio_usb_vbus_event

-----------------------------------------------------------------------------
(* The host and the hardware between it and the interrupt.                 *)

Active  == line.attached /\ line.vbus /\ ~line.suspended /\ line.events = {}
Reaches == Active /\ host.addr = address

HostSetup(r) ==
  /\ Reaches /\ host.phase = "idle" /\ "setup" \notin hw.flags
  /\ hw' = [hw EXCEPT !.flags = @ \cup {"setup", "in"}, !.setup = r, !.bank = {}, !.stall = FALSE]
  /\ host' = [host EXCEPT !.req = r, !.count = 0, !.early = FALSE, !.refused = FALSE,
                !.phase = IF r.length = 0 THEN "status_in" ELSE IF Udd_setup_is_in(r) THEN "data_in" ELSE "data_out"]
  /\ UNCHANGED <<line, address, ctrl, dev>>

End(h) == [h EXCEPT !.phase = "idle", !.req = NoRequest, !.count = 0, !.early = FALSE]

(* A transfer to which a STALL is not an answer (refused remembers one).    *)
Legal(h) == /\ ~h.early
            /\ \/ h.req.kind = "get_descriptor" /\ h.req.value > 0 /\ h.req.length > 0
               \/ h.req.kind = "set_line_coding" /\ dev.conf # 0 /\ h.req.index = 0 /\ h.req.length = LineCoding

(* lost: a SET_ADDRESS ended without its handshake.                         *)
Fail(h) == [End(h) EXCEPT !.lost = @ \/ h.req.kind = "set_address"]
Stalled == hw.stall /\ host' = [Fail(host) EXCEPT !.refused = Legal(host)] /\ UNCHANGED hw

(* An IN token: a STALL, a packet, or a NAK.                                *)
HostIn ==
  /\ Reaches /\ host.phase \in {"data_in", "status_in"}
  /\ \/ Stalled
     \/ \E n \in hw.bank :
          /\ ~hw.stall
          /\ hw' = [hw EXCEPT !.bank = {}, !.flags = @ \cup {"in"}]
          /\ host' = IF host.phase = "status_in"
                     THEN [End(host) EXCEPT !.addr = IF host.req.kind = "set_address" THEN host.req.value ELSE @]
                     ELSE [host EXCEPT !.count = @ + n,
                             !.phase = IF n < CtrlSize \/ host.count + n >= host.req.length THEN "status_out" ELSE @]
     \/ /\ ~hw.stall /\ hw.bank = {}
        /\ hw' = [hw EXCEPT !.flags = @ \cup {"nak_in"}] /\ UNCHANGED host
  /\ UNCHANGED <<line, address, ctrl, dev>>

(* An OUT packet of n bytes: a STALL, its acceptance, or a NAK.             *)
Out(n, sent, kept) ==
  /\ Reaches
  /\ \/ Stalled
     \/ /\ ~hw.stall /\ hw.flags \cap {"setup", "out"} = {}
        /\ hw' = [hw EXCEPT !.out = n, !.flags = @ \cup {"out"}]
        /\ host' = sent
     \/ /\ ~hw.stall /\ (hw.bank # {} \/ "out" \in hw.flags)
        /\ hw' = [hw EXCEPT !.flags = @ \cup {"nak_out"}] /\ host' = kept
  /\ UNCHANGED <<line, address, ctrl, dev>>

HostOut ==
  \/ /\ host.phase = "data_out"
     /\ LET n == Min({CtrlSize, host.req.length - host.count})
        IN  Out(n, [host EXCEPT !.count = @ + n,
                      !.phase = IF host.count + n = host.req.length THEN "status_in" ELSE @], host)
  \/ host.phase = "status_out" /\ Out(0, End(host), host)

(* A host may send a packet too many, cut a data stage short, or give up.   *)
HostExtraOut == LET early == [host EXCEPT !.early = TRUE] IN host.phase = "status_in" /\ Out(0, early, early)

HostCutsShort ==
  /\ host.phase \in {"data_in", "data_out"}
  /\ host' = [host EXCEPT !.phase = IF @ = "data_in" THEN "status_out" ELSE "status_in", !.early = TRUE]
  /\ UNCHANGED <<line, hw, address, ctrl, dev>>

HostGivesUp ==
  /\ host.phase # "idle"
  /\ host' = Fail(host)
  /\ UNCHANGED <<line, hw, address, ctrl, dev>>

(* A reset of the bus clears the endpoints in hardware at once.             *)
HostReset ==
  /\ line.attached /\ line.vbus /\ "reset" \notin line.events
  /\ line' = [line EXCEPT !.events = @ \cup {"reset"}, !.suspended = FALSE, !.woken = line.suspended \/ line.woken]
  /\ hw' = FreshEndpoint
  /\ host' = [End(host) EXCEPT !.addr = 0, !.lost = FALSE]
  /\ UNCHANGED <<address, ctrl, dev>>

(* After 3 ms of silence: every packet is handled.                          *)
HostSuspends ==
  /\ Active /\ host.phase = "idle" /\ NoCtrl
  /\ line' = [line EXCEPT !.suspended = TRUE, !.woken = FALSE]
  /\ UNCHANGED ctrlVars

HostResumes ==
  /\ line.suspended
  /\ line' = [line EXCEPT !.suspended = FALSE, !.woken = TRUE]
  /\ UNCHANGED ctrlVars

Cable ==
  /\ line' = [line EXCEPT !.vbus = ~@, !.events = @ \cup {"vbus"}]
  /\ host' = [End(host) EXCEPT !.addr = 0, !.lost = FALSE]
  /\ UNCHANGED <<hw, address, ctrl, dev>>

Host == \/ \E r \in Requests : HostSetup(r)
        \/ HostIn \/ HostOut \/ HostExtraOut \/ HostCutsShort \/ HostGivesUp
        \/ HostReset \/ HostSuspends \/ HostResumes \/ Cable

(* After udd_enable: the pad is on, the cable is not seen yet.              *)
Init ==
  /\ line = [vbus |-> FALSE, attached |-> FALSE, events |-> {}, suspended |-> FALSE, woken |-> FALSE,
             suspendInt |-> FALSE, wakeInt |-> FALSE, idle |-> FALSE, lock |-> 0]
  /\ hw = FreshEndpoint /\ address = 0 /\ ctrl = Idle
  /\ dev = [conf |-> 0, enabled |-> {}, running |-> FALSE]
  /\ host = [phase |-> "idle", req |-> NoRequest, count |-> 0, early |-> FALSE,
             refused |-> FALSE, addr |-> 0, lost |-> FALSE]

Next == udd_interrupt \/ Host

(* Interrupts are taken; a host goes on with a transfer it has begun.       *)
Fairness == WF_vars(udd_interrupt) /\ WF_vars(HostIn) /\ WF_vars(HostOut)
Spec == Init /\ [][Next]_vars /\ Fairness

-----------------------------------------------------------------------------
(* A host between two transfers and the device agree on the address once the *)
(* last interrupt is handled, whatever came before: handshakes whose         *)
(* interrupt a SETUP overtook, resets, cables pulled in the middle.  The     *)
(* exception is a SET_ADDRESS that ended without its handshake.              *)
(* (udd_ctrl_setup_received, udc_valid_address, udd_reset_ep_ctrl)           *)
AddressAgreed ==
  line.attached /\ line.events = {} /\ host.phase = "idle" /\ ~host.lost /\ ~PacketInterrupt => host.addr = address

(* A legal transfer the host does not cut short gets no STALL, and the host  *)
(* has every byte of a descriptor, or as many as it asked for, when it goes  *)
(* over to the handshake.  (udd_ctrl_in_sent, udd_ctrl_payload_need_in_zlp)  *)
Served ==
  /\ ~host.refused
  /\ host.req.kind = "get_descriptor" /\ Legal(host) /\ host.phase = "status_out"
       => host.count = Min({host.req.value, host.req.length})

(* A handshake is offered for the host's request only when the request was  *)
(* done: the configuration is set, or the interface, all its endpoints are   *)
(* allocated and the data interface receives.  Enabling fails half-way and   *)
(* leaves some of this behind; a SETUP overtakes the handshake of the one   *)
(* before.  Without a configuration nothing is left, and only an addressed   *)
(* device has one.  (udc_iface_enable, udc_iface_disable, udc_reset)         *)
Acknowledges == Reaches /\ host.phase = "status_in" /\ ~hw.stall /\ hw.bank # {}
AsRequested(d, r) ==
  CASE r.kind = "set_configuration" ->
         d.conf = r.value /\ (r.value # 0 => UNION {Endpoints[i] : i \in 0..1} \subseteq d.enabled /\ d.running)
    [] r.kind = "set_interface" -> Endpoints[r.index] \subseteq d.enabled /\ (r.index = 1 => d.running)
    [] OTHER -> TRUE

ConfigurationWhole ==
  /\ Acknowledges => AsRequested(dev, host.req)
  /\ dev.conf = 0 => dev.enabled = {} /\ ~dev.running
  /\ dev.conf # 0 => address # 0

(* While the bus is in use the deep sleep modes are locked, and while it is  *)
(* suspended they are not.  (udd_sleep_mode; right only because the counter, *)
(* decremented below zero, wraps around.)                                    *)
SleepDepth ==
  /\ line.attached /\ line.events = {} /\ ~line.suspended /\ ~(line.woken /\ line.wakeInt) => line.lock # 0
  /\ line.attached /\ line.suspended /\ ~line.suspendInt => line.lock = 0

(* A transfer ends, with its handshake or a STALL, however the host mixes    *)
(* its stages, unless an earlier SET_ADDRESS ended without its handshake, or *)
(* the host cuts data it sends short: an old nak_out then hides the poll.    *)
(* (udd_ctrl_underflow, udd_ctrl_overflow, udd_ctrl_stall_data)              *)
TransfersEnd ==
  host.phase # "idle" ~> \/ host.phase = "idle" \/ host.lost
                         \/ host.early /\ host.req.kind = "set_line_coding"
=============================================================================
