-------------------------- MODULE UsbControlProofs --------------------------
(***************************************************************************)
(* Proofs about UsbControl, for requests of any size and number and any     *)
(* size of the control endpoint.                                            *)
(***************************************************************************)
EXTENDS UsbControl, TLAPS

RequestType == [kind : Kinds \cup {"none"}, value : Nat, index : Nat, length : Nat]
Flags  == {"setup", "in", "out", "nak_in", "nak_out"}
States == {"setup", "data_in", "data_out", "wait_in_zlp", "wait_out_zlp", "stall_req"}
Phases == {"idle", "data_in", "data_out", "status_in", "status_out"}
Calls  == {"none", "valid_address", "line_coding_received"}

LineType ==
  [vbus : BOOLEAN, attached : BOOLEAN, events : SUBSET {"reset", "vbus"}, suspended : BOOLEAN, woken : BOOLEAN,
   suspendInt : BOOLEAN, wakeInt : BOOLEAN, idle : BOOLEAN, lock : Nat]
HwType ==
  [flags : SUBSET Flags, inEnabled : BOOLEAN, nak : SUBSET {"nak_in", "nak_out"}, setup : RequestType,
   bank : SUBSET Nat, out : Nat, stall : BOOLEAN]
CtrlType == [state : States, req : RequestType, callback : Calls, size : Nat, trans : Nat, zlp : BOOLEAN]
DevType  == [conf : Nat, enabled : SUBSET Nat, running : BOOLEAN]
OutcomeType == [ok : BOOLEAN, dev : DevType, callback : Calls, size : Nat]
HostType == [phase : Phases, req : RequestType, count : Nat, early : BOOLEAN, refused : BOOLEAN, addr : Nat,
             lost : BOOLEAN]

TypeOK ==
  /\ line \in LineType /\ hw \in HwType /\ address \in Nat /\ ctrl \in CtrlType /\ dev \in DevType
  /\ host \in HostType

-----------------------------------------------------------------------------
(* The line.  The counter follows udd_b_idle, and udd_b_idle which interrupt *)
(* is awaited: a device that awaits the end of a suspension is idle.        *)
Asleep ==
  /\ line.lock = IF line.idle THEN LockModulus - 1 ELSE 0
  /\ line.attached => line.idle = line.suspendInt
  /\ line.attached /\ ~line.suspendInt => line.wakeInt /\ (line.suspended \/ line.woken)

(* The device, whatever the host does.  A SETUP packet is a request and     *)
(* empties the IN bank; only a SET_ADDRESS waits to move the device.  A     *)
(* request whose handshake is to come has been done.                        *)
Configured(d) ==
  /\ d.enabled \subseteq UNION {Endpoints[i] : i \in 0..1}
  /\ d.conf = 0 => d.enabled = {} /\ ~d.running

Sets == {"set_configuration", "set_interface"}

Whole ==
  /\ Configured(dev) /\ (dev.conf # 0 => address # 0)
  /\ ctrl.state = "wait_in_zlp" => AsRequested(dev, ctrl.req)
  /\ ctrl.state = "data_out" => ctrl.req.kind \notin Sets
  /\ ctrl.trans <= ctrl.size
  /\ "setup" \in hw.flags => hw.setup \in Requests /\ hw.bank = {}
  /\ ctrl.callback = "valid_address" =>
       ctrl.state = "wait_in_zlp" /\ ctrl.req \in Requests /\ ctrl.req.kind = "set_address"

(* The state of the control endpoint fits the request it serves.            *)
IsIn(r) == Udd_setup_is_in(r) /\ r.length # 0
Control ==
  /\ ctrl.state \in {"data_in", "wait_out_zlp"} => IsIn(ctrl.req)
  /\ ctrl.state \in {"data_out", "wait_in_zlp"} => ~Udd_setup_is_in(ctrl.req)
  /\ ctrl.state \notin {"data_in", "wait_in_zlp"} => ~hw.inEnabled
  /\ ctrl.state = "setup" => ctrl.req = NoRequest
  /\ ctrl.req.kind = "set_address" => ctrl.callback = "valid_address" \/ ctrl.state = "stall_req"

-----------------------------------------------------------------------------
(* A host can use the device: no event of the line is to be handled.        *)
Live == line.attached /\ line.events = {}

(* The stages a request goes through; none outside the time the device can   *)
(* be used.                                                                  *)
Staged ==
  /\ ~Live => host.phase = "idle" /\ host.addr = 0
  /\ host.phase # "idle" => /\ host.req \in Requests
                            /\ (host.phase \in {"data_in", "status_out"}) = IsIn(host.req)
                            /\ host.req.length = 0 => host.phase = "status_in"
                            /\ host.phase = "data_out" => host.count < host.req.length

(* Host and device are in the same transfer, unless the device's is over    *)
(* and stalled; a packet of another transfer is never taken for its own.    *)
Paired ==
  /\ ctrl.state = "setup" => "out" \notin hw.flags
  /\ "setup" \notin hw.flags /\ ctrl.state = "stall_req" => hw.stall
  /\ "setup" \in hw.flags /\ host.phase # "idle" => hw.setup = host.req
  /\ "setup" \notin hw.flags /\ host.phase # "idle" =>
       /\ ctrl.req = host.req \/ (ctrl.state = "setup" /\ hw.stall)
       /\ ctrl.state = "wait_in_zlp" => "in" \notin hw.flags
       /\ ctrl.state \in {"data_in", "wait_out_zlp"} => "out" \notin hw.flags

(* The address.  A handshake the host has, and whose interrupt is still to  *)
(* come, makes the difference.                                              *)
Undelivered ==
  /\ hw.bank = {0} /\ hw.inEnabled /\ hw.flags \cap {"in", "setup"} = {}
  /\ host.phase = "status_in" /\ host.req = ctrl.req /\ host.addr = address
Delivered == hw.bank = {} /\ hw.inEnabled /\ "in" \in hw.flags /\ host.addr = ctrl.req.value

Addressed ==
  /\ ~host.lost => IF ctrl.callback = "valid_address" THEN Undelivered \/ Delivered ELSE host.addr = address
  /\ "setup" \in hw.flags /\ hw.setup.kind = "set_address" => host.phase # "idle" \/ host.lost

(* A transfer that must succeed, from its SETUP to its handshake.           *)
SetupSent == hw.setup = host.req /\ ~hw.stall /\ host.count = 0 /\ host.phase # "status_out" /\ host.phase # "status_in"

Sending ==
  /\ ctrl.state = "data_in" /\ "out" \notin hw.flags /\ hw.nak = {} /\ hw.inEnabled
  /\ host.count % CtrlSize = 0 /\ ctrl.trans <= ctrl.size
  /\ \/ \E n \in 0..CtrlSize :
           /\ hw.bank = {n} /\ "in" \notin hw.flags /\ host.count + n = ctrl.trans
           /\ n < CtrlSize => ctrl.trans = ctrl.size
           /\ ctrl.zlp \/ ctrl.size % CtrlSize # 0 \/ n = 0
     \/ /\ hw.bank = {} /\ "in" \in hw.flags /\ host.count = ctrl.trans
        /\ ctrl.zlp \/ ctrl.size % CtrlSize # 0

Sent ==
  /\ host.count = ctrl.size
  /\ \/ ctrl.state = "data_in" /\ hw.nak = {}
     \/ ctrl.state = "wait_out_zlp" /\ hw.nak \subseteq {"nak_in"} /\ hw.nak \cap hw.flags = {}

Receiving ==
  /\ ctrl.state = "data_out" /\ hw.bank = {} /\ hw.nak \subseteq {"nak_in"} /\ ctrl.size = LineCoding
  /\ IF "out" \in hw.flags THEN hw.out <= CtrlSize /\ ctrl.trans + hw.out = host.count ELSE ctrl.trans = host.count
  /\ host.count <= LineCoding
  /\ host.phase = "data_out" => /\ host.count < LineCoding /\ "nak_in" \notin hw.flags
                                /\ "out" \in hw.flags => hw.out = CtrlSize
  /\ host.phase = "status_in" => host.count = LineCoding /\ "out" \in hw.flags

Acknowledged ==
  /\ host.phase = "status_in" /\ ctrl.state = "wait_in_zlp" /\ hw.bank = {0} /\ hw.inEnabled
  /\ hw.flags \cap {"in", "out", "nak_out"} = {} /\ hw.nak = {"nak_out"}

ServedBy ==
  IF "setup" \in hw.flags THEN SetupSent
  ELSE /\ ctrl.req = host.req /\ ~hw.stall
       /\ IF host.req.kind = "get_descriptor"
          THEN /\ ctrl.size = Min({host.req.value, host.req.length})
               /\ (host.phase = "data_in" /\ Sending) \/ (host.phase = "status_out" /\ Sent)
          ELSE Receiving \/ Acknowledged

Serving ==
  /\ ~host.refused
  /\ host.phase # "idle" /\ Legal(host) => ServedBy

IInv ==
  /\ TypeOK /\ Asleep /\ Whole /\ Control /\ Staged
  /\ Live => Paired /\ Addressed
  /\ Serving

-----------------------------------------------------------------------------
(* The configuration's descriptor. *)

LEMMA Descriptors ==
  /\ Len(udc_desc) = 6
  /\ udc_desc[1].kind = "interface" /\ udc_desc[2].kind = "functional" /\ udc_desc[3].kind = "endpoint"
  /\ udc_desc[4].kind = "interface" /\ udc_desc[5].kind = "endpoint" /\ udc_desc[6].kind = "endpoint"
  /\ udc_desc[1].number = 0 /\ udc_desc[4].number = 1
  /\ udc_desc[3].number = 3 /\ udc_desc[5].number = 1 /\ udc_desc[6].number = 2
  /\ udc_desc[1] = Interface(0) /\ udc_desc[4] = Interface(1)
  BY DEF udc_desc, UDI_CDC_COMM_DESC, UDI_CDC_DATA_DESC, Interface, EndpointDesc

(* The endpoints an interface opens are those behind its own descriptor.    *)
LEMMA EndpointsOfInterfaces == DOMAIN Endpoints = 0..1 /\ Endpoints[0] = {3} /\ Endpoints[1] = {1, 2}
<1>. DEFINE N(at) == udc_next_desc_in_iface(at, "endpoint")
<1>1. udc_get_eof_conf = 6
  BY Descriptors DEF udc_get_eof_conf
<1>2. N(1) = {3} /\ N(2) = {3} /\ N(3) = {} /\ N(4) = {5} /\ N(5) = {6} /\ N(6) = {}
  <2>. DEFINE Ends(at, n) == udc_desc[n].kind = "endpoint" /\ \A k \in at + 1..n - 1 : udc_desc[k].kind \notin {"endpoint", "interface"}
  <2>1. \A at \in 1..6 : N(at) = {n \in at + 1..6 : Ends(at, n)}
    BY <1>1 DEF udc_next_desc_in_iface
  <2>. HIDE DEF N
  <2>2. N(1) = {3}
    <3>1. \A n \in 2..6 : n \in {2, 3, 4, 5, 6}
      OBVIOUS
    <3>2. ~Ends(1, 2) /\ Ends(1, 3) /\ ~Ends(1, 4) /\ ~Ends(1, 5) /\ ~Ends(1, 6)
      BY Descriptors
    <3>. HIDE DEF Ends
    <3>. QED  BY <2>1, <3>1, <3>2
  <2>3. N(2) = {3}
    <3>1. \A n \in 3..6 : n \in {3, 4, 5, 6}
      OBVIOUS
    <3>2. Ends(2, 3) /\ ~Ends(2, 4) /\ ~Ends(2, 5) /\ ~Ends(2, 6)
      BY Descriptors
    <3>. HIDE DEF Ends
    <3>. QED  BY <2>1, <3>1, <3>2
  <2>4. N(3) = {}
    <3>1. \A n \in 4..6 : n \in {4, 5, 6}
      OBVIOUS
    <3>2. ~Ends(3, 4) /\ ~Ends(3, 5) /\ ~Ends(3, 6)
      BY Descriptors
    <3>. HIDE DEF Ends
    <3>. QED  BY <2>1, <3>1, <3>2
  <2>5. N(4) = {5}
    <3>1. \A n \in 5..6 : n \in {5, 6}
      OBVIOUS
    <3>2. Ends(4, 5) /\ ~Ends(4, 6)
      BY Descriptors
    <3>. HIDE DEF Ends
    <3>. QED  BY <2>1, <3>1, <3>2
  <2>6. N(5) = {6}
    <3>1. \A n \in 6..6 : n = 6
      OBVIOUS
    <3>2. Ends(5, 6)
      BY Descriptors
    <3>. HIDE DEF Ends
    <3>. QED  BY <2>1, <3>1, <3>2
  <2>7. N(6) = {}
    BY <2>1
  <2>. QED  BY <2>2, <2>3, <2>4, <2>5, <2>6, <2>7
<1>. DEFINE S(f, at) == UNION {{udc_desc[n].number} \cup f[n] : n \in N(at)}
            Body(f)  == [at \in 1..6 |-> S(f, at)]
            T == [at \in 1..6 |-> IF at \in {1, 2} THEN {3} ELSE IF at = 4 THEN {1, 2} ELSE IF at = 5 THEN {2} ELSE {}]
<1>3. \A f : /\ S(f, 1) = {3} \cup f[3] /\ S(f, 2) = {3} \cup f[3] /\ S(f, 3) = {}
             /\ S(f, 4) = {1} \cup f[5] /\ S(f, 5) = {2} \cup f[6] /\ S(f, 6) = {}
  <2>. HIDE DEF N
  <2>1. ASSUME NEW f, NEW at, NEW m, N(at) = {m} PROVE S(f, at) = {udc_desc[m].number} \cup f[m]
    BY <2>1
  <2>2. ASSUME NEW f, NEW at, N(at) = {} PROVE S(f, at) = {}
    BY <2>2
  <2>. HIDE DEF S
  <2>3. SUFFICES ASSUME NEW f
                 PROVE  /\ S(f, 1) = {3} \cup f[3] /\ S(f, 2) = {3} \cup f[3] /\ S(f, 3) = {}
                        /\ S(f, 4) = {1} \cup f[5] /\ S(f, 5) = {2} \cup f[6] /\ S(f, 6) = {}
    OBVIOUS
  <2>4. S(f, 3) = {} /\ S(f, 6) = {}
    BY <1>2, <2>2
  <2>5. S(f, 1) = {udc_desc[3].number} \cup f[3] /\ S(f, 2) = {udc_desc[3].number} \cup f[3]
    BY <1>2, <2>1
  <2>6. S(f, 4) = {udc_desc[5].number} \cup f[5] /\ S(f, 5) = {udc_desc[6].number} \cup f[6]
    BY <1>2, <2>1
  <2>. QED  BY <2>4, <2>5, <2>6, Descriptors
<1>4. EndpointsFrom = Body(EndpointsFrom)
  <2>1. EndpointsFrom = CHOOSE f : f = Body(f)
    BY <1>1 DEF EndpointsFrom
  <2>2. T = Body(T)
    <3>1. T[3] = {} /\ T[5] = {2} /\ T[6] = {} /\ T[1] = {3} /\ T[2] = {3} /\ T[4] = {1, 2}
      OBVIOUS
    <3>2. S(T, 1) = T[1] /\ S(T, 2) = T[2] /\ S(T, 3) = T[3] /\ S(T, 4) = T[4] /\ S(T, 5) = T[5] /\ S(T, 6) = T[6]
      <4>. HIDE DEF S, T
      <4>. QED  BY <1>3, <3>1
    <3>3. \A at \in 1..6 : at \in {1, 2, 3, 4, 5, 6}
      OBVIOUS
    <3>. HIDE DEF S
    <3>4. \A at \in 1..6 : S(T, at) = T[at]
      <4>. HIDE DEF T
      <4>. QED  BY <3>2, <3>3
    <3>. QED  BY <3>4
  <2>. HIDE DEF T, Body
  <2>. QED  BY <2>1, <2>2
<1>5. \A at \in 1..6 : EndpointsFrom[at] = S(EndpointsFrom, at)
  <2>. HIDE DEF S
  <2>. QED  BY <1>4
<1>6. EndpointsFrom[1] = {3} /\ EndpointsFrom[4] = {1, 2}
  <2>. HIDE DEF S
  <2>. QED  BY <1>3, <1>5
<1>8. \A n \in 1..6 : (udc_desc[n] = Interface(0) <=> n = 1) /\ (udc_desc[n] = Interface(1) <=> n = 4)
  <2>1. \A n \in 1..6 : n \in {1, 2, 3, 4, 5, 6}
    OBVIOUS
  <2>. QED  BY <2>1, Descriptors DEF Interface
<1>9. (CHOOSE n \in 1..6 : udc_desc[n] = Interface(0)) = 1 /\ (CHOOSE n \in 1..6 : udc_desc[n] = Interface(1)) = 4
  BY <1>8
<1>10. /\ DOMAIN Endpoints = 0..1
       /\ Endpoints[0] = EndpointsFrom[CHOOSE n \in 1..6 : udc_desc[n] = Interface(0)]
       /\ Endpoints[1] = EndpointsFrom[CHOOSE n \in 1..6 : udc_desc[n] = Interface(1)]
  BY <1>1 DEF Endpoints
<1>. QED  BY <1>6, <1>9, <1>10

-----------------------------------------------------------------------------
(* The smaller of two numbers. *)
LEMMA Smaller ==
  ASSUME NEW a \in Nat, NEW b \in Nat
  PROVE  Min({a, b}) \in Nat /\ Min({a, b}) = IF a <= b THEN a ELSE b
<1>. DEFINE m == IF a <= b THEN a ELSE b
<1>1. m \in {a, b} /\ \A y \in {a, b} : m <= y
  OBVIOUS
<1>2. \A x \in {a, b} : (\A y \in {a, b} : x <= y) => x = m
  OBVIOUS
<1>3. Min({a, b}) = m
  <2>. HIDE DEF m
  <2>. QED  BY <1>1, <1>2 DEF Min
<1>. QED  BY <1>3

(* One packet more leaves the remainder. *)
LEMMA PacketMore ==
  ASSUME NEW c \in Nat \ {0}, NEW a \in Nat
  PROVE  (a + c) % c = a % c
<1>. DEFINE q == a \div c
<1>1. a % c = a - c * q /\ q \in Nat
  OBVIOUS
<1>2. (a + c) % c = (a + c) - c * ((a + c) \div c)
  OBVIOUS
<1>3. (a + c) \div c = q + 1
  OBVIOUS
<1>. HIDE DEF q
<1>4. c * (q + 1) = c * q + c
  BY <1>1
<1>. QED  BY <1>1, <1>2, <1>3, <1>4

(* Disabling and enabling an interface, field by field.                     *)
LEMMA Disables ==
  ASSUME NEW d \in DevType, NEW i \in 0..1
  PROVE  LET e == udc_iface_disable(d, i)
         IN  /\ e \in DevType /\ e.conf = d.conf /\ e.enabled = d.enabled \ Endpoints[i]
             /\ e.running => i # 0 /\ d.running
<1>. DEFINE running == d.running /\ i # 0
            enabled == d.enabled \ Endpoints[i]
<1>1. running \in BOOLEAN /\ enabled \in SUBSET Nat
  BY DEF DevType
<1>2. udc_iface_disable(d, i) = [d EXCEPT !.enabled = enabled, !.running = running]
  BY DEF udc_iface_disable
<1>. HIDE DEF running, enabled
<1>3. LET e == udc_iface_disable(d, i)
      IN  e \in DevType /\ e.conf = d.conf /\ e.enabled = enabled /\ e.running = running
  BY <1>1, <1>2 DEF DevType
<1>. QED  BY <1>3 DEF running, enabled

LEMMA Enables ==
  ASSUME NEW d \in DevType, NEW i \in 0..1, NEW setting \in Nat, NEW starts \in BOOLEAN
  PROVE  LET o == udc_iface_enable(d, i, setting, starts)
         IN  /\ o \in OutcomeType /\ o.callback = "none" /\ o.dev.conf = d.conf
             /\ o.dev.enabled \subseteq d.enabled \cup Endpoints[i]
             /\ o.ok => d.enabled \cup Endpoints[i] \subseteq o.dev.enabled /\ (i = 1 => o.dev.running)
<1>. DEFINE enabled   == d.enabled \cup Endpoints[i]
            allocated == [d EXCEPT !.enabled = enabled]
            started   == [allocated EXCEPT !.running = starts]
            may       == udc_update_iface_desc(d, i, setting) /\ Endpoints[i] \cap d.enabled = {}
            o         == udc_iface_enable(d, i, setting, starts)
<1>1. enabled \in SUBSET Nat
  BY EndpointsOfInterfaces DEF DevType
<1>2. /\ allocated \in DevType /\ allocated.conf = d.conf /\ allocated.enabled = enabled
      /\ started \in DevType /\ started.conf = d.conf /\ started.enabled = enabled /\ started.running = starts
  <2>. HIDE DEF enabled
  <2>. QED  BY <1>1 DEF DevType
<1>3. o = IF may THEN IF i = 0 THEN Done(allocated) ELSE Outcome(starts, started, "none", 0) ELSE Refused(d)
  BY DEF udc_iface_enable, If
<1>. DEFINE Fits(x) == /\ x \in OutcomeType /\ x.callback = "none" /\ x.dev.conf = d.conf
                       /\ x.dev.enabled \subseteq enabled
                       /\ x.ok => enabled \subseteq x.dev.enabled /\ (i = 1 => x.dev.running)
<1>4. Fits(Refused(d))
  BY DEF Refused, Outcome, OutcomeType, Calls
<1>5. i = 0 => Fits(Done(allocated))
  <2>. HIDE DEF allocated, enabled
  <2>. QED  BY <1>2 DEF Done, Outcome, OutcomeType, Calls
<1>6. Fits(Outcome(starts, started, "none", 0))
  <2>. HIDE DEF started, enabled
  <2>. QED  BY <1>2 DEF Outcome, OutcomeType, Calls
<1>7. Fits(o)
  <2>. HIDE DEF Fits, o, may, allocated, started
  <2>. QED  BY <1>3, <1>4, <1>5, <1>6
<1>. QED  BY <1>7

LEMMA Resets ==
  ASSUME NEW d \in DevType, Configured(d)
  PROVE  /\ udc_reset(d) \in DevType
         /\ udc_reset(d).conf = 0 /\ udc_reset(d).enabled = {} /\ ~udc_reset(d).running
<1>. DEFINE c == udc_iface_disable(d, 0)
            e == udc_iface_disable(c, 1)
            b == IF d.conf = 0 THEN d ELSE e
<1>1. c \in DevType /\ c.enabled = d.enabled \ Endpoints[0] /\ ~c.running
  BY Disables
<1>2. e \in DevType /\ e.enabled = c.enabled \ Endpoints[1] /\ ~e.running
  <2>. HIDE DEF c
  <2>. QED  BY <1>1, Disables
<1>3. b \in DevType /\ b.enabled = {} /\ ~b.running
  <2>1. d.conf = 0 => d.enabled = {} /\ ~d.running
    BY DEF Configured
  <2>2. (d.enabled \ Endpoints[0]) \ Endpoints[1] = {}
    BY DEF Configured
  <2>. HIDE DEF c, e
  <2>. QED  BY <1>1, <1>2, <2>1, <2>2
<1>4. udc_reset(d) = [b EXCEPT !.conf = 0]
  BY DEF udc_reset
<1>. HIDE DEF b
<1>. QED  BY <1>3, <1>4 DEF DevType

(* What a request comes to.  Only a SET_ADDRESS leaves the callback that    *)
(* moves the device, only an addressed device is configured, a legal        *)
(* request is not refused, and one that is not refused was done.            *)
Processed(d, r, addr, o) ==
  /\ o \in OutcomeType /\ Configured(o.dev) /\ (o.dev.conf # 0 => addr # 0)
  /\ r.kind \notin Sets => o.dev = d
  /\ o.ok => AsRequested(o.dev, r) /\ (r.kind \in Sets => r.length = 0)
  /\ o.ok /\ Udd_setup_is_in(r) => r.length # 0
  /\ o.callback = "valid_address" <=> o.ok /\ r.kind = "set_address"
  /\ o.callback = "valid_address" => r.length = 0
  /\ r.kind = "get_descriptor" /\ r.value > 0 /\ r.length > 0 => o.ok /\ o.size = Min({r.length, r.value})
  /\ r.kind = "set_line_coding" /\ d.conf # 0 /\ r.index = 0 /\ r.length = LineCoding => o.ok /\ o.size = LineCoding

LEMMA NothingAsked == ASSUME NEW d, NEW r, r.kind \notin Sets PROVE AsRequested(d, r)
  BY DEF AsRequested, Sets

LEMMA Outcomes ==
  ASSUME NEW d \in DevType, NEW r \in Requests, NEW addr \in Nat, Configured(d), d.conf # 0 => addr # 0,
         NEW o \in udc_process_setup(d, r, addr)
  PROVE  Processed(d, r, addr, o)
<1>. USE DEF Processed
<1>. DEFINE Fits(x) == x \in OutcomeType /\ Configured(x.dev) /\ (x.dev.conf # 0 => addr # 0)
            Plain(x) == Fits(x) /\ x.callback = "none"
            Kept(x)  == Plain(x) /\ x.dev = d
<1>1. r \in [kind : Kinds, value : Nat, index : Nat, length : Nat] /\ LineCoding \in Nat \ {0}
  BY UsbControlAssumption
<1>2. Kept(Refused(d)) /\ Kept(Done(d)) /\ Kept(Reply(d, 1)) /\ Kept(Reply(d, LineCoding))
  BY <1>1 DEF Refused, Done, Reply, Outcome, OutcomeType, Calls
<1>3. Min({r.length, r.value}) \in Nat
  BY <1>1, Smaller
<1>4. Kept(Reply(d, Min({r.length, r.value})))
  BY <1>3 DEF Reply, Outcome, OutcomeType, Calls
<1>8. ASSUME NEW x, Plain(x)
      PROVE  Plain([x EXCEPT !.ok = FALSE]) /\ [x EXCEPT !.ok = FALSE].dev = x.dev
  BY <1>8 DEF OutcomeType
<1>9. r.kind \notin Sets => \A x : AsRequested(x, r)
  BY NothingAsked
<1>5. CASE Udd_setup_is_in(r) /\ r.length = 0
  <2>1. o = Refused(d)
    BY <1>5 DEF udc_process_setup
  <2>2. r.kind # "set_address" /\ r.kind # "set_line_coding" /\ r.kind \notin Sets /\ ~o.ok
    BY <1>5, <2>1 DEF Udd_setup_is_in, InKinds, Refused, Outcome, Sets
  <2>. QED  BY <1>2, <1>5, <2>1, <2>2
<1>6. CASE ~(Udd_setup_is_in(r) /\ r.length = 0) /\ r.kind \in ClassKinds
  <2>1. o = udc_req_iface(d, r)
    BY <1>6 DEF udc_process_setup
  <2>. DEFINE l == Outcome(TRUE, d, "line_coding_received", LineCoding)
  <2>2. Fits(l) /\ l.dev = d /\ l.callback # "valid_address" /\ l.ok /\ l.size = LineCoding
    BY <1>1 DEF Outcome, OutcomeType, Calls
  <2>3. r.kind # "set_line_coding" => o \in {Refused(d), Reply(d, LineCoding), Done(d)}
    BY <1>6, <2>1 DEF udc_req_iface, udi_cdc_comm_setup, udi_cdc_data_setup, If, ClassKinds
  <2>4. r.kind = "set_line_coding" =>
          o = IF udc_update_iface_desc(d, r.index, 0) /\ r.index = 0 /\ r.length = LineCoding THEN l ELSE Refused(d)
    BY <1>6, <2>1 DEF udc_req_iface, udi_cdc_comm_setup, udi_cdc_data_setup, If
  <2>5. d.conf # 0 => udc_update_iface_desc(d, 0, 0)
    BY EndpointsOfInterfaces DEF udc_update_iface_desc
  <2>6. r.kind \notin {"set_address", "get_descriptor"} /\ r.kind \notin Sets
    BY <1>6 DEF ClassKinds, Sets
  <2>. HIDE DEF l
  <2>7. Fits(o) /\ o.dev = d /\ o.callback # "valid_address"
    <3>. HIDE DEF Fits
    <3>. QED  BY <1>2, <2>2, <2>3, <2>4
  <2>8. r.kind = "set_line_coding" /\ d.conf # 0 /\ r.index = 0 /\ r.length = LineCoding => o = l
    BY <2>4, <2>5
  <2>. QED  BY <1>6, <1>9, <2>2, <2>6, <2>7, <2>8
<1>7. CASE ~(Udd_setup_is_in(r) /\ r.length = 0) /\ r.kind \notin ClassKinds
  <2>1. o \in udc_reqstd(d, r, addr) /\ r.kind # "set_line_coding"
    BY <1>7 DEF udc_process_setup, ClassKinds
  <2>2. CASE r.kind = "get_descriptor"
    <3>1. o = IF r.value > 0 THEN Reply(d, Min({r.length, r.value})) ELSE Refused(d)
      BY <2>1, <2>2 DEF udc_reqstd, udc_req_std_dev_get_descriptor, If
    <3>2. Reply(d, Min({r.length, r.value})).ok /\ Reply(d, Min({r.length, r.value})).size = Min({r.length, r.value})
      BY DEF Reply, Outcome
    <3>3. r.kind \notin Sets
      BY <2>2 DEF Sets
    <3>. QED  BY <1>2, <1>4, <1>7, <1>9, <2>2, <3>1, <3>2, <3>3
  <2>3. CASE r.kind \in {"get_status", "get_halt", "get_configuration", "get_interface", "clear_feature", "set_feature", "clear_halt"}
    <3>1. o \in {Refused(d), Reply(d, 1), Done(d)}
      BY <2>1, <2>3 DEF udc_reqstd, udc_req_std_dev_get_status, udc_req_std_ep_get_status,
           udc_req_std_dev_get_configuration, udc_req_std_iface_get_setting, udc_req_std_dev_clear_feature,
           udc_req_std_dev_set_feature, udc_req_std_ep_clear_feature, FixedReply, If
    <3>2. r.kind \notin Sets
      BY <2>3 DEF Sets
    <3>. QED  BY <1>2, <1>7, <1>9, <2>1, <2>3, <3>1, <3>2
  <2>4. CASE r.kind = "set_address"
    <3>. DEFINE v == Outcome(TRUE, d, "valid_address", 0)
    <3>1. o = IF r.length = 0 THEN v ELSE Refused(d)
      BY <2>1, <2>4 DEF udc_reqstd, udc_req_std_dev_set_address, If
    <3>2. Fits(v) /\ v.ok /\ v.dev = d /\ v.callback = "valid_address"
      BY DEF Outcome, OutcomeType, Calls
    <3>3. ~Refused(d).ok
      BY DEF Refused, Outcome
    <3>4. r.kind \notin Sets
      BY <2>4 DEF Sets
    <3>. HIDE DEF v
    <3>. QED  BY <1>2, <1>7, <1>9, <2>1, <2>4, <3>1, <3>2, <3>3, <3>4
  <2>5. CASE r.kind = "set_halt"
    <3>1. Kept(o)
      <4>1. PICK x \in {Refused(d), Done(d)} : o \in {x, [x EXCEPT !.ok = FALSE]}
        BY <2>1, <2>5 DEF udc_reqstd, udc_req_std_epset_feature, OrRefused, If
      <4>. QED  BY <1>2, <1>8, <4>1, ZenonT(60)
    <3>2. r.kind \notin Sets
      BY <2>5 DEF Sets
    <3>. QED  BY <1>7, <1>9, <2>1, <2>5, <3>1, <3>2
  <2>6. CASE r.kind = "set_configuration"
    <3>1. PICK starts \in BOOLEAN : o = udc_req_std_dev_set_configuration(d, r, addr, starts)
      BY <2>1, <2>6 DEF udc_reqstd
    <3>. DEFINE bare == [udc_reset(d) EXCEPT !.conf = r.value]
                comm == udc_iface_enable(bare, 0, 0, starts)
                both == udc_iface_enable(comm.dev, 1, 0, starts)
                x    == IF r.value = 0 THEN Done(bare) ELSE IF comm.ok THEN both ELSE comm
                Good(y) == Plain(y) /\ (y.ok => AsRequested(y.dev, r))
    <3>2. o = IF r.length = 0 /\ addr # 0 /\ r.value <= NumConfigurations THEN x ELSE Refused(d)
      BY <3>1 DEF udc_req_std_dev_set_configuration, If
    <3>3. bare \in DevType /\ bare.conf = r.value /\ bare.enabled = {} /\ ~bare.running
      BY <1>1, Resets DEF DevType
    <3>4. /\ comm \in OutcomeType /\ comm.callback = "none" /\ comm.dev.conf = r.value
          /\ comm.dev.enabled \subseteq Endpoints[0] /\ (comm.ok => Endpoints[0] \subseteq comm.dev.enabled)
      <4>. HIDE DEF bare
      <4>. QED  BY <3>3, Enables
    <3>5. /\ both \in OutcomeType /\ both.callback = "none" /\ both.dev.conf = r.value
          /\ both.dev.enabled \subseteq Endpoints[0] \cup Endpoints[1]
          /\ comm.ok /\ both.ok => Endpoints[0] \cup Endpoints[1] \subseteq both.dev.enabled /\ both.dev.running
      <4>1. comm.dev \in DevType
        BY <3>4 DEF OutcomeType
      <4>. HIDE DEF comm
      <4>. QED  BY <3>4, <4>1, Enables
    <3>6. ASSUME addr # 0 PROVE Good(x)
      <4>. HIDE DEF bare, comm, both
      <4>1. CASE r.value = 0
        <5>1. x = Done(bare) /\ Done(bare).dev = bare /\ Done(bare) \in OutcomeType /\ Done(bare).callback = "none"
          BY <3>3, <4>1 DEF Done, Outcome, OutcomeType, Calls
        <5>2. Configured(bare) /\ AsRequested(bare, r)
          BY <2>6, <3>3, <4>1 DEF Configured, AsRequested
        <5>. QED  BY <3>6, <5>1, <5>2
      <4>2. CASE r.value # 0 /\ ~comm.ok
        <5>1. x = comm /\ Configured(comm.dev)
          BY <3>4, <4>2 DEF Configured
        <5>. QED  BY <3>4, <3>6, <4>2, <5>1
      <4>3. CASE r.value # 0 /\ comm.ok
        <5>1. x = both /\ Configured(both.dev)
          BY <3>5, <4>3 DEF Configured
        <5>2. both.ok => AsRequested(both.dev, r)
          BY <2>6, <3>5, <4>3 DEF AsRequested
        <5>. QED  BY <3>5, <3>6, <5>1, <5>2
      <4>. QED  BY <4>1, <4>2, <4>3
    <3>7. Good(o) /\ (o.ok => r.length = 0)
      <4>1. ~Refused(d).ok
        BY DEF Refused, Outcome
      <4>. HIDE DEF Fits, x
      <4>. QED  BY <1>2, <3>2, <3>6, <4>1
    <3>. QED  BY <1>7, <2>1, <2>6, <3>7 DEF Sets
  <2>7. CASE r.kind = "set_interface"
    <3>1. PICK starts \in BOOLEAN : o = udc_req_std_iface_set_setting(d, r, starts)
      BY <2>1, <2>7 DEF udc_reqstd
    <3>. DEFINE off == udc_iface_disable(d, r.index)
                on  == udc_iface_enable(off, r.index, r.value, starts)
                may == udc_update_iface_desc(d, r.index, 0) /\ r.length = 0
                Good(y) == Plain(y) /\ (y.ok => AsRequested(y.dev, r))
    <3>2. o = IF may THEN on ELSE Refused(d)
      BY <3>1 DEF udc_req_std_iface_set_setting, If
    <3>3. ASSUME may PROVE Good(on)
      <4>1. r.index \in 0..1 /\ d.conf # 0
        BY <3>3, EndpointsOfInterfaces DEF udc_update_iface_desc
      <4>2. off \in DevType /\ off.conf = d.conf /\ off.enabled = d.enabled \ Endpoints[r.index]
        BY <4>1, Disables
      <4>3. /\ on \in OutcomeType /\ on.callback = "none" /\ on.dev.conf = d.conf
            /\ on.dev.enabled \subseteq d.enabled \cup Endpoints[r.index]
            /\ on.ok => Endpoints[r.index] \subseteq on.dev.enabled /\ (r.index = 1 => on.dev.running)
        <5>. HIDE DEF off
        <5>. QED  BY <1>1, <4>1, <4>2, Enables
      <4>. HIDE DEF on
      <4>4. Configured(on.dev)
        <5>1. Endpoints[r.index] \subseteq UNION {Endpoints[i] : i \in 0..1}
          BY <4>1
        <5>. QED  BY <4>1, <4>3, <5>1 DEF Configured
      <4>5. on.ok => AsRequested(on.dev, r)
        BY <2>7, <4>3 DEF AsRequested
      <4>. QED  BY <4>1, <4>3, <4>4, <4>5
    <3>4. Good(o) /\ (o.ok => r.length = 0)
      <4>1. ~Refused(d).ok
        BY DEF Refused, Outcome
      <4>. HIDE DEF Fits, on
      <4>. QED  BY <1>2, <3>2, <3>3, <4>1
    <3>. QED  BY <1>7, <2>1, <2>7, <3>4 DEF Sets
  <2>. QED  BY <1>1, <1>7, <2>2, <2>3, <2>4, <2>5, <2>6, <2>7 DEF Kinds, InKinds, ClassKinds
<1>. QED  BY <1>5, <1>6, <1>7

-----------------------------------------------------------------------------
(* What the control endpoint's helpers leave behind, field by field.        *)
SameRequest(c) == ctrl'.req = c.req /\ ctrl'.callback = c.callback /\ ctrl'.size = c.size
SameSetup(h)   == hw'.setup = h.setup /\ hw'.out = h.out

LEMMA ZlpIn ==
  ASSUME NEW c \in CtrlType, NEW h \in HwType, udd_ctrl_send_zlp_in(c, h)
  PROVE  /\ ctrl' \in CtrlType /\ hw' \in HwType /\ SameRequest(c) /\ SameSetup(h)
         /\ ctrl'.state = "wait_in_zlp" /\ ctrl'.trans = c.trans
         /\ hw'.flags = h.flags \ {"in", "nak_out"} /\ hw'.bank = {0} /\ hw'.inEnabled /\ hw'.nak = {"nak_out"}
         /\ hw'.stall = h.stall
<1>1. ctrl' \in CtrlType /\ SameRequest(c) /\ ctrl'.state = "wait_in_zlp" /\ ctrl'.trans = c.trans
  BY DEF udd_ctrl_send_zlp_in, CtrlType, States, SameRequest
<1>. DEFINE flags == h.flags \ {"in", "nak_out"}
            bank  == {0}
            nak   == {"nak_out"}
<1>2. hw' = [h EXCEPT !.flags = flags, !.bank = bank, !.inEnabled = TRUE, !.nak = nak]
  BY DEF udd_ctrl_send_zlp_in
<1>3. flags \in SUBSET Flags /\ bank \in SUBSET Nat /\ nak \in SUBSET {"nak_in", "nak_out"}
  BY DEF HwType
<1>4. /\ hw' \in HwType /\ SameSetup(h) /\ hw'.flags = flags /\ hw'.bank = bank /\ hw'.inEnabled /\ hw'.nak = nak
      /\ hw'.stall = h.stall
  <2>. HIDE DEF flags, bank, nak
  <2>. QED  BY <1>2, <1>3 DEF HwType, SameSetup
<1>. QED  BY <1>1, <1>4

LEMMA ZlpOut ==
  ASSUME NEW c \in CtrlType, NEW h \in HwType, udd_ctrl_send_zlp_out(c, h)
  PROVE  /\ ctrl' \in CtrlType /\ hw' \in HwType /\ SameRequest(c) /\ SameSetup(h)
         /\ ctrl'.state = "wait_out_zlp" /\ ctrl'.trans = c.trans
         /\ hw'.flags = h.flags \ {"nak_in"} /\ hw'.bank = h.bank /\ ~hw'.inEnabled /\ hw'.nak = {"nak_in"}
         /\ hw'.stall = h.stall
<1>1. ctrl' \in CtrlType /\ SameRequest(c) /\ ctrl'.state = "wait_out_zlp" /\ ctrl'.trans = c.trans
  BY DEF udd_ctrl_send_zlp_out, CtrlType, States, SameRequest
<1>2. hw' = [h EXCEPT !.flags = h.flags \ {"nak_in"}, !.inEnabled = FALSE, !.nak = {"nak_in"}]
  BY DEF udd_ctrl_send_zlp_out
<1>. QED  BY <1>1, <1>2 DEF HwType, SameSetup

LEMMA Stalls ==
  ASSUME NEW c \in CtrlType, NEW h \in HwType, udd_ctrl_stall_data(c, h)
  PROVE  /\ ctrl' \in CtrlType /\ hw' \in HwType /\ SameRequest(c) /\ SameSetup(h)
         /\ ctrl'.state = "stall_req" /\ ctrl'.trans = c.trans
         /\ hw'.flags = h.flags /\ hw'.bank = h.bank /\ hw'.inEnabled = h.inEnabled /\ hw'.nak = h.nak
         /\ hw'.stall
<1>1. ctrl' \in CtrlType /\ SameRequest(c) /\ ctrl'.state = "stall_req" /\ ctrl'.trans = c.trans
  BY DEF udd_ctrl_stall_data, CtrlType, States, SameRequest
<1>2. hw' = [h EXCEPT !.stall = TRUE]
  BY DEF udd_ctrl_stall_data
<1>. QED  BY <1>1, <1>2 DEF HwType, SameSetup

LEMMA SendsIn ==
  ASSUME NEW c \in CtrlType, NEW h \in HwType, c.trans <= c.size, SendIn(c, h)
  PROVE  /\ ctrl' \in CtrlType /\ hw' \in HwType /\ SameRequest(c) /\ SameSetup(h)
         /\ ctrl'.trans <= c.size /\ hw'.stall = h.stall
         /\ \/ /\ c.size = c.trans /\ ~c.zlp
               /\ ctrl'.state = "wait_out_zlp"
               /\ hw'.flags = h.flags \ {"nak_in"} /\ hw'.bank = h.bank /\ ~hw'.inEnabled /\ hw'.nak = {"nak_in"}
            \/ /\ "out" \in h.flags
               /\ ctrl'.state = "wait_out_zlp"
               /\ hw'.flags = h.flags /\ hw'.bank = h.bank /\ ~hw'.inEnabled /\ hw'.nak = h.nak
            \/ /\ "out" \notin h.flags
               /\ ctrl'.state = c.state /\ (c.size # c.trans => ctrl'.zlp = c.zlp)
               /\ hw'.flags = h.flags \ {"in"} /\ hw'.inEnabled /\ hw'.nak = h.nak
               /\ \E n \in 0..CtrlSize : /\ hw'.bank = {n} /\ ctrl'.trans = c.trans + n
                                         /\ n < CtrlSize => ctrl'.trans = c.size
                                         /\ c.size = c.trans => n = 0
<1>. DEFINE n == Min({c.size - c.trans, CtrlSize})
<1>1. CtrlSize \in Nat /\ CtrlSize > 0
  BY UsbControlAssumption
<1>2. n \in Nat /\ n = IF c.size - c.trans <= CtrlSize THEN c.size - c.trans ELSE CtrlSize
  <2>1. c.size - c.trans \in Nat
    BY DEF CtrlType
  <2>. QED  BY <1>1, <2>1, Smaller
<1>3. CASE c.size = c.trans /\ ~c.zlp
  <2>1. udd_ctrl_send_zlp_out(c, h)
    BY <1>3 DEF SendIn
  <2>. QED  BY <1>3, <2>1, ZlpOut
<1>4. CASE ~(c.size = c.trans /\ ~c.zlp) /\ "out" \in h.flags
  <2>1. ctrl' = [c EXCEPT !.state = "wait_out_zlp"] /\ hw' = [h EXCEPT !.inEnabled = FALSE]
    BY <1>4 DEF SendIn
  <2>2. ctrl' \in CtrlType /\ SameRequest(c) /\ ctrl'.trans = c.trans /\ ctrl'.state = "wait_out_zlp"
    BY <2>1 DEF CtrlType, States, SameRequest
  <2>3. /\ hw' \in HwType /\ SameSetup(h) /\ hw'.flags = h.flags /\ hw'.bank = h.bank /\ ~hw'.inEnabled
        /\ hw'.nak = h.nak /\ hw'.stall = h.stall
    BY <2>1 DEF HwType, SameSetup
  <2>. QED  BY <1>4, <2>2, <2>3
<1>5. CASE ~(c.size = c.trans /\ ~c.zlp) /\ "out" \notin h.flags
  <2>. DEFINE t == c.trans + n
              z == c.zlp /\ c.size # c.trans
  <2>1. ctrl' = [c EXCEPT !.trans = t, !.zlp = z] /\ hw' = [h EXCEPT !.flags = h.flags \ {"in"}, !.bank = {n}, !.inEnabled = TRUE]
    BY <1>5 DEF SendIn
  <2>. HIDE DEF n
  <2>2. /\ t \in Nat /\ t <= c.size /\ n \in 0..CtrlSize /\ z \in BOOLEAN /\ (n < CtrlSize => t = c.size)
        /\ (c.size = c.trans => n = 0) /\ (c.size # c.trans => z = c.zlp)
    BY <1>1, <1>2 DEF CtrlType
  <2>. HIDE DEF t, z
  <2>3. ctrl' \in CtrlType /\ SameRequest(c) /\ ctrl'.trans = t /\ ctrl'.zlp = z /\ ctrl'.state = c.state
    BY <2>1, <2>2 DEF CtrlType, SameRequest
  <2>4. /\ hw' \in HwType /\ SameSetup(h) /\ hw'.flags = h.flags \ {"in"} /\ hw'.bank = {n} /\ hw'.inEnabled
        /\ hw'.nak = h.nak /\ hw'.stall = h.stall
    BY <1>2, <2>1 DEF HwType, SameSetup
  <2>5. t = c.trans + n
    BY DEF t
  <2>. QED  BY <1>5, <2>2, <2>3, <2>4, <2>5
<1>. QED  BY <1>3, <1>4, <1>5

-----------------------------------------------------------------------------
(* The sleep lock.                                                          *)
LEMMA SleepMode ==
  ASSUME NEW l \in LineType, NEW b \in BOOLEAN, l.lock = IF l.idle THEN LockModulus - 1 ELSE 0
  PROVE  /\ udd_sleep_mode(l, b) \in LineType
         /\ udd_sleep_mode(l, b).lock = IF b THEN LockModulus - 1 ELSE 0
         /\ udd_sleep_mode(l, b).idle = b
         /\ udd_sleep_mode(l, b).attached = l.attached /\ udd_sleep_mode(l, b).events = l.events
         /\ udd_sleep_mode(l, b).suspended = l.suspended /\ udd_sleep_mode(l, b).woken = l.woken
         /\ udd_sleep_mode(l, b).suspendInt = l.suspendInt /\ udd_sleep_mode(l, b).wakeInt = l.wakeInt
<1>. DEFINE lock == IF b = l.idle THEN l.lock ELSE IF b THEN (l.lock + LockModulus - 1) % LockModulus
                    ELSE (l.lock + 1) % LockModulus
<1>1. LockModulus \in Nat /\ LockModulus > 1
  BY UsbControlAssumption
<1>2. (0 + LockModulus - 1) % LockModulus = LockModulus - 1
  BY <1>1
<1>3. LockModulus % LockModulus = 0
  <2>1. (0 + LockModulus) % LockModulus = 0 % LockModulus
    BY <1>1, PacketMore
  <2>2. 0 % LockModulus = 0
    BY <1>1
  <2>. QED  BY <1>1, <2>1, <2>2
<1>4. lock \in Nat /\ lock = IF b THEN LockModulus - 1 ELSE 0
  <2>1. CASE l.idle
    <3>1. l.lock = LockModulus - 1 /\ l.lock + 1 = LockModulus
      BY <1>1, <2>1
    <3>2. (l.lock + 1) % LockModulus = 0
      BY <1>3, <3>1
    <3>3. lock = IF b THEN l.lock ELSE (l.lock + 1) % LockModulus
      BY <2>1 DEF LineType
    <3>. HIDE DEF lock
    <3>. QED  BY <1>1, <3>1, <3>2, <3>3
  <2>2. CASE ~l.idle
    BY <1>1, <1>2, <2>2 DEF LineType
  <2>. QED  BY <2>1, <2>2
<1>5. udd_sleep_mode(l, b) = [l EXCEPT !.idle = b, !.lock = lock]
  BY DEF udd_sleep_mode
<1>. HIDE DEF lock
<1>. QED  BY <1>4, <1>5 DEF LineType

(* Every step keeps the lock in step with the state of the line.            *)
LEMMA LineStep ==
  ASSUME line \in LineType, Asleep, [Next]_vars
  PROVE  line' \in LineType /\ Asleep'
<1>1. CASE UNCHANGED line
  BY <1>1 DEF Asleep
<1>2. CASE BusReset
  BY <1>2 DEF BusReset, LineType, Asleep
<1>3. CASE BusSuspend
  <2>. DEFINE l == [line EXCEPT !.suspendInt = FALSE, !.wakeInt = TRUE]
  <2>1. /\ l \in LineType /\ l.lock = line.lock /\ l.idle = line.idle /\ ~l.suspendInt /\ l.wakeInt
        /\ l.suspended = line.suspended /\ line.suspended
    BY <1>3 DEF BusSuspend, LineType
  <2>2. line' = udd_sleep_mode(l, FALSE)
    BY <1>3 DEF BusSuspend, Suspend
  <2>. HIDE DEF l
  <2>3. l.lock = IF l.idle THEN LockModulus - 1 ELSE 0
    BY <2>1 DEF Asleep
  <2>4. /\ line' \in LineType /\ line'.lock = 0 /\ ~line'.idle
        /\ ~line'.suspendInt /\ line'.wakeInt /\ line'.suspended
    BY <2>1, <2>2, <2>3, SleepMode
  <2>. QED  BY <2>4 DEF Asleep, LineType
<1>4. CASE BusWakeUp
  <2>. DEFINE l == [line EXCEPT !.wakeInt = FALSE, !.suspendInt = TRUE]
  <2>1. l \in LineType /\ l.lock = line.lock /\ l.idle = line.idle /\ l.suspendInt
    BY DEF LineType
  <2>2. line' = udd_sleep_mode(l, TRUE)
    BY <1>4 DEF BusWakeUp
  <2>. HIDE DEF l
  <2>3. l.lock = IF l.idle THEN LockModulus - 1 ELSE 0
    BY <2>1 DEF Asleep
  <2>4. line' \in LineType /\ line'.lock = LockModulus - 1 /\ line'.idle /\ line'.suspendInt
    BY <2>1, <2>2, <2>3, SleepMode
  <2>. QED  BY <2>4 DEF Asleep, LineType
<1>5. CASE udd_attach
  <2>. DEFINE l == [line EXCEPT !.events = {}, !.attached = TRUE, !.suspendInt = TRUE,
                                !.wakeInt = TRUE, !.suspended = FALSE, !.woken = FALSE]
  <2>1. l \in LineType /\ l.lock = line.lock /\ l.idle = line.idle /\ l.suspendInt
    BY DEF LineType
  <2>2. line' = udd_sleep_mode(l, TRUE)
    BY <1>5 DEF udd_attach
  <2>. HIDE DEF l
  <2>3. l.lock = IF l.idle THEN LockModulus - 1 ELSE 0
    BY <2>1 DEF Asleep
  <2>4. line' \in LineType /\ line'.lock = LockModulus - 1 /\ line'.idle /\ line'.suspendInt
    BY <2>1, <2>2, <2>3, SleepMode
  <2>. QED  BY <2>4 DEF Asleep, LineType
<1>6. CASE udd_detach
  <2>. DEFINE l == [line EXCEPT !.events = line.events \ {"vbus"}, !.attached = FALSE]
  <2>1. l \in LineType /\ l.lock = line.lock /\ l.idle = line.idle /\ ~l.attached
    BY DEF LineType
  <2>2. line' = udd_sleep_mode(l, FALSE)
    BY <1>6 DEF udd_detach
  <2>. HIDE DEF l
  <2>3. l.lock = IF l.idle THEN LockModulus - 1 ELSE 0
    BY <2>1 DEF Asleep
  <2>4. line' \in LineType /\ line'.lock = 0 /\ ~line'.idle /\ ~line'.attached
    BY <2>1, <2>2, <2>3, SleepMode
  <2>. QED  BY <2>4 DEF Asleep, LineType
<1>7. CASE HostReset
  <2>. DEFINE e == line.events \cup {"reset"}
              w == line.suspended \/ line.woken
  <2>1. line' = [line EXCEPT !.events = e, !.suspended = FALSE, !.woken = w]
    BY <1>7 DEF HostReset
  <2>2. e \in SUBSET {"reset", "vbus"} /\ w \in BOOLEAN /\ (line.suspended \/ line.woken => w)
    BY DEF LineType
  <2>. HIDE DEF e, w
  <2>. QED  BY <2>1, <2>2 DEF LineType, Asleep
<1>8. CASE HostSuspends
  BY <1>8 DEF HostSuspends, Active, LineType, Asleep
<1>9. CASE HostResumes
  BY <1>9 DEF HostResumes, LineType, Asleep
<1>10. CASE Cable
  <2>. DEFINE e == line.events \cup {"vbus"}
              v == ~line.vbus
  <2>1. line' = [line EXCEPT !.vbus = v, !.events = e]
    BY <1>10 DEF Cable
  <2>2. e \in SUBSET {"reset", "vbus"} /\ v \in BOOLEAN
    BY DEF LineType
  <2>. HIDE DEF e, v
  <2>. QED  BY <2>1, <2>2 DEF LineType, Asleep
<1>11. Host => HostReset \/ HostSuspends \/ HostResumes \/ Cable \/ UNCHANGED line
  BY DEF Host, HostSetup, HostIn, HostOut, Out, HostExtraOut, HostCutsShort, HostGivesUp
<1>12. udd_interrupt => UNCHANGED line \/ BusReset \/ BusSuspend \/ BusWakeUp \/ udd_attach \/ udd_detach
  BY DEF udd_interrupt, udd_ctrl_interrupt, stdio_usb_vbus_event
<1>. QED  BY <1>1, <1>2, <1>3, <1>4, <1>5, <1>6, <1>7, <1>8, <1>9, <1>10, <1>11, <1>12 DEF Next, vars

(* The deep sleep modes are locked while the bus is in use, and only then    *)
(* (udd_sleep_mode).                                                         *)
THEOREM SleepDepthKept == Spec => []SleepDepth
<1>. DEFINE Inv == line \in LineType /\ Asleep
<1>1. Init => Inv
  BY UsbControlAssumption DEF Init, LineType, Asleep
<1>2. Inv /\ [Next]_vars => Inv'
  BY LineStep
<1>3. Inv => SleepDepth
  BY UsbControlAssumption DEF Asleep, SleepDepth, LineType
<1>. QED  BY <1>1, <1>2, <1>3, PTL DEF Spec

-----------------------------------------------------------------------------
(* The steps of the device, field by field.                                 *)
LEMMA HandledHw ==
  ASSUME hw \in HwType
  PROVE  /\ Handled \in HwType /\ Handled.nak = {} /\ Handled.flags = hw.flags /\ Handled.inEnabled = hw.inEnabled
         /\ Handled.setup = hw.setup /\ Handled.bank = hw.bank /\ Handled.out = hw.out /\ Handled.stall = hw.stall
<1>1. Handled = [hw EXCEPT !.nak = {}]
  BY DEF Handled
<1>. QED  BY <1>1 DEF HwType

LEMMA CtrlInit ==
  ASSUME NEW h \in HwType
  PROVE  /\ udd_ctrl_init(h) \in HwType /\ udd_ctrl_init(h).nak = h.nak /\ udd_ctrl_init(h).flags = h.flags \ {"out"}
         /\ ~udd_ctrl_init(h).inEnabled /\ udd_ctrl_init(h).out = 0
         /\ udd_ctrl_init(h).setup = h.setup /\ udd_ctrl_init(h).bank = h.bank /\ udd_ctrl_init(h).stall = h.stall
<1>. DEFINE flags == h.flags \ {"out"}
<1>1. flags \in SUBSET Flags
  BY DEF HwType
<1>2. udd_ctrl_init(h) = [h EXCEPT !.inEnabled = FALSE, !.flags = flags, !.out = 0]
  BY DEF udd_ctrl_init
<1>3. flags = h.flags \ {"out"}
  OBVIOUS
<1>4. [h EXCEPT !.inEnabled = FALSE, !.flags = flags, !.out = 0] \in HwType
  <2>. HIDE DEF flags
  <2>. QED  BY <1>1 DEF HwType
<1>. HIDE DEF flags
<1>. QED  BY <1>2, <1>3, <1>4 DEF HwType

LEMMA IdleCtrl ==
  /\ NoRequest \in RequestType /\ NoRequest.kind = "none"
  /\ Idle \in CtrlType /\ Idle.state = "setup" /\ Idle.req = NoRequest /\ Idle.callback = "none"
  /\ Idle.size = 0 /\ Idle.trans = 0 /\ ~Idle.zlp
  BY DEF Idle, NoRequest, Request, RequestType, CtrlType, States, Calls

LEMMA FreshHw ==
  /\ FreshEndpoint \in HwType /\ FreshEndpoint.flags = {"in"} /\ ~FreshEndpoint.inEnabled /\ FreshEndpoint.nak = {}
  /\ FreshEndpoint.bank = {} /\ ~FreshEndpoint.stall
<1>1. {"in"} \in SUBSET Flags
  BY DEF Flags
<1>. QED  BY <1>1, IdleCtrl DEF FreshEndpoint, HwType

LEMMA RequestsTyped == ASSUME NEW r \in Requests PROVE r \in RequestType /\ r.kind # "none" /\ r # NoRequest
  BY UsbControlAssumption, IdleCtrl DEF RequestType, Kinds, InKinds, ClassKinds

(* The request is over; the device moves where a SET_ADDRESS said.          *)
LEMMA Ends ==
  ASSUME TypeOK, Whole, EndOfRequest
  PROVE  /\ ctrl' = Idle /\ hw' \in HwType /\ hw'.flags = hw.flags \ {"out"} /\ ~hw'.inEnabled /\ hw'.nak = {}
         /\ hw'.setup = hw.setup /\ hw'.bank = hw.bank /\ hw'.stall = hw.stall
         /\ address' = IF ctrl.callback = "valid_address" THEN ctrl.req.value ELSE address
  BY HandledHw, CtrlInit DEF TypeOK, EndOfRequest, udd_ctrl_endofrequest, udc_valid_address

(* A SETUP packet ends whatever was going on.                               *)
LEMMA SetupStep ==
  ASSUME TypeOK, Whole, Control, udd_ctrl_setup_received
  PROVE  /\ "setup" \in hw.flags /\ hw.setup \in Requests /\ host' = host
         /\ address' = IF ctrl.callback = "valid_address" THEN ctrl.req.value ELSE address
         /\ address' \in Nat /\ (address # 0 => address' # 0)
         /\ ctrl' \in CtrlType /\ hw' \in HwType
         /\ hw'.flags \subseteq hw.flags \ {"setup"} /\ ("out" \in hw'.flags => ctrl.state = "setup")
         /\ ctrl'.req = hw.setup /\ ctrl'.trans <= ctrl'.size
         /\ \E o : Processed(dev, hw.setup, address', o)
              /\ dev' = o.dev /\ ctrl'.callback = o.callback /\ ctrl'.size = o.size
              /\ \/ ~o.ok /\ ctrl'.state = "stall_req" /\ hw'.stall /\ ~hw'.inEnabled
                 \/ /\ o.ok /\ IsIn(hw.setup) /\ hw'.stall = hw.stall
                    /\ \/ ctrl'.state = "wait_out_zlp" /\ ~hw'.inEnabled /\ (o.size = 0 \/ ("out" \in hw.flags /\ ctrl.state = "setup"))
                       \/ /\ ctrl'.state = "data_in" /\ "in" \notin hw'.flags /\ "out" \notin hw'.flags
                          /\ hw'.inEnabled /\ hw'.nak = {}
                          /\ o.size # 0 => ctrl'.zlp = NeedZlp(o.size)
                          /\ \E n \in 0..CtrlSize : /\ hw'.bank = {n} /\ ctrl'.trans = n
                                                    /\ n < CtrlSize => ctrl'.trans = o.size
                 \/ /\ o.ok /\ ~Udd_setup_is_in(hw.setup) /\ hw.setup.length = 0 /\ hw'.stall = hw.stall
                    /\ ctrl'.state = "wait_in_zlp" /\ "in" \notin hw'.flags /\ hw'.bank = {0} /\ hw'.inEnabled
                 \/ /\ o.ok /\ ~Udd_setup_is_in(hw.setup) /\ hw.setup.length # 0 /\ hw'.stall = hw.stall
                    /\ ctrl'.state = "data_out" /\ ctrl'.trans = 0 /\ hw'.bank = {} /\ ~hw'.inEnabled
                    /\ hw'.nak = {"nak_in"} /\ "nak_in" \notin hw'.flags
<1>. DEFINE pending == ctrl.state # "setup"
            addr  == IF pending THEN udd_ctrl_endofrequest(ctrl, address) ELSE address
            h     == IF pending THEN udd_ctrl_init(Handled) ELSE Handled
            r     == hw.setup
            flags == h.flags \ {"setup"}
            acked == [h EXCEPT !.flags = flags, !.setup = NoRequest]
            c(o)  == [Idle EXCEPT !.req = r, !.callback = o.callback, !.size = o.size]
<1>1. r \in Requests /\ r \in RequestType /\ "setup" \in hw.flags /\ hw.bank = {}
  BY RequestsTyped DEF udd_ctrl_setup_received, Whole
<1>2. /\ h \in HwType /\ h.nak = {} /\ ~h.inEnabled /\ h.bank = {} /\ h.stall = hw.stall
      /\ h.flags \subseteq hw.flags /\ ("out" \in h.flags => ctrl.state = "setup" /\ "out" \in hw.flags)
  BY <1>1, HandledHw, CtrlInit DEF TypeOK, Control
<1>3. /\ acked \in HwType /\ acked.flags = flags /\ acked.nak = {} /\ ~acked.inEnabled /\ acked.bank = {}
      /\ acked.stall = hw.stall
  <2>1. flags \in SUBSET Flags
    BY <1>2 DEF HwType
  <2>. HIDE DEF h, flags
  <2>. QED  BY <1>2, <2>1, IdleCtrl DEF HwType
<1>4. /\ addr = IF ctrl.callback = "valid_address" THEN ctrl.req.value ELSE address
      /\ addr \in Nat /\ (address # 0 => addr # 0)
  <2>1. addr = IF ctrl.callback = "valid_address" THEN ctrl.req.value ELSE address
    BY DEF udd_ctrl_endofrequest, udc_valid_address, Whole
  <2>2. ctrl.callback = "valid_address" => ctrl.req.value \in Nat /\ ctrl.req.value # 0
    BY UsbControlAssumption DEF Whole
  <2>. HIDE DEF addr
  <2>. QED  BY <2>1, <2>2 DEF TypeOK
<1>5. PICK o \in udc_process_setup(dev, r, addr) :
        /\ dev' = o.dev
        /\ IF ~o.ok THEN udd_ctrl_stall_data(c(o), acked)
           ELSE IF Udd_setup_is_in(r)
           THEN SendIn([c(o) EXCEPT !.state = "data_in", !.zlp = NeedZlp(o.size)], acked)
           ELSE IF r.length = 0 THEN udd_ctrl_send_zlp_in(c(o), acked)
           ELSE /\ ctrl' = [c(o) EXCEPT !.state = "data_out"]
                /\ hw' = [acked EXCEPT !.nak = {"nak_in"}, !.flags = @ \ {"nak_in"}]
  BY DEF udd_ctrl_setup_received
<1>6. address' = addr /\ host' = host
  BY DEF udd_ctrl_setup_received
<1>7. Processed(dev, r, addr, o)
  <2>1. dev.conf # 0 => addr # 0
    BY <1>4 DEF Whole
  <2>2. dev \in DevType /\ Configured(dev) /\ o \in udc_process_setup(dev, r, addr)
    BY <1>5 DEF TypeOK, Whole
  <2>3. r \in Requests /\ addr \in Nat
    BY <1>1, <1>4
  <2>. HIDE DEF addr, r
  <2>. QED  BY <2>1, <2>2, <2>3, Outcomes
<1>8. /\ c(o) \in CtrlType /\ c(o).req = r /\ c(o).callback = o.callback /\ c(o).size = o.size /\ c(o).trans = 0
      /\ c(o).trans <= c(o).size
  <2>. DEFINE callback == o.callback
              size == o.size
  <2>1. callback \in Calls /\ size \in Nat
    BY <1>7 DEF OutcomeType, Processed
  <2>2. c(o) = [Idle EXCEPT !.req = r, !.callback = callback, !.size = size]
    OBVIOUS
  <2>. HIDE DEF r, callback, size, c
  <2>3. c(o) \in CtrlType /\ c(o).req = r /\ c(o).callback = callback /\ c(o).size = size /\ c(o).trans = 0
    BY <1>1, <2>1, <2>2, IdleCtrl DEF CtrlType
  <2>. QED  BY <2>1, <2>3 DEF callback, size
<1>9. flags \subseteq hw.flags \ {"setup"} /\ ("out" \in flags => ctrl.state = "setup" /\ "out" \in hw.flags)
  <2>. HIDE DEF h
  <2>. QED  BY <1>2
<1>10. CASE ~o.ok
  <2>1. udd_ctrl_stall_data(c(o), acked)
    BY <1>5, <1>10
  <2>. HIDE DEF acked, c, flags, addr, r
  <2>. QED  BY <1>1, <1>3, <1>4, <1>5, <1>6, <1>7, <1>8, <1>9, <1>10, <2>1, Stalls DEF SameRequest, SameSetup, r
<1>11. CASE o.ok /\ Udd_setup_is_in(r)
  <2>. DEFINE k == [c(o) EXCEPT !.state = "data_in", !.zlp = NeedZlp(o.size)]
  <2>1. SendIn(k, acked)
    BY <1>5, <1>11
  <2>2. /\ k \in CtrlType /\ k.req = r /\ k.callback = o.callback /\ k.size = o.size /\ k.trans = 0 /\ k.state = "data_in"
        /\ k.zlp = NeedZlp(o.size)
    <3>. DEFINE z == NeedZlp(o.size)
    <3>1. z \in BOOLEAN
      BY DEF NeedZlp
    <3>. DEFINE b == c(o)
    <3>3. b \in CtrlType
      BY <1>8
    <3>4. k = [b EXCEPT !.state = "data_in", !.zlp = z]
      OBVIOUS
    <3>. HIDE DEF b, k, z
    <3>5. /\ k \in CtrlType /\ k.req = b.req /\ k.callback = b.callback /\ k.size = b.size /\ k.trans = b.trans
          /\ k.state = "data_in" /\ k.zlp = z
      BY <3>1, <3>3, <3>4 DEF CtrlType, States
    <3>2. /\ k \in CtrlType /\ k.req = c(o).req /\ k.callback = c(o).callback /\ k.size = c(o).size /\ k.trans = c(o).trans
          /\ k.state = "data_in" /\ k.zlp = z
      BY <3>5 DEF b
    <3>. QED  BY <1>8, <3>2 DEF z
  <2>. HIDE DEF k
  <2>3. k.trans <= k.size
    BY <2>2 DEF CtrlType
  <2>. HIDE DEF acked, c
  <2>4. /\ ctrl' \in CtrlType /\ hw' \in HwType /\ SameRequest(k) /\ SameSetup(acked)
        /\ ctrl'.trans <= k.size /\ hw'.stall = acked.stall
        /\ \/ /\ k.size = k.trans /\ ~k.zlp
              /\ ctrl'.state = "wait_out_zlp"
              /\ hw'.flags = acked.flags \ {"nak_in"} /\ ~hw'.inEnabled
           \/ /\ "out" \in acked.flags
              /\ ctrl'.state = "wait_out_zlp" /\ hw'.flags = acked.flags /\ ~hw'.inEnabled
           \/ /\ "out" \notin acked.flags
              /\ ctrl'.state = k.state /\ (k.size # k.trans => ctrl'.zlp = k.zlp)
              /\ hw'.flags = acked.flags \ {"in"} /\ hw'.inEnabled /\ hw'.nak = acked.nak
              /\ \E n \in 0..CtrlSize : /\ hw'.bank = {n} /\ ctrl'.trans = k.trans + n
                                        /\ n < CtrlSize => ctrl'.trans = k.size
    BY <1>3, <2>1, <2>2, <2>3, SendsIn
  <2>5. IsIn(r)
    BY <1>7, <1>11 DEF IsIn, Processed
  <2>6. \A n \in 0..CtrlSize : 0 + n = n
    BY UsbControlAssumption
  <2>. DEFINE Over == ctrl'.state = "wait_out_zlp" /\ ~hw'.inEnabled /\ (o.size = 0 \/ ("out" \in hw.flags /\ ctrl.state = "setup"))
              More == /\ ctrl'.state = "data_in" /\ "in" \notin hw'.flags /\ "out" \notin hw'.flags
                      /\ hw'.inEnabled /\ hw'.nak = {}
                      /\ o.size # 0 => ctrl'.zlp = NeedZlp(o.size)
                      /\ \E n \in 0..CtrlSize : /\ hw'.bank = {n} /\ ctrl'.trans = n
                                                /\ n < CtrlSize => ctrl'.trans = o.size
  <2>7. Over \/ More
    <3>1. CASE k.size = k.trans /\ ctrl'.state = "wait_out_zlp" /\ ~hw'.inEnabled
      <4>1. o.size = 0
        BY <2>2, <3>1
      <4>2. Over
        BY <3>1, <4>1
      <4>. QED  BY <4>2
    <3>2. CASE "out" \in acked.flags /\ ctrl'.state = "wait_out_zlp" /\ ~hw'.inEnabled
      <4>. HIDE DEF flags
      <4>. QED  BY <1>3, <1>9, <3>2
    <3>3. CASE /\ "out" \notin acked.flags
               /\ ctrl'.state = k.state /\ (k.size # k.trans => ctrl'.zlp = k.zlp)
               /\ hw'.flags = acked.flags \ {"in"} /\ hw'.inEnabled /\ hw'.nak = acked.nak
               /\ \E n \in 0..CtrlSize : /\ hw'.bank = {n} /\ ctrl'.trans = k.trans + n
                                         /\ n < CtrlSize => ctrl'.trans = k.size
      BY <1>3, <2>2, <2>6, <3>3
    <3>. QED  BY <2>4, <3>1, <3>2, <3>3
  <2>8. hw'.flags \subseteq acked.flags /\ hw'.stall = acked.stall /\ ctrl'.trans <= ctrl'.size
    BY <2>4 DEF SameRequest
  <2>9. ctrl'.req = r /\ ctrl'.callback = o.callback /\ ctrl'.size = o.size
    BY <2>2, <2>4 DEF SameRequest
  <2>. HIDE DEF flags, addr, r
  <2>10. hw'.flags \subseteq hw.flags \ {"setup"} /\ ("out" \in hw'.flags => ctrl.state = "setup")
    BY <1>3, <1>9, <2>8
  <2>. QED  BY <1>1, <1>3, <1>4, <1>5, <1>6, <1>7, <1>11, <2>4, <2>5, <2>7, <2>8, <2>9, <2>10 DEF r
<1>12. CASE o.ok /\ ~Udd_setup_is_in(r) /\ r.length = 0
  <2>1. udd_ctrl_send_zlp_in(c(o), acked)
    BY <1>5, <1>12
  <2>. HIDE DEF acked, c, flags, addr, r
  <2>. QED  BY <1>1, <1>3, <1>4, <1>5, <1>6, <1>7, <1>8, <1>9, <1>12, <2>1, ZlpIn DEF SameRequest, r
<1>13. CASE o.ok /\ ~Udd_setup_is_in(r) /\ r.length # 0
  <2>. DEFINE nak == {"nak_in"}
              f   == flags \ {"nak_in"}
  <2>1. ctrl' = [c(o) EXCEPT !.state = "data_out"] /\ hw' = [acked EXCEPT !.nak = nak, !.flags = f]
    BY <1>3, <1>5, <1>13
  <2>2. nak \in SUBSET {"nak_in", "nak_out"} /\ f \in SUBSET Flags
    BY <1>3 DEF HwType
  <2>3. /\ hw' \in HwType /\ hw'.flags = f /\ hw'.nak = nak /\ hw'.bank = acked.bank /\ hw'.stall = acked.stall
        /\ hw'.inEnabled = acked.inEnabled
    <3>. HIDE DEF acked, nak, f, c, flags
    <3>. QED  BY <1>3, <2>1, <2>2 DEF HwType
  <2>4. /\ ctrl' \in CtrlType /\ ctrl'.state = "data_out" /\ ctrl'.req = c(o).req /\ ctrl'.callback = c(o).callback
        /\ ctrl'.size = c(o).size /\ ctrl'.trans = c(o).trans
    <3>. HIDE DEF acked, nak, f, c, flags
    <3>. QED  BY <1>8, <2>1 DEF CtrlType, States
  <2>. HIDE DEF acked, c, flags, addr, r
  <2>. QED  BY <1>1, <1>3, <1>4, <1>5, <1>6, <1>7, <1>8, <1>9, <1>13, <2>3, <2>4 DEF r
<1>14. o.ok \in BOOLEAN
  BY <1>7 DEF OutcomeType, Processed
<1>. HIDE DEF acked, c, flags, addr
<1>. QED  BY <1>10, <1>11, <1>12, <1>13, <1>14

(* A packet was sent: the request is over, or there is more to send.        *)
LEMMA InSentStep ==
  ASSUME TypeOK, Whole, Control, udd_ctrl_in_sent
  PROVE  /\ "setup" \notin hw.flags /\ "in" \in hw.flags /\ hw.inEnabled /\ dev' = dev /\ host' = host
         /\ \/ ctrl.state = "wait_in_zlp" /\ EndOfRequest
            \/ /\ ctrl.state = "data_in" /\ address' = address
               /\ ctrl' \in CtrlType /\ hw' \in HwType /\ SameRequest(ctrl) /\ hw'.setup = hw.setup
               /\ ctrl'.trans <= ctrl.size /\ hw'.stall = hw.stall
               /\ \/ /\ ctrl.size = ctrl.trans /\ ~ctrl.zlp /\ ctrl'.state = "wait_out_zlp"
                     /\ hw'.flags = hw.flags \ {"nak_in"} /\ ~hw'.inEnabled /\ hw'.nak = {"nak_in"}
                  \/ /\ "out" \in hw.flags /\ ctrl'.state = "wait_out_zlp"
                     /\ hw'.flags = hw.flags /\ ~hw'.inEnabled /\ hw'.nak = {}
                  \/ /\ "out" \notin hw.flags
                     /\ ctrl'.state = "data_in" /\ (ctrl.size # ctrl.trans => ctrl'.zlp = ctrl.zlp)
                     /\ hw'.flags = hw.flags \ {"in"} /\ hw'.inEnabled /\ hw'.nak = {}
                     /\ \E n \in 0..CtrlSize : /\ hw'.bank = {n} /\ ctrl'.trans = ctrl.trans + n
                                               /\ n < CtrlSize => ctrl'.trans = ctrl.size
                                               /\ ctrl.size = ctrl.trans => n = 0
<1>1. "setup" \notin hw.flags /\ "in" \in hw.flags /\ hw.inEnabled /\ dev' = dev /\ host' = host
  BY DEF udd_ctrl_in_sent
<1>2. CASE ctrl.state = "wait_in_zlp"
  BY <1>1, <1>2 DEF udd_ctrl_in_sent
<1>3. CASE ctrl.state # "wait_in_zlp"
  <2>1. SendIn(ctrl, Handled) /\ address' = address /\ ctrl.state = "data_in"
    BY <1>1, <1>3 DEF udd_ctrl_in_sent, Control
  <2>2. ctrl \in CtrlType /\ Handled \in HwType /\ ctrl.trans <= ctrl.size
    BY HandledHw DEF TypeOK, Whole
  <2>. QED  BY <1>1, <2>1, <2>2, SendsIn, HandledHw DEF TypeOK, SameSetup
<1>. QED  BY <1>2, <1>3

(* A packet was received: the handshake, or data of the host.               *)
LEMMA OutReceivedStep ==
  ASSUME TypeOK, Whole, Control, udd_ctrl_out_received
  PROVE  /\ "out" \in hw.flags /\ "setup" \notin hw.flags /\ ~("in" \in hw.flags /\ hw.inEnabled)
         /\ dev' = dev /\ host' = host
         /\ \/ ctrl.state \in {"data_in", "wait_out_zlp"} /\ EndOfRequest
            \/ /\ ctrl.state \notin {"data_in", "wait_out_zlp", "data_out"} /\ address' = address
               /\ ctrl' = Idle /\ hw' \in HwType /\ hw'.stall /\ ~hw'.inEnabled /\ hw'.flags = hw.flags \ {"out"}
            \/ /\ ctrl.state = "data_out" /\ address' = address
               /\ ctrl' \in CtrlType /\ hw' \in HwType
               /\ ctrl'.req = ctrl.req /\ ctrl'.callback = ctrl.callback /\ ctrl'.trans <= ctrl'.size
               /\ LET n     == Min({hw.out, ctrl.size - ctrl.trans})
                      total == ctrl.trans + n
                  IN  /\ total \in Nat /\ total <= ctrl.size /\ ctrl'.trans = total
                      /\ n = (IF hw.out <= ctrl.size - ctrl.trans THEN hw.out ELSE ctrl.size - ctrl.trans)
                      /\ \/ /\ n # CtrlSize \/ ctrl.req.length <= total
                            /\ ctrl'.state = "wait_in_zlp" /\ hw'.flags = hw.flags \ {"out", "in", "nak_out"}
                            /\ hw'.bank = {0} /\ hw'.inEnabled /\ hw'.nak = {"nak_out"} /\ hw'.stall = hw.stall
                         \/ /\ n = CtrlSize /\ ~(ctrl.req.length <= total) /\ total = ctrl.size
                            /\ ctrl'.state = "stall_req" /\ hw'.stall /\ ~hw'.inEnabled /\ hw'.flags \subseteq hw.flags
                         \/ /\ n = CtrlSize /\ ~(ctrl.req.length <= total)
                            /\ ctrl'.state = "data_out" /\ ctrl'.size = ctrl.size
                            /\ hw'.flags = hw.flags \ {"out", "nak_in"} /\ ~hw'.inEnabled /\ hw'.nak = {"nak_in"}
                            /\ hw'.bank = hw.bank /\ hw'.stall = hw.stall
<1>. DEFINE n     == Min({hw.out, ctrl.size - ctrl.trans})
            total == ctrl.trans + n
            c     == [ctrl EXCEPT !.trans = total]
            flags == Handled.flags \ {"out"}
            acked == [Handled EXCEPT !.flags = flags, !.out = 0]
<1>1. /\ "out" \in hw.flags /\ "setup" \notin hw.flags /\ ~("in" \in hw.flags /\ hw.inEnabled)
      /\ dev' = dev /\ host' = host
  BY DEF udd_ctrl_out_received
<1>2. CASE ctrl.state \in {"data_in", "wait_out_zlp"}
  BY <1>1, <1>2 DEF udd_ctrl_out_received
<1>3. CASE ctrl.state \notin {"data_in", "wait_out_zlp", "data_out"}
  <2>. DEFINE h == udd_ctrl_init(Handled)
  <2>1. hw' = [h EXCEPT !.stall = TRUE] /\ ctrl' = Idle /\ address' = address
    BY <1>3 DEF udd_ctrl_out_received
  <2>2. h \in HwType /\ ~h.inEnabled /\ h.flags = hw.flags \ {"out"}
    BY HandledHw, CtrlInit DEF TypeOK
  <2>. HIDE DEF h
  <2>3. hw' \in HwType /\ hw'.stall /\ ~hw'.inEnabled /\ hw'.flags = hw.flags \ {"out"}
    BY <2>1, <2>2 DEF HwType
  <2>. QED  BY <1>1, <1>3, <2>1, <2>3
<1>4. CASE ctrl.state = "data_out"
  <2>1. /\ n \in Nat /\ total \in Nat /\ total <= ctrl.size
        /\ n = IF hw.out <= ctrl.size - ctrl.trans THEN hw.out ELSE ctrl.size - ctrl.trans
    <3>1. hw.out \in Nat /\ ctrl.size - ctrl.trans \in Nat /\ ctrl.trans \in Nat /\ ctrl.size \in Nat
      BY DEF TypeOK, HwType, CtrlType, Whole
    <3>2. n \in Nat /\ n = IF hw.out <= ctrl.size - ctrl.trans THEN hw.out ELSE ctrl.size - ctrl.trans
      BY <3>1, Smaller
    <3>. HIDE DEF n
    <3>. QED  BY <3>1, <3>2
  <2>2. /\ c \in CtrlType /\ c.state = "data_out" /\ c.req = ctrl.req /\ c.callback = ctrl.callback
        /\ c.size = ctrl.size /\ c.trans = total
    <3>. HIDE DEF total
    <3>. QED  BY <1>4, <2>1 DEF CtrlType, TypeOK
  <2>3. /\ acked \in HwType /\ acked.flags = hw.flags \ {"out"} /\ acked.nak = {} /\ ~acked.inEnabled
        /\ acked.bank = hw.bank /\ acked.stall = hw.stall
    <3>1. ~hw.inEnabled
      BY <1>4 DEF Control
    <3>2. flags \in SUBSET Flags
      BY HandledHw DEF HwType, TypeOK
    <3>3. acked \in HwType
      <4>. HIDE DEF flags
      <4>. QED  BY <3>2, HandledHw DEF HwType, TypeOK
    <3>4. flags = hw.flags \ {"out"}
      BY HandledHw DEF TypeOK
    <3>. HIDE DEF flags
    <3>. QED  BY <3>1, <3>3, <3>4, HandledHw DEF HwType, TypeOK
  <2>4. /\ address' = address
        /\ IF n # CtrlSize \/ ctrl.req.length <= total THEN udd_ctrl_send_zlp_in([c EXCEPT !.size = total], acked)
           ELSE IF total = ctrl.size THEN udd_ctrl_stall_data(c, acked)
           ELSE ctrl' = c /\ hw' = [acked EXCEPT !.nak = {"nak_in"}, !.flags = acked.flags \ {"nak_in"}]
    BY <1>4 DEF udd_ctrl_out_received
  <2>5. CASE n # CtrlSize \/ ctrl.req.length <= total
    <3>. DEFINE k == [c EXCEPT !.size = total]
    <3>1. k \in CtrlType /\ k.req = ctrl.req /\ k.callback = ctrl.callback /\ k.size = total /\ k.trans = total
      <4>. HIDE DEF c, total
      <4>. QED  BY <2>1, <2>2 DEF CtrlType
    <3>2. udd_ctrl_send_zlp_in(k, acked)
      BY <2>4, <2>5
    <3>3. total <= total
      BY <2>1
    <3>4. /\ ctrl' \in CtrlType /\ hw' \in HwType /\ SameRequest(k)
          /\ ctrl'.state = "wait_in_zlp" /\ ctrl'.trans = total
          /\ hw'.flags = hw.flags \ {"out", "in", "nak_out"} /\ hw'.bank = {0} /\ hw'.inEnabled /\ hw'.nak = {"nak_out"}
          /\ hw'.stall = hw.stall
      <4>. HIDE DEF k, acked, total
      <4>. QED  BY <2>3, <3>1, <3>2, ZlpIn
    <3>. HIDE DEF k, c, total, n
    <3>. QED  BY <1>1, <1>4, <2>1, <2>4, <2>5, <3>1, <3>3, <3>4 DEF SameRequest, total, n
  <2>6. CASE ~(n # CtrlSize \/ ctrl.req.length <= total) /\ total = ctrl.size
    <3>1. udd_ctrl_stall_data(c, acked)
      BY <2>4, <2>6
    <3>2. /\ ctrl' \in CtrlType /\ hw' \in HwType /\ SameRequest(c)
          /\ ctrl'.state = "stall_req" /\ ctrl'.trans = total /\ hw'.stall /\ ~hw'.inEnabled /\ hw'.flags \subseteq hw.flags
      <4>. HIDE DEF c, acked, total
      <4>. QED  BY <2>2, <2>3, <3>1, Stalls
    <3>. HIDE DEF c, total, n
    <3>. QED  BY <1>1, <1>4, <2>1, <2>2, <2>4, <2>6, <3>2 DEF SameRequest, total, n
  <2>7. CASE ~(n # CtrlSize \/ ctrl.req.length <= total) /\ total # ctrl.size
    <3>. DEFINE f   == acked.flags \ {"nak_in"}
                nak == {"nak_in"}
    <3>1. ctrl' = c /\ hw' = [acked EXCEPT !.nak = nak, !.flags = f]
      BY <2>3, <2>4, <2>7
    <3>2. f \in SUBSET Flags /\ nak \in SUBSET {"nak_in", "nak_out"}
      <4>. HIDE DEF acked
      <4>. QED  BY <2>3 DEF HwType
    <3>3. /\ hw' \in HwType /\ hw'.flags = f /\ ~hw'.inEnabled /\ hw'.nak = nak /\ hw'.bank = hw.bank /\ hw'.stall = hw.stall
      <4>. HIDE DEF acked, f, nak
      <4>. QED  BY <2>3, <3>1, <3>2 DEF HwType
    <3>4. f = hw.flags \ {"out", "nak_in"}
      <4>. HIDE DEF acked
      <4>. QED  BY <2>3
    <3>. HIDE DEF c, total, n, f
    <3>. QED  BY <1>1, <1>4, <2>1, <2>2, <2>4, <2>7, <3>1, <3>3, <3>4 DEF total, n
  <2>. QED  BY <2>5, <2>6, <2>7
<1>. QED  BY <1>2, <1>3, <1>4

-----------------------------------------------------------------------------
(* The device's steps keep the invariant.                                   *)
LEMMA SetupKeeps ==
  ASSUME IInv, udd_ctrl_setup_received, UNCHANGED line
  PROVE  IInv'
<1>. TypeOK /\ Whole /\ Control /\ Staged /\ Serving
  BY DEF IInv
<1>1. /\ "setup" \in hw.flags /\ hw.setup \in Requests /\ host' = host
      /\ address' = IF ctrl.callback = "valid_address" THEN ctrl.req.value ELSE address
      /\ address' \in Nat /\ (address # 0 => address' # 0)
      /\ ctrl' \in CtrlType /\ hw' \in HwType
      /\ hw'.flags \subseteq hw.flags \ {"setup"} /\ ("out" \in hw'.flags => ctrl.state = "setup")
      /\ ctrl'.req = hw.setup /\ ctrl'.trans <= ctrl'.size
  BY SetupStep
<1>. DEFINE r == hw.setup
            Refuse(o) == ~o.ok /\ ctrl'.state = "stall_req" /\ hw'.stall /\ ~hw'.inEnabled
            Over(o) == /\ o.ok /\ IsIn(r) /\ hw'.stall = hw.stall
                       /\ ctrl'.state = "wait_out_zlp" /\ ~hw'.inEnabled /\ (o.size = 0 \/ ("out" \in hw.flags /\ ctrl.state = "setup"))
            Sends(o) == /\ o.ok /\ IsIn(r) /\ hw'.stall = hw.stall
                        /\ ctrl'.state = "data_in" /\ "in" \notin hw'.flags /\ "out" \notin hw'.flags
                        /\ hw'.inEnabled /\ hw'.nak = {}
                        /\ o.size # 0 => ctrl'.zlp = NeedZlp(o.size)
                        /\ \E n \in 0..CtrlSize : /\ hw'.bank = {n} /\ ctrl'.trans = n
                                                  /\ n < CtrlSize => ctrl'.trans = o.size
            Answers(o) == /\ o.ok /\ ~Udd_setup_is_in(r) /\ r.length = 0 /\ hw'.stall = hw.stall
                          /\ ctrl'.state = "wait_in_zlp" /\ "in" \notin hw'.flags /\ hw'.bank = {0} /\ hw'.inEnabled
            Awaits(o) == /\ o.ok /\ ~Udd_setup_is_in(r) /\ r.length # 0 /\ hw'.stall = hw.stall
                         /\ ctrl'.state = "data_out" /\ ctrl'.trans = 0 /\ hw'.bank = {} /\ ~hw'.inEnabled
                         /\ hw'.nak = {"nak_in"} /\ "nak_in" \notin hw'.flags
<1>2. PICK o : /\ Processed(dev, r, address', o) /\ dev' = o.dev /\ ctrl'.callback = o.callback /\ ctrl'.size = o.size
               /\ Refuse(o) \/ Over(o) \/ Sends(o) \/ Answers(o) \/ Awaits(o)
  BY SetupStep
<1>3. r \in RequestType /\ r.kind # "none" /\ r # NoRequest
  BY <1>1, RequestsTyped
<1>4. o \in OutcomeType /\ Configured(dev') /\ (dev'.conf # 0 => address' # 0)
  BY <1>2 DEF Processed
<1>5. TypeOK'
  BY <1>1, <1>2, <1>4 DEF TypeOK, OutcomeType
<1>6. o.callback = "valid_address" <=> o.ok /\ r.kind = "set_address"
  BY <1>2 DEF Processed
<1>7. o.callback = "valid_address" => ~Udd_setup_is_in(r) /\ r.length = 0
  BY <1>2, <1>6 DEF Processed, Udd_setup_is_in, InKinds
<1>8. Whole'
  <2>1. ctrl'.callback = "valid_address" => ctrl'.state = "wait_in_zlp"
    BY <1>2, <1>6, <1>7 DEF IsIn
  <2>2. "setup" \notin hw'.flags
    BY <1>1
  <2>3. o.ok => AsRequested(dev', r) /\ (r.kind \in Sets => r.length = 0)
    BY <1>2 DEF Processed
  <2>4. /\ ctrl'.state = "wait_in_zlp" => AsRequested(dev', ctrl'.req)
        /\ ctrl'.state = "data_out" => ctrl'.req.kind \notin Sets
    BY <1>1, <1>2, <2>3
  <2>. QED  BY <1>1, <1>2, <1>4, <1>6, <2>1, <2>2, <2>4 DEF Whole
<1>9. Control'
  BY <1>1, <1>2, <1>3, <1>6 DEF Control, IsIn
<1>10. Staged'
  BY <1>1 DEF Staged, Live
<1>11. ASSUME Live PROVE Paired'
  <2>1. Paired
    BY <1>11 DEF IInv
  <2>2. "setup" \notin hw'.flags /\ "out" \notin hw'.flags /\ ctrl'.state # "setup"
    BY <1>1, <1>2, <2>1 DEF Paired
  <2>3. host.phase # "idle" => r = host.req
    BY <1>1, <2>1 DEF Paired
  <2>. QED  BY <1>1, <1>2, <2>2, <2>3 DEF Paired
<1>12. ASSUME Live PROVE Addressed'
  <2>1. Paired /\ Addressed
    BY <1>12 DEF IInv
  <2>2. ~host.lost => host.addr = address'
    BY <1>1, <2>1 DEF Addressed, Undelivered, Delivered
  <2>3. "setup" \notin hw'.flags
    BY <1>1
  <2>4. ASSUME ~host.lost, o.callback = "valid_address" PROVE Undelivered'
    <3>1. Answers(o)
      BY <1>2, <1>6, <1>7, <2>4 DEF IsIn
    <3>2. host.phase # "idle"
      BY <1>1, <1>6, <2>1, <2>4 DEF Addressed
    <3>3. r = host.req /\ host.phase = "status_in"
      BY <1>1, <1>7, <2>1, <2>4, <3>2 DEF Paired, Staged
    <3>. QED  BY <1>1, <2>2, <2>3, <2>4, <3>1, <3>3 DEF Undelivered
  <2>. QED  BY <1>1, <1>2, <2>2, <2>3, <2>4 DEF Addressed
<1>13. Serving'
  <2>1. host' = host /\ ~host.refused
    BY <1>1 DEF Serving
  <2>2. ASSUME host.phase # "idle", Legal(host)' PROVE ServedBy'
    <3>1. Live /\ Paired
      BY <2>2 DEF IInv, Staged
    <3>2. r = host.req
      BY <1>1, <2>2, <3>1 DEF Paired
    <3>3. r.kind \in {"get_descriptor", "set_line_coding"}
      BY <2>1, <2>2, <3>2 DEF Legal
    <3>4. dev' = dev
      BY <1>2, <3>3 DEF Processed, Sets
    <3>5. Legal(host) /\ SetupSent
      BY <1>1, <2>1, <2>2, <3>4 DEF Legal, Serving, ServedBy
    <3>6. "setup" \notin hw'.flags
      BY <1>1
    <3>7. CtrlSize \in Nat \ {0} /\ LineCoding \in Nat \ {0} /\ r.value \in Nat /\ r.length \in Nat
      BY <1>3, UsbControlAssumption DEF RequestType
    <3>8. CASE r.kind = "get_descriptor"
      <4>1. r.value > 0 /\ r.length > 0
        BY <3>2, <3>5, <3>8 DEF Legal
      <4>2. o.ok /\ o.size = Min({r.length, r.value})
        BY <1>2, <3>8, <4>1 DEF Processed
      <4>3. o.size \in Nat /\ o.size # 0
        BY <3>7, <4>1, <4>2, Smaller
      <4>4. IsIn(r)
        BY <3>8, <4>1 DEF IsIn, Udd_setup_is_in, InKinds
      <4>5. ~("out" \in hw.flags /\ ctrl.state = "setup")
        BY <3>1 DEF Paired
      <4>6. Sends(o)
        BY <1>2, <4>2, <4>3, <4>4, <4>5 DEF IsIn
      <4>7. host.phase = "data_in" /\ host.count = 0 /\ ~hw.stall
        BY <2>2, <3>2, <3>5, <4>4 DEF Staged, SetupSent
      <4>8. ctrl'.zlp \/ ctrl'.size % CtrlSize # 0
        BY <1>2, <4>3, <4>6 DEF NeedZlp
      <4>9. Sending'
        <5>1. PICK n \in 0..CtrlSize : hw'.bank = {n} /\ ctrl'.trans = n /\ (n < CtrlSize => ctrl'.trans = o.size)
          BY <4>6
        <5>2. 0 + n = n /\ 0 % CtrlSize = 0
          BY <3>7
        <5>3. /\ ctrl'.state = "data_in" /\ "out" \notin hw'.flags /\ hw'.nak = {} /\ hw'.inEnabled
              /\ "in" \notin hw'.flags
          BY <4>6
        <5>. QED  BY <1>1, <1>2, <2>1, <4>7, <4>8, <5>1, <5>2, <5>3 DEF Sending
      <4>10. ctrl'.size = Min({host.req.value, host.req.length})
        BY <1>2, <3>2, <4>2
      <4>. QED  BY <1>1, <2>1, <3>2, <3>6, <3>8, <4>6, <4>7, <4>9, <4>10 DEF ServedBy
    <3>9. CASE r.kind = "set_line_coding"
      <4>1. dev.conf # 0 /\ r.index = 0 /\ r.length = LineCoding
        BY <3>2, <3>5, <3>9 DEF Legal
      <4>2. o.ok /\ o.size = LineCoding
        BY <1>2, <3>9, <4>1 DEF Processed
      <4>3. ~Udd_setup_is_in(r) /\ r.length # 0
        BY <3>7, <3>9, <4>1 DEF Udd_setup_is_in, InKinds
      <4>4. Awaits(o)
        BY <1>2, <4>2, <4>3 DEF IsIn
      <4>5. host.phase = "data_out" /\ host.count = 0 /\ ~hw.stall
        BY <1>5, <2>2, <3>2, <3>5, <4>3 DEF Staged, SetupSent, IsIn, TypeOK, HostType, Phases
      <4>6. "out" \notin hw'.flags
        BY <1>1, <3>1 DEF Paired
      <4>7. Receiving'
        BY <1>2, <2>1, <3>7, <4>2, <4>4, <4>5, <4>6 DEF Receiving
      <4>. QED  BY <1>1, <2>1, <3>2, <3>6, <3>9, <4>4, <4>5, <4>7 DEF ServedBy
    <3>. QED  BY <3>3, <3>8, <3>9
  <2>. QED  BY <2>1, <2>2 DEF Serving
<1>. QED  BY <1>5, <1>8, <1>9, <1>10, <1>11, <1>12, <1>13 DEF IInv, Live, Asleep

LEMMA InSentKeeps ==
  ASSUME IInv, udd_ctrl_in_sent, UNCHANGED line
  PROVE  IInv'
<1>. TypeOK /\ Whole /\ Control /\ Staged /\ Serving
  BY DEF IInv
<1>1. /\ "setup" \notin hw.flags /\ "in" \in hw.flags /\ hw.inEnabled /\ dev' = dev /\ host' = host
      /\ (ctrl.state = "wait_in_zlp" /\ EndOfRequest) \/ ctrl.state = "data_in"
  BY InSentStep
<1>2. CASE ctrl.state = "wait_in_zlp" /\ EndOfRequest
  <2>1. /\ ctrl' = Idle /\ hw' \in HwType /\ hw'.flags = hw.flags \ {"out"} /\ ~hw'.inEnabled
        /\ address' = IF ctrl.callback = "valid_address" THEN ctrl.req.value ELSE address
    BY <1>2, Ends
  <2>2. address' \in Nat /\ (address # 0 => address' # 0)
    BY <2>1, UsbControlAssumption DEF Whole, TypeOK
  <2>3. host.phase = "idle"
    BY <1>1, <1>2 DEF IInv, Staged, Paired
  <2>4. TypeOK'
    BY <1>1, <2>1, <2>2, IdleCtrl DEF TypeOK
  <2>5. Whole'
    BY <1>1, <2>1, <2>2, IdleCtrl DEF Whole
  <2>6. Control'
    BY <2>1, IdleCtrl DEF Control
  <2>7. Staged'
    BY <1>1 DEF Staged, Live
  <2>8. Paired'
    BY <1>1, <2>1, <2>3, IdleCtrl DEF Paired
  <2>9. Live => Addressed'
    BY <1>1, <2>1, <2>3, IdleCtrl DEF IInv, Addressed, Undelivered, Delivered
  <2>10. Serving'
    BY <1>1, <2>3 DEF Serving
  <2>. QED  BY <2>4, <2>5, <2>6, <2>7, <2>8, <2>9, <2>10 DEF IInv, Live, Asleep
<1>3. CASE ctrl.state = "data_in"
  <2>. DEFINE Ended == /\ ctrl.size = ctrl.trans /\ ~ctrl.zlp /\ ctrl'.state = "wait_out_zlp"
                       /\ hw'.flags = hw.flags \ {"nak_in"} /\ ~hw'.inEnabled /\ hw'.nak = {"nak_in"}
              Handed == /\ "out" \in hw.flags /\ ctrl'.state = "wait_out_zlp"
                        /\ hw'.flags = hw.flags /\ ~hw'.inEnabled /\ hw'.nak = {}
              Sends == /\ "out" \notin hw.flags
                       /\ ctrl'.state = "data_in" /\ (ctrl.size # ctrl.trans => ctrl'.zlp = ctrl.zlp)
                       /\ hw'.flags = hw.flags \ {"in"} /\ hw'.inEnabled /\ hw'.nak = {}
                       /\ \E n \in 0..CtrlSize : /\ hw'.bank = {n} /\ ctrl'.trans = ctrl.trans + n
                                                 /\ n < CtrlSize => ctrl'.trans = ctrl.size
                                                 /\ ctrl.size = ctrl.trans => n = 0
  <2>1. /\ address' = address /\ ctrl' \in CtrlType /\ hw' \in HwType /\ ctrl'.req = ctrl.req
        /\ ctrl'.callback = ctrl.callback /\ ctrl'.size = ctrl.size
        /\ ctrl'.trans <= ctrl.size /\ hw'.stall = hw.stall
        /\ Ended \/ Handed \/ Sends
    BY <1>3, InSentStep DEF SameRequest
  <2>2. ctrl.callback # "valid_address" /\ hw'.flags \subseteq hw.flags
    BY <1>3, <2>1 DEF Whole
  <2>3. ctrl'.state \in {"data_in", "wait_out_zlp"} /\ (hw'.inEnabled => ctrl'.state = "data_in")
    BY <2>1
  <2>4. TypeOK'
    BY <1>1, <2>1 DEF TypeOK
  <2>5. Whole'
    BY <1>1, <2>1, <2>2, <2>3 DEF Whole
  <2>6. Control'
    BY <1>3, <2>1, <2>3 DEF Control
  <2>7. Staged'
    BY <1>1 DEF Staged, Live
  <2>8. Live => Paired'
    BY <1>1, <1>3, <2>1, <2>2, <2>3 DEF IInv, Paired
  <2>9. Live => Addressed'
    BY <1>1, <2>1, <2>2 DEF IInv, Addressed
  <2>10. ASSUME host.phase # "idle", Legal(host) PROVE ServedBy'
    <3>1. ServedBy
      BY <2>10 DEF Serving
    <3>2. host.req.kind = "get_descriptor"
      BY <1>1, <1>3, <3>1 DEF ServedBy, Receiving, Acknowledged
    <3>3. /\ ctrl.req = host.req /\ ~hw.stall /\ ctrl.size = Min({host.req.value, host.req.length})
          /\ (host.phase = "data_in" /\ Sending) \/ (host.phase = "status_out" /\ Sent)
      BY <1>1, <3>1, <3>2 DEF ServedBy
    <3>4. CASE host.phase = "data_in" /\ Sending
      <4>1. /\ hw.bank = {} /\ host.count = ctrl.trans /\ (ctrl.zlp \/ ctrl.size % CtrlSize # 0)
            /\ "out" \notin hw.flags /\ host.count % CtrlSize = 0
        BY <1>1, <3>4 DEF Sending
      <4>2. ~Ended
        BY <4>1
      <4>3. Sends
        BY <2>1, <4>1, <4>2
      <4>4. PICK n \in 0..CtrlSize : /\ hw'.bank = {n} /\ ctrl'.trans = ctrl.trans + n
                                     /\ n < CtrlSize => ctrl'.trans = ctrl.size
                                     /\ ctrl.size = ctrl.trans => n = 0
        BY <4>3
      <4>5. ctrl'.zlp \/ ctrl'.size % CtrlSize # 0 \/ n = 0
        BY <2>1, <4>1, <4>3, <4>4
      <4>6. Sending'
        BY <1>1, <2>1, <4>1, <4>3, <4>4, <4>5 DEF Sending
      <4>. QED  BY <1>1, <2>1, <2>2, <3>2, <3>3, <3>4, <4>6 DEF ServedBy
    <3>5. CASE host.phase = "status_out" /\ Sent
      <4>1. hw'.nak \subseteq {"nak_in"} /\ hw'.nak \cap hw'.flags = {} /\ (ctrl'.state = "data_in" => hw'.nak = {})
        BY <2>1
      <4>2. Sent'
        BY <1>1, <2>1, <2>3, <3>5, <4>1 DEF Sent
      <4>. QED  BY <1>1, <2>1, <2>2, <3>2, <3>3, <3>5, <4>2 DEF ServedBy
    <3>. QED  BY <3>3, <3>4, <3>5
  <2>11. Serving'
    BY <1>1, <2>10 DEF Serving, Legal
  <2>. QED  BY <2>4, <2>5, <2>6, <2>7, <2>8, <2>9, <2>11 DEF IInv, Live, Asleep
<1>. QED  BY <1>1, <1>2, <1>3

LEMMA OutReceivedKeeps ==
  ASSUME IInv, udd_ctrl_out_received, UNCHANGED line
  PROVE  IInv'
<1>. TypeOK /\ Whole /\ Control /\ Staged /\ Serving
  BY DEF IInv
<1>. DEFINE n     == Min({hw.out, ctrl.size - ctrl.trans})
            total == ctrl.trans + n
            Data  == /\ ctrl.state = "data_out" /\ address' = address /\ ctrl' \in CtrlType /\ hw' \in HwType
                     /\ ctrl'.req = ctrl.req /\ ctrl'.callback = ctrl.callback /\ ctrl'.trans <= ctrl'.size
                     /\ total \in Nat /\ total <= ctrl.size /\ ctrl'.trans = total
                     /\ n = (IF hw.out <= ctrl.size - ctrl.trans THEN hw.out ELSE ctrl.size - ctrl.trans)
            Over  == /\ n # CtrlSize \/ ctrl.req.length <= total
                     /\ ctrl'.state = "wait_in_zlp" /\ hw'.flags = hw.flags \ {"out", "in", "nak_out"}
                     /\ hw'.bank = {0} /\ hw'.inEnabled /\ hw'.nak = {"nak_out"} /\ hw'.stall = hw.stall
            Full  == /\ n = CtrlSize /\ ~(ctrl.req.length <= total) /\ total = ctrl.size
                     /\ ctrl'.state = "stall_req" /\ hw'.stall /\ ~hw'.inEnabled /\ hw'.flags \subseteq hw.flags
            More  == /\ n = CtrlSize /\ ~(ctrl.req.length <= total)
                     /\ ctrl'.state = "data_out" /\ ctrl'.size = ctrl.size
                     /\ hw'.flags = hw.flags \ {"out", "nak_in"} /\ ~hw'.inEnabled /\ hw'.nak = {"nak_in"}
                     /\ hw'.bank = hw.bank /\ hw'.stall = hw.stall
            Wrong == /\ ctrl.state \notin {"data_in", "wait_out_zlp", "data_out"} /\ address' = address
                     /\ ctrl' = Idle /\ hw' \in HwType /\ hw'.stall /\ ~hw'.inEnabled /\ hw'.flags = hw.flags \ {"out"}
            Ended == ctrl.state \in {"data_in", "wait_out_zlp"} /\ EndOfRequest
<1>1. /\ "out" \in hw.flags /\ "setup" \notin hw.flags /\ ~("in" \in hw.flags /\ hw.inEnabled)
      /\ dev' = dev /\ host' = host
  BY OutReceivedStep
<1>2. Ended \/ Wrong \/ (Data /\ (Over \/ Full \/ More))
  BY OutReceivedStep
<1>. HIDE DEF n, total
<1>3. CASE Ended \/ Wrong
  <2>1. /\ ctrl' = Idle /\ hw' \in HwType /\ hw'.flags = hw.flags \ {"out"} /\ ~hw'.inEnabled /\ address' = address
        /\ ctrl.state \in {"data_in", "wait_out_zlp"} \/ hw'.stall
    BY <1>3, Ends DEF Whole
  <2>2. ctrl.state \in {"data_in", "wait_out_zlp"} => host.phase = "idle"
    BY <1>1 DEF IInv, Staged, Paired
  <2>3. TypeOK'
    BY <1>1, <2>1, IdleCtrl DEF TypeOK
  <2>4. Whole'
    BY <1>1, <2>1, IdleCtrl DEF Whole
  <2>5. Control'
    BY <2>1, IdleCtrl DEF Control
  <2>6. Staged'
    BY <1>1 DEF Staged, Live
  <2>7. Paired'
    BY <1>1, <2>1, <2>2, IdleCtrl DEF Paired
  <2>8. Live => Addressed'
    <3>1. ~Delivered
      BY <1>1 DEF Delivered
    <3>. QED  BY <1>1, <2>1, <3>1, IdleCtrl DEF IInv, Addressed, Undelivered
  <2>9. ~(host.phase # "idle" /\ Legal(host))
    <3>1. ~Wrong \/ ~ServedBy
      BY <1>1 DEF ServedBy, Sending, Sent, Receiving, Acknowledged
    <3>. QED  BY <1>3, <2>2, <3>1 DEF Serving
  <2>10. Serving'
    BY <1>1, <2>9 DEF Serving, Legal
  <2>. QED  BY <2>3, <2>4, <2>5, <2>6, <2>7, <2>8, <2>10 DEF IInv, Live, Asleep
<1>4. CASE Data /\ (Over \/ Full \/ More)
  <2>1. ctrl.callback # "valid_address" /\ hw'.flags \subseteq hw.flags /\ "out" \in hw.flags
    BY <1>1, <1>4 DEF Whole
  <2>2. TypeOK'
    BY <1>1, <1>4 DEF TypeOK
  <2>3. Whole'
    <3>1. ctrl.req.kind \notin Sets
      BY <1>4 DEF Whole
    <3>. QED  BY <1>1, <1>4, <2>1, <3>1, NothingAsked DEF Whole
  <2>4. Control'
    BY <1>4 DEF Control
  <2>5. Staged'
    BY <1>1 DEF Staged, Live
  <2>6. Live => Paired'
    <3>1. ctrl'.state \in {"data_out", "wait_in_zlp", "stall_req"} /\ (ctrl'.state = "wait_in_zlp" => "in" \notin hw'.flags)
          /\ (ctrl'.state = "stall_req" => hw'.stall)
      BY <1>4
    <3>. QED  BY <1>1, <1>4, <2>1, <3>1 DEF IInv, Paired
  <2>7. Live => Addressed'
    BY <1>1, <1>4, <2>1 DEF IInv, Addressed
  <2>8. ASSUME host.phase # "idle", Legal(host) PROVE ServedBy'
    <3>1. ServedBy
      BY <2>8 DEF Serving
    <3>2. host.req.kind = "set_line_coding" /\ host.req.length = LineCoding
      BY <1>1, <1>4, <2>8, <3>1 DEF ServedBy, Sending, Sent, Legal
    <3>3. ctrl.req = host.req /\ ~hw.stall /\ Receiving
      BY <1>1, <3>1, <3>2 DEF ServedBy, Acknowledged
    <3>4. /\ LineCoding \in Nat /\ CtrlSize \in Nat /\ hw.out \in Nat /\ ctrl.trans \in Nat /\ ctrl.size \in Nat
          /\ host.count \in Nat
      BY UsbControlAssumption DEF TypeOK, HwType, CtrlType, HostType
    <3>5. n = hw.out /\ total = host.count
      BY <1>1, <1>4, <3>3, <3>4 DEF Receiving, total
    <3>6. host.phase \in {"data_out", "status_in"}
      <4>1. ~IsIn(host.req)
        BY <3>2 DEF IsIn, Udd_setup_is_in, InKinds
      <4>. QED  BY <2>8, <4>1 DEF Staged, TypeOK, HostType, Phases
    <3>7. CASE host.phase = "status_in"
      <4>1. Over
        BY <1>4, <3>2, <3>3, <3>4, <3>5, <3>7 DEF Receiving
      <4>2. Acknowledged'
        BY <1>1, <3>7, <4>1 DEF Acknowledged
      <4>. QED  BY <1>1, <1>4, <2>1, <3>2, <3>3, <4>1, <4>2 DEF ServedBy
    <3>8. CASE host.phase = "data_out"
      <4>1. host.count < LineCoding /\ hw.out = CtrlSize /\ ctrl.size = LineCoding /\ hw.bank = {}
        BY <1>1, <3>3, <3>8 DEF Receiving
      <4>2. More
        BY <1>4, <3>2, <3>3, <3>4, <3>5, <4>1
      <4>3. Receiving'
        BY <1>1, <1>4, <3>4, <3>5, <3>8, <4>1, <4>2 DEF Receiving
      <4>. QED  BY <1>1, <1>4, <2>1, <3>2, <3>3, <4>2, <4>3 DEF ServedBy
    <3>. QED  BY <3>6, <3>7, <3>8
  <2>9. Serving'
    BY <1>1, <2>8 DEF Serving, Legal
  <2>. QED  BY <2>2, <2>3, <2>4, <2>5, <2>6, <2>7, <2>9 DEF IInv, Live, Asleep
<1>. QED  BY <1>2, <1>3, <1>4

(* Nothing is expected of a NAK in the middle of a legal transfer.          *)
LEMMA NoNak ==
  ASSUME IInv, NakInterrupt
  PROVE  "setup" \notin hw.flags /\ ~(host.phase # "idle" /\ Legal(host))
<1>. TypeOK /\ Staged /\ Serving
  BY DEF IInv
<1>1. "setup" \notin hw.flags /\ "out" \notin hw.flags /\ hw.flags \cap hw.nak # {}
  BY DEF NakInterrupt, PacketInterrupt
<1>2. ASSUME host.phase # "idle", Legal(host) PROVE FALSE
  <2>1. ServedBy
    BY <1>2 DEF Serving
  <2>2. ~Acknowledged /\ ~Sent /\ ~Sending
    BY <1>1 DEF Acknowledged, Sent, Sending
  <2>3. host.req.kind = "set_line_coding" /\ Receiving
    BY <1>1, <1>2, <2>1, <2>2 DEF ServedBy, Legal
  <2>4. host.phase \in {"data_out", "status_in"}
    <3>1. ~IsIn(host.req)
      BY <2>3 DEF IsIn, Udd_setup_is_in, InKinds
    <3>. QED  BY <1>2, <3>1 DEF Staged, TypeOK, HostType, Phases
  <2>. QED  BY <1>1, <2>3, <2>4 DEF Receiving
<1>. QED  BY <1>1, <1>2

LEMMA OverflowKeeps ==
  ASSUME IInv, udd_ctrl_overflow, UNCHANGED line
  PROVE  IInv'
<1>. TypeOK /\ Whole /\ Control /\ Staged /\ Serving
  BY DEF IInv
<1>. DEFINE flags == Handled.flags \ {"nak_out"}
            stall == Handled.stall \/ ("in" \notin hw.flags /\ ctrl.state = "wait_in_zlp")
<1>1. /\ NakInterrupt /\ "nak_out" \in hw.flags /\ UNCHANGED <<address, ctrl, dev, host>>
      /\ hw' = [Handled EXCEPT !.flags = flags, !.stall = stall]
  BY DEF udd_ctrl_overflow
<1>2. /\ hw' \in HwType /\ hw'.flags = hw.flags \ {"nak_out"} /\ (hw.stall => hw'.stall) /\ hw'.setup = hw.setup
      /\ hw'.inEnabled = hw.inEnabled /\ hw'.bank = hw.bank
  <2>1. flags \in SUBSET Flags /\ stall \in BOOLEAN /\ flags = hw.flags \ {"nak_out"} /\ (hw.stall => stall)
    BY HandledHw DEF TypeOK, HwType
  <2>. HIDE DEF flags, stall
  <2>. QED  BY <1>1, <2>1, HandledHw DEF HwType, TypeOK
<1>3. "setup" \notin hw.flags /\ ~(host.phase # "idle" /\ Legal(host))
  BY <1>1, NoNak
<1>4. TypeOK'
  BY <1>1, <1>2 DEF TypeOK
<1>5. Whole'
  BY <1>1, <1>2, <1>3 DEF Whole
<1>6. Control'
  BY <1>1, <1>2 DEF Control
<1>7. Staged'
  BY <1>1 DEF Staged, Live
<1>8. Live => Paired'
  BY <1>1, <1>2, <1>3 DEF IInv, Paired
<1>9. Live => Addressed'
  <2>1. Undelivered => Undelivered'
    BY <1>1, <1>2 DEF Undelivered
  <2>2. Delivered => Delivered'
    BY <1>1, <1>2 DEF Delivered
  <2>. QED  BY <1>1, <1>2, <1>3, <2>1, <2>2 DEF IInv, Addressed
<1>10. Serving'
  BY <1>1, <1>3 DEF Serving, Legal
<1>. QED  BY <1>4, <1>5, <1>6, <1>7, <1>8, <1>9, <1>10 DEF IInv, Live, Asleep

LEMMA UnderflowKeeps ==
  ASSUME IInv, udd_ctrl_underflow, UNCHANGED line
  PROVE  IInv'
<1>. TypeOK /\ Whole /\ Control /\ Staged /\ Serving
  BY DEF IInv
<1>. DEFINE flags == Handled.flags \ {"nak_in"}
            acked == [Handled EXCEPT !.flags = flags]
            stall == acked.stall \/ ctrl.state = "wait_out_zlp"
            Kept  == /\ ctrl' = ctrl /\ hw'.flags = hw.flags \ {"nak_in"} /\ (hw.stall => hw'.stall)
                     /\ hw'.inEnabled = hw.inEnabled /\ hw'.bank = hw.bank
            Cut   == /\ ctrl.state = "data_out" /\ ctrl'.state = "wait_in_zlp" /\ ctrl'.req = ctrl.req
                     /\ ctrl'.callback = ctrl.callback /\ ctrl'.trans <= ctrl'.size
                     /\ hw'.flags = hw.flags \ {"nak_in", "in", "nak_out"} /\ hw'.stall = hw.stall
                     /\ hw'.bank = {0} /\ hw'.inEnabled
<1>1. NakInterrupt /\ UNCHANGED <<address, dev, host>>
  BY DEF udd_ctrl_underflow
<1>2. IF ctrl.state = "data_out" THEN udd_ctrl_send_zlp_in(ctrl, acked)
      ELSE hw' = [acked EXCEPT !.stall = stall] /\ ctrl' = ctrl
  BY DEF udd_ctrl_underflow
<1>3. acked \in HwType /\ acked.flags = hw.flags \ {"nak_in"} /\ acked.stall = hw.stall /\ acked.setup = hw.setup
      /\ acked.inEnabled = hw.inEnabled /\ acked.bank = hw.bank
  <2>1. flags \in SUBSET Flags /\ flags = hw.flags \ {"nak_in"}
    BY HandledHw DEF TypeOK, HwType
  <2>. HIDE DEF flags
  <2>. QED  BY <2>1, HandledHw DEF HwType, TypeOK
<1>4. hw' \in HwType /\ ctrl' \in CtrlType /\ hw'.setup = hw.setup /\ (Kept \/ Cut)
  <2>1. CASE ctrl.state = "data_out"
    <3>1. udd_ctrl_send_zlp_in(ctrl, acked)
      BY <1>2, <2>1
    <3>. HIDE DEF acked
    <3>2. ctrl' \in CtrlType /\ hw' \in HwType /\ SameRequest(ctrl) /\ SameSetup(acked)
         /\ ctrl'.state = "wait_in_zlp" /\ ctrl'.trans = ctrl.trans
         /\ hw'.flags = acked.flags \ {"in", "nak_out"} /\ hw'.bank = {0} /\ hw'.inEnabled
         /\ hw'.stall = acked.stall
      BY <1>3, <3>1, ZlpIn DEF TypeOK
    <3>. QED  BY <1>3, <2>1, <3>2 DEF SameRequest, SameSetup, Whole
  <2>2. CASE ctrl.state # "data_out"
    <3>1. stall \in BOOLEAN /\ (hw.stall => stall)
      <4>. HIDE DEF acked
      <4>. QED  BY <1>3 DEF HwType
    <3>2. hw' = [acked EXCEPT !.stall = stall] /\ ctrl' = ctrl
      BY <1>2, <2>2
    <3>. HIDE DEF acked, stall
    <3>3. hw' \in HwType /\ hw'.flags = acked.flags /\ hw'.stall = stall /\ hw'.inEnabled = acked.inEnabled
          /\ hw'.bank = acked.bank /\ hw'.setup = acked.setup
      BY <1>3, <3>1, <3>2 DEF HwType
    <3>. QED  BY <1>3, <2>2, <3>1, <3>2, <3>3 DEF TypeOK
  <2>. QED  BY <2>1, <2>2
<1>5. "setup" \notin hw.flags /\ ~(host.phase # "idle" /\ Legal(host))
  BY <1>1, NoNak
<1>6. TypeOK'
  BY <1>1, <1>4 DEF TypeOK
<1>7. "setup" \notin hw'.flags /\ hw'.flags \subseteq hw.flags /\ ctrl'.callback = ctrl.callback /\ ctrl'.req = ctrl.req
  BY <1>4, <1>5
<1>8. Cut => ctrl.callback # "valid_address" /\ AsRequested(dev, ctrl.req)
  BY NothingAsked DEF Whole
<1>9. Whole'
  BY <1>1, <1>4, <1>7, <1>8 DEF Whole
<1>10. Control'
  BY <1>4, <1>7 DEF Control
<1>11. Staged'
  BY <1>1 DEF Staged, Live
<1>12. Live => Paired'
  BY <1>1, <1>4, <1>5, <1>7 DEF IInv, Paired
<1>13. Live => Addressed'
  <2>1. Kept /\ Undelivered => Undelivered'
    BY <1>1, <1>7 DEF Undelivered
  <2>2. Kept /\ Delivered => Delivered'
    BY <1>1, <1>7 DEF Delivered
  <2>. QED  BY <1>1, <1>4, <1>7, <1>8, <2>1, <2>2 DEF IInv, Addressed
<1>14. Serving'
  BY <1>1, <1>5 DEF Serving, Legal
<1>. QED  BY <1>6, <1>9, <1>10, <1>11, <1>12, <1>13, <1>14 DEF IInv, Live, Asleep

-----------------------------------------------------------------------------
(* The line's events keep the invariant.                                    *)
LEMMA RestartKeeps ==
  ASSUME IInv, line' \in LineType, Asleep', ~Live, Restart, UNCHANGED host
  PROVE  IInv'
<1>. TypeOK /\ Whole /\ Control /\ Staged /\ Serving
  BY DEF IInv
<1>1. ctrl' = Idle /\ hw' = FreshEndpoint /\ address' = 0 /\ dev' = udc_reset(dev)
  BY DEF Restart
<1>2. dev' \in DevType /\ dev'.conf = 0 /\ Configured(dev')
  <2>1. Configured(dev) /\ dev \in DevType
    BY DEF Whole, TypeOK
  <2>. QED  BY <1>1, <2>1, Resets DEF Configured
<1>3. host.phase = "idle" /\ host.addr = 0
  BY DEF Staged
<1>4. TypeOK'
  BY <1>1, <1>2, FreshHw, IdleCtrl DEF TypeOK
<1>5. Whole'
  BY <1>1, <1>2, FreshHw, IdleCtrl DEF Whole
<1>6. Control'
  BY <1>1, FreshHw, IdleCtrl DEF Control
<1>7. Staged' /\ Serving'
  BY <1>3 DEF Staged, Serving
<1>8. Paired' /\ Addressed'
  BY <1>1, <1>3, FreshHw, IdleCtrl DEF Paired, Addressed
<1>. QED  BY <1>4, <1>5, <1>6, <1>7, <1>8 DEF IInv

LEMMA LineKeeps ==
  ASSUME IInv, line' \in LineType, Asleep', Live' <=> Live, UNCHANGED ctrlVars
  PROVE  IInv'
<1>1. UNCHANGED <<hw, address, ctrl, dev, host>>
  BY DEF ctrlVars
<1>. QED  BY <1>1 DEF IInv, TypeOK, Whole, Configured, Control, Staged, Paired, Addressed, Undelivered, Delivered,
     Serving, Legal, ServedBy, SetupSent, Sending, Sent, Receiving, Acknowledged

LEMMA EndsHost ==
  ASSUME NEW h \in HostType
  PROVE  /\ End(h) \in HostType /\ End(h).phase = "idle" /\ End(h).refused = h.refused /\ End(h).addr = h.addr
         /\ End(h).lost = h.lost
<1>1. End(h) = [h EXCEPT !.phase = "idle", !.req = NoRequest, !.count = 0, !.early = FALSE]
  BY DEF End
<1>2. "idle" \in Phases
  BY DEF Phases
<1>3. [h EXCEPT !.phase = "idle", !.req = NoRequest, !.count = 0, !.early = FALSE] \in HostType
  BY <1>2, IdleCtrl DEF HostType
<1>. QED  BY <1>1, <1>3 DEF HostType

(* The bus is reset, or the cable moves: what the host began is over.       *)
LEMMA LostKeeps ==
  ASSUME IInv, line' \in LineType, Asleep', ~Live', UNCHANGED <<address, ctrl, dev>>,
         hw' = FreshEndpoint \/ hw' = hw, host' = [End(host) EXCEPT !.addr = 0, !.lost = FALSE]
  PROVE  IInv'
<1>. TypeOK /\ Whole /\ Control /\ Staged /\ Serving
  BY DEF IInv
<1>1. host' \in HostType /\ host'.phase = "idle" /\ host'.addr = 0 /\ host'.refused = host.refused
  <2>. DEFINE e == End(host)
  <2>1. e \in HostType /\ e.phase = "idle" /\ e.refused = host.refused
    BY EndsHost DEF TypeOK
  <2>2. host' = [e EXCEPT !.addr = 0, !.lost = FALSE]
    OBVIOUS
  <2>. HIDE DEF e
  <2>3. [e EXCEPT !.addr = 0, !.lost = FALSE] \in HostType
    BY <2>1 DEF HostType
  <2>. QED  BY <2>1, <2>2, <2>3 DEF HostType
<1>2. TypeOK'
  BY <1>1, FreshHw DEF TypeOK
<1>3. Whole'
  BY FreshHw DEF Whole
<1>4. Control'
  BY FreshHw DEF Control
<1>5. Staged' /\ Serving'
  BY <1>1 DEF Staged, Serving
<1>. QED  BY <1>2, <1>3, <1>4, <1>5 DEF IInv

LEMMA EventsKeep ==
  ASSUME IInv, [Next]_vars,
         BusReset \/ BusSuspend \/ BusWakeUp \/ udd_attach \/ udd_detach \/ HostReset \/ HostSuspends \/ HostResumes \/ Cable
  PROVE  IInv'
<1>. line \in LineType /\ Asleep /\ Staged
  BY DEF IInv, TypeOK
<1>1. line' \in LineType /\ Asleep'
  BY LineStep
<1>2. CASE BusReset
  BY <1>1, <1>2, RestartKeeps DEF BusReset, Live
<1>3. CASE udd_attach
  BY <1>1, <1>3, RestartKeeps DEF udd_attach, Live
<1>4. CASE BusSuspend
  <2>. DEFINE l == [line EXCEPT !.suspendInt = FALSE, !.wakeInt = TRUE]
  <2>1. l \in LineType /\ l.lock = line.lock /\ l.idle = line.idle /\ l.attached = line.attached /\ l.events = line.events
    BY DEF LineType
  <2>2. line' = udd_sleep_mode(l, FALSE) /\ UNCHANGED ctrlVars
    BY <1>4 DEF BusSuspend, Suspend
  <2>3. l.lock = IF l.idle THEN LockModulus - 1 ELSE 0
    BY <2>1 DEF Asleep
  <2>. HIDE DEF l
  <2>4. line'.attached = line.attached /\ line'.events = line.events
    BY <2>1, <2>2, <2>3, SleepMode
  <2>. QED  BY <1>1, <2>2, <2>4, LineKeeps DEF Live
<1>5. CASE BusWakeUp
  <2>. DEFINE l == [line EXCEPT !.wakeInt = FALSE, !.suspendInt = TRUE]
  <2>1. l \in LineType /\ l.lock = line.lock /\ l.idle = line.idle /\ l.attached = line.attached /\ l.events = line.events
    BY DEF LineType
  <2>2. line' = udd_sleep_mode(l, TRUE) /\ UNCHANGED ctrlVars
    BY <1>5 DEF BusWakeUp
  <2>3. l.lock = IF l.idle THEN LockModulus - 1 ELSE 0
    BY <2>1 DEF Asleep
  <2>. HIDE DEF l
  <2>4. line'.attached = line.attached /\ line'.events = line.events
    BY <2>1, <2>2, <2>3, SleepMode
  <2>. QED  BY <1>1, <2>2, <2>4, LineKeeps DEF Live
<1>6. CASE udd_detach
  <2>. DEFINE l == [line EXCEPT !.events = line.events \ {"vbus"}, !.attached = FALSE]
  <2>1. l \in LineType /\ l.lock = line.lock /\ l.idle = line.idle /\ ~l.attached
    BY DEF LineType
  <2>2. line' = udd_sleep_mode(l, FALSE) /\ UNCHANGED ctrlVars /\ ~Live
    BY <1>6 DEF udd_detach, Live
  <2>3. l.lock = IF l.idle THEN LockModulus - 1 ELSE 0
    BY <2>1 DEF Asleep
  <2>. HIDE DEF l
  <2>4. ~line'.attached
    BY <2>1, <2>2, <2>3, SleepMode
  <2>. QED  BY <1>1, <2>2, <2>4, LineKeeps DEF Live
<1>7. CASE HostSuspends \/ HostResumes
  BY <1>1, <1>7, LineKeeps DEF HostSuspends, HostResumes, Live, LineType
<1>8. CASE HostReset
  BY <1>1, <1>8, LostKeeps DEF HostReset, Live, LineType
<1>9. CASE Cable
  BY <1>1, <1>9, LostKeeps DEF Cable, Live, LineType
<1>. QED  BY <1>2, <1>3, <1>4, <1>5, <1>6, <1>7, <1>8, <1>9

-----------------------------------------------------------------------------
(* The host's steps keep the invariant.                                     *)
LEMMA SetupSentKeeps ==
  ASSUME IInv, NEW r \in Requests, HostSetup(r)
  PROVE  IInv'
<1>. TypeOK /\ Asleep /\ Whole /\ Control /\ Staged /\ Serving
  BY DEF IInv
<1>. DEFINE flags == hw.flags \cup {"setup", "in"}
            phase == IF r.length = 0 THEN "status_in" ELSE IF Udd_setup_is_in(r) THEN "data_in" ELSE "data_out"
            bank  == {}
<1>1. /\ Reaches /\ host.phase = "idle" /\ "setup" \notin hw.flags /\ UNCHANGED <<line, address, ctrl, dev>>
      /\ hw' = [hw EXCEPT !.flags = flags, !.setup = r, !.bank = bank, !.stall = FALSE]
      /\ host' = [host EXCEPT !.req = r, !.count = 0, !.early = FALSE, !.refused = FALSE, !.phase = phase]
  BY DEF HostSetup
<1>2. r \in RequestType /\ r.kind # "none" /\ r # NoRequest
  BY RequestsTyped
<1>3. /\ hw' \in HwType /\ hw'.flags = hw.flags \cup {"setup", "in"} /\ hw'.setup = r /\ hw'.bank = {} /\ ~hw'.stall
      /\ hw'.inEnabled = hw.inEnabled
  <2>1. flags \in SUBSET Flags
    BY DEF TypeOK, HwType, Flags
  <2>2. bank \in SUBSET Nat
    OBVIOUS
  <2>3. hw' \in HwType
    <3>. HIDE DEF flags, bank
    <3>. QED  BY <1>1, <1>2, <2>1, <2>2 DEF TypeOK, HwType
  <2>4. hw'.flags = flags /\ hw'.setup = r /\ hw'.bank = bank /\ ~hw'.stall /\ hw'.inEnabled = hw.inEnabled
    <3>. HIDE DEF flags, bank
    <3>. QED  BY <1>1 DEF TypeOK, HwType
  <2>. QED  BY <2>3, <2>4
<1>4. /\ host' \in HostType /\ host'.req = r /\ host'.count = 0 /\ ~host'.refused /\ host'.phase = phase
      /\ host'.addr = host.addr /\ host'.lost = host.lost
  <2>1. phase \in Phases
    BY DEF Phases
  <2>2. host' \in HostType
    <3>. HIDE DEF phase
    <3>. QED  BY <1>1, <1>2, <2>1 DEF TypeOK, HostType
  <2>. HIDE DEF phase
  <2>. QED  BY <1>1, <2>2 DEF TypeOK, HostType
<1>5. Live /\ Live' /\ host.addr = address /\ Paired /\ Addressed
  BY <1>1 DEF Reaches, Active, Live, IInv
<1>6. TypeOK'
  BY <1>1, <1>3, <1>4 DEF TypeOK
<1>7. Whole'
  BY <1>1, <1>3 DEF Whole
<1>8. Control'
  BY <1>1, <1>3 DEF Control
<1>9. Staged'
  BY <1>2, <1>4, <1>5 DEF Staged, IsIn, RequestType
<1>10. Paired'
  BY <1>1, <1>3, <1>4, <1>5 DEF Paired
<1>11. Addressed'
  <2>1. Delivered => Delivered'
    BY <1>1, <1>3, <1>4 DEF Delivered
  <2>2. ~Undelivered
    BY <1>1 DEF Undelivered
  <2>3. host'.phase # "idle"
    BY <1>4
  <2>. QED  BY <1>1, <1>4, <1>5, <2>1, <2>2, <2>3 DEF Addressed
<1>12. Serving'
  <2>1. ASSUME Legal(host)' PROVE SetupSent'
    <3>1. r.length # 0
      BY <1>2, <1>4, <2>1, UsbControlAssumption DEF Legal, RequestType
    <3>. QED  BY <1>3, <1>4, <3>1 DEF SetupSent
  <2>. QED  BY <1>3, <1>4, <2>1 DEF Serving, ServedBy
<1>. QED  BY <1>1, <1>5, <1>6, <1>7, <1>8, <1>9, <1>10, <1>11, <1>12 DEF IInv, Asleep

(* The host is through with a transfer.                                     *)
LEMMA OverKeeps ==
  ASSUME IInv, UNCHANGED <<line, hw, address, ctrl, dev>>, host.phase # "idle",
         host' \in HostType, host'.phase = "idle", host'.addr = host.addr, ~host'.refused,
         host'.lost <=> (host.lost \/ host.req.kind = "set_address")
  PROVE  IInv'
<1>. TypeOK /\ Asleep /\ Whole /\ Control /\ Staged /\ Serving
  BY DEF IInv
<1>1. Live /\ Live' /\ Paired /\ Addressed
  BY DEF Staged, Live, IInv
<1>2. Addressed'
  <2>1. ctrl.callback = "valid_address" /\ Undelivered => host.req.kind = "set_address"
    BY DEF Whole, Undelivered
  <2>2. Delivered => Delivered'
    BY DEF Delivered
  <2>3. "setup" \in hw.flags /\ hw.setup.kind = "set_address" => host'.lost
    BY <1>1 DEF Paired
  <2>. QED  BY <1>1, <2>1, <2>2, <2>3 DEF Addressed
<1>. QED  BY <1>1, <1>2 DEF IInv, TypeOK, Asleep, Whole, Configured, Control, Staged, Paired, Serving

LEMMA FailsHost ==
  ASSUME NEW h \in HostType
  PROVE  /\ Fail(h) \in HostType /\ Fail(h).phase = "idle" /\ Fail(h).refused = h.refused /\ Fail(h).addr = h.addr
         /\ Fail(h).lost <=> (h.lost \/ h.req.kind = "set_address")
<1>. DEFINE e == End(h)
            lost == h.lost \/ h.req.kind = "set_address"
<1>1. e \in HostType /\ e.phase = "idle" /\ e.refused = h.refused /\ e.addr = h.addr /\ e.lost = h.lost
  BY EndsHost
<1>2. Fail(h) = [e EXCEPT !.lost = lost]
  <2>1. Fail(h) = [e EXCEPT !.lost = e.lost \/ h.req.kind = "set_address"]
    BY DEF Fail
  <2>. HIDE DEF e
  <2>. QED  BY <1>1, <2>1
<1>3. lost \in BOOLEAN
  BY DEF HostType
<1>4. Fail(h) \in HostType
  <2>. HIDE DEF e, lost
  <2>. QED  BY <1>1, <1>2, <1>3 DEF HostType
<1>5. Fail(h).lost = lost /\ Fail(h).phase = e.phase /\ Fail(h).refused = e.refused /\ Fail(h).addr = e.addr
  <2>. HIDE DEF e, lost
  <2>. QED  BY <1>1, <1>2 DEF HostType
<1>. QED  BY <1>1, <1>4, <1>5

LEMMA StalledKeeps ==
  ASSUME IInv, UNCHANGED <<line, address, ctrl, dev>>, host.phase # "idle", Stalled
  PROVE  IInv'
<1>. TypeOK /\ Serving
  BY DEF IInv
<1>1. hw.stall /\ hw' = hw /\ host' = [Fail(host) EXCEPT !.refused = Legal(host)]
  BY DEF Stalled
<1>2. ~Legal(host)
  BY <1>1 DEF Serving, ServedBy, SetupSent
<1>. DEFINE f == Fail(host)
<1>3. f \in HostType /\ f.phase = "idle" /\ f.addr = host.addr /\ (f.lost <=> (host.lost \/ host.req.kind = "set_address"))
  BY FailsHost DEF TypeOK
<1>4. host' = [f EXCEPT !.refused = FALSE]
  <2>1. Legal(host) = FALSE
    BY <1>2 DEF Legal
  <2>. QED  BY <1>1, <2>1
<1>5. host' \in HostType /\ host'.phase = f.phase /\ host'.addr = f.addr /\ host'.lost = f.lost /\ ~host'.refused
  <2>. HIDE DEF f
  <2>. QED  BY <1>3, <1>4 DEF HostType
<1>. HIDE DEF f
<1>. QED  BY <1>1, <1>3, <1>5, OverKeeps

(* The host takes a packet.                                                 *)
LEMMA TakenKeeps ==
  ASSUME IInv, Reaches, host.phase \in {"data_in", "status_in"}, NEW n \in hw.bank, ~hw.stall,
         hw' = [hw EXCEPT !.bank = {}, !.flags = @ \cup {"in"}],
         host' = IF host.phase = "status_in"
                 THEN [End(host) EXCEPT !.addr = IF host.req.kind = "set_address" THEN host.req.value ELSE @]
                 ELSE [host EXCEPT !.count = @ + n,
                         !.phase = IF n < CtrlSize \/ host.count + n >= host.req.length THEN "status_out" ELSE @],
         UNCHANGED <<line, address, ctrl, dev>>
  PROVE  IInv'
<1>. TypeOK /\ Asleep /\ Whole /\ Control /\ Staged /\ Serving
  BY DEF IInv
<1>1. /\ hw' \in HwType /\ hw'.flags = hw.flags \cup {"in"} /\ hw'.bank = {} /\ ~hw'.stall
      /\ hw'.inEnabled = hw.inEnabled /\ hw'.setup = hw.setup /\ hw'.nak = hw.nak /\ hw'.out = hw.out
  <2>. DEFINE flags == hw.flags \cup {"in"}
              bank == {}
  <2>1. flags \in SUBSET Flags /\ bank \in SUBSET Nat
    BY DEF TypeOK, HwType, Flags
  <2>2. hw' = [hw EXCEPT !.bank = bank, !.flags = flags]
    OBVIOUS
  <2>3. hw' \in HwType /\ hw'.flags = flags /\ hw'.bank = bank
    <3>. HIDE DEF flags, bank
    <3>. QED  BY <2>1, <2>2 DEF TypeOK, HwType
  <2>. QED  BY <2>3 DEF TypeOK, HwType
<1>2. Live /\ Live' /\ host.addr = address /\ Paired /\ Addressed /\ host.phase # "idle"
  BY DEF Reaches, Active, Live, IInv
<1>3. "setup" \notin hw.flags /\ ctrl.req = host.req
  BY <1>2 DEF Whole, Paired
<1>4. n \in Nat /\ CtrlSize \in Nat \ {0} /\ host.req \in RequestType /\ host.count \in Nat /\ host.req \in Requests
  BY <1>2, UsbControlAssumption DEF TypeOK, HwType, HostType, Staged
<1>5. Whole'
  BY <1>1, <1>3 DEF Whole
<1>6. Control'
  BY <1>1 DEF Control
<1>7. CASE host.phase = "status_in"
  <2>. DEFINE e    == End(host)
              addr == IF host.req.kind = "set_address" THEN host.req.value ELSE host.addr
  <2>1. e \in HostType /\ e.phase = "idle" /\ e.refused = host.refused /\ e.addr = host.addr /\ e.lost = host.lost
    BY EndsHost DEF TypeOK
  <2>2. host' = [e EXCEPT !.addr = addr]
    <3>1. host' = [e EXCEPT !.addr = IF host.req.kind = "set_address" THEN host.req.value ELSE e.addr]
      BY <1>7
    <3>. HIDE DEF e
    <3>. QED  BY <2>1, <3>1
  <2>3. addr \in Nat
    BY <1>4 DEF RequestType, TypeOK, HostType
  <2>4. /\ host' \in HostType /\ host'.phase = "idle" /\ host'.refused = host.refused /\ host'.addr = addr
        /\ host'.lost = host.lost
    <3>. HIDE DEF e, addr
    <3>. QED  BY <2>1, <2>2, <2>3 DEF HostType
  <2>5. TypeOK'
    BY <1>1, <2>4 DEF TypeOK
  <2>6. Staged'
    BY <1>2, <2>4 DEF Staged
  <2>7. Paired'
    BY <1>1, <1>2, <1>3, <2>4 DEF Paired
  <2>8. Addressed'
    <3>1. ctrl.callback = "valid_address" /\ ~host.lost => host.req.kind = "set_address" /\ hw.inEnabled
      BY <1>2 DEF Addressed, Undelivered, Delivered, Whole
    <3>2. ctrl.callback # "valid_address" => host.req.kind # "set_address"
      BY <1>2, <1>3 DEF Control, Paired
    <3>3. ctrl.callback = "valid_address" /\ ~host.lost => Delivered'
      BY <1>1, <1>3, <2>4, <3>1 DEF Delivered
    <3>. QED  BY <1>1, <1>2, <1>3, <2>4, <3>2, <3>3 DEF Addressed
  <2>9. Serving'
    BY <2>4 DEF Serving
  <2>. QED  BY <1>2, <1>5, <1>6, <2>5, <2>6, <2>7, <2>8, <2>9 DEF IInv, Asleep
<1>8. CASE host.phase = "data_in"
  <2>. DEFINE count == host.count + n
              phase == IF n < CtrlSize \/ count >= host.req.length THEN "status_out" ELSE "data_in"
  <2>1. host' = [host EXCEPT !.count = count, !.phase = phase]
    BY <1>8
  <2>2. count \in Nat /\ phase \in {"data_in", "status_out"} /\ phase \in Phases
    BY <1>4 DEF Phases
  <2>3. /\ host' \in HostType /\ host'.phase = phase /\ host'.count = count /\ host'.refused = host.refused
        /\ host'.addr = host.addr /\ host'.lost = host.lost /\ host'.req = host.req /\ host'.early = host.early
    <3>. HIDE DEF count, phase
    <3>1. host' \in HostType
      BY <2>1, <2>2 DEF TypeOK, HostType
    <3>. QED  BY <2>1, <2>2, <3>1 DEF TypeOK, HostType
  <2>4. IsIn(host.req)
    BY <1>2, <1>8 DEF Staged
  <2>5. TypeOK'
    BY <1>1, <2>3 DEF TypeOK
  <2>6. Staged'
    BY <1>2, <2>2, <2>3, <2>4 DEF Staged, IsIn
  <2>7. Paired'
    <3>1. ctrl.state # "wait_in_zlp"
      BY <1>3, <2>4 DEF Control, IsIn
    <3>. QED  BY <1>1, <1>2, <1>3, <2>3, <3>1 DEF Paired
  <2>8. Addressed'
    <3>1. ~Undelivered /\ ~Delivered
      BY <1>8 DEF Undelivered, Delivered
    <3>. QED  BY <1>1, <1>2, <1>3, <2>3, <3>1 DEF Addressed
  <2>9. ASSUME Legal(host)' PROVE ServedBy'
    <3>1. Legal(host) /\ ServedBy
      BY <1>2, <2>3, <2>9 DEF Legal, Serving
    <3>2. host.req.kind = "get_descriptor"
      BY <2>4, <3>1 DEF Legal, IsIn, Udd_setup_is_in, InKinds
    <3>3. Sending /\ ctrl.size = Min({host.req.value, host.req.length}) /\ host.req.value \in Nat /\ host.req.length \in Nat
      BY <1>3, <1>4, <1>8, <3>1, <3>2 DEF ServedBy, RequestType
    <3>4. ctrl.size \in Nat /\ ctrl.trans \in Nat /\ ctrl.size <= host.req.length
      BY <3>3, Smaller DEF TypeOK, CtrlType
    <3>5. /\ "in" \notin hw.flags /\ count = ctrl.trans /\ n \in 0..CtrlSize /\ (n < CtrlSize => ctrl.trans = ctrl.size)
          /\ ctrl.zlp \/ ctrl.size % CtrlSize # 0 \/ n = 0
      BY <3>3 DEF Sending
    <3>6. host.count % CtrlSize = 0 /\ ctrl.trans <= ctrl.size
      BY <3>3 DEF Sending
    <3>7. CASE phase = "status_out"
      <4>1. count = ctrl.size
        BY <1>4, <3>3, <3>4, <3>5, <3>6, <3>7
      <4>2. Sent'
        BY <1>1, <2>3, <3>3, <4>1 DEF Sent, Sending
      <4>. QED  BY <1>1, <1>3, <2>3, <3>2, <3>3, <3>7, <4>2 DEF ServedBy
    <3>8. CASE phase = "data_in"
      <4>1. n = CtrlSize
        BY <1>4, <3>5, <3>8
      <4>2. count % CtrlSize = 0
        BY <1>4, <3>6, <4>1, PacketMore
      <4>3. ctrl.zlp \/ ctrl.size % CtrlSize # 0
        BY <1>4, <3>5, <4>1
      <4>. HIDE DEF count
      <4>4. Sending'
        BY <1>1, <2>3, <3>3, <3>5, <3>6, <4>2, <4>3 DEF Sending
      <4>. QED  BY <1>1, <1>3, <2>3, <3>2, <3>3, <3>8, <4>4 DEF ServedBy
    <3>. QED  BY <2>2, <3>7, <3>8
  <2>10. Serving'
    BY <2>3, <2>9 DEF Serving
  <2>. QED  BY <1>2, <1>5, <1>6, <2>5, <2>6, <2>7, <2>8, <2>10 DEF IInv, Asleep
<1>. QED  BY <1>7, <1>8

LEMMA InKeeps ==
  ASSUME IInv, HostIn
  PROVE  IInv'
<1>. TypeOK /\ Asleep /\ Whole /\ Control /\ Staged /\ Serving
  BY DEF IInv
<1>1. Reaches /\ host.phase \in {"data_in", "status_in"} /\ UNCHANGED <<line, address, ctrl, dev>>
  BY DEF HostIn
<1>2. CASE Stalled
  BY <1>1, <1>2, StalledKeeps
<1>3. ASSUME NEW n \in hw.bank, ~hw.stall,
         hw' = [hw EXCEPT !.bank = {}, !.flags = @ \cup {"in"}],
         host' = IF host.phase = "status_in"
                 THEN [End(host) EXCEPT !.addr = IF host.req.kind = "set_address" THEN host.req.value ELSE @]
                 ELSE [host EXCEPT !.count = @ + n,
                         !.phase = IF n < CtrlSize \/ host.count + n >= host.req.length THEN "status_out" ELSE @]
      PROVE IInv'
  BY <1>1, <1>3, TakenKeeps
<1>4. CASE ~hw.stall /\ hw.bank = {} /\ hw' = [hw EXCEPT !.flags = @ \cup {"nak_in"}] /\ UNCHANGED host
  <2>1. /\ hw' \in HwType /\ hw'.flags = hw.flags \cup {"nak_in"} /\ hw'.bank = hw.bank /\ hw'.stall = hw.stall
        /\ hw'.inEnabled = hw.inEnabled /\ hw'.setup = hw.setup /\ hw'.nak = hw.nak /\ hw'.out = hw.out
    <3>. DEFINE flags == hw.flags \cup {"nak_in"}
    <3>1. flags \in SUBSET Flags /\ hw' = [hw EXCEPT !.flags = flags]
      BY <1>4 DEF TypeOK, HwType, Flags
    <3>. HIDE DEF flags
    <3>2. hw' \in HwType
      BY <3>1 DEF TypeOK, HwType
    <3>. QED  BY <3>1, <3>2 DEF TypeOK, HwType, flags
  <2>2. Live /\ Paired /\ Addressed
    BY <1>1 DEF Reaches, Active, Live, IInv
  <2>3. TypeOK'
    BY <1>1, <1>4, <2>1 DEF TypeOK
  <2>4. Whole'
    BY <1>1, <2>1 DEF Whole
  <2>5. Control'
    BY <1>1, <2>1 DEF Control
  <2>6. Staged'
    BY <1>1, <1>4 DEF Staged, Live
  <2>7. Paired'
    BY <1>1, <1>4, <2>1, <2>2 DEF Paired
  <2>8. Addressed'
    <3>1. Delivered => Delivered'
      BY <1>1, <1>4, <2>1 DEF Delivered
    <3>2. ~Undelivered
      BY <1>4 DEF Undelivered
    <3>. QED  BY <1>1, <1>4, <2>1, <2>2, <3>1, <3>2 DEF Addressed
  <2>9. ASSUME Legal(host) PROVE ServedBy'
    <3>1. ServedBy
      BY <1>1, <2>9 DEF Serving
    <3>2. SetupSent => SetupSent'
      BY <1>4, <2>1 DEF SetupSent
    <3>3. Sending => Sending'
      BY <1>1, <1>4, <2>1 DEF Sending
    <3>4. ~Acknowledged
      BY <1>4 DEF Acknowledged
    <3>5. host.req.kind # "get_descriptor" /\ Receiving => Receiving'
      <4>1. host.req.kind # "get_descriptor" => ~IsIn(host.req)
        BY <2>9 DEF Legal, IsIn, Udd_setup_is_in, InKinds
      <4>2. host.req.kind # "get_descriptor" => host.phase = "status_in"
        BY <1>1, <4>1 DEF Staged
      <4>. QED  BY <1>1, <1>4, <2>1, <4>2 DEF Receiving
    <3>. QED  BY <1>1, <1>4, <2>1, <3>1, <3>2, <3>3, <3>4, <3>5 DEF ServedBy
  <2>10. Serving'
    BY <1>1, <1>4, <2>9 DEF Serving, Legal
  <2>. QED  BY <1>1, <1>4, <2>2, <2>3, <2>4, <2>5, <2>6, <2>7, <2>8, <2>10 DEF IInv, Asleep, Live
<1>. QED  BY <1>2, <1>3, <1>4 DEF HostIn

(* The host sends a packet that is taken, or refused for the time being.    *)
LEMMA RefusedKeeps ==
  ASSUME IInv, Reaches, host.phase \in {"data_out", "status_out", "status_in"}, ~hw.stall,
         hw' = [hw EXCEPT !.flags = @ \cup {"nak_out"}],
         host' = IF host.phase = "status_in" THEN [host EXCEPT !.early = TRUE] ELSE host,
         UNCHANGED <<line, address, ctrl, dev>>
  PROVE  IInv'
<1>. TypeOK /\ Asleep /\ Whole /\ Control /\ Staged /\ Serving
  BY DEF IInv
<1>1. /\ hw' \in HwType /\ hw'.flags = hw.flags \cup {"nak_out"} /\ hw'.bank = hw.bank /\ hw'.stall = hw.stall
      /\ hw'.inEnabled = hw.inEnabled /\ hw'.setup = hw.setup /\ hw'.nak = hw.nak /\ hw'.out = hw.out
  <2>. DEFINE flags == hw.flags \cup {"nak_out"}
  <2>1. flags \in SUBSET Flags /\ hw' = [hw EXCEPT !.flags = flags]
    BY DEF TypeOK, HwType, Flags
  <2>. HIDE DEF flags
  <2>2. hw' \in HwType
    BY <2>1 DEF TypeOK, HwType
  <2>. QED  BY <2>1, <2>2 DEF TypeOK, HwType, flags
<1>2. /\ host' \in HostType /\ host'.phase = host.phase /\ host'.req = host.req /\ host'.count = host.count
      /\ host'.refused = host.refused /\ host'.addr = host.addr /\ host'.lost = host.lost
      /\ IF host.phase = "status_in" THEN host'.early ELSE host' = host
  BY DEF TypeOK, HostType
<1>3. Live /\ Live' /\ Paired /\ Addressed /\ host.phase # "idle"
  BY DEF Reaches, Active, Live, IInv
<1>4. TypeOK'
  BY <1>1, <1>2 DEF TypeOK
<1>5. Whole'
  BY <1>1 DEF Whole
<1>6. Control'
  BY <1>1 DEF Control
<1>7. Staged'
  BY <1>2, <1>3 DEF Staged
<1>8. Paired'
  BY <1>1, <1>2, <1>3 DEF Paired
<1>9. Addressed'
  <2>1. Undelivered => Undelivered'
    BY <1>1, <1>2 DEF Undelivered
  <2>2. Delivered => Delivered'
    BY <1>1, <1>2 DEF Delivered
  <2>. QED  BY <1>1, <1>2, <1>3, <2>1, <2>2 DEF Addressed
<1>10. ASSUME Legal(host)' PROVE ServedBy'
  <2>1. host' = host /\ host.phase # "status_in" /\ Legal(host) /\ ServedBy
    BY <1>2, <1>3, <1>10 DEF Legal, Serving
  <2>2. SetupSent => SetupSent'
    BY <1>1, <2>1 DEF SetupSent
  <2>3. host.phase # "data_in" /\ ~Acknowledged
    BY <2>1 DEF Acknowledged
  <2>4. Sent => Sent'
    BY <1>1, <2>1 DEF Sent
  <2>5. Receiving => Receiving'
    BY <1>1, <2>1 DEF Receiving
  <2>. QED  BY <1>1, <2>1, <2>2, <2>3, <2>4, <2>5 DEF ServedBy
<1>11. Serving'
  BY <1>2, <1>10 DEF Serving
<1>. QED  BY <1>3, <1>4, <1>5, <1>6, <1>7, <1>8, <1>9, <1>11 DEF IInv, Asleep

LEMMA ReceivedKeeps ==
  ASSUME IInv, Reaches, ~hw.stall, hw.flags \cap {"setup", "out"} = {}, NEW n,
         hw' = [hw EXCEPT !.out = n, !.flags = @ \cup {"out"}],
         \/ /\ host.phase = "data_out" /\ n = Min({CtrlSize, host.req.length - host.count})
            /\ host' = [host EXCEPT !.count = @ + n,
                          !.phase = IF host.count + n = host.req.length THEN "status_in" ELSE @]
         \/ host.phase = "status_out" /\ n = 0 /\ host' = End(host)
         \/ host.phase = "status_in" /\ n = 0 /\ host' = [host EXCEPT !.early = TRUE],
         UNCHANGED <<line, address, ctrl, dev>>
  PROVE  IInv'
<1>. TypeOK /\ Asleep /\ Whole /\ Control /\ Staged /\ Serving
  BY DEF IInv
<1>. DEFINE Data  == /\ host.phase = "data_out" /\ n = Min({CtrlSize, host.req.length - host.count})
                     /\ host' = [host EXCEPT !.count = @ + n,
                                   !.phase = IF host.count + n = host.req.length THEN "status_in" ELSE @]
            Hand  == host.phase = "status_out" /\ n = 0 /\ host' = End(host)
            Extra == host.phase = "status_in" /\ n = 0 /\ host' = [host EXCEPT !.early = TRUE]
<1>1. Data \/ Hand \/ Extra
  OBVIOUS
<1>2. Live /\ Live' /\ host.addr = address /\ Paired /\ Addressed /\ host.phase # "idle"
  BY DEF Reaches, Active, Live, IInv
<1>3. "setup" \notin hw.flags /\ "out" \notin hw.flags /\ ctrl.req = host.req /\ host.req \in Requests
  BY <1>2 DEF Paired, Staged
<1>4. host.req \in RequestType /\ host.req # NoRequest /\ CtrlSize \in Nat \ {0} /\ host.count \in Nat
  BY <1>3, RequestsTyped, UsbControlAssumption DEF TypeOK, HostType
<1>5. ctrl.state # "setup"
  BY <1>3, <1>4 DEF Control
<1>6. n \in Nat /\ (Data => n <= CtrlSize /\ n <= host.req.length - host.count /\ (n = CtrlSize \/ n = host.req.length - host.count))
  <2>1. CASE Data
    <3>1. host.req.length - host.count \in Nat
      BY <1>2, <1>4, <2>1 DEF Staged, RequestType
    <3>. QED  BY <1>4, <2>1, <3>1, Smaller
  <2>. QED  BY <1>1, <2>1
<1>7. /\ hw' \in HwType /\ hw'.flags = hw.flags \cup {"out"} /\ hw'.bank = hw.bank /\ ~hw'.stall
      /\ hw'.inEnabled = hw.inEnabled /\ hw'.setup = hw.setup /\ hw'.nak = hw.nak /\ hw'.out = n
  <2>. DEFINE flags == hw.flags \cup {"out"}
  <2>1. flags \in SUBSET Flags /\ hw' = [hw EXCEPT !.out = n, !.flags = flags]
    BY DEF TypeOK, HwType, Flags
  <2>. HIDE DEF flags
  <2>2. hw' \in HwType
    BY <1>6, <2>1 DEF TypeOK, HwType
  <2>. QED  BY <2>1, <2>2 DEF TypeOK, HwType, flags
<1>8. Whole'
  BY <1>3, <1>7 DEF Whole
<1>9. Control'
  BY <1>7 DEF Control
<1>10. CASE Data
  <2>. DEFINE count == host.count + n
              phase == IF count = host.req.length THEN "status_in" ELSE "data_out"
  <2>1. host' = [host EXCEPT !.count = count, !.phase = phase]
    BY <1>10
  <2>2. count \in Nat /\ phase \in {"data_out", "status_in"} /\ phase \in Phases
    BY <1>4, <1>6 DEF Phases
  <2>3. /\ host' \in HostType /\ host'.phase = phase /\ host'.count = count /\ host'.refused = host.refused
        /\ host'.addr = host.addr /\ host'.lost = host.lost /\ host'.req = host.req /\ host'.early = host.early
    <3>. HIDE DEF count, phase
    <3>1. host' \in HostType
      BY <2>1, <2>2 DEF TypeOK, HostType
    <3>. QED  BY <2>1, <2>2, <3>1 DEF TypeOK, HostType
  <2>4. ~IsIn(host.req) /\ host.req.length # 0 /\ host.req.length \in Nat
    BY <1>2, <1>4, <1>10 DEF Staged, RequestType
  <2>5. TypeOK'
    BY <1>7, <2>3 DEF TypeOK
  <2>6. Staged'
    <3>1. phase = "data_out" => count < host.req.length
      BY <1>4, <1>6, <1>10, <2>4
    <3>. HIDE DEF phase, count
    <3>. QED  BY <1>2, <1>3, <2>2, <2>3, <2>4, <3>1 DEF Staged, IsIn
  <2>7. Paired'
    <3>1. ctrl.state \notin {"data_in", "wait_out_zlp"}
      BY <1>3, <2>4 DEF Control, IsIn
    <3>. QED  BY <1>2, <1>3, <1>5, <1>7, <2>3, <3>1 DEF Paired
  <2>8. Addressed'
    <3>1. ~Undelivered
      BY <1>10 DEF Undelivered
    <3>2. Delivered => Delivered'
      BY <1>7, <2>3 DEF Delivered
    <3>. QED  BY <1>2, <1>3, <1>7, <2>3, <3>1, <3>2 DEF Addressed
  <2>9. ASSUME Legal(host)' PROVE ServedBy'
    <3>1. Legal(host) /\ ServedBy
      BY <1>2, <2>3, <2>9 DEF Legal, Serving
    <3>2. host.req.kind = "set_line_coding" /\ host.req.length = LineCoding
      BY <2>4, <3>1 DEF Legal, IsIn, Udd_setup_is_in, InKinds
    <3>3. Receiving
      BY <1>3, <1>10, <3>1, <3>2 DEF ServedBy, Acknowledged
    <3>4. Receiving'
      <4>1. /\ count <= LineCoding /\ n <= CtrlSize
            /\ phase = "data_out" => count < LineCoding /\ n = CtrlSize
            /\ phase = "status_in" => count = LineCoding
        BY <1>4, <1>6, <1>10, <2>4, <3>2
      <4>2. ctrl.trans + n = count
        BY <1>3, <3>3 DEF Receiving
      <4>. HIDE DEF count, phase
      <4>. QED  BY <1>3, <1>7, <1>10, <2>3, <3>3, <4>1, <4>2 DEF Receiving
    <3>. QED  BY <1>3, <1>7, <2>3, <3>2, <3>4 DEF ServedBy
  <2>10. Serving'
    BY <2>3, <2>9 DEF Serving
  <2>. QED  BY <1>2, <1>8, <1>9, <2>5, <2>6, <2>7, <2>8, <2>10 DEF IInv, Asleep
<1>11. CASE Hand
  <2>1. /\ host' \in HostType /\ host'.phase = "idle" /\ host'.refused = host.refused /\ host'.addr = host.addr
        /\ host'.lost = host.lost
    BY <1>11, EndsHost DEF TypeOK
  <2>2. TypeOK'
    BY <1>7, <2>1 DEF TypeOK
  <2>3. Staged'
    BY <1>2, <2>1 DEF Staged
  <2>4. Paired'
    BY <1>2, <1>3, <1>5, <1>7, <2>1 DEF Paired
  <2>5. Addressed'
    <3>1. ~Undelivered
      BY <1>11 DEF Undelivered
    <3>2. Delivered => Delivered'
      BY <1>7, <2>1 DEF Delivered
    <3>. QED  BY <1>2, <1>3, <1>7, <2>1, <3>1, <3>2 DEF Addressed
  <2>6. Serving'
    BY <2>1 DEF Serving
  <2>. QED  BY <1>2, <1>8, <1>9, <2>2, <2>3, <2>4, <2>5, <2>6 DEF IInv, Asleep
<1>12. CASE Extra
  <2>1. /\ host' \in HostType /\ host'.phase = "status_in" /\ host'.refused = host.refused /\ host'.addr = host.addr
        /\ host'.lost = host.lost /\ host'.early /\ host'.req = host.req
    BY <1>12 DEF TypeOK, HostType
  <2>2. TypeOK'
    BY <1>7, <2>1 DEF TypeOK
  <2>3. Staged' /\ ~IsIn(host.req)
    BY <1>2, <1>12, <2>1 DEF Staged
  <2>4. Paired'
    <3>1. ctrl.state \notin {"data_in", "wait_out_zlp"}
      BY <1>3, <2>3 DEF Control, IsIn
    <3>. QED  BY <1>2, <1>3, <1>5, <1>7, <2>1, <3>1 DEF Paired
  <2>5. Addressed'
    <3>1. Undelivered => Undelivered'
      BY <1>7, <2>1 DEF Undelivered
    <3>2. Delivered => Delivered'
      BY <1>7, <2>1 DEF Delivered
    <3>. QED  BY <1>2, <1>3, <1>7, <2>1, <3>1, <3>2 DEF Addressed
  <2>6. Serving'
    BY <2>1 DEF Serving, Legal
  <2>. QED  BY <1>2, <1>8, <1>9, <2>2, <2>3, <2>4, <2>5, <2>6 DEF IInv, Asleep
<1>. QED  BY <1>1, <1>10, <1>11, <1>12

LEMMA OutKeeps ==
  ASSUME IInv, HostOut \/ HostExtraOut
  PROVE  IInv'
<1>. DEFINE n     == Min({CtrlSize, host.req.length - host.count})
            sent  == [host EXCEPT !.count = @ + n, !.phase = IF host.count + n = host.req.length THEN "status_in" ELSE @]
            early == [host EXCEPT !.early = TRUE]
            Kept(kept) == ~hw.stall /\ hw' = [hw EXCEPT !.flags = @ \cup {"nak_out"}] /\ host' = kept
            Taken(m, next) == /\ ~hw.stall /\ hw.flags \cap {"setup", "out"} = {}
                              /\ hw' = [hw EXCEPT !.out = m, !.flags = @ \cup {"out"}] /\ host' = next
<1>1. ASSUME NEW m, NEW next, NEW kept, Out(m, next, kept)
      PROVE  /\ Reaches /\ UNCHANGED <<line, address, ctrl, dev>>
             /\ Stalled \/ Taken(m, next) \/ Kept(kept)
  BY <1>1 DEF Out
<1>. HIDE DEF n
<1>2. \/ host.phase = "data_out" /\ Out(n, sent, host)
      \/ host.phase = "status_out" /\ Out(0, End(host), host)
      \/ host.phase = "status_in" /\ Out(0, early, early)
  BY DEF HostOut, HostExtraOut, n
<1>3. /\ Reaches /\ UNCHANGED <<line, address, ctrl, dev>> /\ host.phase \in {"data_out", "status_out", "status_in"}
      /\ \/ Stalled
         \/ Kept(IF host.phase = "status_in" THEN early ELSE host)
         \/ host.phase = "data_out" /\ Taken(n, sent)
         \/ host.phase = "status_out" /\ Taken(0, End(host))
         \/ host.phase = "status_in" /\ Taken(0, early)
  <2>. HIDE DEF sent, early, Taken, Kept
  <2>. QED  BY <1>1, <1>2
<1>4. CASE Stalled
  BY <1>3, <1>4, StalledKeeps
<1>5. CASE Kept(IF host.phase = "status_in" THEN early ELSE host)
  BY <1>3, <1>5, RefusedKeeps
<1>6. CASE host.phase = "data_out" /\ Taken(n, sent)
  BY <1>3, <1>6, ReceivedKeeps DEF n
<1>7. CASE host.phase = "status_out" /\ Taken(0, End(host))
  BY <1>3, <1>7, ReceivedKeeps
<1>8. CASE host.phase = "status_in" /\ Taken(0, early)
  BY <1>3, <1>8, ReceivedKeeps
<1>. HIDE DEF sent, early, Taken, Kept
<1>. QED  BY <1>3, <1>4, <1>5, <1>6, <1>7, <1>8

LEMMA CutsKeep ==
  ASSUME IInv, HostCutsShort
  PROVE  IInv'
<1>. TypeOK /\ Asleep /\ Whole /\ Control /\ Staged /\ Serving
  BY DEF IInv
<1>. DEFINE phase == IF host.phase = "data_in" THEN "status_out" ELSE "status_in"
<1>1. /\ host.phase \in {"data_in", "data_out"} /\ UNCHANGED <<line, hw, address, ctrl, dev>>
      /\ host' = [host EXCEPT !.phase = phase, !.early = TRUE]
  BY DEF HostCutsShort
<1>2. /\ host' \in HostType /\ host'.phase = phase /\ host'.refused = host.refused /\ host'.addr = host.addr
      /\ host'.lost = host.lost /\ host'.early /\ host'.req = host.req
  <2>1. phase \in Phases
    BY DEF Phases
  <2>. HIDE DEF phase
  <2>2. host' \in HostType
    BY <1>1, <2>1 DEF TypeOK, HostType
  <2>. QED  BY <1>1, <2>2 DEF TypeOK, HostType
<1>3. Live /\ Live' /\ Paired /\ Addressed
  BY <1>1 DEF Staged, Live, IInv
<1>4. Staged'
  BY <1>1, <1>2, <1>3 DEF Staged
<1>5. Paired'
  BY <1>1, <1>2, <1>3 DEF Paired
<1>6. Addressed'
  <2>1. ~Undelivered
    BY <1>1 DEF Undelivered
  <2>2. Delivered => Delivered'
    BY <1>1, <1>2 DEF Delivered
  <2>. QED  BY <1>1, <1>2, <1>3, <2>1, <2>2 DEF Addressed
<1>. QED  BY <1>1, <1>2, <1>3, <1>4, <1>5, <1>6 DEF IInv, TypeOK, Asleep, Whole, Configured, Control, Serving, Legal

LEMMA GivesUpKeeps ==
  ASSUME IInv, HostGivesUp
  PROVE  IInv'
  BY OverKeeps, FailsHost DEF HostGivesUp, IInv, TypeOK, Serving

-----------------------------------------------------------------------------
(* The invariant, and what follows from it.                                 *)
THEOREM Inductive == Spec => []IInv
<1>1. Init => IInv
  <2>. SUFFICES ASSUME Init PROVE IInv
    OBVIOUS
  <2>1. TypeOK /\ Asleep
    BY FreshHw, IdleCtrl, UsbControlAssumption DEF Init, TypeOK, Asleep, LineType, DevType, HostType, Phases
  <2>2. Whole /\ Control
    BY FreshHw, IdleCtrl DEF Init, Whole, Control, Configured
  <2>3. ~Live /\ Staged /\ Serving
    BY DEF Init, Live, Staged, Serving
  <2>. QED  BY <2>1, <2>2, <2>3 DEF IInv
<1>2. ASSUME IInv, [Next]_vars PROVE IInv'
  <2>1. CASE UNCHANGED vars
    <3>1. UNCHANGED ctrlVars /\ UNCHANGED line
      BY <2>1 DEF vars, ctrlVars
    <3>. QED  BY <1>2, <3>1, LineKeeps DEF IInv, TypeOK, Asleep, Live
  <2>2. CASE udd_ctrl_interrupt
    BY <1>2, <2>2, SetupKeeps, InSentKeeps, OutReceivedKeeps, OverflowKeeps, UnderflowKeeps DEF udd_ctrl_interrupt
  <2>3. CASE BusReset \/ BusSuspend \/ BusWakeUp \/ stdio_usb_vbus_event
    BY <1>2, <2>3, EventsKeep DEF stdio_usb_vbus_event
  <2>4. CASE Host
    BY <1>2, <2>4, SetupSentKeeps, InKeeps, OutKeeps, CutsKeep, GivesUpKeeps, EventsKeep DEF Host
  <2>. QED  BY <1>2, <2>1, <2>2, <2>3, <2>4 DEF Next, udd_interrupt
<1>. QED  BY <1>1, <1>2, PTL DEF Spec

(* Every variable keeps its type: what the host has moved is never more      *)
(* than it asked for (udd_ctrl_out_received).                                *)
THEOREM TypeCorrect == Spec => []TypeOK
<1>1. IInv => TypeOK
  BY DEF IInv
<1>. QED  BY <1>1, Inductive, PTL

(* A handshake is offered for what was done, whichever step of enabling an   *)
(* interface fails and whatever packet overtakes whatever; no configuration  *)
(* leaves nothing behind (udc_iface_enable, udc_iface_disable, udc_reset).   *)
THEOREM ConfigurationIsWhole == Spec => []ConfigurationWhole
<1>1. ASSUME IInv, Acknowledges PROVE AsRequested(dev, host.req)
  <2>1. Whole /\ Control /\ Staged /\ Paired /\ ctrl.state \in States /\ "setup" \notin hw.flags
    BY <1>1 DEF IInv, Acknowledges, Reaches, Active, Live, TypeOK, CtrlType, Whole
  <2>2. ctrl.req = host.req
    BY <1>1, <2>1 DEF Acknowledges, Paired
  <2>3. CASE host.req.kind \notin Sets
    BY <2>3, NothingAsked
  <2>4. CASE host.req.kind \in Sets
    <3>1. ~Udd_setup_is_in(ctrl.req) /\ ctrl.req # NoRequest
      BY <2>2, <2>4 DEF Sets, Udd_setup_is_in, InKinds, NoRequest, Request
    <3>2. ctrl.state \notin {"setup", "data_in", "wait_out_zlp"}
      BY <2>1, <3>1 DEF Control, IsIn
    <3>3. ctrl.state \notin {"data_out", "stall_req"}
      BY <1>1, <2>1, <2>2, <2>4 DEF Acknowledges, Whole, Paired
    <3>4. ctrl.state = "wait_in_zlp"
      BY <2>1, <3>2, <3>3 DEF States
    <3>. QED  BY <2>1, <2>2, <3>4 DEF Whole
  <2>. QED  BY <2>3, <2>4
<1>2. IInv => ConfigurationWhole
  BY <1>1 DEF IInv, Whole, Configured, ConfigurationWhole
<1>. QED  BY <1>2, Inductive, PTL

(* A host between two transfers has the device's address, whatever SETUP     *)
(* packets overtook whatever handshakes (udd_ctrl_setup_received).           *)
THEOREM AddressIsAgreed == Spec => []AddressAgreed
<1>1. IInv => AddressAgreed
  BY DEF IInv, Live, Addressed, Undelivered, Delivered, AddressAgreed, PacketInterrupt
<1>. QED  BY <1>1, Inductive, PTL

(* A legal transfer is not stalled, and the host gets the whole of a         *)
(* descriptor (udd_ctrl_in_sent, udd_ctrl_payload_need_in_zlp).              *)
THEOREM LegalIsServed == Spec => []Served
<1>1. ASSUME IInv PROVE Served
  <2>1. ASSUME host.req.kind = "get_descriptor", Legal(host), host.phase = "status_out"
        PROVE  host.count = Min({host.req.value, host.req.length})
    <3>1. ServedBy
      BY <1>1, <2>1 DEF IInv, Serving
    <3>2. Sent /\ ctrl.size = Min({host.req.value, host.req.length})
      BY <2>1, <3>1 DEF ServedBy, SetupSent
    <3>. QED  BY <3>2 DEF Sent
  <2>. QED  BY <1>1, <2>1 DEF IInv, Serving, Served
<1>. QED  BY <1>1, Inductive, PTL
=============================================================================
