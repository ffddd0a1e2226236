--------------------------- MODULE EndpointMemory ---------------------------
(***************************************************************************)
(* The endpoints of the USB controller and their windows in its memory:     *)
(* udd_ep_alloc() and udd_ep_free() of usbb_device.c, and the configuration  *)
(* registers of usbb_device.h.  The controller puts the window of an         *)
(* endpoint behind those of the endpoints below it; so the driver takes the *)
(* windows of the endpoints above away and gives them new ones.             *)
(***************************************************************************)
EXTENDS Integers, SequencesExt

CONSTANTS
  USB_DEVICE_MAX_EP,
  USB_DEVICE_EP_CTRL_SIZE,
  Types,     \* of endpoints, with their direction
  Sizes,     \* of endpoints, as descriptors give them: powers of two, and 1023
  DpramSize  \* bytes of the memory

VARIABLES
  uecfg,   \* the registers of each endpoint, its window, and the size its descriptor gave
  granted  \* the call before allocated an endpoint
vars == <<uecfg, granted>>

Endpoints == 0..USB_DEVICE_MAX_EP
Data      == 1..USB_DEVICE_MAX_EP

-----------------------------------------------------------------------------
(* The registers.  A size is kept as its logarithm, 8 being 0.              *)

Clamp(size) == Min({Max({size, 8}), 1024})
BitsOf(n)   == CHOOSE k \in 1..11 : n \in 2^(k - 1)..(2^k - 1)
udd_format_endpoint_size(size) == BitsOf(2 * Clamp(size) - 1) - 4
udd_get_endpoint_size(r)       == 8 * 2^r.size

udd_configure_endpoint(r, type, size, bank) ==
  [r EXCEPT !.type = type, !.size = udd_format_endpoint_size(size), !.bank = bank, !.asked = size]
udd_enable_endpoint(r)                 == [r EXCEPT !.enabled = TRUE]
udd_disable_endpoint(r)                == [r EXCEPT !.enabled = FALSE]
udd_enable_endpoint_bank_autoswitch(r) == [r EXCEPT !.autosw = TRUE]

(* The controller: a window behind the last one below, if there is room.    *)
WindowEnd(r)        == r.start + udd_get_endpoint_size(r) * r.bank
FirstFree(u, e)     == Max({0} \cup {WindowEnd(u[i]) : i \in {j \in Endpoints : j < e /\ u[j].alloc}})
udd_allocate_memory(u, e) ==
  LET r == [u[e] EXCEPT !.alloc = TRUE, !.start = FirstFree(u, e)]
  IN  [u EXCEPT ![e] = [r EXCEPT !.configured = WindowEnd(r) <= DpramSize]]
udd_unallocate_memory(r) == [r EXCEPT !.alloc = FALSE, !.configured = FALSE, !.start = 0]

-----------------------------------------------------------------------------
(* udd_ep_alloc() *)

Banks(type) == IF type = "interrupt" THEN 1 ELSE 2

NoSuperior(u, e)   == {}  \* MUTANT: the windows above stay where they are
Superior(u, e)     == {i \in Endpoints : i > e /\ u[i].enabled}
Unallocated(u, s)  == [i \in Endpoints |-> IF i \in s THEN udd_unallocate_memory(udd_disable_endpoint(u[i])) ELSE u[i]]

Reallocated(u, i) ==
  LET placed  == udd_allocate_memory(u, i)
      enabled == [placed EXCEPT ![i] = udd_enable_endpoint(@)]
  IN  IF enabled[i].configured THEN [enabled EXCEPT ![i] = udd_enable_endpoint_bank_autoswitch(@)] ELSE enabled

NewOnly(u, s) == LET v == Reallocated(u, Min(s))
                 IN  [u |-> v, ok |-> v[Min(s)].configured]  \* MUTANT: the windows above are not given back
(* The loop ends at the first endpoint for which there is no room.          *)
Realloc(u, s) ==
  LET Turn(t, i) == IF ~t.ok \/ i \notin s THEN t
                    ELSE LET v == Reallocated(t.u, i) IN [u |-> v, ok |-> v[i].configured]
  IN  FoldLeft(Turn, [u |-> u, ok |-> TRUE], [k \in 1..USB_DEVICE_MAX_EP + 1 |-> k - 1])

udd_ep_alloc(e, type, size) ==
  IF e > USB_DEVICE_MAX_EP \/ uecfg[e].enabled \/ type = "control"
  THEN uecfg' = uecfg /\ granted' = FALSE
  ELSE LET s == Superior(uecfg, e)
           t == Realloc(Unallocated([uecfg EXCEPT ![e] = udd_configure_endpoint(@, type, size, Banks(type))], s),
                        s \cup {e})
       IN  uecfg' = t.u /\ granted' = t.ok

FreeEndpoint(r) == udd_unallocate_memory(udd_disable_endpoint(r))
udd_ep_free(e)  == /\ uecfg' = [uecfg EXCEPT ![e] = FreeEndpoint(@)]
                   /\ granted' = FALSE

(* A bus reset: the stack has freed the endpoints of its interfaces.        *)
udd_reset_ep_ctrl(u) ==
  LET v == udd_allocate_memory([u EXCEPT ![0] = udd_configure_endpoint(@, "control", USB_DEVICE_EP_CTRL_SIZE, 1)], 0)
  IN  [v EXCEPT ![0] = udd_enable_endpoint(@)]
Reset ==
  /\ uecfg' = udd_reset_ep_ctrl([i \in Endpoints |-> IF i = 0 THEN uecfg[i] ELSE FreeEndpoint(uecfg[i])])
  /\ granted' = FALSE

-----------------------------------------------------------------------------
Unused == [type |-> "control", size |-> 0, bank |-> 1, alloc |-> FALSE, enabled |-> FALSE,
           autosw |-> FALSE, configured |-> FALSE, start |-> 0, asked |-> 8]

Init ==
  /\ uecfg = udd_reset_ep_ctrl([i \in Endpoints |-> Unused])
  /\ granted = FALSE

Alloc == \E e \in 1..USB_DEVICE_MAX_EP + 1, type \in Types, size \in Sizes : udd_ep_alloc(e, type, size)
Free  == \E e \in Data : udd_ep_free(e)
Next  == Alloc \/ Free \/ Reset

Spec == Init /\ [][Next]_vars

-----------------------------------------------------------------------------
(* In whatever order endpoints are allocated and freed, no two of those that *)
(* are configured share a byte of the memory, all lie within it, and each   *)
(* has at least the size its descriptor asks for. (udd_ep_alloc,             *)
(* udd_format_endpoint_size)                                                *)
MemoriesApart ==
  LET Working == {e \in Endpoints : uecfg[e].enabled /\ uecfg[e].configured}
  IN  \A e \in Working :
        /\ WindowEnd(uecfg[e]) <= DpramSize
        /\ uecfg[e].asked \in udd_get_endpoint_size(uecfg[e]) \div 2..udd_get_endpoint_size(uecfg[e])
        /\ \A f \in Working \ {e} : WindowEnd(uecfg[e]) <= uecfg[f].start \/ WindowEnd(uecfg[f]) <= uecfg[e].start

(* An allocation that succeeds leaves every endpoint that worked working,    *)
(* configured as it was, wherever its window is now. (udd_ep_alloc)          *)
Setting(r)    == <<r.type, r.size, r.bank>>
Works(r)      == r.enabled /\ r.alloc /\ r.configured
OthersKeptAt(e) ==
  Works(uecfg[e]) => Works(uecfg'[e]) /\ Setting(uecfg'[e]) = Setting(uecfg[e])
OthersKept == [][granted' => \A e \in Endpoints : OthersKeptAt(e)]_vars
=============================================================================
