---------------------------- MODULE MCUsbControl ----------------------------
(* A host's requests, one or more for each outcome of udc_process_setup (a  *)
(* CLEAR_HALT has that of a SET_HALT that succeeds): a descriptor of two    *)
(* packets asked for short, exactly and long; settings known and unknown.   *)
EXTENDS UsbControl

MCRequests ==
  {Request("get_descriptor", 4, 0, n) : n \in {1, 4, 5}}
  \cup {Request("set_address", 1, 0, 0), Request("get_status", 0, 0, 2), Request("get_interface", 0, 1, 1)}
  \cup {Request("set_configuration", v, 0, 0) : v \in {0, 1, 2}}
  \cup {Request("set_interface", v, 1, 0) : v \in {0, 1}} \cup {Request("set_interface", 0, 0, 0)}
  \cup {Request(k, 0, 1, 0) : k \in {"set_halt", "set_feature"}}
  \cup {Request(k, 0, 0, LineCoding) : k \in {"get_line_coding", "set_line_coding"}}
=============================================================================
