------------------------------- MODULE PdSink -------------------------------
(***************************************************************************)
(* struct pd_sink (src/src/pd_sink.cpp): the sink's side of the            *)
(* negotiation.  Its fields are one record, its functions operators that   *)
(* take the record and give the changed one; the attachment below it is    *)
(* PdLink, the program above it Zy12pdn.tla.                               *)
(*                                                                         *)
(* Voltages are in mV and currents in mA, in power data objects in the     *)
(* units of their fields.  Indices of capabilities start at 1; index 0     *)
(* stands for the code's -1.  spec_rev and the two flags of the 5V         *)
(* capability are left out: nothing depends on them.                       *)
(***************************************************************************)
EXTENDS PdLink, Integers, FiniteSetsExt

VARIABLE sink

(* Events of kind message_received, as handle_msg tells them apart. *)
Message(type, objs) == [kind |-> "message_received", type |-> type, objs |-> objs]

SinkInit ==
  sink = [ source_caps |-> <<>>,           \* its length is num_source_caps
           requested_voltage |-> 0, requested_max_current |-> 0,
           active_voltage |-> 5000, active_max_current |-> 900,
           selected_pps_index |-> 0,
           pps_due |-> FALSE,              \* next_pps_request has expired
           tx |-> <<>> ]                   \* requests handed to send_message

-----------------------------------------------------------------------------
(* handle_src_cap_msg: power data objects to capabilities *)

(* An "apdo" is an augmented object that is not a programmable supply; the *)
(* code skips it, which is why a capability keeps its object position.     *)
Capability(pdo, pos) ==
  LET unit == IF pdo.supply_type = "pps" THEN 100 ELSE 50
      low  == pdo.low * unit
  IN  [ supply_type |-> pdo.supply_type,
        obj_pos     |-> pos,
        max_current |-> pdo.current * (IF pdo.supply_type = "pps" THEN 50 ELSE 10),
        min_voltage |-> low,
        voltage     |-> IF pdo.supply_type = "fixed" THEN low ELSE pdo.high * unit ]

IsSupported(cap) == cap.supply_type # "apdo"

M_CapsRenumbered(pdos) ==
  LET kept == SelectSeq([i \in DOMAIN pdos |-> Capability(pdos[i], i)], IsSupported)
  IN  [i \in DOMAIN kept |-> [kept[i] EXCEPT !.obj_pos = i]]

(* The capabilities once the loop has been round n times *)
SourceCaps(pdos) ==
  LET upTo[n \in 0 .. Len(pdos)] ==
        IF n = 0 THEN <<>>
        ELSE LET cap == Capability(pdos[n], n)
             IN  IF IsSupported(cap) THEN Append(upTo[n - 1], cap) ELSE upTo[n - 1]
  IN  upTo[Len(pdos)]

-----------------------------------------------------------------------------
(* Requests *)

M_InRangeStrict(cap, voltage) == voltage > cap.min_voltage /\ voltage <= cap.voltage
InRange(cap, voltage) == voltage \in cap.min_voltage .. cap.voltage

(* The checks of request_power_from_capability *)
CanRequest(s, index, voltage, max_current) ==
  /\ index \in DOMAIN s.source_caps
  /\ LET cap == s.source_caps[index]
     IN  /\ cap.supply_type \in {"fixed", "pps"}
         /\ InRange(cap, voltage)
         /\ max_current \in 25 .. cap.max_current

Rounded(x, step, most) == Min({(x + step \div 2) \div step, most}) * step

(* What set_request_payload_fixed and set_request_payload_pps ask for.  The *)
(* payload for a fixed supply does not tell the voltage, and none tells the *)
(* type: the source takes both from its object at that position.           *)
Request(cap, voltage, max_current) ==
  IF cap.supply_type = "fixed"
  THEN [supply_type |-> "fixed", obj_pos |-> cap.obj_pos, voltage |-> voltage,
        current |-> Rounded(max_current, 10, 1023)]
  ELSE [supply_type |-> "pps", obj_pos |-> cap.obj_pos,
        voltage |-> Rounded(voltage, 20, 2047), current |-> Rounded(max_current, 50, 127)]

M_IndexOnce(s, cap, index) == IF s.selected_pps_index = 0 /\ cap.supply_type = "pps" THEN index ELSE 0
PpsIndex(s, cap, index) == IF cap.supply_type = "pps" THEN index ELSE 0

RequestPowerFromCapability(s, index, voltage, max_current) ==
  IF ~CanRequest(s, index, voltage, max_current) THEN s
  ELSE LET cap == s.source_caps[index]
           request == Request(cap, voltage, max_current)
       IN  [s EXCEPT !.requested_voltage = request.voltage,
                     !.requested_max_current = request.current,
                     !.selected_pps_index = PpsIndex(s, cap, index),
                     !.pps_due = @ /\ cap.supply_type # "pps",
                     !.tx = Append(@, request)]

(* request_power: the first fixed supply that matches, else the first      *)
(* programmable one.  The program never gives a maximum current, so it is  *)
(* the capability's.                                                       *)
Matching(s, type, voltage) ==
  {i \in DOMAIN s.source_caps : s.source_caps[i].supply_type = type
                                /\ InRange(s.source_caps[i], voltage)}

M_FixedSuppliesOnly(s, voltage) ==
  LET fixed == Matching(s, "fixed", voltage)
  IN  IF fixed = {} THEN s
      ELSE RequestPowerFromCapability(s, Min(fixed), voltage,
                                      s.source_caps[Min(fixed)].max_current)
RequestPower(s, voltage) ==
  LET fixed == Matching(s, "fixed", voltage)
      pps   == Matching(s, "pps", voltage)
      index == IF fixed # {} THEN Min(fixed) ELSE Min(pps)
  IN  IF fixed \cup pps = {} THEN s
      ELSE RequestPowerFromCapability(s, index, voltage, s.source_caps[index].max_current)

(* The last step of poll: a programmable supply is asked again in time. *)
KeepAlive(s) ==
  IF s.selected_pps_index # 0 /\ s.requested_voltage = 0 /\ s.pps_due
  THEN RequestPowerFromCapability(s, s.selected_pps_index,
                                  s.active_voltage, s.active_max_current)
  ELSE s

-----------------------------------------------------------------------------
(* Events *)

(* handle_msg up to its call of notify, and the event it notifies of *)
M_RequestKept(s) ==
  [s EXCEPT !.active_voltage = s.requested_voltage,
            !.active_max_current = s.requested_max_current]
PowerReady(s) ==
  [s EXCEPT !.active_voltage = s.requested_voltage,
            !.active_max_current = s.requested_max_current,
            !.requested_voltage = 0, !.requested_max_current = 0]

HandleMsg(s, m) ==
  CASE m.type = "source_capabilities" -> [s EXCEPT !.source_caps = SourceCaps(m.objs)]
    [] m.type = "ps_ready"            -> PowerReady(s)
    [] m.type = "reject" ->
         [s EXCEPT !.requested_voltage = 0, !.requested_max_current = 0,
                   !.selected_pps_index = 0]
    [] OTHER -> s

CallbackOf(m) ==
  CASE m.type = "source_capabilities" -> "source_caps_changed"
    [] m.type = "accept"              -> "power_accepted"
    [] m.type = "reject"              -> "power_rejected"
    [] m.type = "ps_ready"            -> "power_ready"
    [] OTHER                          -> "none"

(* update_protocol: without USB PD there are 5V and no capabilities. *)
UpdateProtocol(s, l) ==
  IF l = "up" THEN s
  ELSE [s EXCEPT !.active_voltage = 5000, !.active_max_current = 900, !.source_caps = <<>>]
=============================================================================
