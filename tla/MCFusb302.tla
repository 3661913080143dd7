----------------------------- MODULE MCFusb302 -----------------------------
(* Values for model checking Fusb302. *)
EXTENDS Fusb302

CONSTANTS w0, w1, w2

Header(type) == [type |-> type]
Packet(type, objs, crc_ok) ==
  [sop |-> TRUE, header |-> Header(type), objs |-> objs, crc |-> w0, crc_ok |-> crc_ok]

MCHeaders == {Header("good_crc"), Header("ctrl")}
MCPayloadHeaders == {Header("caps"), Header("ctrl")}

(* One packet of each kind the driver distinguishes; contents all alike. *)
MCPackets ==
  { Packet("good_crc", <<>>, TRUE), Packet("ctrl", <<>>, TRUE),
    Packet("ctrl", <<>>, FALSE),
    [Packet("ctrl", <<>>, TRUE) EXCEPT !.sop = FALSE] }

(* Two messages with distinct contents. *)
MCPayloadPackets ==
  { Packet("caps", <<w1, w2>>, TRUE), Packet("ctrl", <<>>, TRUE) }
=============================================================================
