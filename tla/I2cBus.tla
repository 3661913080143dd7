------------------------------- MODULE I2cBus -------------------------------
(***************************************************************************)
(* The I2C master of src/src/i2c_bit_bang.cpp, pin by pin, and a device on *)
(* the bus that may refuse any byte it is sent.                            *)
(*                                                                         *)
(* A call is a row of pieces (a start condition, a byte, a stop condition);*)
(* i2c_pc names the piece under way, ops is what is left of its pin        *)
(* operations, bits what has been sampled in it.  When a piece is through, *)
(* the code decides on the next one.  Levels are Booleans, TRUE for high.  *)
(***************************************************************************)
EXTENDS Integers, SequencesExt

CONSTANTS
  NBits,       \* bits of a byte: 8
  DeviceAddr,  \* the address: NBits - 1 bits
  Calls,       \* of pd_ctrl_write and pd_ctrl_read: see RegisterAccess.tla
  Given,       \* the bytes the device gives to be read, in turn
  NoCall

Byte == [1 .. NBits -> BOOLEAN]
Ones == [i \in 1 .. NBits |-> TRUE]

ASSUME I2cAssumption ==
  /\ NBits \in Nat \ {0} /\ DeviceAddr \in [1 .. NBits - 1 -> BOOLEAN]
  /\ Given \in Seq(Byte) /\ Given # <<>> /\ NoCall \notin Calls
  /\ \A c \in Calls : /\ c.reg \in Byte
                      /\ \/ c.kind = "write" /\ c.data \in Seq(Byte)
                         \/ c.kind = "read" /\ c.len \in 1 .. Len(Given)

VARIABLES
  \* i2c_bit_bang
  is_started, call, i2c_pc, ops, bits, ack, index, got,   \* index: of the loops over data
  \* the bus: the master's SCL and SDA
  scl, sda,
  \* the device: its side of the protocol, what it has in it
  peer, device,
  \* history: steps of the call that the device went along with; last result
  taken, reply

master  == <<is_started, call, i2c_pc, bits, ack, index, got, reply>>
i2cVars == <<master, ops, scl, sda, peer, device, taken>>

(* The line is low if one of the two pulls it low. *)
Sda == sda /\ peer.drive

-----------------------------------------------------------------------------
(* The device (external) *)

(* state: "off" (not heard a start yet), "idle", "ignore", or what the     *)
(* byte is: "addr", "reg", "data", "give"; count: bits clocked; answering: *)
(* in the byte's last clock                                                *)
Peer(state) == [state |-> state, byte |-> <<>>, count |-> 0, answering |-> FALSE,
                accepted |-> FALSE, drive |-> TRUE]

(* A change of SDA while SCL is high is a start or a stop condition. *)
PeerSeesSda(level) ==
  LET now == level /\ peer.drive
  IN  peer' = IF scl /\ now # Sda THEN Peer(IF now THEN "idle" ELSE "addr") ELSE peer

Listening == peer.state \in {"addr", "reg", "data"}

PeerSeesRise ==
  peer' = CASE Listening /\ ~peer.answering ->
                 [peer EXCEPT !.byte = Append(@, Sda), !.count = @ + 1]
            [] peer.state = "give" /\ ~peer.answering -> [peer EXCEPT !.count = @ + 1]
            [] peer.state = "give" /\ peer.answering  -> [peer EXCEPT !.accepted = ~Sda]
            [] OTHER -> peer

IsMine(byte) == SubSeq(byte, 1, NBits - 1) = DeviceAddr

(* The byte is in: the device acknowledges it, or refuses.  A byte         *)
(* acknowledged is taken.                                                  *)
Answers(acknowledge) ==
  /\ acknowledge => peer.state # "addr" \/ IsMine(peer.byte)
  /\ peer' = [peer EXCEPT !.answering = TRUE, !.accepted = acknowledge, !.drive = ~acknowledge]
  /\ IF acknowledge /\ peer.state # "addr"
     THEN /\ taken' = taken + 1
          /\ device' = IF peer.state = "reg"
                       THEN [device EXCEPT !.reg = peer.byte, !.written = <<>>]
                       ELSE [device EXCEPT !.written = Append(@, peer.byte)]
     ELSE UNCHANGED <<taken, device>>

(* What the byte after an answer is *)
NextState ==
  CASE ~peer.accepted -> "ignore"
    [] peer.accepted /\ peer.state = "addr" -> IF peer.byte[NBits] THEN "give" ELSE "reg"
    [] peer.accepted /\ peer.state \in {"reg", "data"} -> "data"
    [] peer.accepted /\ peer.state = "give" -> "give"

AfterAnswer ==
  IF NextState # "give" THEN peer' = Peer(NextState) /\ UNCHANGED <<device, taken>>
  ELSE LET byte == Given[device.next]
       IN  /\ peer' = [Peer("give") EXCEPT !.byte = byte, !.drive = byte[1]]
           /\ device' = [device EXCEPT !.next = (@ % Len(Given)) + 1]
           /\ taken' = taken + 1

(* The next bit, or SDA is released for the master's answer. *)
ShiftsOut ==
  /\ peer' = IF peer.count < NBits THEN [peer EXCEPT !.drive = peer.byte[peer.count + 1]]
             ELSE [peer EXCEPT !.answering = TRUE, !.drive = TRUE]
  /\ UNCHANGED <<device, taken>>

PeerSeesFall ==
  IF peer.answering THEN AfterAnswer
  ELSE IF peer.state = "give" THEN ShiftsOut
  ELSE IF Listening /\ peer.count = NBits THEN \E acknowledge \in BOOLEAN : Answers(acknowledge)
  ELSE UNCHANGED <<peer, device, taken>>

-----------------------------------------------------------------------------
(* Pin operations of the master *)

SetSda(level) ==
  /\ sda' = level /\ PeerSeesSda(level)
  /\ UNCHANGED <<master, scl, device, taken>>

SetScl ==
  /\ scl' = TRUE
  /\ IF scl THEN UNCHANGED peer ELSE PeerSeesRise
  /\ UNCHANGED <<master, sda, device, taken>>

ClearScl ==
  /\ scl' = FALSE
  /\ IF scl THEN PeerSeesFall ELSE UNCHANGED <<peer, device, taken>>
  /\ UNCHANGED <<master, sda>>

ReadSda ==
  /\ bits' = Append(bits, Sda)
  /\ UNCHANGED <<is_started, call, i2c_pc, ack, index, got, reply, scl, sda, peer, device, taken>>

PinOperation ==
  /\ ops # <<>> /\ ops' = Tail(ops)
  /\ \/ Head(ops) = "set_sda" /\ SetSda(TRUE)
     \/ Head(ops) = "clear_sda" /\ SetSda(FALSE)
     \/ Head(ops) = "set_scl" /\ SetScl
     \/ Head(ops) = "clear_scl" /\ ClearScl
     \/ Head(ops) = "read_sda" /\ ReadSda

StartCond ==
  (IF is_started THEN <<"set_sda", "set_scl">> ELSE <<>>) \o <<"clear_sda", "clear_scl">>
StopCond == <<"clear_sda", "set_scl", "set_sda">>
M_BitInClock(bit) == <<"set_scl", IF bit THEN "set_sda" ELSE "clear_sda", "clear_scl">>
WriteBit(bit) == <<IF bit THEN "set_sda" ELSE "clear_sda", "set_scl", "clear_scl">>
ReadBit == <<"set_sda", "set_scl", "read_sda", "clear_scl">>

WriteByte(value) == FlattenSeq([i \in 1 .. NBits |-> WriteBit(value[i])]) \o ReadBit
M_ReadByteLong(nack) == FlattenSeq([i \in 1 .. NBits + 1 |-> ReadBit]) \o WriteBit(nack)
ReadByte(nack) == FlattenSeq([i \in 1 .. NBits |-> ReadBit]) \o WriteBit(nack)

-----------------------------------------------------------------------------
(* write_data, read_data: what follows a piece *)

Piece(pc, o) == i2c_pc' = pc /\ ops' = o /\ bits' = <<>>
Through(pc) == i2c_pc = pc /\ ops = <<>>
Same == UNCHANGED <<call, reply, scl, sda, peer, device, taken>>

Address(read) == Append(DeviceAddr, read)

(* "ack = ack && write_byte(...)": nothing is sent once a byte was refused. *)
StillAcked == ack /\ ~bits[1]
IfAcked(piece) == IF ack' THEN piece ELSE <<>>

CallBegins ==
  /\ call = NoCall /\ call' \in Calls
  /\ Piece("start", StartCond) /\ is_started' = TRUE
  /\ ack' = TRUE /\ index' = 0 /\ got' = <<>>
  /\ UNCHANGED <<reply, scl, sda, peer, device, taken>>

StartEnds ==
  /\ Through("start") /\ Piece("addr", WriteByte(Address(FALSE)))
  /\ Same /\ UNCHANGED <<is_started, ack, index, got>>

AddressSent ==
  /\ Through("addr") /\ ack' = StillAcked
  /\ Piece("reg", IfAcked(WriteByte(call.reg)))
  /\ Same /\ UNCHANGED <<is_started, index, got>>

ByteSent ==
  /\ Through("reg") \/ Through("data")
  /\ call.kind = "write" /\ index < Len(call.data)
  /\ ack' = StillAcked /\ index' = index + 1
  /\ Piece("data", IfAcked(WriteByte(call.data[index + 1])))
  /\ Same /\ UNCHANGED <<is_started, got>>

(* "end_with_stop && !ack" *)
M_NeverStop == FALSE
StopAfterWrite == ~ack'

WriteEnds ==
  /\ Through("reg") \/ Through("data")
  /\ call.kind = "write" /\ index = Len(call.data)
  /\ ack' = StillAcked
  /\ IF StopAfterWrite THEN Piece("stop", StopCond) /\ is_started' = FALSE
                       ELSE Piece("return", <<>>) /\ UNCHANGED is_started
  /\ Same /\ UNCHANGED <<index, got>>

(* A read goes on with a repeated start; after a refusal with the bytes. *)
RegisterSent ==
  /\ Through("reg") /\ call.kind = "read"
  /\ ack' = StillAcked
  /\ Piece("restart", IfAcked(StartCond))
  /\ Same /\ UNCHANGED <<is_started, index, got>>

RestartEnds ==
  /\ Through("restart") /\ ack' = ack
  /\ Piece("addr_read", IfAcked(WriteByte(Address(TRUE))))
  /\ Same /\ UNCHANGED <<is_started, index, got>>

M_NackNever(i) == FALSE
LastByte(i) == i = call.len - 1

FirstByte ==
  /\ Through("addr_read") /\ ack' = StillAcked
  /\ Piece("get", ReadByte(LastByte(0)))
  /\ Same /\ UNCHANGED <<is_started, index, got>>

ByteRead ==
  /\ Through("get") /\ got' = Append(got, bits) /\ index' = index + 1
  /\ IF index' < call.len
     THEN Piece("get", ReadByte(LastByte(index'))) /\ UNCHANGED is_started
     ELSE Piece("stop", StopCond) /\ is_started' = FALSE
  /\ Same /\ UNCHANGED ack

CallEnds ==
  /\ Through("stop") \/ Through("return")
  /\ call' = NoCall /\ reply' = [ack |-> ack, data |-> got]
  /\ Piece("idle", <<>>)
  /\ ack' = TRUE /\ index' = 0 /\ got' = <<>> /\ taken' = 0
  /\ UNCHANGED <<is_started, scl, sda, peer, device>>

-----------------------------------------------------------------------------
(* init drives SCL high and SDA low, which may look like a start condition. *)
I2cInit ==
  /\ is_started = FALSE /\ call = NoCall /\ i2c_pc = "idle" /\ ops = <<>> /\ bits = <<>>
  /\ ack = TRUE /\ index = 0 /\ got = <<>>
  /\ scl = TRUE /\ sda = FALSE
  /\ peer \in {Peer("off"), Peer("addr")}
  /\ device = [reg |-> Ones, written |-> <<>>, next |-> 1]
  /\ taken = 0 /\ reply = [ack |-> FALSE, data |-> <<>>]

I2cNext ==
  \/ PinOperation
  \/ CallBegins \/ StartEnds \/ AddressSent \/ ByteSent \/ WriteEnds
  \/ RegisterSent \/ RestartEnds \/ FirstByte \/ ByteRead \/ CallEnds

I2cSpec == I2cInit /\ [][I2cNext]_i2cVars

-----------------------------------------------------------------------------
(* Properties *)

(* The types; and pieces are as long as what is left of them. *)
I2cTypeOK ==
  /\ {is_started, ack, scl, sda} \subseteq BOOLEAN
  /\ call \in Calls \cup {NoCall}
  /\ i2c_pc \in {"idle", "start", "addr", "reg", "data", "restart", "addr_read", "get", "stop",
                 "return"}
  /\ bits \in Seq(BOOLEAN) /\ Len(bits) <= NBits
  /\ got \in Seq(Byte) /\ index \in Nat
  /\ peer.count \in 0 .. NBits

(* Whatever was refused, the next call finds a bus it can start on: the    *)
(* device does not hold SDA, is_started says whether the clock is low, and *)
(* if not, a stop condition has been seen (after the first call).          *)
BusReady ==
  i2c_pc = "idle" =>
    /\ peer.drive
    /\ is_started <=> ~scl
    /\ ~is_started /\ sda => peer.state = "idle"
    /\ is_started => peer.state = "data"

(* SDA changes while the clock is high where a start or a stop condition   *)
(* is meant and nowhere else, and each of them makes its condition.        *)
OnlyMeantConditions ==
  [][ /\ scl /\ scl' /\ Sda' # Sda =>
           i2c_pc \in IF Sda' THEN {"stop"} ELSE {"start", "restart"}
      /\ i2c_pc \in {"start", "restart"} /\ ops = <<>> /\ ack => peer.state \in {"addr", "off"}
    ]_i2cVars

(* A call does to the device and returns to the caller what the register   *)
(* access promises, whichever byte is refused.                             *)
Access == INSTANCE RegisterAccess
ImplementsAccess == Access!AccessSpec
=============================================================================
