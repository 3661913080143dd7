--------------------------- MODULE RegisterAccess ---------------------------
(***************************************************************************)
(* What register access over I2C comes down to (i2c_bit_bang::write_data   *)
(* and read_data): the device gets the register's number, then takes the   *)
(* bytes written or gives bytes to read, each once and in order, or it     *)
(* refuses at any point.  The caller learns truthfully which it was; what  *)
(* it has read after a refusal is all ones.  I2cBus.tla implements this.   *)
(***************************************************************************)
EXTENDS Naturals, Sequences

CONSTANTS
  Calls,    \* [kind |-> "write", reg, data] or [kind |-> "read", reg, len]
  Given,    \* the bytes the device gives, in turn
  Ones,     \* the byte that is all ones
  NoCall

VARIABLES
  call,     \* under way, or NoCall
  device,   \* [reg, written, next]: last register, bytes since taken, next byte
  taken,    \* steps of the call the device has gone along with
  reply     \* of the last call: [ack, data]

accessVars == <<call, device, taken, reply>>

NumBytes(c) == IF c.kind = "write" THEN Len(c.data) ELSE c.len
Complete == taken = 1 + NumBytes(call)

(* The byte the device gives n bytes after, or before, byte i *)
GivenAfter(i, n) == ((i - 1 + n) % Len(Given)) + 1

AccessInit ==
  /\ call = NoCall /\ taken = 0
  /\ device = [reg |-> Ones, written |-> <<>>, next |-> 1]
  /\ reply = [ack |-> FALSE, data |-> <<>>]

Call ==
  /\ call = NoCall /\ call' \in Calls
  /\ taken' = 0
  /\ UNCHANGED <<device, reply>>

Select ==
  /\ call # NoCall /\ taken = 0
  /\ device' = [device EXCEPT !.reg = call.reg, !.written = <<>>]
  /\ taken' = 1
  /\ UNCHANGED <<call, reply>>

Transfer ==
  /\ call # NoCall /\ taken \in 1 .. NumBytes(call)
  /\ device' = IF call.kind = "write"
               THEN [device EXCEPT !.written = Append(@, call.data[taken])]
               ELSE [device EXCEPT !.next = GivenAfter(@, 1)]
  /\ taken' = taken + 1
  /\ UNCHANGED <<call, reply>>

Return ==
  /\ call # NoCall /\ call' = NoCall
  /\ reply' = [ ack  |-> Complete,
                data |-> IF call.kind = "write" THEN <<>>
                         ELSE [i \in 1 .. call.len |->
                                 IF Complete
                                 THEN Given[GivenAfter(device.next, Len(Given) - call.len + i - 1)]
                                 ELSE Ones] ]
  /\ taken' = 0
  /\ UNCHANGED device

AccessNext == Call \/ Select \/ Transfer \/ Return
AccessSpec == AccessInit /\ [][AccessNext]_accessVars
=============================================================================
