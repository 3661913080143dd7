------------------------------- MODULE UartTx -------------------------------
(***************************************************************************)
(* The debug output of src/src/pd_debug.cpp: a ring buffer filled by the   *)
(* program (uart_transmit, by way of debug_log) and emptied by DMA, whose  *)
(* transfer complete interrupt may come between any two accesses of the    *)
(* program to shared variables.  The interrupt handler itself is not       *)
(* interrupted by the program: it is one step.  Variables tx_... are the   *)
(* code's, t_... the locals of uart_transmit, dma_... the DMA channel.     *)
(***************************************************************************)
EXTENDS Integers, Sequences

CONSTANTS
  BufLen,    \* uart_tx_buf_len: 512
  MaxChunk,  \* most bytes of one transfer: 32
  Bytes,     \* what messages consist of
  Messages   \* what the program logs: formatted, never empty

ASSUME UartAssumption ==
  /\ BufLen \in Nat /\ BufLen >= 2 /\ MaxChunk \in Nat \ {0}
  /\ Messages \subseteq Seq(Bytes) \ {<<>>}
  /\ "idle" \notin Bytes

VARIABLES
  tx_buf, tx_buf_head, tx_buf_tail, tx_size,
  t_pc, t_data, t_size, t_copied,
  dma_on, dma_pos, dma_left,
  wire       \* the byte on the TX pin last

ringShared == <<tx_buf, tx_buf_head, tx_buf_tail, tx_size>>
transmit   == <<t_pc, t_data, t_size, t_copied>>
dma        == <<dma_on, dma_pos, dma_left>>
uartVars   == <<ringShared, transmit, dma, wire>>

Least(a, b) == IF a < b THEN a ELSE b

M_NoWrap(i) == i
Wrapped(i) == IF i >= BufLen THEN 0 ELSE i

(* uart_init *)
UartInit ==
  /\ tx_buf \in [0 .. BufLen - 1 -> {"idle"}]
  /\ tx_buf_head = 0 /\ tx_buf_tail = 0 /\ tx_size = 0
  /\ t_pc = "idle" /\ t_data = <<>> /\ t_size = 0 /\ t_copied = 0
  /\ dma_on = FALSE /\ dma_pos = 0 /\ dma_left = 0
  /\ wire = "idle"

-----------------------------------------------------------------------------
(* uart_start_transmit, called by the program and by the interrupt *)

M_NeverBusy == FALSE
Busy == tx_size # 0

(* The bytes from tail on, up to the head or the end of the buffer *)
M_ChunkToHead(tail, head) == Least(IF head < tail THEN 0 ELSE head - tail, MaxChunk)
Chunk(tail, head) ==
  Least((IF head <= tail THEN BufLen ELSE head) - tail, MaxChunk)

(* uart_start_tx_dma *)
StartDma(pos, len) == dma_on' = TRUE /\ dma_pos' = pos /\ dma_left' = len

-----------------------------------------------------------------------------
(* uart_transmit *)

DebugLog(m) ==
  /\ t_pc = "idle" /\ t_pc' = "room"
  /\ t_data' = m
  /\ UNCHANGED <<t_size, t_copied, ringShared, dma, wire>>

M_RoomAtStart(tail, head) == IF head < tail THEN tail - head - 1 ELSE BufLen - head
Room(tail, head) ==
  IF head < tail THEN tail - head - 1
  ELSE IF tail # 0 THEN BufLen - head
  ELSE BufLen - 1 - head

(* "buffer full - discard data": what is left of the message *)
ReadRoom ==
  /\ t_pc = "room"
  /\ LET room == Room(tx_buf_tail, tx_buf_head)
     IN  IF room = 0
         THEN t_pc' = "idle" /\ t_data' = <<>> /\ UNCHANGED t_size
         ELSE t_pc' = "copy" /\ t_size' = Least(Len(t_data), room) /\ UNCHANGED t_data
  /\ t_copied' = 0
  /\ UNCHANGED <<ringShared, dma, wire>>

(* memcpy, a byte at a time: the DMA reads the same buffer meanwhile. *)
CopyByte ==
  /\ t_pc = "copy" /\ t_copied < t_size
  /\ tx_buf' = [tx_buf EXCEPT ![tx_buf_head + t_copied] = t_data[t_copied + 1]]
  /\ t_copied' = t_copied + 1
  /\ UNCHANGED <<t_pc, t_data, t_size, tx_buf_head, tx_buf_tail, tx_size, dma, wire>>

PublishHead ==
  /\ t_pc = "copy" /\ t_copied = t_size
  /\ t_pc' = "start"
  /\ tx_buf_head' = Wrapped(tx_buf_head + t_size)
  /\ UNCHANGED <<t_data, t_size, t_copied, tx_buf, tx_buf_tail, tx_size, dma, wire>>

(* "UART busy or queue empty"; if it is busy, the interrupt goes on. *)
CheckBusy ==
  /\ t_pc = "start"
  /\ t_pc' = IF Busy \/ tx_buf_head = tx_buf_tail THEN "rest" ELSE "size"
  /\ UNCHANGED <<t_data, t_size, t_copied, ringShared, dma, wire>>

SetSize ==
  /\ t_pc = "size" /\ t_pc' = "dma"
  /\ tx_size' = Chunk(tx_buf_tail, tx_buf_head)
  /\ UNCHANGED <<t_data, t_size, t_copied, tx_buf, tx_buf_head, tx_buf_tail, dma, wire>>

StartTransfer ==
  /\ t_pc = "dma" /\ t_pc' = "rest"
  /\ StartDma(tx_buf_tail, tx_size)
  /\ UNCHANGED <<t_data, t_size, t_copied, ringShared, wire>>

(* "Use second transmit in case of remaining data" *)
Rest == SubSeq(t_data, t_size + 1, Len(t_data))

TransmitRest ==
  /\ t_pc = "rest"
  /\ t_data' = Rest
  /\ t_pc' = IF Rest = <<>> THEN "idle" ELSE "room"
  /\ UNCHANGED <<t_size, t_copied, ringShared, dma, wire>>

-----------------------------------------------------------------------------
(* Hardware and interrupt *)

SendByte ==
  /\ dma_on /\ dma_left > 0
  /\ wire' = tx_buf[dma_pos]
  /\ dma_pos' = dma_pos + 1 /\ dma_left' = dma_left - 1
  /\ UNCHANGED <<dma_on, ringShared, transmit>>

(* dma1_channel2_3_dma2_channel1_2_isr, uart_on_tx_complete *)
NextTransfer(tail) ==
  IF tx_buf_head = tail THEN tx_size' = 0 /\ dma_on' = FALSE /\ UNCHANGED <<dma_pos, dma_left>>
  ELSE tx_size' = Chunk(tail, tx_buf_head) /\ StartDma(tail, tx_size')

TxComplete ==
  /\ dma_on /\ dma_left = 0
  /\ tx_buf_tail' = Wrapped(tx_buf_tail + tx_size)
  /\ NextTransfer(tx_buf_tail')
  /\ UNCHANGED <<tx_buf, tx_buf_head, transmit, wire>>

Transmit ==
  ReadRoom \/ CopyByte \/ PublishHead \/ CheckBusy \/ SetSize \/ StartTransfer \/ TransmitRest
UartNext == (\E m \in Messages : DebugLog(m)) \/ Transmit \/ SendByte \/ TxComplete

UartSpec == UartInit /\ [][UartNext]_uartVars

(* The program goes on, the UART sends, the interrupt is enabled. *)
UartFairness ==
  /\ WF_uartVars(Transmit) /\ WF_uartVars(SendByte) /\ WF_uartVars(TxComplete)

-----------------------------------------------------------------------------
(* The stream as ByteStream.tla has it *)

SentUpTo == IF dma_on THEN Wrapped(dma_pos) ELSE tx_buf_tail
Count(tail, head) == IF head >= tail THEN head - tail ELSE BufLen - tail + head
Waiting == [i \in 1 .. Count(SentUpTo, tx_buf_head) |->
              tx_buf[IF SentUpTo + i - 1 >= BufLen THEN SentUpTo + i - 1 - BufLen
                     ELSE SentUpTo + i - 1]]
Unaccepted == IF t_pc \in {"room", "copy"} THEN t_data ELSE IF t_pc = "idle" THEN <<>> ELSE Rest

Stream == INSTANCE ByteStream WITH
  Capacity <- BufLen - 1, waiting <- Waiting, rest <- Unaccepted

-----------------------------------------------------------------------------
(* Properties *)

(* The types; "0 <= head < buf_len, 0 <= tail < buf_len" (pd_debug.cpp:31). *)
UartTypeOK ==
  /\ tx_buf \in [0 .. BufLen - 1 -> Bytes \cup {"idle"}]
  /\ tx_buf_head \in 0 .. BufLen - 1 /\ tx_buf_tail \in 0 .. BufLen - 1
  /\ tx_size \in 0 .. MaxChunk
  /\ t_pc \in {"idle", "room", "copy", "start", "size", "dma", "rest"}
  /\ t_data \in Seq(Bytes) /\ t_size \in 0 .. BufLen /\ t_copied \in 0 .. BufLen
  /\ dma_on \in BOOLEAN /\ dma_pos \in 0 .. BufLen /\ dma_left \in 0 .. MaxChunk
  /\ wire \in Bytes \cup {"idle"}

(* Program and interrupt never both start a transfer, and never leave one  *)
(* to each other: tx_size is 0 exactly when none runs; while the program   *)
(* is about to start one, the interrupt cannot come; and when it has       *)
(* nothing to do with it any more, what is in the ring is being sent.      *)
OneTransfer ==
  /\ t_pc # "dma" => (tx_size # 0 <=> dma_on)
  /\ t_pc \in {"size", "dma"} => ~dma_on /\ tx_buf_head # tx_buf_tail
  /\ t_pc \in {"idle", "room", "copy"} /\ tx_buf_head # tx_buf_tail => dma_on

(* Whatever the interleaving, bytes are sent once, in order, and with no   *)
(* gap in a message; a message is cut only if the ring is full.            *)
ImplementsStream == Stream!StreamSpec

(* What was logged is sent, once the program stops logging. *)
RingDrains == <>[](t_pc = "idle") => <>[](tx_buf_head = tx_buf_tail /\ ~dma_on)
=============================================================================
